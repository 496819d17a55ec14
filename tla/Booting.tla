------------------------------- MODULE Booting -------------------------------
(***************************************************************************)
(* The loader under the boot and the engine's threads, for any native      *)
(* modules, and the edits of override.cfg, for any lines of the player's.  *)
(* The engine looks a name up in the main program only while no module is  *)
(* being loaded.  The two share no state.                                  *)
(***************************************************************************)
EXTENDS Integers, Sequences, FiniteSets

CONSTANTS
  Libs, Image, Imported, Wanted, Asked, Threads, GameAt, NativeAt, ReserveEnd,
  Grain, MaxNative, Window,                  \* Loader
  UserLines, Files, MaxCuts                  \* OverrideCfg

\* A native module is no module of the boot, nor what stands for no handle.
ASSUME LoaderAssumption ==
  /\ MaxNative \in Nat
  /\ "boot" \notin Threads /\ "free" \notin Threads
  /\ Libs \cap {"libc++_shared.so", "libgodot_android.so", "", "none", "bridge"} = {}

VARIABLES
  todo, soList, base, word, got, table, mapped, perm, inits, symcache,
  slots, region, lock, asked, handle, looked, ended,            \* Loader
  lines, want, cfgPc, new, mine, cuts                           \* OverrideCfg

loaderVars == <<todo, soList, base, word, got, table, mapped, perm, inits,
                symcache, slots, region, lock, asked, handle, looked, ended>>

cfgVars == <<lines, want, cfgPc, new, mine, cuts>>

Loading == INSTANCE Loader WITH Shims <- Imported, LookupsDuringLoad <- FALSE

\* The reserve has room for the first and the last of its slices.
ASSUME SlicesAssumption ==
  /\ GameAt \in Nat /\ NativeAt \in Nat /\ ReserveEnd \in Nat /\ Grain \in Nat \ {0}
  /\ NativeAt <= ReserveEnd
  /\ \A m \in Loading!Modules : Image[m].size \in Nat

\* The linker wrote one relocation for each word that holds an address.
ASSUME LinkedAssumption ==
  \A m \in Loading!Modules : \A w \in 0..Image[m].size-1 :
    (IF w \in Image[m].rela THEN 1 ELSE 0) + Loading!Cardinality(Loading!Hits(m, w))
       = IF w \in Image[m].pointers THEN 1 ELSE 0

Cfg == INSTANCE OverrideCfg WITH pc <- cfgPc

\* The player's own lines are none of the program's; a file is what Orderly says.
ASSUME CfgAssumption ==
  /\ MaxCuts \in Nat
  /\ UserLines \cap Cfg!Known = {}
  /\ \A f \in Files : Cfg!Orderly(f)

----------------------------------------------------------------------------
\* The properties of the modules, which say what they are about.
LoadedRight == Loading!LoadedRight
HandlesWork == Loading!HandlesWork
ReadAsConfigured == Cfg!ReadAsConfigured
=============================================================================
