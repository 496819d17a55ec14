------------------------------- MODULE Loader -------------------------------
(***************************************************************************)
(* The ELF loader (source/so_util.c), its use by the boot (source/main.c)  *)
(* and by dlopen (source/native_modules.c, egl_shim.c).                    *)
(*                                                                         *)
(* The boot and each dlopen run a list of steps over one module each.  A   *)
(* step is one call of so_util; so_finalize is split where another thread  *)
(* can see the difference.  An address is known by the module it is in, a  *)
(* relocated word by how many times the load address was put into it, and  *)
(* memory is counted in pages.                                             *)
(***************************************************************************)
EXTENDS Integers, Sequences, FiniteSets

CONSTANTS
  Libs,         \* native modules beside the program
  Image,        \* what each module's file holds, a record: size, pages of the
                \* LOAD zone; good, an ELF file with its symbol tables; code, the
                \* pages of PF_X segments; exports, and strong and weak, the
                \* undefined symbols; rela and relr, the relocations; pointers,
                \* the words that hold an address
  Shims,        \* names in the wrapper's import table
  Wanted,       \* names of the game that the boot looks up for later
  Asked,        \* names the engine looks up at run time
  Threads,      \* engine threads
  GameAt, NativeAt, ReserveEnd,   \* where the slices of the reserve begin
  Grain,        \* a native module's share is a multiple of this (1 MB)
  MaxNative,    \* slots for native modules (4)
  Window,       \* words one RELR bitmap stands for (63)
  LookupsDuringLoad   \* dlsym(dlopen(NULL)) while another thread loads

Cxx == "libc++_shared.so"
Game == "libgodot_android.so"
Modules == {Cxx, Game} \cup Libs
Boot == "boot"
Actors == Threads \cup {Boot}

VARIABLES
  todo,      \* what each actor still has to do: <<step, module>>
  soList,    \* so_list
  base,      \* load_base of each module, 0 when it has none
  word,      \* the relocated words
  got,       \* what each undefined symbol is bound to
  table,     \* where syms and dynstrtab point
  mapped,    \* svcMapProcessCodeMemory done: load_base is inaccessible
  perm,      \* permission of the pages at load_virtbase
  inits,     \* how many times the init array ran
  symcache,  \* engine_symcache, and the cache of each slot
  slots,     \* s_mods
  region,    \* s_base; the end of the reserve is s_base + s_left
  lock,      \* owner of s_lock
  asked,     \* the module each thread is opening
  handle,    \* what each module's last dlopen returned
  looked,    \* what dlsym on the main program last found for a name
  ended      \* "abort": a table was read that cannot be; "fatal": fatal_error

vars == <<todo, soList, base, word, got, table, mapped, perm, inits, symcache,
          slots, region, lock, asked, handle, looked, ended>>
image == <<base, word, got, table, mapped, perm, inits>>
native == <<slots, region, lock, asked, handle>>

\* libc++ resolved before the game is there for what it imports from it.
ResolvedEarly ==
  << <<"load", Cxx>>, <<"relocate", Cxx>>, <<"resolve", Cxx>>,
     <<"load", Game>>, <<"region", Game>>,
     <<"relocate", Game>>, <<"resolve", Game>>, <<"cache", Game>>,
     <<"map", Cxx>>, <<"rebase", Cxx>>, <<"permit", Cxx>>,
     <<"map", Game>>, <<"rebase", Game>>, <<"permit", Game>>,
     <<"init", Cxx>>, <<"init", Game>> >>

BootProgram ==
  << <<"load", Cxx>>, <<"load", Game>>, <<"region", Game>>,
     <<"relocate", Cxx>>, <<"resolve", Cxx>>,
     <<"relocate", Game>>, <<"resolve", Game>>, <<"cache", Game>>,
     <<"map", Cxx>>, <<"rebase", Cxx>>, <<"permit", Cxx>>,
     <<"map", Game>>, <<"rebase", Game>>, <<"permit", Game>>,
     <<"init", Cxx>>, <<"init", Game>> >>

NativeProgram(m) ==
  << <<"find", m>>, <<"load", m>>, <<"relocate", m>>, <<"resolve", m>>,
     <<"cache", m>>, <<"map", m>>, <<"rebase", m>>, <<"permit", m>>,
     <<"init", m>>, <<"keep", m>> >>

NoSlot == [name |-> "", state |-> 0]

Init ==
  /\ todo = [a \in Actors |-> IF a = Boot THEN BootProgram ELSE <<>>]
  /\ soList = <<>>
  /\ base = [m \in Modules |-> 0]
  /\ word = [m \in Modules |-> [w \in 0..Image[m].size-1 |-> 0]]
  /\ got = [m \in Modules |-> [s \in Image[m].strong \cup Image[m].weak |-> "stale"]]
  /\ table = [m \in Modules |-> "none"]
  /\ mapped = [m \in Modules |-> FALSE]
  /\ perm = [m \in Modules |-> [p \in 0..Image[m].size-1 |-> "none"]]
  /\ inits = [m \in Modules |-> 0]
  /\ symcache = [m \in Modules |-> {}]
  /\ slots = [i \in 1..MaxNative |-> NoSlot]
  /\ region = 0
  /\ lock = "free"
  /\ asked = [t \in Threads |-> ""]
  /\ handle = [m \in Modules |-> "none"]
  /\ looked = [s \in Asked |-> "none"]
  /\ ended = "no"

At(a, step, m) == todo[a] # <<>> /\ todo[a][1] = <<step, m>>
Done(a) == todo' = [todo EXCEPT ![a] = Tail(@)]

Booted == todo[Boot] = <<>> /\ ended = "no"

\* The symbol tables of m can be read.
Readable(m) == table[m] = (IF mapped[m] THEN "virt" ELSE "base")
Read(S) == ended' = IF \A m \in S : Readable(m) THEN ended ELSE "abort"

\* so_lookup_export names what m defines, so_try_find_addr_rx all its table
\* names, the undefined symbols too.
Exports(m) == Image[m].exports
Names(m) == Exports(m) \cup Image[m].strong \cup Image[m].weak

----------------------------------------------------------------------------
(* so_util.c                                                               *)

\* load_module and native_module_open give so_load a place and a limit.
Place(m) == CASE m = Cxx -> 1 [] m = Game -> GameAt [] OTHER -> region
Limit(m) == CASE m = Cxx  -> GameAt - 1
              [] m = Game -> NativeAt - GameAt
              [] OTHER    -> ReserveEnd - region

\* so_load succeeds; the module goes to the end of so_list.
Loads(m) == Image[m].good /\ Image[m].size <= Limit(m)
Load(a, m) ==
  /\ At(a, "load", m)
  /\ Loads(m)
  /\ base' = [base EXCEPT ![m] = Place(m)]
  /\ table' = [table EXCEPT ![m] = "base"]
  /\ soList' = Append(soList, m)
  /\ Done(a)
  /\ UNCHANGED <<word, got, mapped, perm, inits, symcache, native, looked, ended>>

\* RELR: an even entry is an address, an odd one a bitmap of the words after
\* the last.  Where(m)[i] is `where' before entry i, Hits the additions to w.
Where(m) ==
  LET r == Image[m].relr
      f[i \in 1..Len(r)+1] ==
        CASE i = 1 -> 0
          [] i > 1 /\ r[i-1].even -> r[i-1].at + 1
          [] OTHER -> f[i-1] + Window
  IN f

Hits(m, w) ==
  LET r == Image[m].relr
  IN {<<i, 0>> : i \in {j \in DOMAIN r : r[j].even /\ r[j].at = w}} \cup
     {h \in (DOMAIN r) \X (1..Window) :
        ~r[h[1]].even /\ h[2] \in r[h[1]].bits /\ Where(m)[h[1]] + (h[2] - 1) = w}

\* so_relocate: RELA words are assigned, RELR words added to.
Relocate(a, m) ==
  /\ At(a, "relocate", m)
  /\ word' = [word EXCEPT ![m] = [w \in DOMAIN @ |->
                (IF w \in Image[m].rela THEN 1 ELSE @[w]) + Cardinality(Hits(m, w))]]
  /\ Done(a)
  /\ UNCHANGED <<soList, base, got, table, mapped, perm, inits, symcache, native,
                 looked, ended>>

\* so_resolve_symbol
Offering(m, s) == {i \in DOMAIN soList : soList[i] # m /\ s \in Exports(soList[i])}
First(S) == CHOOSE i \in S : \A j \in S : i <= j
Provider(m, s) ==
  CASE s \in Shims -> "shim"
    [] s \notin Shims /\ Offering(m, s) # {} -> soList[First(Offering(m, s))]
    [] OTHER -> IF s \in Image[m].weak THEN "null" ELSE "poison"

\* ... which reads the tables up to the one that has the name.
Walked(m, s) ==
  {soList[i] : i \in {j \in DOMAIN soList :
     /\ s \notin Shims /\ soList[j] # m
     /\ \A o \in Offering(m, s) : j <= o}}

\* so_resolve
Resolve(a, m) ==
  /\ At(a, "resolve", m)
  /\ Read(UNION {Walked(m, s) : s \in DOMAIN got[m]})
  /\ got' = [got EXCEPT ![m] = [s \in DOMAIN @ |-> Provider(m, s)]]
  /\ Done(a)
  /\ UNCHANGED <<soList, base, word, table, mapped, perm, inits, symcache, native,
                 looked>>

\* so_finalize, in the order in which another thread can see it.
Map(a, m) ==
  /\ At(a, "map", m)
  /\ mapped' = [mapped EXCEPT ![m] = TRUE]
  /\ Done(a)
  /\ UNCHANGED <<soList, base, word, got, table, perm, inits, symcache, native,
                 looked, ended>>

\* so_finalize as it was before the tables were moved.
NoRebase(a, m) ==
  /\ At(a, "rebase", m)
  /\ Done(a)
  /\ UNCHANGED <<soList, image, symcache, native, looked, ended>>

Rebase(a, m) ==
  /\ At(a, "rebase", m)
  /\ table' = [table EXCEPT ![m] = "virt"]
  /\ Done(a)
  /\ UNCHANGED <<soList, base, word, got, mapped, perm, inits, symcache, native,
                 looked, ended>>

Permit(a, m) ==
  /\ At(a, "permit", m)
  /\ perm' = [perm EXCEPT ![m] = [p \in DOMAIN @ |->
                IF p \in Image[m].code THEN "rx" ELSE "rw"]]
  /\ Done(a)
  /\ UNCHANGED <<soList, base, word, got, table, mapped, inits, symcache, native,
                 looked, ended>>

InitArray(a, m) ==
  /\ At(a, "init", m)
  /\ inits' = [inits EXCEPT ![m] = @ + 1]
  /\ Done(a)
  /\ UNCHANGED <<soList, base, word, got, table, mapped, perm, symcache, native,
                 looked, ended>>

----------------------------------------------------------------------------
(* main.c: what only the boot does                                         *)

LoadFails(m) ==
  /\ At(Boot, "load", m)
  /\ ended' = "fatal"
  /\ UNCHANGED <<todo, soList, image, symcache, native, looked>>

SetRegion ==
  /\ At(Boot, "region", Game)
  /\ region' = NativeAt
  /\ Done(Boot)
  /\ UNCHANGED <<soList, image, symcache, slots, lock, asked, handle, looked, ended>>

\* resolve_entry_points, sm127_cache_engine_symbols, and the slot's own cache.
Cache(a, m) ==
  /\ At(a, "cache", m)
  /\ Read({m})
  /\ symcache' = [symcache EXCEPT ![m] = Wanted \cap Names(m)]
  /\ Done(a)
  /\ UNCHANGED <<soList, image, native, looked>>

----------------------------------------------------------------------------
(* native_module_open, called by dlopen_fake                               *)

SlotOf(m) == {i \in DOMAIN slots : slots[i].state # 0 /\ slots[i].name = m}
FreeSlots == {i \in DOMAIN slots : slots[i].state = 0}

\* The file is there: stat.  Any other name gets the bridge's handle.
Dlopen(t, m) ==
  /\ Booted
  /\ todo[t] = <<>>
  /\ m \in Libs
  /\ asked[t] = ""
  /\ asked' = [asked EXCEPT ![t] = m]
  /\ UNCHANGED <<todo, soList, image, symcache, slots, region, lock, handle, looked, ended>>

Lock(t) ==
  /\ asked[t] # "" /\ todo[t] = <<>>
  /\ lock = "free"
  /\ lock' = t
  /\ todo' = [todo EXCEPT ![t] = NativeProgram(asked[t])]
  /\ UNCHANGED <<soList, image, symcache, slots, region, asked, handle, looked, ended>>

\* A return: what dlopen_fake makes of NULL is the bridge's handle.
Answer(t, m, h) ==
  /\ handle' = [handle EXCEPT ![m] = h]
  /\ asked' = [asked EXCEPT ![t] = ""]
  /\ lock' = "free"
  /\ todo' = [todo EXCEPT ![t] = <<>>]

\* Loaded, or failed, before.
FoundOld(t, m) ==
  /\ At(t, "find", m)
  /\ SlotOf(m) # {}
  /\ Answer(t, m, IF \E i \in SlotOf(m) : slots[i].state = 1 THEN m ELSE "bridge")
  /\ UNCHANGED <<soList, image, symcache, slots, region, looked, ended>>

NoRoom(t, m) ==
  /\ At(t, "find", m)
  /\ SlotOf(m) = {} /\ FreeSlots = {}
  /\ Answer(t, m, "bridge")
  /\ UNCHANGED <<soList, image, symcache, slots, region, looked, ended>>

TakeSlot(t, m) ==
  /\ At(t, "find", m)
  /\ SlotOf(m) = {} /\ FreeSlots # {}
  /\ slots' = [slots EXCEPT ![First(FreeSlots)] = [name |-> m, state |-> 0]]
  /\ Done(t)
  /\ UNCHANGED <<soList, image, symcache, region, lock, asked, handle, looked, ended>>

\* so_load fails: the file or the room, or malloc.
NativeFails(t, m) ==
  /\ At(t, "load", m)
  /\ slots' = [slots EXCEPT ![First(FreeSlots)].state = -1]
  /\ Answer(t, m, "bridge")
  /\ UNCHANGED <<soList, image, symcache, region, looked, ended>>

Share(m) == Grain * ((Image[m].size + Grain - 1) \div Grain)

Keep(t, m) ==
  /\ At(t, "keep", m)
  /\ region' = IF Share(m) < ReserveEnd - region THEN region + Share(m) ELSE ReserveEnd
  /\ slots' = [slots EXCEPT ![First({i \in DOMAIN slots : slots[i].name = m})].state = 1]
  /\ Answer(t, m, m)
  /\ UNCHANGED <<soList, image, symcache, looked, ended>>

----------------------------------------------------------------------------
(* dlsym_fake                                                              *)

Quiet == \A a \in Actors : todo[a] = <<>>

\* On the main program: every module's table, until one names the symbol.
Searched(s) ==
  {i \in DOMAIN soList : \A j \in 1..i-1 : s \notin Names(soList[j])}
Naming(s) == {i \in DOMAIN soList : s \in Names(soList[i])}

DlsymMain(t, s) ==
  /\ Booted /\ todo[t] = <<>> /\ asked[t] = ""
  /\ Quiet \/ LookupsDuringLoad
  /\ Read({soList[i] : i \in Searched(s)})
  /\ looked' = [looked EXCEPT ![s] =
       CASE Naming(s) # {} -> soList[First(Naming(s))]
         [] Naming(s) = {} /\ s \in Shims -> "shim"
         [] OTHER -> "none"]
  /\ UNCHANGED <<todo, soList, image, symcache, native>>

----------------------------------------------------------------------------

Step(a, m) ==
  \/ Load(a, m) \/ Relocate(a, m) \/ Resolve(a, m) \/ Cache(a, m)
  \/ Map(a, m) \/ Rebase(a, m) \/ Permit(a, m) \/ InitArray(a, m)

Open(t, m) ==
  \/ FoundOld(t, m) \/ NoRoom(t, m) \/ TakeSlot(t, m) \/ NativeFails(t, m)
  \/ Keep(t, m)

Progress(a) ==
  /\ ended = "no"
  /\ \/ \E m \in Modules : Step(a, m)
     \/ a = Boot /\ (SetRegion \/ \E m \in {Cxx, Game} : LoadFails(m))
     \/ a \in Threads /\ (Lock(a) \/ \E m \in Libs : Open(a, m))

Next ==
  \/ \E a \in Actors : Progress(a)
  \/ \E t \in Threads, m \in Libs : Dlopen(t, m)
  \/ \E t \in Threads, s \in Asked : DlsymMain(t, s)

Spec == Init /\ [][Next]_vars

----------------------------------------------------------------------------

TypeOK ==
  /\ \A i \in DOMAIN soList : soList[i] \in Modules
  /\ table \in [Modules -> {"none", "base", "virt"}]
  /\ mapped \in [Modules -> BOOLEAN]
  /\ lock \in Threads \cup {"free"}
  /\ asked \in [Threads -> Libs \cup {""}]
  /\ \A m \in Libs : handle[m] \in {"none", "bridge", m}
  /\ ended \in {"no", "fatal", "abort"}

Position(m) == First({i \in DOMAIN soList : soList[i] = m})
Span(m) == base[m]..base[m] + Image[m].size - 1

\* What was there for m to bind to: the modules of the boot, and for a native
\* module those loaded before it.
Before(m) ==
  {n \in Modules \ {m} : inits[m] > 0 /\ \E i \in DOMAIN soList :
     soList[i] = n /\ (n \in {Cxx, Game} \/ i < Position(m))}

(* The code of a module runs for the first time (so_execute_init_array) in  *)
(* an image of its own, in which every word that holds an address has the   *)
(* load address once, every symbol is bound to something that defines it if *)
(* anything does, a weak one to null otherwise, and exactly the code is     *)
(* executable.                                                              *)
LoadedRight ==
  \A m \in Modules : inits[m] > 0 =>
    /\ \A n \in Modules \ {m} : base[n] # 0 => Span(m) \cap Span(n) = {}
    /\ \A p \in Span(m) : p < ReserveEnd
    /\ \A w \in DOMAIN word[m] : word[m][w] = IF w \in Image[m].pointers THEN 1 ELSE 0
    /\ \A s \in DOMAIN got[m] :
         \/ got[m][s] = "shim" /\ s \in Shims
         \/ got[m][s] \in Before(m) /\ s \in Exports(got[m][s])
         \/ /\ got[m][s] = IF s \in Image[m].weak THEN "null" ELSE "poison"
            /\ s \notin Shims /\ \A n \in Before(m) : s \notin Exports(n)
    /\ mapped[m] /\ \A p \in DOMAIN perm[m] : (perm[m][p] = "rx") <=> (p \in Image[m].code)

(* No lookup reads a symbol table through the memory that so_finalize has   *)
(* taken away, whichever threads open modules meanwhile; and a handle that  *)
(* dlopen gave for a native module is one copy of it, initialised once,     *)
(* with its entry points known and its table readable.                      *)
HandlesWork ==
  /\ ended # "abort"
  /\ \A m \in Libs : handle[m] = m =>
       /\ inits[m] = 1
       /\ Cardinality({i \in DOMAIN soList : soList[i] = m}) = 1
       /\ Readable(m)
       /\ symcache[m] = Wanted \cap Names(m)

=============================================================================
