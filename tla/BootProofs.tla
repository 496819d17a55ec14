------------------------------ MODULE BootProofs ------------------------------
(***************************************************************************)
(* What holds of the start of the game: of the installer (ApkInstall) for   *)
(* any APKs, damaged or not, a card of any size and any number of cuts and  *)
(* failures, what starts is one whole game, and a save that is being        *)
(* replaced is never off the card; of the loader (Loader, in Booting) for   *)
(* any modules and threads, code runs in a whole image and a handle works;  *)
(* of override.cfg (OverrideCfg, in Booting), for any orderly file and any   *)
(* number of power cuts, the engine reads what config.txt asks for.          *)
(***************************************************************************)
EXTENDS ApkInstall, Booting, TLAPS, FiniteSetTheorems, SequenceTheorems,
        WellFoundedInduction

USE ApkAssumption

----------------------------------------------------------------------------
(* The save that is being replaced                                         *)

\* While a save is replaced it is under its other name; at all other times of a
\* session that has one it is in its place.
SaveKept ==
  /\ save \in {"absent", "full"}
  /\ known => "full" \in {save, saveTmp}
  /\ pc \in {"replace", "saveGap"} => saveTmp = "full"
  /\ known /\ pc \notin {"off", "saveGap"} => save = "full"

LEMMA InitKept == Init => SaveKept
  BY DEF Init, SaveKept

LEMMA NextKept == SaveKept /\ [Next]_vars => SaveKept'
<1> SUFFICES ASSUME SaveKept, [Next]_vars
             PROVE  SaveKept'
  OBVIOUS
<1> USE DEF SaveKept, saves
<1>0. CASE UNCHANGED vars
  BY <1>0 DEF vars
<1>1. CASE Start
  BY <1>1 DEF Start
<1>2. CASE Player \/ PowerCut
  BY <1>2 DEF Player, PlayerPuts, PlayerTakes, PowerCut, MayTouch
<1>3. CASE Install /\ ~Start
  BY <1>3 DEF Install, NothingToInstall, AlreadyInstalled, Unpack, Open, NoSpace, Create,
              Fill, BadChecksum, Break, Rename, NextSwap, RemoveOld, CannotReplace, Clean,
              Mark, MarkWritten, Delete
<1>4. CASE BeginSave \/ CloseSave \/ Exit
  BY <1>4 DEF BeginSave, CloseSave, Exit
<1>5. CASE ReplaceSave
  BY <1>5 DEF ReplaceSave
<1>6. CASE RemoveSave
  BY <1>6 DEF RemoveSave
<1>7. CASE SaveRefused
  BY <1>7 DEF SaveRefused
<1> QED
  BY <1>0, <1>1, <1>2, <1>3, <1>4, <1>5, <1>6, <1>7 DEF Next, Game

\* sm127_rename_replacing: at no moment between its remove and its rename is the
\* save gone from the card.
THEOREM SaveStays == Spec => []SaveIsSomewhere
<1>1. SaveKept => SaveIsSomewhere
  BY DEF SaveKept, SaveIsSomewhere
<1>2. QED
  BY <1>1, InitKept, NextKept, PTL DEF Spec
----------------------------------------------------------------------------
(* The installation                                                        *)

Playing == {"play", "saving", "replace", "saveGap"}
Unpacking == {"open", "create", "fill", "swap", "gap", "clean"}

\* What an install puts in place is whole and undamaged.
SoundFiles == \A i \in Outputs : file[i] = Absent \/ file[i] \in Apks \ Damaged

\* Of the APK that is being unpacked, what its place in the run says.
Progress ==
  /\ pc \in {"look", "open"} => out = 1
  /\ pc \in {"create", "fill"} =>
       \A i \in Outputs : i < out => part[i] = apk /\ apk \notin Damaged
  /\ pc \in {"swap", "gap"} =>
       /\ apk \in Apks \ Damaged
       /\ \A i \in Outputs : IF i < out THEN file[i] = apk ELSE part[i] = apk
  /\ pc \in {"mark", "marking"} => \A i \in Outputs : file[i] = apk

\* The marker does not pass what is in place for the APK `a', unless it is it.
Unmarked(a) == marker # a \/ \A i \in Outputs : file[i] \in {Absent, a}

\* The run unpacks the newest APK, over what the marker does not pass for it.
UnpacksNewest ==
  pc \in Unpacking => apks # {} /\ apk = Newest /\ Unmarked(Newest)

\* The APK of an install that was interrupted is still there to finish it.
MixtureHasApk == Whole \/ Nothing \/ (apks # {} /\ Unmarked(Newest))

WholeByNow == pc \in Playing \cup {"mark", "marking", "delete"} => Whole

IInv == /\ TypeOK /\ SaveKept /\ SoundFiles /\ Progress /\ UnpacksNewest
        /\ MixtureHasApk /\ WholeByNow

LEMMA Three == Cardinality(Outputs) = 3
<1> DEFINE first == 1  last == 3
<1>1. first \in Int /\ last \in Int
  OBVIOUS
<1> HIDE DEF first, last
<1>2. Cardinality(first..last) = IF first > last THEN 0 ELSE last - first + 1
  BY <1>1, FS_Interval
<1> QED
  BY <1>2 DEF first, last, Outputs

LEMMA NewestIsThere ==
  ASSUME TypeOK, apks # {}
  PROVE  Newest \in apks /\ Newest \in Apks
<1>1. \E a \in apks : \A b \in apks : b <= a
  BY DEF TypeOK
<1>2. QED
  BY <1>1 DEF Newest, TypeOK

LEMMA Safe == IInv => PlaysOneGame
  BY DEF IInv, SoundFiles, WholeByNow, Playing, PlaysOneGame, Whole, Present, Outputs

LEMMA InitHolds == Init => IInv
<1> SUFFICES ASSUME Init PROVE IInv
  OBVIOUS
<1> USE DEF Init
<1>1. TypeOK
  <2>1. 1 \in Outputs /\ 0 \in 0..MaxFaults
    BY DEF Outputs
  <2> QED
    BY <2>1 DEF TypeOK, Contents, Pcs
<1>2. SoundFiles /\ Progress /\ UnpacksNewest /\ WholeByNow
  BY DEF SoundFiles, Progress, UnpacksNewest, WholeByNow, Playing, Unpacking
<1>3. MixtureHasApk
  BY DEF MixtureHasApk, Nothing, Present
<1> QED
  BY <1>1, <1>2, <1>3, InitKept DEF IInv

----------------------------------------------------------------------------
(* Each step keeps the invariant                                           *)

\* What only the files, the APKs and the marker decide.
LEMMA CardKept ==
  ASSUME UNCHANGED <<file, loose, apks, marker>>
  PROVE  /\ SoundFiles => SoundFiles'
         /\ MixtureHasApk => MixtureHasApk'
         /\ Whole' <=> Whole
         /\ Newest' = Newest
         /\ Unmarked(Newest) => Unmarked(Newest)'
  BY DEF SoundFiles, MixtureHasApk, Whole, Nothing, Present, Newest, Unmarked

\* An installed game that the marker passes for the newest APK is a whole one,
\* and so is one that is found without an APK.
LEMMA FoundIsWhole ==
  ASSUME IInv, Installed, apks = {} \/ marker = Newest
  PROVE  Whole
  BY DEF IInv, MixtureHasApk, Nothing, Whole, Installed, Present, Unmarked, Outputs

\* The start of a run, up to the choice between playing and unpacking.
LEMMA LookHolds ==
  ASSUME IInv, Start \/ NothingToInstall \/ AlreadyInstalled \/ Unpack
  PROVE  IInv'
<1> USE DEF IInv
<1>0. SaveKept'
  BY NextKept DEF Next, Install
<1>1. UNCHANGED <<file, part, loose, apks, marker, keep>>
  BY DEF Start, NothingToInstall, AlreadyInstalled, Unpack, card
<1>2. SoundFiles' /\ MixtureHasApk'
  BY <1>1, CardKept
<1>3. CASE Start
  <2>1. TypeOK'
    BY <1>3 DEF Start, TypeOK, Pcs, Outputs, card
  <2>2. Progress' /\ UnpacksNewest' /\ WholeByNow'
    BY <1>3 DEF Start, Progress, UnpacksNewest, WholeByNow, Playing, Unpacking
  <2> QED
    BY <1>0, <1>2, <2>1, <2>2
<1>4. CASE NothingToInstall
  <2>1. TypeOK'
    BY <1>4 DEF NothingToInstall, TypeOK, Pcs, card, saves, run
  <2>2. Progress' /\ UnpacksNewest'
    BY <1>4 DEF NothingToInstall, Progress, UnpacksNewest, Unpacking
  <2>3. WholeByNow'
    BY <1>1, <1>4, CardKept, FoundIsWhole DEF NothingToInstall, WholeByNow, Playing
  <2> QED
    BY <1>0, <1>2, <2>1, <2>2, <2>3
<1>5. CASE AlreadyInstalled
  <2>1. Newest \in apks /\ Newest \in Apks
    BY <1>5, NewestIsThere DEF AlreadyInstalled
  <2>2. TypeOK'
    BY <1>5, <2>1 DEF AlreadyInstalled, TypeOK, Pcs, card, saves
  <2>3. Progress' /\ UnpacksNewest'
    BY <1>5 DEF AlreadyInstalled, Progress, UnpacksNewest, Unpacking
  <2>4. WholeByNow'
    <3>1. Whole'
      BY <1>1, <1>5, CardKept, FoundIsWhole DEF AlreadyInstalled
    <3> QED
      BY <3>1 DEF WholeByNow
  <2> QED
    BY <1>0, <1>2, <2>2, <2>3, <2>4
<1>6. CASE Unpack
  <2>1. Newest \in apks /\ Newest \in Apks
    BY <1>6, NewestIsThere DEF Unpack
  <2>2. TypeOK'
    BY <1>6, <2>1 DEF Unpack, TypeOK, Pcs, card, saves
  <2>3. Unmarked(Newest)
    <3>1. ASSUME marker = Newest PROVE \A i \in Outputs : file[i] \in {Absent, Newest}
      BY <1>6, <3>1 DEF Unpack, MixtureHasApk, Unmarked, Installed, Whole, Nothing,
                        Present, Outputs
    <3> QED
      BY <3>1 DEF Unmarked
  <2>4. UnpacksNewest'
    BY <1>1, <1>6, <2>3, CardKept DEF Unpack, UnpacksNewest
  <2>5. Progress' /\ WholeByNow'
    BY <1>6 DEF Unpack, Progress, WholeByNow, Playing
  <2> QED
    BY <1>0, <1>2, <2>2, <2>4, <2>5
<1> QED
  BY <1>3, <1>4, <1>5, <1>6

\* apk_unpack up to its first rename, and its ways out.
LEMMA UnpackHolds ==
  ASSUME IInv, Open \/ NoSpace \/ Create \/ Fill \/ BadChecksum \/ Break
                 \/ CannotReplace \/ Clean
  PROVE  IInv'
<1> USE DEF IInv
<1>0. SaveKept'
  BY NextKept DEF Next, Install
<1>1. UNCHANGED <<file, loose, apks, marker, keep, apk>> /\ pc \in Unpacking
  BY DEF Open, NoSpace, Create, Fill, BadChecksum, Break, CannotReplace, Clean,
         card, run, Unpacking
<1>2. SoundFiles' /\ MixtureHasApk'
  BY <1>1, CardKept
<1>3. pc' \in Unpacking \cup {"off"}
  BY DEF Open, NoSpace, Create, Fill, BadChecksum, Break, CannotReplace, Clean, Unpacking
<1>4. WholeByNow' /\ UnpacksNewest'
  BY <1>1, <1>3, CardKept DEF WholeByNow, UnpacksNewest, Playing, Unpacking
<1>5. apk \in apks /\ apk \in Apks
  BY <1>1, NewestIsThere DEF UnpacksNewest
<1>6. TypeOK' /\ Progress'
  <2> USE DEF TypeOK, Pcs, Outputs, card, saves, run
  <2>1. CASE Open
    BY <1>5, <2>1 DEF Open, Progress
  <2>6. CASE NoSpace
    BY <1>5, <2>6 DEF NoSpace, Progress
  <2>7. CASE BadChecksum
    BY <1>5, <2>7 DEF BadChecksum, Progress
  <2>2. CASE Break
    BY <1>5, <2>2 DEF Break, Fault, Progress
  <2>8. CASE CannotReplace
    BY <1>5, <2>8 DEF CannotReplace, Fault, Progress
  <2>3. CASE Create
    BY <1>5, <2>3 DEF Create, Progress, Contents
  <2>4. CASE Fill
    BY <1>5, <2>4, Three DEF Fill, Progress, Contents
  <2>5. CASE Clean
    BY <1>5, <2>5, ZenonT(30) DEF Clean, Progress, Contents
  <2> QED
    BY <2>1, <2>2, <2>3, <2>4, <2>5, <2>6, <2>7, <2>8
<1> QED
  BY <1>0, <1>2, <1>4, <1>6

\* The replacing of the three files: what is no longer the old game is an APK's
\* that is there and not marked.
LEMMA SwapHolds ==
  ASSUME IInv, Rename \/ RemoveOld
  PROVE  IInv'
<1> USE DEF IInv
<1>0. SaveKept'
  BY NextKept DEF Next, Install
<1>1. UNCHANGED <<apks, marker, loose, keep, apk, saves, faults>> /\ pc \in {"swap", "gap"}
  BY DEF Rename, RemoveOld, run
<1>2. apks # {} /\ apk = Newest /\ Unmarked(apk) /\ apk \in apks /\ apk \in Apks \ Damaged
  BY <1>1, NewestIsThere DEF UnpacksNewest, Unpacking, Progress
<1>3. \A i \in Outputs : file'[i] = file[i] \/ file'[i] \in {Absent, apk}
  BY <1>1 DEF Rename, RemoveOld, Progress, TypeOK, Outputs
<1>4. SoundFiles'
  BY <1>2, <1>3 DEF SoundFiles
<1>5. Unmarked(apk)' /\ Newest' = Newest
  BY <1>1, <1>2, <1>3 DEF Unmarked, Newest
<1>6. MixtureHasApk' /\ UnpacksNewest'
  BY <1>1, <1>2, <1>5 DEF MixtureHasApk, UnpacksNewest, Unmarked
<1>7. CASE RemoveOld
  <2>1. TypeOK'
    BY <1>2, <1>7 DEF RemoveOld, TypeOK, Pcs, Contents, Outputs, saves, run
  <2>2. Progress' /\ WholeByNow'
    BY <1>7 DEF RemoveOld, Progress, WholeByNow, Playing, TypeOK, Outputs, run
  <2> QED
    BY <1>0, <1>4, <1>6, <2>1, <2>2
<1>8. CASE Rename
  <2>1. TypeOK'
    BY <1>2, <1>8, Three DEF Rename, NextSwap, Progress, TypeOK, Pcs, Contents, Outputs, saves
  <2>2. Progress'
    BY <1>2, <1>8, Three DEF Rename, NextSwap, Progress, TypeOK, Outputs
  <2>3. WholeByNow'
    <3>1. CASE pc' = "mark"
      <4>1. \A i \in Outputs : file'[i] = apk
        BY <1>1, <2>2, <3>1 DEF Progress
      <4>2. apk # Absent
        BY <1>2 DEF Absent
      <4>3. Whole'
        BY <4>1, <4>2 DEF Whole, Present, Outputs
      <4> QED
        BY <4>3 DEF WholeByNow
    <3>2. CASE pc' = "swap"
      BY <3>2 DEF WholeByNow, Playing
    <3> QED
      BY <1>8, <3>1, <3>2 DEF Rename, NextSwap
  <2> QED
    BY <1>0, <1>4, <1>6, <2>1, <2>2, <2>3
<1> QED
  BY <1>7, <1>8

\* The marker, and the APK removed: the game is whole by now.
LEMMA MarkHolds ==
  ASSUME IInv, Mark \/ MarkWritten \/ Delete
  PROVE  IInv'
<1> USE DEF IInv
<1>0. SaveKept'
  BY NextKept DEF Next, Install
<1>1. UNCHANGED <<file, part, loose, keep, saves, run>> /\ pc \in {"mark", "marking", "delete"}
  BY DEF Mark, MarkWritten, Delete
<1>2. Whole' /\ SoundFiles'
  BY <1>1 DEF WholeByNow, Whole, Present, SoundFiles
<1>3. MixtureHasApk' /\ WholeByNow'
  BY <1>2 DEF MixtureHasApk, WholeByNow
<1>4. pc' \in {"marking", "delete", "play"}
  BY DEF Mark, MarkWritten, Delete
<1>5. UnpacksNewest'
  BY <1>4 DEF UnpacksNewest, Unpacking
<1>6. Progress'
  BY <1>1, <1>4 DEF Progress, Mark, MarkWritten, Delete, run
<1>7. TypeOK'
  <2> USE DEF TypeOK, Contents, Pcs, saves, run
  <2>1. CASE Mark
    BY <1>1, <2>1 DEF Mark, Fault
  <2>2. CASE MarkWritten
    BY <1>1, <2>2 DEF MarkWritten
  <2>3. CASE Delete
    <3>1. pc' = "play" /\ UNCHANGED marker
      BY <2>3 DEF Delete
    <3>2. apks' \in SUBSET Apks
      <4>1. apks' = apks \/ apks' = apks \ {apk}
        BY <2>3 DEF Delete
      <4> QED
        BY <4>1
    <3>3. faults' \in 0..MaxFaults
      BY <2>3 DEF Delete, Fault
    <3> QED
      BY <1>1, <3>1, <3>2, <3>3
  <2> QED
    BY <2>1, <2>2, <2>3
<1> QED
  BY <1>0, <1>2, <1>3, <1>5, <1>6, <1>7

\* The game saves, ends, or is cut off: nothing of the installation changes.
LEMMA GameHolds ==
  ASSUME IInv, Game \/ PowerCut
  PROVE  IInv'
<1> USE DEF IInv
<1>0. SaveKept'
  BY NextKept DEF Next, Install
<1>1. UNCHANGED <<apks, file, part, marker, loose, keep, run>>
  BY DEF Game, BeginSave, CloseSave, ReplaceSave, RemoveSave, SaveRefused, Exit,
         PowerCut, card
<1>2. SoundFiles' /\ MixtureHasApk' /\ (Whole' <=> Whole)
  BY <1>1, CardKept
<1>3. pc' = "off" \/ (pc' \in Playing /\ pc \in Playing)
  BY DEF Game, BeginSave, CloseSave, ReplaceSave, RemoveSave, SaveRefused, Exit,
         PowerCut, Playing
<1>4. Progress' /\ UnpacksNewest' /\ WholeByNow'
  BY <1>2, <1>3 DEF Progress, UnpacksNewest, WholeByNow, Playing, Unpacking
<1>5. TypeOK'
  <2> USE DEF TypeOK, Pcs, saves, run
  <2>1. CASE BeginSave \/ CloseSave
    BY <1>1, <2>1 DEF BeginSave, CloseSave
  <2>2. CASE ReplaceSave
    BY <1>0, <1>1, <2>2 DEF ReplaceSave, SaveKept
  <2>3. CASE RemoveSave
    BY <1>1, <2>3 DEF RemoveSave
  <2>4. CASE SaveRefused
    BY <1>1, <2>4 DEF SaveRefused, Fault
  <2>5. CASE Exit
    BY <1>1, <2>5 DEF Exit
  <2>6. CASE PowerCut
    BY <1>1, <2>6 DEF PowerCut, Fault
  <2> QED
    BY <2>1, <2>2, <2>3, <2>4, <2>5, <2>6 DEF Game
<1> QED
  BY <1>0, <1>2, <1>4, <1>5

\* The player changes the folder only when no install is half done.
LEMMA PlayerHolds ==
  ASSUME IInv, CarefulPlayer, Player
  PROVE  IInv'
<1> USE DEF IInv
<1>0. SaveKept'
  BY NextKept DEF Next, Install
<1>1. /\ pc = "off"
      /\ Whole \/ Nothing
      /\ UNCHANGED <<file, part, marker, loose, keep, saves, pc, run, faults>>
      /\ apks' \in SUBSET Apks
  BY DEF Player, PlayerPuts, PlayerTakes, MayTouch, Settled, TypeOK
<1>2. SoundFiles' /\ MixtureHasApk'
  BY <1>1 DEF SoundFiles, MixtureHasApk, Whole, Nothing, Present
<1>3. Progress' /\ UnpacksNewest' /\ WholeByNow'
  BY <1>1 DEF Progress, UnpacksNewest, WholeByNow, Playing, Unpacking
<1>4. TypeOK'
  BY <1>1 DEF TypeOK, saves, run
<1> QED
  BY <1>0, <1>2, <1>3, <1>4

LEMMA NextHolds == ASSUME CarefulPlayer PROVE IInv /\ [Next]_vars => IInv'
<1>1. ASSUME IInv, UNCHANGED vars PROVE IInv'
  <2>1. UNCHANGED <<apks, file, part, marker, loose, keep, saves, pc, run, faults>>
    BY <1>1 DEF vars, card
  <2>2. SoundFiles' /\ MixtureHasApk' /\ WholeByNow' /\ UnpacksNewest'
    BY <1>1, <2>1, CardKept DEF IInv, WholeByNow, UnpacksNewest, run
  <2>3. TypeOK' /\ Progress' /\ SaveKept'
    BY <1>1, <2>1 DEF IInv, TypeOK, Progress, SaveKept, saves, run
  <2> QED
    BY <2>2, <2>3 DEF IInv
<1> QED
  BY <1>1, LookHolds, UnpackHolds, SwapHolds, MarkHolds, GameHolds, PlayerHolds
  DEF Next, Install

\* Cut or failing anywhere, an install leads to a game of one undamaged APK or
\* to none (apk_install_run, apk_unpack), if nobody takes the APK away half-way.
THEOREM OneGame == ASSUME CarefulPlayer PROVE Spec => []PlaysOneGame
  BY InitHolds, NextHolds, Safe, PTL DEF Spec

HIDE ApkAssumption

----------------------------------------------------------------------------
(* The loader                                                              *)


Boot == "boot"
Cxx == "libc++_shared.so"
GameLib == "libgodot_android.so"
Modules == Loading!Modules
Actors == Loading!Actors

\* What is left of a program.
RestOf(s, program) ==
  /\ Len(s) <= Len(program)
  /\ \A i \in 1..Len(s) : s[i] = program[Len(program) - Len(s) + i]

Listed(m) == \E i \in DOMAIN soList : soList[i] = m

Tasks == {"load", "region", "relocate", "resolve", "cache", "map", "rebase",
          "permit", "init", "find", "keep"} \X Modules


LoaderTypes ==
  /\ todo \in [Actors -> Seq(Tasks)]
  /\ soList \in Seq(Modules)
  /\ table \in [Modules -> {"none", "base", "virt"}] /\ mapped \in [Modules -> BOOLEAN]
  /\ inits \in [Modules -> Nat] /\ DOMAIN symcache = Modules
  /\ slots \in [1..MaxNative -> [name : Libs \cup {""}, state : {-1, 0, 1}]]
  /\ lock \in Threads \cup {"free"} /\ asked \in [Threads -> Libs \cup {""}]
  /\ DOMAIN handle = Modules

\* How far the boot is: its two modules are on the list in the middle of it, and
\* nothing reads their tables from the first map to the end.
AtBoot(n) ==
  /\ Listed(Cxx) <=> n <= 15
  /\ Listed(GameLib) <=> n <= 14
  /\ n <= 15 => table[Cxx] = IF n >= 7 THEN "base" ELSE "virt"
  /\ n <= 14 => table[GameLib] = IF n >= 4 THEN "base" ELSE "virt"
  /\ (mapped[Cxx] <=> n <= 7) /\ (mapped[GameLib] <=> n <= 4)
  /\ n > 0 => /\ \A m \in Libs : ~Listed(m)
              /\ \A t \in Threads : asked[t] = ""

BootRight == RestOf(todo[Boot], Loading!BootProgram) /\ AtBoot(Len(todo[Boot]))

\* Who opens a module has the lock.
Opening(t) ==
  /\ lock = t <=> todo[t] # <<>>
  /\ todo[t] # <<>> => /\ asked[t] \in Libs
                       /\ RestOf(todo[t], Loading!NativeProgram(asked[t]))

\* A native module n steps before its opening is over.
Halfway(m, n) ==
  /\ Listed(m)
  /\ table[m] = IF n >= 4 THEN "base" ELSE "virt"
  /\ mapped[m] <=> n <= 4
  /\ inits[m] = IF n <= 1 THEN 1 ELSE 0
  /\ n <= 5 => symcache[m] = Wanted \cap Loading!Names(m)

\* A module has a slot for good once it is open, ...
Kept(m) == \E i \in 1..MaxNative : slots[i].name = m /\ slots[i].state = 1
\* ... and from the start one that nobody else takes.
Under(t) ==
  LET n == Len(todo[t])
      m == asked[t]
  IN /\ n \in 1..9 => /\ Loading!SlotOf(m) = {}
                      /\ \E i \in 1..MaxNative : slots[i].name = m
     /\ n \in 1..8 => Halfway(m, n)

LibRight(m) ==
  /\ Kept(m) => Halfway(m, 0)
  /\ Listed(m) => Kept(m) \/ \E t \in Threads : asked[t] = m /\ Len(todo[t]) \in 1..8
  /\ ~Listed(m) => inits[m] = 0 /\ ~mapped[m]
  /\ handle[m] = m => Kept(m)

OneEach == \A i, j \in DOMAIN soList : soList[i] = soList[j] => i = j

LoaderInv ==
  /\ LoaderTypes /\ BootRight /\ OneEach
  /\ \A t \in Threads : Opening(t) /\ Under(t)
  /\ \A m \in Libs : LibRight(m)
  /\ ended # "abort"

----------------------------------------------------------------------------

LEMMA Parties ==
  /\ Boot \in Actors /\ Boot \notin Threads /\ Threads \subseteq Actors
  /\ \A a \in Actors : a # Boot => a \in Threads
  /\ Cxx \in Modules /\ GameLib \in Modules /\ Libs \subseteq Modules /\ Cxx # GameLib
  /\ Cxx \notin Libs /\ GameLib \notin Libs /\ "" \notin Libs /\ "bridge" \notin Libs
  /\ "none" \notin Libs /\ "free" \notin Threads
  /\ \A m \in Modules : m = Cxx \/ m = GameLib \/ m \in Libs
  /\ Loading!Boot = Boot /\ Loading!Cxx = Cxx /\ Loading!Game = GameLib
  BY LoaderAssumption DEF Boot, Cxx, GameLib, Modules, Actors, Loading!Modules,
     Loading!Actors, Loading!Boot, Loading!Cxx, Loading!Game

LEMMA BootTasks ==
  LET p == Loading!BootProgram
  IN /\ DOMAIN p = 1..16 /\ Len(p) = 16
     /\ p[1] = <<"load", Cxx>>     /\ p[2] = <<"load", GameLib>>    /\ p[3] = <<"region", GameLib>>
     /\ p[4] = <<"relocate", Cxx>> /\ p[5] = <<"resolve", Cxx>>
     /\ p[6] = <<"relocate", GameLib>> /\ p[7] = <<"resolve", GameLib>>
     /\ p[8] = <<"cache", GameLib>>   /\ p[9] = <<"map", Cxx>>      /\ p[10] = <<"rebase", Cxx>>
     /\ p[11] = <<"permit", Cxx>>  /\ p[12] = <<"map", GameLib>>    /\ p[13] = <<"rebase", GameLib>>
     /\ p[14] = <<"permit", GameLib>> /\ p[15] = <<"init", Cxx>>    /\ p[16] = <<"init", GameLib>>
  BY DEF Loading!BootProgram, Loading!Cxx, Loading!Game, Cxx, GameLib

LEMMA BootOrder ==
  ASSUME NEW k \in 1..16, NEW m, NEW step, Loading!BootProgram[k] = <<step, m>>
  PROVE  /\ step = "load" => (k = 1 /\ m = Cxx) \/ (k = 2 /\ m = GameLib)
         /\ step = "region" => k = 3
         /\ step = "relocate" => k = 4 \/ k = 6
         /\ step = "resolve" => k = 5 \/ k = 7
         /\ step = "cache" => k = 8 /\ m = GameLib
         /\ step = "map" => (k = 9 /\ m = Cxx) \/ (k = 12 /\ m = GameLib)
         /\ step = "rebase" => (k = 10 /\ m = Cxx) \/ (k = 13 /\ m = GameLib)
         /\ step = "permit" => k = 11 \/ k = 14
         /\ step = "init" => k = 15 \/ k = 16
         /\ step # "find" /\ step # "keep" /\ m \in {Cxx, GameLib}
<1> DEFINE p == Loading!BootProgram
<1>1. CASE k \in 1..4
  <2>1. k = 1 \/ k = 2 \/ k = 3 \/ k = 4
    BY <1>1
  <2> QED
    BY <2>1, BootTasks
<1>2. CASE k \in 5..8
  <2>1. k = 5 \/ k = 6 \/ k = 7 \/ k = 8
    BY <1>2
  <2> QED
    BY <2>1, BootTasks
<1>3. CASE k \in 9..12
  <2>1. k = 9 \/ k = 10 \/ k = 11 \/ k = 12
    BY <1>3
  <2> QED
    BY <2>1, BootTasks
<1>4. CASE k \in 13..16
  <2>1. k = 13 \/ k = 14 \/ k = 15 \/ k = 16
    BY <1>4
  <2> QED
    BY <2>1, BootTasks
<1> QED
  BY <1>1, <1>2, <1>3, <1>4

LEMMA NativeOrder ==
  ASSUME NEW k \in 1..10, NEW l, NEW m, NEW step, Loading!NativeProgram(l)[k] = <<step, m>>
  PROVE  /\ m = l /\ step # "region"
         /\ step = "find" => k = 1
         /\ step = "load" => k = 2
         /\ step = "relocate" => k = 3
         /\ step = "resolve" => k = 4
         /\ step = "cache" => k = 5
         /\ step = "map" => k = 6
         /\ step = "rebase" => k = 7
         /\ step = "permit" => k = 8
         /\ step = "init" => k = 9
         /\ step = "keep" => k = 10
<1> DEFINE p == Loading!NativeProgram(l)
<1>1. /\ p[1] = <<"find", l>> /\ p[2] = <<"load", l>> /\ p[3] = <<"relocate", l>>
      /\ p[4] = <<"resolve", l>> /\ p[5] = <<"cache", l>> /\ p[6] = <<"map", l>>
      /\ p[7] = <<"rebase", l>> /\ p[8] = <<"permit", l>> /\ p[9] = <<"init", l>>
      /\ p[10] = <<"keep", l>>
  BY DEF Loading!NativeProgram
<1>2. p[k] = <<step, m>>
  OBVIOUS
<1> HIDE DEF p
<1>3. CASE k \in 1..5
  <2>1. k = 1 \/ k = 2 \/ k = 3 \/ k = 4 \/ k = 5
    BY <1>3
  <2> QED
    BY <1>1, <1>2, <2>1
<1>4. CASE k \in 6..10
  <2>1. k = 6 \/ k = 7 \/ k = 8 \/ k = 9 \/ k = 10
    BY <1>4
  <2> QED
    BY <1>1, <1>2, <2>1
<1> QED
  BY <1>3, <1>4

LEMMA Tuple == ASSUME NEW S, NEW n \in Nat, NEW f \in [1..n -> S] PROVE f \in Seq(S) /\ Len(f) = n
  OBVIOUS

LEMMA Programs ==
  /\ Loading!BootProgram \in Seq(Tasks) /\ Len(Loading!BootProgram) = 16
  /\ \A m \in Libs : Loading!NativeProgram(m) \in Seq(Tasks) /\ Len(Loading!NativeProgram(m)) = 10
<1>1. ASSUME NEW m \in Modules
      PROVE  /\ <<"load", m>> \in Tasks /\ <<"region", m>> \in Tasks
             /\ <<"relocate", m>> \in Tasks /\ <<"resolve", m>> \in Tasks
             /\ <<"cache", m>> \in Tasks /\ <<"map", m>> \in Tasks
             /\ <<"rebase", m>> \in Tasks /\ <<"permit", m>> \in Tasks
             /\ <<"init", m>> \in Tasks /\ <<"find", m>> \in Tasks /\ <<"keep", m>> \in Tasks
  BY DEF Tasks
<1>2. Loading!BootProgram \in Seq(Tasks)
  <2> DEFINE p == Loading!BootProgram
  <2>1. p[1] \in Tasks /\ p[2] \in Tasks /\ p[3] \in Tasks /\ p[4] \in Tasks
    BY <1>1, BootTasks, Parties
  <2>2. p[5] \in Tasks /\ p[6] \in Tasks /\ p[7] \in Tasks /\ p[8] \in Tasks
    BY <1>1, BootTasks, Parties
  <2>3. p[9] \in Tasks /\ p[10] \in Tasks /\ p[11] \in Tasks /\ p[12] \in Tasks
    BY <1>1, BootTasks, Parties
  <2>4. p[13] \in Tasks /\ p[14] \in Tasks /\ p[15] \in Tasks /\ p[16] \in Tasks
    BY <1>1, BootTasks, Parties
  <2>5. p = [k \in 1..16 |-> p[k]]
    BY DEF Loading!BootProgram
  <2>6. \A k \in 1..16 : k = 1 \/ k = 2 \/ k = 3 \/ k = 4 \/ k = 5 \/ k = 6 \/ k = 7 \/ k = 8
          \/ k = 9 \/ k = 10 \/ k = 11 \/ k = 12 \/ k = 13 \/ k = 14 \/ k = 15 \/ k = 16
    OBVIOUS
  <2> HIDE DEF p
  <2>7. \A k \in 1..16 : p[k] \in Tasks
    BY <2>1, <2>2, <2>3, <2>4, <2>6
  <2>8. p \in [1..16 -> Tasks]
    BY <2>5, <2>7
  <2>9. p \in Seq(Tasks)
    BY <2>8, Tuple
  <2> QED
    BY <2>9 DEF p
<1>3. ASSUME NEW m \in Libs
      PROVE  Loading!NativeProgram(m) \in Seq(Tasks) /\ Len(Loading!NativeProgram(m)) = 10
  <2> DEFINE p == Loading!NativeProgram(m)
  <2>1. m \in Modules
    BY Parties
  <2>2. /\ p[1] \in Tasks /\ p[2] \in Tasks /\ p[3] \in Tasks /\ p[4] \in Tasks /\ p[5] \in Tasks
        /\ p[6] \in Tasks /\ p[7] \in Tasks /\ p[8] \in Tasks /\ p[9] \in Tasks /\ p[10] \in Tasks
    BY <1>1, <2>1 DEF Loading!NativeProgram
  <2>3. p = [k \in 1..10 |-> p[k]]
    BY DEF Loading!NativeProgram
  <2>4. \A k \in 1..10 : k = 1 \/ k = 2 \/ k = 3 \/ k = 4 \/ k = 5 \/ k = 6 \/ k = 7 \/ k = 8
             \/ k = 9 \/ k = 10
    OBVIOUS
  <2> HIDE DEF p
  <2>5. \A k \in 1..10 : p[k] \in Tasks
    BY <2>2, <2>4
  <2>6. p \in [1..10 -> Tasks]
    BY <2>3, <2>5
  <2>7. p \in Seq(Tasks) /\ Len(p) = 10
    BY <2>6, Tuple
  <2> QED
    BY <2>7 DEF p
<1> QED
  BY <1>2, <1>3, BootTasks

LEMMA WholeProgram == ASSUME NEW p \in Seq(Tasks) PROVE RestOf(p, p)
  BY DEF RestOf

LEMMA Shorter ==
  ASSUME NEW p \in Seq(Tasks), NEW s \in Seq(Tasks), s # <<>>, RestOf(s, p)
  PROVE  RestOf(Tail(s), p) /\ s[1] = p[Len(p) + 1 - Len(s)] /\ Len(s) \in 1..Len(p)
  BY DEF RestOf

LEMMA TailOf ==
  ASSUME NEW s \in Seq(Tasks), s # <<>>
  PROVE  Tail(s) \in Seq(Tasks) /\ Len(Tail(s)) = Len(s) - 1 /\ Len(s) \in Nat \ {0}
  OBVIOUS

LEMMA NothingLeft == Len(<<>>) = 0 /\ 0 \notin 1..8 /\ 0 \notin 1..9
  OBVIOUS

LEMMA Going == ASSUME NEW s, Len(s) \in 1..16 PROVE s # <<>>
<1> SUFFICES ASSUME s = <<>> PROVE FALSE
  OBVIOUS
<1>1. Len(s) = 0
  OBVIOUS
<1>2. 0 \notin 1..16
  OBVIOUS
<1> QED
  BY <1>1, <1>2, Zenon

LEMMA DoneWith ==
  ASSUME LoaderTypes, NEW a \in Actors, todo[a] # <<>>, Loading!Done(a)
  PROVE  /\ todo' \in [Actors -> Seq(Tasks)]
         /\ todo'[a] = Tail(todo[a]) /\ Len(todo'[a]) = Len(todo[a]) - 1
         /\ Len(todo[a]) \in Nat \ {0}
         /\ \A b \in Actors \ {a} : todo'[b] = todo[b]
<1>1. todo[a] \in Seq(Tasks) /\ todo' = [todo EXCEPT ![a] = Tail(todo[a])]
  BY DEF LoaderTypes, Loading!Done
<1>2. Tail(todo[a]) \in Seq(Tasks) /\ Len(Tail(todo[a])) = Len(todo[a]) - 1 /\ Len(todo[a]) \in Nat \ {0}
  BY <1>1, TailOf
<1> QED
  BY <1>1, <1>2 DEF LoaderTypes

----------------------------------------------------------------------------
(* What moves the boot, or a thread, one step on.                          *)

LEMMA BootAt ==
  ASSUME LoaderInv, NEW step, NEW m, Loading!At(Boot, step, m)
  PROVE  /\ todo[Boot] # <<>>
         /\ \E n \in 0..15 :
              /\ Len(todo[Boot]) = n + 1 /\ n = Len(todo[Boot]) - 1
              /\ AtBoot(n + 1)
              /\ step = "load" => (n = 15 /\ m = Cxx) \/ (n = 14 /\ m = GameLib)
              /\ step = "map" => (n = 7 /\ m = Cxx) \/ (n = 4 /\ m = GameLib)
              /\ step = "rebase" => (n = 6 /\ m = Cxx) \/ (n = 3 /\ m = GameLib)
              /\ step = "resolve" => n = 11 \/ n = 9
              /\ step = "cache" => n = 8 /\ m = GameLib
              /\ step \notin {"load", "map", "rebase"} => n + 1 \in {14, 13, 12, 11, 10, 9, 6, 3, 2, 1}
              /\ step # "find" /\ step # "keep" /\ m \in {Cxx, GameLib}
<1>1. todo[Boot] \in Seq(Tasks) /\ todo[Boot] # <<>> /\ todo[Boot][1] = <<step, m>>
  BY Parties DEF LoaderInv, LoaderTypes, Loading!At
<1>2. RestOf(todo[Boot], Loading!BootProgram) /\ AtBoot(Len(todo[Boot]))
  BY DEF LoaderInv, BootRight
<1>3. PICK s : s = todo[Boot]
  OBVIOUS
<1>4. Len(s) \in 1..16 /\ s[1] = Loading!BootProgram[16 + 1 - Len(s)] /\ s[1] = <<step, m>>
  BY <1>1, <1>2, <1>3, Programs, Shorter
<1>5. PICK k \in 1..16 : Len(s) = 17 - k
  <2>1. PICK l \in 1..16 : l = Len(s)
    BY <1>4
  <2>2. 17 - l \in 1..16 /\ l = 17 - (17 - l)
    OBVIOUS
  <2> QED
    BY <2>1, <2>2
<1>6. 16 + 1 - Len(s) = k
  BY <1>5
<1>7. Loading!BootProgram[k] = <<step, m>>
  BY <1>4, <1>6
<1>8. PICK n \in 0..15 : n = 16 - k
  OBVIOUS
<1>9. Len(s) = n + 1 /\ n = Len(s) - 1
  BY <1>5, <1>8
<1>10. /\ step = "load" => (n = 15 /\ m = Cxx) \/ (n = 14 /\ m = GameLib)
       /\ step = "map" => (n = 7 /\ m = Cxx) \/ (n = 4 /\ m = GameLib)
       /\ step = "rebase" => (n = 6 /\ m = Cxx) \/ (n = 3 /\ m = GameLib)
       /\ step = "resolve" => n = 11 \/ n = 9
       /\ step = "cache" => n = 8 /\ m = GameLib
       /\ step # "find" /\ step # "keep" /\ m \in {Cxx, GameLib}
  BY <1>7, <1>8, BootOrder
<1>11. step \notin {"load", "map", "rebase"} => n + 1 \in {14, 13, 12, 11, 10, 9, 6, 3, 2, 1}
  <2> SUFFICES ASSUME step \notin {"load", "map", "rebase"}
               PROVE  n + 1 \in {14, 13, 12, 11, 10, 9, 6, 3, 2, 1}
    OBVIOUS
  <2>1. k # 1 /\ k # 2 /\ k # 9 /\ k # 12 /\ k # 10 /\ k # 13
    BY <1>7, BootTasks
  <2> QED
    BY <1>8, <2>1
<1> QED
  BY <1>1, <1>2, <1>3, <1>9, <1>10, <1>11

LEMMA ThreadAt ==
  ASSUME LoaderInv, NEW t \in Threads, NEW step, NEW m, Loading!At(t, step, m)
  PROVE  /\ todo[t] # <<>> /\ m = asked[t] /\ m \in Libs /\ lock = t
         /\ \E n \in 0..9 :
              /\ Len(todo[t]) = n + 1 /\ n = Len(todo[t]) - 1
              /\ n \in 0..7 => Halfway(m, n + 1)
              /\ step = "find" => n = 9
              /\ step = "load" => n = 8
              /\ step = "relocate" => n = 7
              /\ step = "resolve" => n = 6
              /\ step = "cache" => n = 5
              /\ step = "map" => n = 4
              /\ step = "rebase" => n = 3
              /\ step = "permit" => n = 2
              /\ step = "init" => n = 1
              /\ step = "keep" => n = 0
              /\ step # "region"
<1>1. todo[t] \in Seq(Tasks) /\ todo[t] # <<>> /\ todo[t][1] = <<step, m>>
  BY Parties DEF LoaderInv, LoaderTypes, Loading!At
<1>2. asked[t] \in Libs /\ RestOf(todo[t], Loading!NativeProgram(asked[t])) /\ lock = t
  BY <1>1 DEF LoaderInv, Opening
<1>3. PICK s : s = todo[t]
  OBVIOUS
<1>4. Len(s) \in 1..10 /\ s[1] = Loading!NativeProgram(asked[t])[10 + 1 - Len(s)] /\ s[1] = <<step, m>>
  BY <1>1, <1>2, <1>3, Programs, Shorter
<1>5. PICK k \in 1..10 : Len(s) = 11 - k
  <2>1. PICK l \in 1..10 : l = Len(s)
    BY <1>4
  <2>2. 11 - l \in 1..10 /\ l = 11 - (11 - l)
    OBVIOUS
  <2> QED
    BY <2>1, <2>2
<1>6. 10 + 1 - Len(s) = k
  BY <1>5
<1>7. Loading!NativeProgram(asked[t])[k] = <<step, m>>
  BY <1>4, <1>6
<1>8. PICK n \in 0..9 : n = 10 - k
  OBVIOUS
<1>9. Len(s) = n + 1 /\ n = Len(s) - 1
  BY <1>5, <1>8
<1>10. /\ m = asked[t] /\ step # "region"
       /\ step = "find" => n = 9
       /\ step = "load" => n = 8
       /\ step = "relocate" => n = 7
       /\ step = "resolve" => n = 6
       /\ step = "cache" => n = 5
       /\ step = "map" => n = 4
       /\ step = "rebase" => n = 3
       /\ step = "permit" => n = 2
       /\ step = "init" => n = 1
       /\ step = "keep" => n = 0
  BY <1>7, <1>8, NativeOrder
<1>11. n \in 0..7 => Halfway(m, n + 1)
  <2> SUFFICES ASSUME n \in 0..7 PROVE Halfway(m, n + 1)
    OBVIOUS
  <2>1. n + 1 \in 1..8 /\ Len(todo[t]) = n + 1
    BY <1>3, <1>9
  <2>2. Len(todo[t]) \in 1..8
    BY <2>1
  <2>3. Halfway(asked[t], Len(todo[t]))
    BY <2>2 DEF LoaderInv, Under
  <2> QED
    BY <1>10, <2>1, <2>3 DEF Halfway
<1> QED
  BY <1>1, <1>2, <1>3, <1>9, <1>10, <1>11

\* While the boot runs nobody opens a module.
LEMMA Booting1 ==
  ASSUME LoaderInv, todo[Boot] # <<>>
  PROVE  /\ \A t \in Threads : asked[t] = "" /\ todo[t] = <<>> /\ lock # t
         /\ \A m \in Libs : ~Listed(m) /\ ~Kept(m)
<1>1. Len(todo[Boot]) > 0
  <2>1. todo[Boot] \in Seq(Tasks)
    BY Parties DEF LoaderInv, LoaderTypes
  <2>2. Len(todo[Boot]) \in Nat \ {0}
    BY <2>1, TailOf
  <2> QED
    BY <2>2
<1>2. /\ \A t \in Threads : asked[t] = ""
      /\ \A m \in Libs : ~Listed(m)
  BY <1>1 DEF LoaderInv, BootRight, AtBoot
<1>3. \A m \in Libs : ~Kept(m)
  BY <1>2 DEF LoaderInv, LibRight, Halfway
<1>4. \A t \in Threads : todo[t] = <<>> /\ lock # t
  BY <1>2, Parties DEF LoaderInv, Opening
<1> QED
  BY <1>2, <1>3, <1>4

LEMMA BootMoves ==
  ASSUME LoaderInv, todo[Boot] # <<>>, Loading!Done(Boot),
         NEW n, n = Len(todo[Boot]) - 1, AtBoot(n)',
         soList' \in Seq(Modules), OneEach',
         table' \in [Modules -> {"none", "base", "virt"}], mapped' \in [Modules -> BOOLEAN],
         inits' \in [Modules -> Nat], DOMAIN symcache' = Modules,
         \A m \in Libs : ~Listed(m)' /\ inits'[m] = inits[m] /\ mapped'[m] = mapped[m],
         UNCHANGED <<slots, lock, asked, handle>>, ended' # "abort"
  PROVE  LoaderInv'
<1>1. LoaderTypes /\ Boot \in Actors
  BY Parties DEF LoaderInv
<1>2. /\ todo' \in [Actors -> Seq(Tasks)]
      /\ todo'[Boot] = Tail(todo[Boot]) /\ Len(todo'[Boot]) = n
      /\ \A t \in Threads : todo'[t] = todo[t]
  BY <1>1, DoneWith, Parties
<1>3. LoaderTypes'
  BY <1>1, <1>2 DEF LoaderTypes
<1>4. BootRight'
  <2>1. todo[Boot] \in Seq(Tasks) /\ RestOf(todo[Boot], Loading!BootProgram)
    BY <1>1 DEF LoaderInv, LoaderTypes, BootRight
  <2>2. RestOf(Tail(todo[Boot]), Loading!BootProgram)
    BY <2>1, Programs, Shorter
  <2>3. RestOf(todo[Boot], Loading!BootProgram)'
    BY <1>2, <2>2 DEF RestOf
  <2> QED
    BY <1>2, <2>3 DEF BootRight, AtBoot
<1>5. ASSUME NEW t \in Threads PROVE Opening(t)' /\ Under(t)'
  <2>1. todo'[t] = <<>> /\ lock' # t
    BY <1>2, Booting1
  <2> QED
    BY <2>1 DEF Opening, Under
<1>6. ASSUME NEW m \in Libs PROVE LibRight(m)'
  <2>1. ~Kept(m) /\ ~Listed(m) /\ inits[m] = 0 /\ ~mapped[m] /\ (handle[m] # m)
    BY Booting1 DEF LoaderInv, LibRight
  <2>2. ~Kept(m)'
    BY <2>1 DEF Kept
  <2> QED
    BY <2>1, <2>2 DEF LibRight
<1> QED
  BY <1>3, <1>4, <1>5, <1>6 DEF LoaderInv

\* A thread that opens a module changes that module alone.
LEMMA ThreadMoves ==
  ASSUME LoaderInv, NEW t \in Threads, todo[t] # <<>>, Loading!Done(t),
         NEW n, n = Len(todo[t]) - 1, n \in 1..8, NEW l, l = asked[t], Halfway(l, n)',
         soList' \in Seq(Modules), OneEach',
         table' \in [Modules -> {"none", "base", "virt"}], mapped' \in [Modules -> BOOLEAN],
         inits' \in [Modules -> Nat], DOMAIN symcache' = Modules,
         \A m \in Modules \ {l} :
           /\ Listed(m)' <=> Listed(m)
           /\ table'[m] = table[m] /\ mapped'[m] = mapped[m]
           /\ inits'[m] = inits[m] /\ symcache'[m] = symcache[m],
         UNCHANGED <<slots, lock, asked, handle>>, ended' # "abort"
  PROVE  LoaderInv'
<1>1. LoaderTypes /\ t \in Actors /\ t # Boot
  BY Parties DEF LoaderInv
<1>2. /\ todo' \in [Actors -> Seq(Tasks)]
      /\ todo'[t] = Tail(todo[t]) /\ Len(todo'[t]) = n
      /\ \A a \in Actors \ {t} : todo'[a] = todo[a]
  BY <1>1, DoneWith
<1>3. lock = t /\ l \in Libs /\ RestOf(todo[t], Loading!NativeProgram(l))
  BY DEF LoaderInv, Opening
<1>4. LoaderTypes'
  BY <1>1, <1>2 DEF LoaderTypes
<1>5. todo[Boot] = <<>> /\ todo'[Boot] = <<>>
  BY <1>1, <1>2, Booting1, Parties
<1>6. BootRight'
  <2>1. AtBoot(0) /\ AtBoot(0)'
    <3>1. AtBoot(0)
      BY <1>5 DEF LoaderInv, BootRight
    <3>2. \A m \in {Cxx, GameLib} : m \in Modules \ {l}
      BY <1>3, Parties
    <3> QED
      BY <3>1, <3>2 DEF AtBoot
  <2> QED
    BY <1>5, <2>1, Programs DEF BootRight, RestOf, AtBoot
<1>7. ASSUME NEW u \in Threads PROVE Opening(u)' /\ Under(u)'
  <2>1. CASE u # t
    <3>1. todo'[u] = <<>> /\ lock' # u
      BY <1>2, <1>3, <2>1, Parties DEF LoaderInv, Opening
    <3> QED
      BY <3>1 DEF Opening, Under
  <2>2. CASE u = t
    <3>1. todo'[t] # <<>>
      <4> SUFFICES ASSUME todo'[t] = <<>> PROVE FALSE
        OBVIOUS
      <4>1. Len(todo'[t]) = 0
        OBVIOUS
      <4>2. Len(todo'[t]) \in 1..8
        BY <1>2
      <4>3. 0 \notin 1..8
        OBVIOUS
      <4> QED
        BY <4>1, <4>2, <4>3, Zenon
    <3>2. RestOf(Tail(todo[t]), Loading!NativeProgram(l))
      BY <1>1, <1>3, Programs, Shorter DEF LoaderTypes
    <3>3. RestOf(todo[t], Loading!NativeProgram(l))'
      BY <1>2, <3>2, ZenonT(30) DEF RestOf, Loading!NativeProgram
    <3>4. Opening(t)'
      BY <1>3, <3>1, <3>3 DEF Opening
    <3>5. Loading!SlotOf(l) = {} /\ \E i \in 1..MaxNative : slots[i].name = l
      <4>1. Len(todo[t]) \in 1..9
        BY <1>1, <1>2, DoneWith
      <4> QED
        BY <4>1 DEF LoaderInv, Under
    <3>6. Loading!SlotOf(l)' = {} /\ \E i \in 1..MaxNative : slots'[i].name = l
      BY <3>5 DEF Loading!SlotOf
    <3>7. Under(t)'
      BY <1>2, <3>6 DEF Under, Halfway
    <3> QED
      BY <2>2, <3>4, <3>7
  <2> QED
    BY <2>1, <2>2
<1>8. ASSUME NEW m \in Libs PROVE LibRight(m)'
  <2>1. Kept(m)' <=> Kept(m)
    BY DEF Kept
  <2>2. CASE m # l
    <3>0. m \in Modules \ {l}
      BY <2>2, Parties
    <3>1. Halfway(m, 0) => Halfway(m, 0)'
      BY <3>0 DEF Halfway
    <3>2. ASSUME NEW u \in Threads, asked[u] = m, Len(todo[u]) \in 1..8 PROVE FALSE
      <4>1. u # t /\ todo[u] = <<>>
        BY <1>3, <2>2, <3>2 DEF LoaderInv, Opening
      <4> QED
        BY <3>2, <4>1
    <3>3. Kept(m)' => Halfway(m, 0)'
      BY <2>1, <3>1 DEF LoaderInv, LibRight
    <3>4. Listed(m)' => Kept(m)'
      BY <2>1, <3>0, <3>2 DEF LoaderInv, LibRight
    <3>5. ~Listed(m)' => inits'[m] = 0 /\ ~mapped'[m]
      BY <3>0 DEF LoaderInv, LibRight
    <3>6. handle'[m] = m => Kept(m)'
      BY <2>1 DEF LoaderInv, LibRight
    <3> QED
      BY <3>3, <3>4, <3>5, <3>6 DEF LibRight
  <2>3. CASE m = l
    <3>1. ~Kept(l)
      <4>1. Len(todo[t]) \in 1..9
        BY <1>1, <1>2, DoneWith
      <4>2. Loading!SlotOf(l) = {}
        BY <4>1 DEF LoaderInv, Under
      <4>3. ASSUME NEW i \in 1..MaxNative, slots[i].name = l, slots[i].state = 1 PROVE FALSE
        <5>0. DOMAIN slots = 1..MaxNative
          BY <1>1 DEF LoaderTypes
        <5>1. i \in Loading!SlotOf(l)
          BY <4>3, <5>0 DEF Loading!SlotOf
        <5> QED
          BY <4>2, <5>1
      <4> QED
        BY <4>3 DEF Kept
    <3>2. Listed(l)'
      BY DEF Halfway
    <3>3. handle'[l] # l
      BY <1>3, <3>1 DEF LoaderInv, LibRight
    <3>4. asked'[t] = l /\ Len(todo'[t]) \in 1..8
      BY <1>2
    <3> QED
      BY <2>1, <2>3, <3>1, <3>2, <3>3, <3>4 DEF LibRight
  <2> QED
    BY <2>2, <2>3
<1> QED
  BY <1>4, <1>6, <1>7, <1>8 DEF LoaderInv

LEMMA BootOnlyReads ==
  ASSUME LoaderInv, todo[Boot] # <<>>, Loading!Done(Boot),
         Len(todo[Boot]) \in {14, 13, 12, 11, 10, 9, 6, 3, 2, 1},
         inits' \in [Modules -> Nat], DOMAIN symcache' = Modules,
         \A m \in Libs : inits'[m] = inits[m],
         UNCHANGED <<soList, table, mapped, slots, lock, asked, handle>>, ended' # "abort"
  PROVE  LoaderInv'
<1>1. PICK n : n = Len(todo[Boot]) - 1
  OBVIOUS
<1>2. AtBoot(n + 1) /\ n + 1 \in {14, 13, 12, 11, 10, 9, 6, 3, 2, 1} /\ n \in Nat
  BY <1>1 DEF LoaderInv, BootRight
<1>3. AtBoot(n)'
  <2>1. /\ n <= 15 /\ n + 1 <= 15 /\ n <= 14 /\ n + 1 <= 14 /\ n + 1 > 0
        /\ (n >= 7 <=> n + 1 >= 7) /\ (n >= 4 <=> n + 1 >= 4)
        /\ (n <= 7 <=> n + 1 <= 7) /\ (n <= 4 <=> n + 1 <= 4)
    BY <1>2
  <2> QED
    BY <1>2, <2>1 DEF AtBoot, Listed
<1>4. LoaderTypes' <=> todo' \in [Actors -> Seq(Tasks)]
  BY DEF LoaderInv, LoaderTypes
<1>5. \A m \in Libs : ~Listed(m)' /\ inits'[m] = inits[m] /\ mapped'[m] = mapped[m]
  BY Booting1 DEF Listed
<1>6. /\ soList' \in Seq(Modules) /\ OneEach'
      /\ table' \in [Modules -> {"none", "base", "virt"}] /\ mapped' \in [Modules -> BOOLEAN]
  BY DEF LoaderInv, LoaderTypes, OneEach
<1> QED
  BY <1>1, <1>3, <1>5, <1>6, BootMoves

LEMMA ThreadOnlyReads ==
  ASSUME LoaderInv, NEW t \in Threads, todo[t] # <<>>, Loading!Done(t),
         Len(todo[t]) \in {8, 7, 3},
         UNCHANGED <<soList, table, mapped, inits, symcache, slots, lock, asked, handle>>,
         ended' # "abort"
  PROVE  LoaderInv'
<1>1. PICK n, l : n = Len(todo[t]) - 1 /\ l = asked[t]
  OBVIOUS
<1>2. n \in {7, 6, 2} /\ n \in 1..8
  BY <1>1
<1>3. Halfway(l, n + 1)
  <2>1. Len(todo[t]) \in 1..8 /\ Len(todo[t]) = n + 1
    BY <1>1, <1>2
  <2>2. Halfway(l, Len(todo[t]))
    BY <1>1, <2>1 DEF LoaderInv, Under
  <2> QED
    BY <2>1, <2>2 DEF Halfway
<1>4. Halfway(l, n)'
  BY <1>2, <1>3 DEF Halfway, Listed
<1>5. /\ soList' \in Seq(Modules) /\ OneEach' /\ inits' \in [Modules -> Nat]
      /\ table' \in [Modules -> {"none", "base", "virt"}] /\ mapped' \in [Modules -> BOOLEAN]
      /\ DOMAIN symcache' = Modules
  BY DEF LoaderInv, LoaderTypes, OneEach
<1>6. \A m \in Modules : Listed(m)' <=> Listed(m)
  BY DEF Listed
<1> QED
  BY <1>1, <1>2, <1>4, <1>5, <1>6, ThreadMoves

\* Who is on the list and not being loaded can be read.
LEMMA ListedReadable ==
  ASSUME LoaderInv, NEW m \in Modules, Listed(m),
         Len(todo[Boot]) = 0 \/ Len(todo[Boot]) >= 8,
         \A t \in Threads : todo[t] # <<>> => asked[t] # m
  PROVE  Loading!Readable(m)
<1>1. CASE m \in Libs
  <2>1. ASSUME NEW t \in Threads, asked[t] = m, Len(todo[t]) \in 1..8 PROVE FALSE
    <3>1. todo[t] = <<>>
      BY <2>1
    <3>2. Len(todo[t]) = 0
      BY <3>1
    <3> QED
      BY <2>1, <3>2
  <2>2. Halfway(m, 0)
    BY <1>1, <2>1 DEF LoaderInv, LibRight
  <2>3. table[m] = "virt" /\ mapped[m]
    BY <2>2 DEF Halfway
  <2> QED
    BY <2>3 DEF Loading!Readable
<1>2. CASE m \in {Cxx, GameLib}
  <2>1. todo[Boot] \in Seq(Tasks)
    BY Parties DEF LoaderInv, LoaderTypes
  <2>2. PICK n \in Nat : n = Len(todo[Boot])
    BY <2>1
  <2>3. AtBoot(n)
    BY <2>2 DEF LoaderInv, BootRight
  <2>4. n = 0 => table[m] = "virt" /\ mapped[m]
    BY <1>2, <2>3 DEF AtBoot
  <2>5. n >= 8 => table[m] = "base" /\ ~mapped[m]
    <3>1. CASE m = Cxx
      <4>1. Listed(Cxx)
        BY <3>1 DEF Listed
      <4>2. n <= 15
        BY <2>3, <4>1, Zenon DEF AtBoot
      <4>5. n >= 8 => n >= 7 /\ n >= 4 /\ ~(n <= 7) /\ ~(n <= 4)
        BY <2>2
      <4>3. n >= 8 => table[Cxx] = "base"
        BY <2>3, <4>2, <4>5, Zenon DEF AtBoot
      <4>4. n >= 8 => ~mapped[Cxx]
        BY <2>3, <4>5, Zenon DEF AtBoot
      <4> QED
        BY <3>1, <4>3, <4>4
    <3>2. CASE m = GameLib
      <4>1. Listed(GameLib)
        BY <3>2 DEF Listed
      <4>2. n <= 14
        BY <2>3, <4>1, Zenon DEF AtBoot
      <4>5. n >= 8 => n >= 7 /\ n >= 4 /\ ~(n <= 7) /\ ~(n <= 4)
        BY <2>2
      <4>3. n >= 8 => table[GameLib] = "base"
        BY <2>3, <4>2, <4>5, Zenon DEF AtBoot
      <4>4. n >= 8 => ~mapped[GameLib]
        BY <2>3, <4>5, Zenon DEF AtBoot
      <4> QED
        BY <3>2, <4>3, <4>4
    <3> QED
      BY <1>2, <3>1, <3>2
  <2>6. n = 0 \/ n >= 8
    BY <2>2
  <2> QED
    BY <2>4, <2>5, <2>6 DEF Loading!Readable
<1> QED
  BY <1>1, <1>2, Parties

LEMMA Appended ==
  ASSUME soList \in Seq(Modules), NEW m \in Modules, soList' = Append(soList, m)
  PROVE  /\ soList' \in Seq(Modules)
         /\ \A x : Listed(x)' <=> Listed(x) \/ x = m
         /\ OneEach /\ ~Listed(m) => OneEach'
<1>1. /\ soList' \in Seq(Modules) /\ DOMAIN soList = 1..Len(soList) /\ Len(soList) \in Nat
      /\ DOMAIN soList' = 1..Len(soList) + 1
      /\ soList'[Len(soList) + 1] = m
      /\ \A i \in 1..Len(soList) : soList'[i] = soList[i]
  OBVIOUS
<1>2. ASSUME NEW x PROVE Listed(x)' <=> Listed(x) \/ x = m
  BY <1>1 DEF Listed
<1>3. OneEach /\ ~Listed(m) => OneEach'
  BY <1>1 DEF OneEach, Listed
<1> QED
  BY <1>1, <1>2, <1>3

----------------------------------------------------------------------------
(* so_util.c.                                                              *)

\* The types of what so_util changes, and who holds the lock.
LEMMA Given ==
  ASSUME LoaderInv
  PROVE  /\ soList \in Seq(Modules) /\ OneEach
         /\ table \in [Modules -> {"none", "base", "virt"}] /\ mapped \in [Modules -> BOOLEAN]
         /\ inits \in [Modules -> Nat] /\ DOMAIN symcache = Modules
         /\ \A a \in Actors : todo[a] \in Seq(Tasks)
         /\ \A t, u \in Threads : todo[t] # <<>> /\ todo[u] # <<>> => t = u
         /\ \A t \in Threads : todo[t] # <<>> => todo[Boot] = <<>>
<1>1. \A t, u \in Threads : todo[t] # <<>> /\ todo[u] # <<>> => t = u
  BY DEF LoaderInv, Opening
<1>2. \A t \in Threads : todo[t] # <<>> => todo[Boot] = <<>>
  BY Booting1
<1> QED
  BY <1>1, <1>2 DEF LoaderInv, LoaderTypes

\* What is about to be loaded is not on the list.
LEMMA NotYet ==
  ASSUME LoaderInv, NEW t \in Threads, Len(todo[t]) = 9, todo[t] # <<>>
  PROVE  ~Listed(asked[t])
<1>1. asked[t] \in Libs
  BY DEF LoaderInv, Opening
<1>2. Loading!SlotOf(asked[t]) = {} /\ DOMAIN slots = 1..MaxNative
  <2>1. Len(todo[t]) \in 1..9
    OBVIOUS
  <2> QED
    BY <2>1 DEF LoaderInv, LoaderTypes, Under
<1>3. ~Kept(asked[t])
  <2> SUFFICES ASSUME NEW i \in 1..MaxNative, slots[i].name = asked[t], slots[i].state = 1
               PROVE  FALSE
    BY DEF Kept
  <2>1. i \in Loading!SlotOf(asked[t])
    BY <1>2 DEF Loading!SlotOf
  <2> QED
    BY <1>2, <2>1
<1>4. ASSUME NEW u \in Threads, asked[u] = asked[t], Len(todo[u]) \in 1..8 PROVE FALSE
  <2>1. todo[u] # <<>>
    <3>1. Len(todo[u]) \in 1..16
      BY <1>4
    <3> QED
      BY <3>1, Going
  <2>2. u = t
    BY <2>1, Given
  <2>3. 9 \notin 1..8
    OBVIOUS
  <2> QED
    BY <1>4, <2>2, <2>3
<1> QED
  BY <1>1, <1>3, <1>4 DEF LoaderInv, LibRight

LEMMA LoadStep ==
  ASSUME LoaderInv, ended = "no", NEW a \in Actors, NEW m \in Modules, Loading!Load(a, m)
  PROVE  LoaderInv'
<1>1. /\ Loading!At(a, "load", m) /\ table' = [table EXCEPT ![m] = "base"]
      /\ soList' = Append(soList, m) /\ Loading!Done(a)
      /\ UNCHANGED <<mapped, inits, symcache, slots, lock, asked, handle, ended>>
  BY DEF Loading!Load, Loading!native
<1>2. /\ soList' \in Seq(Modules)
      /\ \A x : Listed(x)' <=> Listed(x) \/ x = m
      /\ ~Listed(m) => OneEach'
  BY <1>1, Given, Appended
<1>3. /\ table' \in [Modules -> {"none", "base", "virt"}] /\ table'[m] = "base"
      /\ \A x \in Modules \ {m} : table'[x] = table[x]
  BY <1>1, Given
<1>4. CASE a = Boot
  <2>1. todo[Boot] # <<>>
    BY <1>1, <1>4, BootAt
  <2>2. \/ m = Cxx /\ 15 = Len(todo[Boot]) - 1 /\ AtBoot(16)
        \/ m = GameLib /\ 14 = Len(todo[Boot]) - 1 /\ AtBoot(15)
    <3>1. PICK n \in 0..15 :
            /\ n = Len(todo[Boot]) - 1 /\ AtBoot(n + 1)
            /\ (n = 15 /\ m = Cxx) \/ (n = 14 /\ m = GameLib)
      BY <1>1, <1>4, BootAt
    <3>2. n = 15 => n + 1 = 16
      OBVIOUS
    <3>3. n = 14 => n + 1 = 15
      OBVIOUS
    <3> QED
      BY <3>1, <3>2, <3>3
  <2>3. ASSUME NEW x \in Libs PROVE ~Listed(x)' /\ inits'[x] = inits[x] /\ mapped'[x] = mapped[x]
    <3>1. ~Listed(x) /\ x # m
      BY <2>1, <2>2, Booting1, Parties
    <3> QED
      BY <1>1, <1>2, <3>1
  <2>4. \A t \in Threads : asked'[t] = ""
    BY <1>1, <2>1, Booting1
  <2>5. CASE m = Cxx /\ 15 = Len(todo[Boot]) - 1 /\ AtBoot(16)
    <3>1. /\ ~(16 <= 15) /\ ~(16 <= 14) /\ ~(16 <= 7) /\ ~(16 <= 4)
          /\ 15 <= 15 /\ ~(15 <= 14) /\ 15 >= 7 /\ ~(15 <= 7) /\ ~(15 <= 4)
      OBVIOUS
    <3>2. ~Listed(Cxx) /\ ~Listed(GameLib) /\ ~mapped[Cxx] /\ ~mapped[GameLib]
      BY <2>5, <3>1, Zenon DEF AtBoot
    <3>3. Listed(Cxx)' /\ ~Listed(GameLib)' /\ ~mapped'[Cxx] /\ ~mapped'[GameLib] /\ table'[Cxx] = "base"
      BY <1>1, <1>2, <1>3, <2>5, <3>2, Parties, Zenon
    <3>4. AtBoot(15)'
      BY <2>3, <2>4, <3>1, <3>3, Zenon DEF AtBoot
    <3> QED
      BY <1>1, <1>2, <1>3, <1>4, <2>1, <2>3, <2>5, <3>2, <3>4, Given, BootMoves
  <2>6. CASE m = GameLib /\ 14 = Len(todo[Boot]) - 1 /\ AtBoot(15)
    <3>1. /\ 15 <= 15 /\ ~(15 <= 14) /\ 15 >= 7 /\ ~(15 <= 7) /\ ~(15 <= 4)
          /\ 14 <= 15 /\ 14 <= 14 /\ 14 >= 7 /\ 14 >= 4 /\ ~(14 <= 7) /\ ~(14 <= 4)
      OBVIOUS
    <3>2. Listed(Cxx) /\ ~Listed(GameLib) /\ ~mapped[Cxx] /\ ~mapped[GameLib] /\ table[Cxx] = "base"
      BY <2>6, <3>1, Zenon DEF AtBoot
    <3>3. /\ Listed(Cxx)' /\ Listed(GameLib)' /\ ~mapped'[Cxx] /\ ~mapped'[GameLib]
          /\ table'[Cxx] = "base" /\ table'[GameLib] = "base"
      <4>1. Cxx \in Modules \ {m}
        BY <2>6, Parties
      <4> QED
        BY <1>1, <1>2, <1>3, <2>6, <3>2, <4>1, Zenon
    <3>4. AtBoot(14)'
      BY <2>3, <2>4, <3>1, <3>3, Zenon DEF AtBoot
    <3> QED
      BY <1>1, <1>2, <1>3, <1>4, <2>1, <2>3, <2>6, <3>2, <3>4, Given, BootMoves
  <2> QED
    BY <2>2, <2>5, <2>6
<1>5. CASE a \in Threads
  <2>1. todo[a] # <<>> /\ m = asked[a] /\ m \in Libs /\ Len(todo[a]) = 9 /\ 8 = Len(todo[a]) - 1
    BY <1>1, <1>5, ThreadAt
  <2>0. PICK n : n = 8
    OBVIOUS
  <2>2. ~Listed(m)
    BY <1>5, <2>1, NotYet
  <2>3. Halfway(m, n)'
    <3>1. inits[m] = 0 /\ ~mapped[m]
      BY <2>1, <2>2 DEF LoaderInv, LibRight
    <3> QED
      BY <1>1, <1>2, <1>3, <2>0, <3>1 DEF Halfway
  <2>4. ASSUME NEW x \in Modules \ {m}
        PROVE  /\ Listed(x)' <=> Listed(x)
               /\ table'[x] = table[x] /\ mapped'[x] = mapped[x]
               /\ inits'[x] = inits[x] /\ symcache'[x] = symcache[x]
    BY <1>1, <1>2, <1>3
  <2>5. n \in 1..8 /\ n = Len(todo[a]) - 1 /\ ended' # "abort" /\ OneEach'
    BY <1>1, <1>2, <2>1, <2>2, <2>0
  <2>6. /\ soList' \in Seq(Modules)
        /\ table' \in [Modules -> {"none", "base", "virt"}] /\ mapped' \in [Modules -> BOOLEAN]
        /\ inits' \in [Modules -> Nat] /\ DOMAIN symcache' = Modules
        /\ UNCHANGED <<slots, lock, asked, handle>>
    BY <1>1, <1>2, <1>3, Given
  <2>7. Loading!Done(a)
    BY <1>1
  <2> QED
    BY <1>5, <2>1, <2>3, <2>4, <2>5, <2>6, <2>7, ThreadMoves, ZenonT(30)
<1> QED
  BY <1>4, <1>5, Parties

\* What the steps but load keep.
LEMMA SameList ==
  ASSUME soList' = soList
  PROVE  (\A x : Listed(x)' <=> Listed(x)) /\ (OneEach => OneEach')
  BY DEF Listed, OneEach

LEMMA MapStep ==
  ASSUME LoaderInv, ended = "no", NEW a \in Actors, NEW m \in Modules, Loading!Map(a, m)
  PROVE  LoaderInv'
<1>1. /\ Loading!At(a, "map", m) /\ mapped' = [mapped EXCEPT ![m] = TRUE] /\ Loading!Done(a)
      /\ UNCHANGED <<soList, table, inits, symcache, slots, lock, asked, handle, ended>>
  BY DEF Loading!Map, Loading!native
<1>2. /\ mapped' \in [Modules -> BOOLEAN] /\ mapped'[m]
      /\ \A x \in Modules \ {m} : mapped'[x] = mapped[x]
  BY <1>1, Given
<1>3. (\A x : Listed(x)' <=> Listed(x)) /\ OneEach'
  BY <1>1, SameList, Given
<1>4. CASE a = Boot
  <2>1. todo[Boot] # <<>>
    BY <1>1, <1>4, BootAt
  <2>2. \/ m = Cxx /\ 7 = Len(todo[Boot]) - 1 /\ AtBoot(8)
        \/ m = GameLib /\ 4 = Len(todo[Boot]) - 1 /\ AtBoot(5)
    <3>1. PICK n \in 0..15 :
            /\ n = Len(todo[Boot]) - 1 /\ AtBoot(n + 1)
            /\ (n = 7 /\ m = Cxx) \/ (n = 4 /\ m = GameLib)
      BY <1>1, <1>4, BootAt
    <3>2. n = 7 => n + 1 = 8
      OBVIOUS
    <3>3. n = 4 => n + 1 = 5
      OBVIOUS
    <3> QED
      BY <3>1, <3>2, <3>3
  <2>3. ASSUME NEW x \in Libs PROVE ~Listed(x)' /\ inits'[x] = inits[x] /\ mapped'[x] = mapped[x]
    <3>1. ~Listed(x) /\ x \in Modules \ {m}
      BY <2>1, <2>2, Booting1, Parties
    <3> QED
      BY <1>1, <1>2, <1>3, <3>1
  <2>4. \A t \in Threads : asked'[t] = ""
    BY <1>1, <2>1, Booting1
  <2>5. CASE m = Cxx /\ 7 = Len(todo[Boot]) - 1 /\ AtBoot(8)
    <3>1. /\ 8 <= 15 /\ 8 <= 14 /\ 8 >= 7 /\ 8 >= 4 /\ ~(8 <= 7) /\ ~(8 <= 4)
          /\ 7 <= 15 /\ 7 <= 14 /\ 7 >= 7 /\ 7 >= 4 /\ 7 <= 7 /\ ~(7 <= 4)
      OBVIOUS
    <3>2. Listed(Cxx) /\ Listed(GameLib) /\ ~mapped[GameLib] /\ table[Cxx] = "base" /\ table[GameLib] = "base"
      BY <2>5, <3>1, Zenon DEF AtBoot
    <3>3. /\ Listed(Cxx)' /\ Listed(GameLib)' /\ mapped'[Cxx] /\ ~mapped'[GameLib]
          /\ table'[Cxx] = "base" /\ table'[GameLib] = "base"
      <4>1. GameLib \in Modules \ {m}
        BY <2>5, Parties
      <4> QED
        BY <1>1, <1>2, <1>3, <2>5, <3>2, <4>1, Zenon
    <3>4. AtBoot(7)'
      BY <2>3, <2>4, <3>1, <3>3, Zenon DEF AtBoot
    <3> QED
      BY <1>1, <1>2, <1>3, <1>4, <2>1, <2>3, <2>5, <3>4, Given, BootMoves
  <2>6. CASE m = GameLib /\ 4 = Len(todo[Boot]) - 1 /\ AtBoot(5)
    <3>1. /\ 5 <= 15 /\ 5 <= 14 /\ ~(5 >= 7) /\ 5 >= 4 /\ 5 <= 7 /\ ~(5 <= 4)
          /\ 4 <= 15 /\ 4 <= 14 /\ ~(4 >= 7) /\ 4 >= 4 /\ 4 <= 7 /\ 4 <= 4
      OBVIOUS
    <3>2. Listed(Cxx) /\ Listed(GameLib) /\ mapped[Cxx] /\ table[Cxx] = "virt" /\ table[GameLib] = "base"
      BY <2>6, <3>1, Zenon DEF AtBoot
    <3>3. /\ Listed(Cxx)' /\ Listed(GameLib)' /\ mapped'[Cxx] /\ mapped'[GameLib]
          /\ table'[Cxx] = "virt" /\ table'[GameLib] = "base"
      <4>1. Cxx \in Modules \ {m}
        BY <2>6, Parties
      <4> QED
        BY <1>1, <1>2, <1>3, <2>6, <3>2, <4>1, Zenon
    <3>4. AtBoot(4)'
      BY <2>3, <2>4, <3>1, <3>3, Zenon DEF AtBoot
    <3> QED
      BY <1>1, <1>2, <1>3, <1>4, <2>1, <2>3, <2>6, <3>4, Given, BootMoves
  <2> QED
    BY <2>2, <2>5, <2>6
<1>5. CASE a \in Threads
  <2>1. PICK n \in 0..9 : n = 4 /\ n = Len(todo[a]) - 1 /\ Halfway(m, n + 1)
    <3>1. PICK n \in 0..9 : n = 4 /\ n = Len(todo[a]) - 1 /\ (n \in 0..7 => Halfway(m, n + 1))
      BY <1>1, <1>5, ThreadAt
    <3> QED
      BY <3>1
  <2>2. todo[a] # <<>> /\ m = asked[a] /\ n \in 1..8
    BY <1>1, <1>5, <2>1, ThreadAt
  <2>3. Halfway(m, n)'
    <3>1. /\ n + 1 >= 4 /\ ~(n + 1 <= 1) /\ n + 1 <= 5
          /\ n >= 4 /\ n <= 4 /\ ~(n <= 1) /\ n <= 5
      BY <2>1
    <3> QED
      BY <1>1, <1>2, <1>3, <2>1, <3>1, Zenon DEF Halfway
  <2>4. ASSUME NEW x \in Modules \ {m}
        PROVE  /\ Listed(x)' <=> Listed(x)
               /\ table'[x] = table[x] /\ mapped'[x] = mapped[x]
               /\ inits'[x] = inits[x] /\ symcache'[x] = symcache[x]
    BY <1>1, <1>2, <1>3
  <2>5. /\ soList' \in Seq(Modules) /\ ended' # "abort"
        /\ table' \in [Modules -> {"none", "base", "virt"}]
        /\ inits' \in [Modules -> Nat] /\ DOMAIN symcache' = Modules
        /\ UNCHANGED <<slots, lock, asked, handle>> /\ Loading!Done(a)
    BY <1>1, Given
  <2> QED
    BY <1>2, <1>3, <1>5, <2>1, <2>2, <2>3, <2>4, <2>5, ThreadMoves
<1> QED
  BY <1>4, <1>5, Parties

LEMMA RebaseStep ==
  ASSUME LoaderInv, ended = "no", NEW a \in Actors, NEW m \in Modules, Loading!Rebase(a, m)
  PROVE  LoaderInv'
<1>1. /\ Loading!At(a, "rebase", m) /\ table' = [table EXCEPT ![m] = "virt"] /\ Loading!Done(a)
      /\ UNCHANGED <<soList, mapped, inits, symcache, slots, lock, asked, handle, ended>>
  BY DEF Loading!Rebase, Loading!native
<1>2. /\ table' \in [Modules -> {"none", "base", "virt"}] /\ table'[m] = "virt"
      /\ \A x \in Modules \ {m} : table'[x] = table[x]
  BY <1>1, Given
<1>3. (\A x : Listed(x)' <=> Listed(x)) /\ OneEach'
  BY <1>1, SameList, Given
<1>4. CASE a = Boot
  <2>1. todo[Boot] # <<>>
    BY <1>1, <1>4, BootAt
  <2>2. \/ m = Cxx /\ 6 = Len(todo[Boot]) - 1 /\ AtBoot(7)
        \/ m = GameLib /\ 3 = Len(todo[Boot]) - 1 /\ AtBoot(4)
    <3>1. PICK n \in 0..15 :
            /\ n = Len(todo[Boot]) - 1 /\ AtBoot(n + 1)
            /\ (n = 6 /\ m = Cxx) \/ (n = 3 /\ m = GameLib)
      BY <1>1, <1>4, BootAt
    <3>2. n = 6 => n + 1 = 7
      OBVIOUS
    <3>3. n = 3 => n + 1 = 4
      OBVIOUS
    <3> QED
      BY <3>1, <3>2, <3>3
  <2>3. ASSUME NEW x \in Libs PROVE ~Listed(x)' /\ inits'[x] = inits[x] /\ mapped'[x] = mapped[x]
    BY <1>1, <1>3, <2>1, Booting1
  <2>4. \A t \in Threads : asked'[t] = ""
    BY <1>1, <2>1, Booting1
  <2>5. CASE m = Cxx /\ 6 = Len(todo[Boot]) - 1 /\ AtBoot(7)
    <3>1. /\ 7 <= 15 /\ 7 <= 14 /\ 7 >= 7 /\ 7 >= 4 /\ 7 <= 7 /\ ~(7 <= 4)
          /\ 6 <= 15 /\ 6 <= 14 /\ ~(6 >= 7) /\ 6 >= 4 /\ 6 <= 7 /\ ~(6 <= 4)
      OBVIOUS
    <3>2. Listed(Cxx) /\ Listed(GameLib) /\ mapped[Cxx] /\ ~mapped[GameLib] /\ table[GameLib] = "base"
      BY <2>5, <3>1, Zenon DEF AtBoot
    <3>3. /\ Listed(Cxx)' /\ Listed(GameLib)' /\ mapped'[Cxx] /\ ~mapped'[GameLib]
          /\ table'[Cxx] = "virt" /\ table'[GameLib] = "base"
      <4>1. GameLib \in Modules \ {m}
        BY <2>5, Parties
      <4> QED
        BY <1>1, <1>2, <1>3, <2>5, <3>2, <4>1, Zenon
    <3>4. AtBoot(6)'
      BY <2>3, <2>4, <3>1, <3>3, Zenon DEF AtBoot
    <3> QED
      BY <1>1, <1>2, <1>3, <1>4, <2>1, <2>3, <2>5, <3>4, Given, BootMoves
  <2>6. CASE m = GameLib /\ 3 = Len(todo[Boot]) - 1 /\ AtBoot(4)
    <3>1. /\ 4 <= 15 /\ 4 <= 14 /\ ~(4 >= 7) /\ 4 >= 4 /\ 4 <= 7 /\ 4 <= 4
          /\ 3 <= 15 /\ 3 <= 14 /\ ~(3 >= 7) /\ ~(3 >= 4) /\ 3 <= 7 /\ 3 <= 4
      OBVIOUS
    <3>2. Listed(Cxx) /\ Listed(GameLib) /\ mapped[Cxx] /\ mapped[GameLib] /\ table[Cxx] = "virt"
      BY <2>6, <3>1, Zenon DEF AtBoot
    <3>3. /\ Listed(Cxx)' /\ Listed(GameLib)' /\ mapped'[Cxx] /\ mapped'[GameLib]
          /\ table'[Cxx] = "virt" /\ table'[GameLib] = "virt"
      <4>1. Cxx \in Modules \ {m}
        BY <2>6, Parties
      <4> QED
        BY <1>1, <1>2, <1>3, <2>6, <3>2, <4>1, Zenon
    <3>4. AtBoot(3)'
      BY <2>3, <2>4, <3>1, <3>3, Zenon DEF AtBoot
    <3> QED
      BY <1>1, <1>2, <1>3, <1>4, <2>1, <2>3, <2>6, <3>4, Given, BootMoves
  <2> QED
    BY <2>2, <2>5, <2>6
<1>5. CASE a \in Threads
  <2>1. PICK n \in 0..9 : n = 3 /\ n = Len(todo[a]) - 1 /\ Halfway(m, n + 1)
    <3>1. PICK n \in 0..9 : n = 3 /\ n = Len(todo[a]) - 1 /\ (n \in 0..7 => Halfway(m, n + 1))
      BY <1>1, <1>5, ThreadAt
    <3> QED
      BY <3>1
  <2>2. todo[a] # <<>> /\ m = asked[a] /\ n \in 1..8
    BY <1>1, <1>5, <2>1, ThreadAt
  <2>3. Halfway(m, n)'
    <3>1. /\ n + 1 <= 4 /\ ~(n + 1 <= 1) /\ n + 1 <= 5
          /\ ~(n >= 4) /\ n <= 4 /\ ~(n <= 1) /\ n <= 5
      BY <2>1
    <3> QED
      BY <1>1, <1>2, <1>3, <2>1, <3>1, Zenon DEF Halfway
  <2>4. ASSUME NEW x \in Modules \ {m}
        PROVE  /\ Listed(x)' <=> Listed(x)
               /\ table'[x] = table[x] /\ mapped'[x] = mapped[x]
               /\ inits'[x] = inits[x] /\ symcache'[x] = symcache[x]
    BY <1>1, <1>2, <1>3
  <2>5. /\ soList' \in Seq(Modules) /\ ended' # "abort" /\ mapped' \in [Modules -> BOOLEAN]
        /\ inits' \in [Modules -> Nat] /\ DOMAIN symcache' = Modules
        /\ UNCHANGED <<slots, lock, asked, handle>> /\ Loading!Done(a)
    BY <1>1, Given
  <2> QED
    BY <1>2, <1>3, <1>5, <2>1, <2>2, <2>3, <2>4, <2>5, ThreadMoves
<1> QED
  BY <1>4, <1>5, Parties

\* A step of the boot other than these keeps what the invariant is about.
LEMMA BootQuiet ==
  ASSUME LoaderInv, NEW step, NEW m, Loading!At(Boot, step, m),
         step \notin {"load", "map", "rebase"}
  PROVE  todo[Boot] # <<>> /\ Len(todo[Boot]) \in {14, 13, 12, 11, 10, 9, 6, 3, 2, 1}
<1>1. todo[Boot] # <<>>
  BY BootAt
<1>2. PICK n \in 0..15 : Len(todo[Boot]) = n + 1 /\ n + 1 \in {14, 13, 12, 11, 10, 9, 6, 3, 2, 1}
  BY BootAt
<1> QED
  BY <1>1, <1>2

LEMMA RelocateStep ==
  ASSUME LoaderInv, ended = "no", NEW a \in Actors, NEW m \in Modules,
         Loading!Relocate(a, m) \/ Loading!Permit(a, m)
  PROVE  LoaderInv'
<1>1. /\ Loading!At(a, "relocate", m) \/ Loading!At(a, "permit", m)
      /\ Loading!Done(a)
      /\ UNCHANGED <<soList, table, mapped, inits, symcache, slots, lock, asked, handle, ended>>
  BY DEF Loading!Relocate, Loading!Permit, Loading!native
<1>2. CASE a = Boot
  <2>1. todo[Boot] # <<>> /\ Len(todo[Boot]) \in {14, 13, 12, 11, 10, 9, 6, 3, 2, 1}
    BY <1>1, <1>2, BootQuiet
  <2> QED
    BY <1>1, <1>2, <2>1, Given, BootOnlyReads
<1>3. CASE a \in Threads
  <2>1. todo[a] # <<>> /\ Len(todo[a]) \in {8, 7, 3}
    <3>1. CASE Loading!At(a, "relocate", m)
      BY <1>3, <3>1, ThreadAt
    <3>2. CASE Loading!At(a, "permit", m)
      BY <1>3, <3>2, ThreadAt
    <3> QED
      BY <1>1, <3>1, <3>2
  <2> QED
    BY <1>1, <1>3, <2>1, ThreadOnlyReads
<1> QED
  BY <1>2, <1>3, Parties

LEMMA InitStep ==
  ASSUME LoaderInv, ended = "no", NEW a \in Actors, NEW m \in Modules, Loading!InitArray(a, m)
  PROVE  LoaderInv'
<1>1. /\ Loading!At(a, "init", m) /\ inits' = [inits EXCEPT ![m] = @ + 1] /\ Loading!Done(a)
      /\ UNCHANGED <<soList, table, mapped, symcache, slots, lock, asked, handle, ended>>
  BY DEF Loading!InitArray, Loading!native
<1>2. /\ inits' \in [Modules -> Nat] /\ inits'[m] = inits[m] + 1
      /\ \A x \in Modules \ {m} : inits'[x] = inits[x]
  BY <1>1, Given
<1>3. (\A x : Listed(x)' <=> Listed(x)) /\ OneEach'
  BY <1>1, SameList, Given
<1>4. CASE a = Boot
  <2>1. todo[Boot] # <<>> /\ Len(todo[Boot]) \in {14, 13, 12, 11, 10, 9, 6, 3, 2, 1}
    BY <1>1, <1>4, BootQuiet
  <2>2. m \in {Cxx, GameLib}
    BY <1>1, <1>4, BootAt
  <2>3. \A x \in Libs : inits'[x] = inits[x]
    BY <1>2, <2>2, Parties
  <2> QED
    BY <1>1, <1>2, <1>4, <2>1, <2>3, Given, BootOnlyReads
<1>5. CASE a \in Threads
  <2>1. PICK n \in 0..9 : n = 1 /\ n = Len(todo[a]) - 1 /\ Halfway(m, n + 1)
    <3>1. PICK n \in 0..9 : n = 1 /\ n = Len(todo[a]) - 1 /\ (n \in 0..7 => Halfway(m, n + 1))
      BY <1>1, <1>5, ThreadAt
    <3> QED
      BY <3>1
  <2>2. todo[a] # <<>> /\ m = asked[a] /\ n \in 1..8
    BY <1>1, <1>5, <2>1, ThreadAt
  <2>3. Halfway(m, n)'
    <3>1. /\ ~(n + 1 >= 4) /\ n + 1 <= 4 /\ ~(n + 1 <= 1) /\ n + 1 <= 5
          /\ ~(n >= 4) /\ n <= 4 /\ n <= 1 /\ n <= 5
      BY <2>1
    <3>2. inits'[m] = 1
      <4>1. inits[m] = 0
        BY <2>1, <3>1, Zenon DEF Halfway
      <4> QED
        BY <1>2, <4>1
    <3> QED
      BY <1>1, <1>3, <2>1, <3>1, <3>2, Zenon DEF Halfway
  <2>4. ASSUME NEW x \in Modules \ {m}
        PROVE  /\ Listed(x)' <=> Listed(x)
               /\ table'[x] = table[x] /\ mapped'[x] = mapped[x]
               /\ inits'[x] = inits[x] /\ symcache'[x] = symcache[x]
    BY <1>1, <1>2, <1>3
  <2>5. /\ soList' \in Seq(Modules) /\ ended' # "abort" /\ mapped' \in [Modules -> BOOLEAN]
        /\ table' \in [Modules -> {"none", "base", "virt"}] /\ DOMAIN symcache' = Modules
        /\ UNCHANGED <<slots, lock, asked, handle>> /\ Loading!Done(a)
    BY <1>1, Given
  <2> QED
    BY <1>2, <1>3, <1>5, <2>1, <2>2, <2>3, <2>4, <2>5, ThreadMoves
<1> QED
  BY <1>4, <1>5, Parties

\* Who resolves its symbols reads the tables of the others.
LEMMA WalkedListed ==
  ASSUME NEW m, NEW x \in UNION {Loading!Walked(m, s) : s \in DOMAIN got[m]}
  PROVE  Listed(x) /\ x # m
  BY DEF Loading!Walked, Listed

LEMMA ReadWell ==
  ASSUME ended = "no", NEW S, Loading!Read(S), \A x \in S : Loading!Readable(x)
  PROVE  ended' = "no"
  BY DEF Loading!Read

LEMMA ResolveStep ==
  ASSUME LoaderInv, ended = "no", NEW a \in Actors, NEW m \in Modules, Loading!Resolve(a, m)
  PROVE  LoaderInv'
<1> DEFINE S == UNION {Loading!Walked(m, s) : s \in DOMAIN got[m]}
<1>1. /\ Loading!At(a, "resolve", m) /\ Loading!Read(S) /\ Loading!Done(a)
      /\ UNCHANGED <<soList, table, mapped, inits, symcache, slots, lock, asked, handle>>
  BY DEF Loading!Resolve, Loading!native
<1>2. \A x \in S : Listed(x) /\ x # m
  BY WalkedListed
<1> HIDE DEF S
<1>3. \A x : Listed(x) => x \in Modules
  BY Given DEF Listed
<1>4. CASE a = Boot
  <2>1. todo[Boot] # <<>> /\ Len(todo[Boot]) \in {12, 10}
    <3>1. todo[Boot] # <<>>
      BY <1>1, <1>4, BootAt
    <3>2. PICK n \in 0..15 : Len(todo[Boot]) = n + 1 /\ (n = 11 \/ n = 9)
      BY <1>1, <1>4, BootAt
    <3> QED
      BY <3>1, <3>2
  <2>2. \A t \in Threads : todo[t] = <<>>
    BY <2>1, Booting1
  <2>3. Len(todo[Boot]) >= 8
    <3>1. 12 >= 8 /\ 10 >= 8
      OBVIOUS
    <3> QED
      BY <2>1, <3>1, Zenon
  <2>4. \A x \in S : Loading!Readable(x)
    BY <1>2, <1>3, <2>2, <2>3, ListedReadable
  <2>5. ended' = "no"
    BY <1>1, <2>4, ReadWell
  <2> QED
    BY <1>1, <1>4, <2>1, <2>5, Given, BootOnlyReads
<1>5. CASE a \in Threads
  <2>1. todo[a] # <<>> /\ m = asked[a] /\ Len(todo[a]) \in {8, 7, 3}
    BY <1>1, <1>5, ThreadAt
  <2>2. \A t \in Threads : todo[t] # <<>> => t = a
    BY <1>5, <2>1, Given
  <2>3. Len(todo[Boot]) = 0
    <3>1. todo[Boot] = <<>>
      BY <1>5, <2>1, Given
    <3> QED
      BY <3>1
  <2>4. \A x \in S : Loading!Readable(x)
    BY <1>2, <1>3, <2>1, <2>2, <2>3, ListedReadable
  <2>5. ended' = "no"
    BY <1>1, <2>4, ReadWell
  <2> QED
    BY <1>1, <1>5, <2>1, <2>5, ThreadOnlyReads
<1> QED
  BY <1>4, <1>5, Parties

LEMMA CacheStep ==
  ASSUME LoaderInv, ended = "no", NEW a \in Actors, NEW m \in Modules, Loading!Cache(a, m)
  PROVE  LoaderInv'
<1>1. /\ Loading!At(a, "cache", m) /\ Loading!Read({m}) /\ Loading!Done(a)
      /\ symcache' = [symcache EXCEPT ![m] = Wanted \cap Loading!Names(m)]
      /\ UNCHANGED <<soList, table, mapped, inits, slots, lock, asked, handle>>
  BY DEF Loading!Cache, Loading!image, Loading!native
<1>2. /\ DOMAIN symcache' = Modules /\ symcache'[m] = Wanted \cap Loading!Names(m)
      /\ \A x \in Modules \ {m} : symcache'[x] = symcache[x]
  BY <1>1, Given
<1>3. (\A x : Listed(x)' <=> Listed(x)) /\ OneEach'
  BY <1>1, SameList, Given
<1>4. CASE a = Boot
  <2>1. todo[Boot] # <<>> /\ Len(todo[Boot]) = 9 /\ m = GameLib /\ AtBoot(9)
    <3>1. todo[Boot] # <<>>
      BY <1>1, <1>4, BootAt
    <3>2. PICK n \in 0..15 : Len(todo[Boot]) = n + 1 /\ n = 8 /\ m = GameLib /\ AtBoot(n + 1)
      BY <1>1, <1>4, BootAt
    <3>3. n + 1 = 9
      BY <3>2
    <3> QED
      BY <3>1, <3>2, <3>3
  <2>2. 9 <= 15 /\ 9 <= 14 /\ 9 >= 8
    OBVIOUS
  <2>3. Listed(GameLib)
    BY <2>1, <2>2, Zenon DEF AtBoot
  <2>4. \A t \in Threads : todo[t] = <<>>
    BY <2>1, Booting1
  <2>5. \A x \in {m} : Loading!Readable(x)
    BY <2>1, <2>2, <2>3, <2>4, ListedReadable
  <2>6. ended' = "no"
    BY <1>1, <2>5, ReadWell
  <2> QED
    BY <1>1, <1>2, <1>4, <2>1, <2>6, Given, BootOnlyReads
<1>5. CASE a \in Threads
  <2>1. PICK n \in 0..9 : n = 5 /\ n = Len(todo[a]) - 1 /\ Halfway(m, n + 1)
    <3>1. PICK n \in 0..9 : n = 5 /\ n = Len(todo[a]) - 1 /\ (n \in 0..7 => Halfway(m, n + 1))
      BY <1>1, <1>5, ThreadAt
    <3> QED
      BY <3>1
  <2>2. todo[a] # <<>> /\ m = asked[a] /\ n \in 1..8
    BY <1>1, <1>5, <2>1, ThreadAt
  <2>3. /\ n + 1 >= 4 /\ ~(n + 1 <= 4) /\ ~(n + 1 <= 1)
        /\ n >= 4 /\ ~(n <= 4) /\ ~(n <= 1)
    BY <2>1
  <2>4. Halfway(m, n)'
    BY <1>1, <1>2, <1>3, <2>1, <2>3, Zenon DEF Halfway
  <2>5. Loading!Readable(m)
    <3>1. table[m] = "base" /\ ~mapped[m]
      BY <2>1, <2>3, Zenon DEF Halfway
    <3> QED
      BY <3>1 DEF Loading!Readable
  <2>6. ended' = "no"
    BY <1>1, <2>5, ReadWell
  <2>7. ASSUME NEW x \in Modules \ {m}
        PROVE  /\ Listed(x)' <=> Listed(x)
               /\ table'[x] = table[x] /\ mapped'[x] = mapped[x]
               /\ inits'[x] = inits[x] /\ symcache'[x] = symcache[x]
    BY <1>1, <1>2, <1>3
  <2>8. /\ soList' \in Seq(Modules) /\ ended' # "abort" /\ mapped' \in [Modules -> BOOLEAN]
        /\ table' \in [Modules -> {"none", "base", "virt"}] /\ inits' \in [Modules -> Nat]
        /\ UNCHANGED <<slots, lock, asked, handle>> /\ Loading!Done(a)
    BY <1>1, <2>6, Given
  <2> QED
    BY <1>2, <1>3, <1>5, <2>1, <2>2, <2>4, <2>7, <2>8, ThreadMoves
<1> QED
  BY <1>4, <1>5, Parties

LEMMA RegionStep ==
  ASSUME LoaderInv, ended = "no", Loading!SetRegion
  PROVE  LoaderInv'
<1>1. /\ Loading!At(Boot, "region", GameLib) /\ Loading!Done(Boot)
      /\ UNCHANGED <<soList, table, mapped, inits, symcache, slots, lock, asked, handle, ended>>
  BY Parties DEF Loading!SetRegion, Loading!image
<1>2. todo[Boot] # <<>> /\ Len(todo[Boot]) \in {14, 13, 12, 11, 10, 9, 6, 3, 2, 1}
  BY <1>1, BootQuiet
<1> QED
  BY <1>1, <1>2, Given, BootOnlyReads

\* The variables the invariant is about.
LEMMA SameInv ==
  ASSUME LoaderInv, ended' # "abort",
         UNCHANGED <<todo, soList, table, mapped, inits, symcache, slots, lock, asked, handle>>
  PROVE  LoaderInv'
<1>1. LoaderTypes' /\ OneEach'
  BY DEF LoaderInv, LoaderTypes, OneEach
<1>2. BootRight'
  BY DEF LoaderInv, BootRight, AtBoot, Listed, RestOf
<1>3. ASSUME NEW t \in Threads PROVE Opening(t)' /\ Under(t)'
  <2>1. Opening(t)'
    BY DEF LoaderInv, Opening, RestOf
  <2>2. Under(t)'
    BY DEF LoaderInv, Under, Halfway, Listed, Loading!SlotOf
  <2> QED
    BY <2>1, <2>2
<1>4. ASSUME NEW m \in Libs PROVE LibRight(m)'
  BY DEF LoaderInv, LibRight, Halfway, Listed, Kept
<1> QED
  BY <1>1, <1>2, <1>3, <1>4 DEF LoaderInv

----------------------------------------------------------------------------
(* native_modules.c.                                                       *)

Less == {ss \in Nat \X Nat : ss[1] < ss[2]}

LEMMA LessIsWellFounded == IsWellFoundedOn(Less, Nat)
  BY NatLessThanWellFounded DEF OpToRel, Less

LEMMA FirstOf ==
  ASSUME NEW S, S \subseteq 1..MaxNative, S # {}
  PROVE  Loading!First(S) \in S
<1>1. S \subseteq Nat
  BY DEF LoaderAssumption
<1>2. PICK i \in S : \A j \in S : ~(<<j, i>> \in Less)
  BY <1>1, LessIsWellFounded, WFMin
<1>3. \A k, l \in Nat : k < l => <<k, l>> \in Less
  BY DEF Less
<1>4. ASSUME NEW j \in S PROVE i <= j
  <2>1. i \in Nat /\ j \in Nat
    BY <1>1
  <2>2. ~(j < i)
    BY <1>2, <1>3, <2>1, Zenon
  <2> QED
    BY <2>1, <2>2
<1> QED
  BY <1>4 DEF Loading!First

\* The boot is over for good.
LEMMA BootStaysOver ==
  ASSUME LoaderInv, todo[Boot] = <<>>, todo'[Boot] = <<>>,
         UNCHANGED <<soList, table, mapped>>
  PROVE  BootRight'
<1>1. Len(todo[Boot]) = 0 /\ Len(todo'[Boot]) = 0
  OBVIOUS
<1>2. AtBoot(0)
  BY <1>1 DEF LoaderInv, BootRight
<1>3. ~(0 > 0) /\ (\A x : Listed(x)' <=> Listed(x))
  BY SameList
<1>4. AtBoot(0)'
  BY <1>2, <1>3, Zenon DEF AtBoot
<1>5. RestOf(todo[Boot], Loading!BootProgram)'
  BY Programs DEF RestOf
<1>6. AtBoot(Len(todo[Boot]))'
  BY <1>1, <1>4 DEF AtBoot
<1> QED
  BY <1>5, <1>6 DEF BootRight

LEMMA DlopenStep ==
  ASSUME LoaderInv, NEW t \in Threads, NEW m \in Libs, Loading!Dlopen(t, m)
  PROVE  LoaderInv'
<1>1. /\ todo[Boot] = <<>> /\ todo[t] = <<>> /\ asked' = [asked EXCEPT ![t] = m]
      /\ UNCHANGED <<todo, soList, table, mapped, inits, symcache, slots, lock, handle, ended>>
  BY Parties DEF Loading!Dlopen, Loading!Booted, Loading!image
<1>2. asked' \in [Threads -> Libs \cup {""}] /\ \A u \in Threads \ {t} : asked'[u] = asked[u]
  BY <1>1 DEF LoaderInv, LoaderTypes
<1>3. LoaderTypes' /\ OneEach'
  BY <1>1, <1>2 DEF LoaderInv, LoaderTypes, OneEach
<1>4. BootRight'
  BY <1>1, BootStaysOver
<1>5. ASSUME NEW u \in Threads PROVE Opening(u)' /\ Under(u)'
  <2>1. CASE u = t
    <3>1. todo'[t] = <<>> /\ lock' # t
      BY <1>1 DEF LoaderInv, Opening
    <3> QED
      BY <2>1, <3>1 DEF Opening, Under
  <2>2. CASE u # t
    <3>1. Opening(u)'
      BY <1>1, <1>2, <2>2 DEF LoaderInv, Opening, RestOf
    <3>2. PICK l : l = asked[u] /\ asked'[u] = l
      BY <1>2, <2>2
    <3>3. /\ \A n : Halfway(l, n)' <=> Halfway(l, n)
          /\ Loading!SlotOf(l)' = Loading!SlotOf(l)
      BY <1>1 DEF Halfway, Listed, Loading!SlotOf
    <3>4. Under(u) /\ todo'[u] = todo[u] /\ slots' = slots
      BY <1>1 DEF LoaderInv
    <3>5. Under(u)'
      BY <3>2, <3>3, <3>4 DEF Under
    <3> QED
      BY <3>1, <3>5
  <2> QED
    BY <2>1, <2>2
<1>6. ASSUME NEW x \in Libs PROVE LibRight(x)'
  <2>1. ASSUME NEW u \in Threads, asked[u] = x, Len(todo[u]) \in 1..8
        PROVE  asked'[u] = x /\ Len(todo'[u]) \in 1..8
    <3>1. u # t
      BY <1>1, <2>1, NothingLeft, Zenon
    <3> QED
      BY <1>1, <1>2, <2>1, <3>1
  <2>2. /\ Kept(x)' <=> Kept(x)
        /\ Listed(x)' <=> Listed(x)
        /\ Halfway(x, 0) => Halfway(x, 0)'
    BY <1>1 DEF Kept, Listed, Halfway
  <2>3. Listed(x)' => Kept(x)' \/ \E u \in Threads : asked'[u] = x /\ Len(todo'[u]) \in 1..8
    BY <2>1, <2>2 DEF LoaderInv, LibRight
  <2>4. LibRight(x)
    BY DEF LoaderInv
  <2> QED
    BY <1>1, <2>2, <2>3, <2>4 DEF LibRight
<1> QED
  BY <1>1, <1>3, <1>4, <1>5, <1>6 DEF LoaderInv

LEMMA LockStep ==
  ASSUME LoaderInv, NEW t \in Threads, Loading!Lock(t), ended = "no"
  PROVE  LoaderInv'
<1>1. /\ asked[t] # "" /\ todo[t] = <<>> /\ lock = "free" /\ lock' = t
      /\ todo' = [todo EXCEPT ![t] = Loading!NativeProgram(asked[t])]
      /\ UNCHANGED <<soList, table, mapped, inits, symcache, slots, asked, handle, ended>>
  BY DEF Loading!Lock, Loading!image
<1>2. PICK l \in Libs : l = asked[t]
  BY <1>1 DEF LoaderInv, LoaderTypes
<1>3. /\ Loading!NativeProgram(l) \in Seq(Tasks) /\ Len(Loading!NativeProgram(l)) = 10
      /\ RestOf(Loading!NativeProgram(l), Loading!NativeProgram(l))
  BY Programs, WholeProgram
<1>4. todo[Boot] = <<>>
  BY <1>1, Booting1
<1>5. /\ todo' \in [Actors -> Seq(Tasks)] /\ todo'[t] = Loading!NativeProgram(l)
      /\ \A a \in Actors \ {t} : todo'[a] = todo[a]
  BY <1>1, <1>2, <1>3, Parties DEF LoaderInv, LoaderTypes
<1>6. Len(todo'[t]) = 10 /\ todo'[t] # <<>>
  <2>1. Len(Loading!NativeProgram(l)) \in 1..16
    BY <1>3
  <2>2. Loading!NativeProgram(l) # <<>>
    BY <2>1, Going
  <2> QED
    BY <1>3, <1>5, <2>2
<1>7. LoaderTypes' /\ OneEach'
  BY <1>1, <1>5 DEF LoaderInv, LoaderTypes, OneEach
<1>8. BootRight'
  <2>1. todo'[Boot] = <<>>
    BY <1>4, <1>5, Parties
  <2> QED
    BY <1>1, <1>4, <2>1, BootStaysOver
<1>9. \A u \in Threads : todo[u] = <<>>
  BY <1>1, Parties DEF LoaderInv, Opening
<1>10. ASSUME NEW u \in Threads PROVE Opening(u)' /\ Under(u)'
  <2>1. CASE u = t
    <3>1. RestOf(todo[t], Loading!NativeProgram(asked[t]))'
      BY <1>1, <1>2, <1>3, <1>5 DEF RestOf
    <3>2. Opening(t)'
      BY <1>1, <1>2, <1>6, <3>1 DEF Opening
    <3>3. 10 \notin 1..9 /\ 10 \notin 1..8
      OBVIOUS
    <3>4. Under(t)'
      BY <1>6, <3>3, Zenon DEF Under
    <3> QED
      BY <2>1, <3>2, <3>4
  <2>2. CASE u # t
    <3>1. todo'[u] = <<>> /\ lock' # u
      BY <1>1, <1>5, <1>9, <2>2, Parties
    <3> QED
      BY <3>1 DEF Opening, Under
  <2> QED
    BY <2>1, <2>2
<1>11. ASSUME NEW x \in Libs PROVE LibRight(x)'
  <2>1. ASSUME NEW u \in Threads, Len(todo[u]) \in 1..8 PROVE FALSE
    BY <1>9, <2>1, NothingLeft, Zenon
  <2>2. /\ Kept(x)' <=> Kept(x)
        /\ Listed(x)' <=> Listed(x)
        /\ Halfway(x, 0) => Halfway(x, 0)'
    BY <1>1 DEF Kept, Listed, Halfway
  <2>3. LibRight(x)
    BY DEF LoaderInv
  <2>4. Listed(x)' => Kept(x)'
    BY <2>1, <2>2, <2>3 DEF LibRight
  <2> QED
    BY <1>1, <2>2, <2>3, <2>4 DEF LibRight
<1> QED
  BY <1>1, <1>7, <1>8, <1>10, <1>11 DEF LoaderInv

\* What a return from native_module_open must leave.
LEMMA AnswerMoves ==
  ASSUME LoaderInv, NEW t \in Threads, todo[t] # <<>>, NEW l, l = asked[t],
         NEW h, Loading!Answer(t, l, h),
         slots' \in [1..MaxNative -> [name : Libs \cup {""}, state : {-1, 0, 1}]],
         \A m \in Libs \ {l} : Kept(m)' <=> Kept(m),
         Kept(l)' => Halfway(l, 0), Listed(l) => Kept(l)', h = l => Kept(l)',
         UNCHANGED <<soList, table, mapped, inits, symcache>>, ended' # "abort"
  PROVE  LoaderInv'
<1>1. l \in Libs /\ lock = t /\ todo[Boot] = <<>>
  BY Given DEF LoaderInv, Opening
<1>2. /\ handle' = [handle EXCEPT ![l] = h] /\ asked' = [asked EXCEPT ![t] = ""]
      /\ lock' = "free" /\ todo' = [todo EXCEPT ![t] = <<>>]
  BY DEF Loading!Answer
<1>3. \A u \in Threads \ {t} : todo[u] = <<>>
  BY Given
<1>4. /\ todo' \in [Actors -> Seq(Tasks)] /\ todo'[Boot] = <<>>
      /\ \A u \in Threads : todo'[u] = <<>>
  BY <1>1, <1>2, <1>3, Parties DEF LoaderInv, LoaderTypes
<1>5. LoaderTypes' /\ OneEach'
  BY <1>2, <1>4 DEF LoaderInv, LoaderTypes, OneEach
<1>6. BootRight'
  BY <1>1, <1>4, BootStaysOver
<1>7. ASSUME NEW u \in Threads PROVE Opening(u)' /\ Under(u)'
  <2>1. todo'[u] = <<>> /\ lock' # u
    BY <1>2, <1>4, Parties
  <2>2. Under(u)'
    BY <2>1, NothingLeft, Zenon DEF Under
  <2> QED
    BY <2>1, <2>2 DEF Opening
<1>8. ASSUME NEW x \in Libs PROVE LibRight(x)'
  <2>1. /\ Listed(x)' <=> Listed(x)
        /\ Halfway(x, 0)' <=> Halfway(x, 0)
    BY DEF Listed, Halfway
  <2>2. LibRight(x)
    BY DEF LoaderInv
  <2>3. ASSUME x # l, NEW u \in Threads, asked[u] = x, Len(todo[u]) \in 1..8 PROVE FALSE
    <3>1. todo[u] = <<>>
      BY <1>3, <2>3
    <3> QED
      BY <2>3, <3>1, NothingLeft, Zenon
  <2>4. Kept(x)' => Halfway(x, 0)
    BY <2>2 DEF LibRight
  <2>5. Listed(x) => Kept(x)'
    BY <2>2, <2>3 DEF LibRight
  <2>6. handle'[x] = x => Kept(x)'
    <3>1. handle'[x] = IF x = l THEN h ELSE handle[x]
      BY <1>1, <1>2, Parties DEF LoaderInv, LoaderTypes
    <3> QED
      BY <2>2, <3>1 DEF LibRight
  <2> QED
    BY <2>1, <2>2, <2>4, <2>5, <2>6 DEF LibRight
<1> QED
  BY <1>5, <1>6, <1>7, <1>8 DEF LoaderInv

\* Nothing of a module is left before it is loaded.
LEMMA NotListedYet ==
  ASSUME LoaderInv, NEW t \in Threads, Len(todo[t]) \in {9, 10}, todo[t] # <<>>,
         Listed(asked[t])
  PROVE  Kept(asked[t])
<1>1. asked[t] \in Libs
  BY DEF LoaderInv, Opening
<1>2. ASSUME NEW u \in Threads, asked[u] = asked[t], Len(todo[u]) \in 1..8 PROVE FALSE
  <2>1. todo[u] # <<>>
    <3>1. Len(todo[u]) \in 1..16
      BY <1>2
    <3> QED
      BY <3>1, Going
  <2>2. u = t
    BY <2>1, Given
  <2>3. 9 \notin 1..8 /\ 10 \notin 1..8
    OBVIOUS
  <2> QED
    BY <1>2, <2>2, <2>3
<1> QED
  BY <1>1, <1>2 DEF LoaderInv, LibRight

\* A thread at the start of the program.
LEMMA FindAt ==
  ASSUME LoaderInv, NEW t \in Threads, NEW m, Loading!At(t, "find", m)
  PROVE  todo[t] # <<>> /\ m = asked[t] /\ m \in Libs /\ Len(todo[t]) = 10
  BY ThreadAt

LEMMA SlotTypes ==
  ASSUME LoaderInv
  PROVE  /\ slots \in [1..MaxNative -> [name : Libs \cup {""}, state : {-1, 0, 1}]]
         /\ \A m : Kept(m) <=> \E i \in Loading!SlotOf(m) : slots[i].state = 1
<1>1. slots \in [1..MaxNative -> [name : Libs \cup {""}, state : {-1, 0, 1}]]
  BY DEF LoaderInv, LoaderTypes
<1>2. ASSUME NEW m PROVE Kept(m) <=> \E i \in Loading!SlotOf(m) : slots[i].state = 1
  <2>1. \A i : i \in Loading!SlotOf(m) <=> i \in 1..MaxNative /\ slots[i].state # 0 /\ slots[i].name = m
    BY <1>1 DEF Loading!SlotOf
  <2>2. \A i : slots[i].state = 1 => slots[i].state # 0
    OBVIOUS
  <2> QED
    BY <2>1, <2>2, Zenon DEF Kept
<1> QED
  BY <1>1, <1>2

LEMMA FoundStep ==
  ASSUME LoaderInv, ended = "no", NEW t \in Threads, NEW m \in Libs,
         Loading!FoundOld(t, m) \/ Loading!NoRoom(t, m)
  PROVE  LoaderInv'
<1>1. PICK h : /\ Loading!At(t, "find", m) /\ Loading!Answer(t, m, h)
               /\ h = m => Kept(m)
               /\ UNCHANGED <<soList, table, mapped, inits, symcache, slots, ended>>
  <2>1. CASE Loading!FoundOld(t, m)
    BY <2>1, SlotTypes, Parties DEF Loading!FoundOld, Loading!image
  <2>2. CASE Loading!NoRoom(t, m)
    BY <2>2, Parties DEF Loading!NoRoom, Loading!image
  <2> QED
    BY <2>1, <2>2
<1>2. todo[t] # <<>> /\ m = asked[t] /\ Len(todo[t]) \in {9, 10}
  BY <1>1, FindAt
<1>3. \A x : Kept(x)' <=> Kept(x)
  BY <1>1 DEF Kept
<1>4. Kept(m) => Halfway(m, 0)
  BY DEF LoaderInv, LibRight
<1>5. Listed(m) => Kept(m)
  BY <1>2, NotListedYet
<1> QED
  BY <1>1, <1>2, <1>3, <1>4, <1>5, SlotTypes, AnswerMoves

\* A slot that is marked changes nothing for the modules of the other ones.
LEMMA Marked ==
  ASSUME LoaderInv, NEW k \in 1..MaxNative, NEW v \in {-1, 1},
         slots' = [slots EXCEPT ![k].state = v]
  PROVE  /\ slots' \in [1..MaxNative -> [name : Libs \cup {""}, state : {-1, 0, 1}]]
         /\ \A m : m # slots[k].name => (Kept(m)' <=> Kept(m))
         /\ v = 1 => Kept(slots[k].name)'
         /\ v = -1 /\ slots[k].state = 0 => \A m : Kept(m)' <=> Kept(m)
<1>1. /\ slots' \in [1..MaxNative -> [name : Libs \cup {""}, state : {-1, 0, 1}]]
      /\ slots'[k].name = slots[k].name /\ slots'[k].state = v
      /\ \A i \in 1..MaxNative \ {k} : slots'[i] = slots[i]
  BY SlotTypes
<1>2. ASSUME NEW m, m # slots[k].name PROVE Kept(m)' <=> Kept(m)
  BY <1>1, <1>2 DEF Kept
<1>3. v = 1 => Kept(slots[k].name)'
  BY <1>1 DEF Kept
<1>4. ASSUME v = -1, slots[k].state = 0, NEW m PROVE Kept(m)' <=> Kept(m)
  <2>1. slots'[k].state # 1 /\ slots[k].state # 1
    <3>1. -1 # 1 /\ 0 # 1
      OBVIOUS
    <3> QED
      BY <1>1, <1>4, <3>1, Zenon
  <2>2. \A i \in 1..MaxNative : i = k \/ slots'[i] = slots[i]
    BY <1>1
  <2> QED
    BY <2>1, <2>2, Zenon DEF Kept
<1> QED
  BY <1>1, <1>2, <1>3, <1>4

LEMMA FreeSlot ==
  ASSUME LoaderInv, Loading!FreeSlots # {}
  PROVE  /\ Loading!First(Loading!FreeSlots) \in 1..MaxNative
         /\ slots[Loading!First(Loading!FreeSlots)].state = 0
<1>1. \A i : i \in Loading!FreeSlots <=> i \in 1..MaxNative /\ slots[i].state = 0
  BY SlotTypes DEF Loading!FreeSlots
<1>2. Loading!FreeSlots \subseteq 1..MaxNative
  BY <1>1
<1>3. Loading!First(Loading!FreeSlots) \in Loading!FreeSlots
  BY <1>2, FirstOf
<1> QED
  BY <1>1, <1>3

LEMMA FailsStep ==
  ASSUME LoaderInv, ended = "no", NEW t \in Threads, NEW m \in Libs, Loading!NativeFails(t, m)
  PROVE  LoaderInv'
<1> DEFINE k == Loading!First(Loading!FreeSlots)
<1>1. /\ Loading!At(t, "load", m) /\ Loading!Answer(t, m, "bridge")
      /\ slots' = [slots EXCEPT ![k].state = -1]
      /\ UNCHANGED <<soList, table, mapped, inits, symcache, ended>>
  BY DEF Loading!NativeFails, Loading!image
<1>2. todo[t] # <<>> /\ m = asked[t] /\ Len(todo[t]) = 9
  BY <1>1, ThreadAt
<1>3. Loading!FreeSlots # {}
  <2>1. Loading!SlotOf(m) = {} /\ \E i \in 1..MaxNative : slots[i].name = m
    <3>1. 9 \in 1..9
      OBVIOUS
    <3> QED
      BY <1>2, <3>1, Zenon DEF LoaderInv, Under
  <2>2. PICK i \in 1..MaxNative : slots[i].name = m
    BY <2>1
  <2>3. i \in DOMAIN slots
    BY SlotTypes
  <2>4. slots[i].state = 0
    BY <2>1, <2>2, <2>3, Zenon DEF Loading!SlotOf
  <2>5. i \in Loading!FreeSlots
    BY <2>3, <2>4 DEF Loading!FreeSlots
  <2> QED
    BY <2>5
<1>4. k \in 1..MaxNative /\ slots[k].state = 0
  BY <1>3, FreeSlot
<1> HIDE DEF k
<1>5. /\ slots' \in [1..MaxNative -> [name : Libs \cup {""}, state : {-1, 0, 1}]]
      /\ \A x : Kept(x)' <=> Kept(x)
  BY <1>1, <1>4, Marked
<1>6. Kept(m) => Halfway(m, 0)
  BY DEF LoaderInv, LibRight
<1>7. Listed(m) => Kept(m)
  BY <1>2, NotListedYet
<1>8. "bridge" # m
  BY Parties
<1> QED
  BY <1>1, <1>2, <1>5, <1>6, <1>7, <1>8, AnswerMoves

LEMMA KeepStep ==
  ASSUME LoaderInv, ended = "no", NEW t \in Threads, NEW m \in Libs, Loading!Keep(t, m)
  PROVE  LoaderInv'
<1> DEFINE named == {i \in DOMAIN slots : slots[i].name = m}
           k == Loading!First(named)
<1>1. /\ Loading!At(t, "keep", m) /\ Loading!Answer(t, m, m)
      /\ slots' = [slots EXCEPT ![k].state = 1]
      /\ UNCHANGED <<soList, table, mapped, inits, symcache, ended>>
  BY DEF Loading!Keep, Loading!image
<1>2. todo[t] # <<>> /\ m = asked[t] /\ Len(todo[t]) = 1
  BY <1>1, ThreadAt
<1>3. \E i \in 1..MaxNative : slots[i].name = m
  <2>1. 1 \in 1..9
    OBVIOUS
  <2> QED
    BY <1>2, <2>1, Zenon DEF LoaderInv, Under
<1>4. k \in named
  <2>1. named \subseteq 1..MaxNative /\ named # {}
    BY <1>3, SlotTypes
  <2> HIDE DEF named
  <2> QED
    BY <2>1, FirstOf
<1>5. k \in 1..MaxNative /\ slots[k].name = m
  BY <1>4, SlotTypes
<1> HIDE DEF named, k
<1>6. /\ slots' \in [1..MaxNative -> [name : Libs \cup {""}, state : {-1, 0, 1}]]
      /\ \A x : x # m => (Kept(x)' <=> Kept(x))
      /\ Kept(m)'
  BY <1>1, <1>5, Marked
<1>7. Halfway(m, 0)
  <2>1. 1 \in 1..8
    OBVIOUS
  <2>2. Halfway(m, 1)
    BY <1>2, <2>1, Zenon DEF LoaderInv, Under
  <2>3. /\ ~(1 >= 4) /\ 1 <= 4 /\ 1 <= 1 /\ 1 <= 5
        /\ ~(0 >= 4) /\ 0 <= 4 /\ 0 <= 1 /\ 0 <= 5
    OBVIOUS
  <2> QED
    BY <2>2, <2>3, Zenon DEF Halfway
<1> QED
  BY <1>1, <1>2, <1>6, <1>7, AnswerMoves

LEMMA TakeStep ==
  ASSUME LoaderInv, ended = "no", NEW t \in Threads, NEW m \in Libs, Loading!TakeSlot(t, m)
  PROVE  LoaderInv'
<1> DEFINE k == Loading!First(Loading!FreeSlots)
<1>1. /\ Loading!At(t, "find", m) /\ Loading!SlotOf(m) = {} /\ Loading!FreeSlots # {}
      /\ slots' = [slots EXCEPT ![k] = [name |-> m, state |-> 0]] /\ Loading!Done(t)
      /\ UNCHANGED <<soList, table, mapped, inits, symcache, lock, asked, handle, ended>>
  BY DEF Loading!TakeSlot, Loading!image
<1>2. todo[t] # <<>> /\ m = asked[t] /\ Len(todo[t]) = 10
  BY <1>1, FindAt
<1>3. k \in 1..MaxNative /\ slots[k].state = 0
  BY <1>1, FreeSlot
<1> HIDE DEF k
<1>4. /\ slots' \in [1..MaxNative -> [name : Libs \cup {""}, state : {-1, 0, 1}]]
      /\ slots'[k].name = m /\ slots'[k].state = 0
      /\ \A i \in 1..MaxNative : i = k \/ slots'[i] = slots[i]
  BY <1>1, <1>3, SlotTypes
<1>5. ASSUME NEW x PROVE Kept(x)' <=> Kept(x)
  <2>1. 0 # 1
    OBVIOUS
  <2> QED
    BY <1>3, <1>4, <2>1, Zenon DEF Kept
<1>6. Loading!SlotOf(m)' = {}
  <2>1. DOMAIN slots = 1..MaxNative /\ DOMAIN slots' = 1..MaxNative
    BY <1>4, SlotTypes
  <2>2. ASSUME NEW i \in 1..MaxNative, slots'[i].state # 0, slots'[i].name = m PROVE FALSE
    <3>1. i # k /\ slots'[i] = slots[i]
      BY <1>4, <2>2
    <3>2. i \in Loading!SlotOf(m)
      BY <2>1, <2>2, <3>1 DEF Loading!SlotOf
    <3> QED
      BY <1>1, <3>2
  <2> QED
    BY <2>1, <2>2 DEF Loading!SlotOf
<1>7. /\ t \in Actors /\ t # Boot /\ LoaderTypes
  BY Parties DEF LoaderInv
<1>8. /\ todo' \in [Actors -> Seq(Tasks)]
      /\ todo'[t] = Tail(todo[t]) /\ Len(todo'[t]) = 9
      /\ \A a \in Actors \ {t} : todo'[a] = todo[a]
  <2>1. /\ todo' \in [Actors -> Seq(Tasks)]
        /\ todo'[t] = Tail(todo[t]) /\ Len(todo'[t]) = Len(todo[t]) - 1
        /\ \A a \in Actors \ {t} : todo'[a] = todo[a]
    BY <1>1, <1>2, <1>7, DoneWith
  <2>2. Len(todo[t]) - 1 = 9
    BY <1>2
  <2> QED
    BY <2>1, <2>2
<1>9. todo[Boot] = <<>> /\ todo'[Boot] = <<>>
  BY <1>2, <1>7, <1>8, Given, Parties
<1>10. LoaderTypes' /\ OneEach'
  BY <1>1, <1>4, <1>8 DEF LoaderInv, LoaderTypes, OneEach
<1>11. BootRight'
  BY <1>1, <1>9, BootStaysOver
<1>12. todo'[t] # <<>>
  <2>1. Len(todo'[t]) \in 1..16
    BY <1>8
  <2> QED
    BY <2>1, Going
<1>13. ASSUME NEW u \in Threads PROVE Opening(u)' /\ Under(u)'
  <2>1. CASE u # t
    <3>1. todo'[u] = <<>> /\ lock' # u
      BY <1>1, <1>2, <1>7, <1>8, <2>1, Given, Parties DEF LoaderInv, Opening
    <3> QED
      BY <3>1, NothingLeft DEF Opening, Under
  <2>2. CASE u = t
    <3>1. RestOf(todo[t], Loading!NativeProgram(asked[t])) /\ lock = t
      BY <1>2 DEF LoaderInv, Opening
    <3>2. RestOf(Tail(todo[t]), Loading!NativeProgram(asked[t]))
      BY <1>2, <1>7, <3>1, Programs, Shorter DEF LoaderTypes
    <3>3. RestOf(todo[t], Loading!NativeProgram(asked[t]))'
      BY <1>1, <1>8, <3>2 DEF RestOf, Loading!NativeProgram
    <3>4. Opening(t)'
      BY <1>1, <1>2, <1>12, <3>1, <3>3 DEF Opening
    <3>5. 9 \notin 1..8
      OBVIOUS
    <3>6. \E i \in 1..MaxNative : slots'[i].name = m
      BY <1>3, <1>4
    <3>7. asked'[t] = m
      BY <1>1, <1>2
    <3>8. Under(t)'
      BY <1>6, <1>8, <3>5, <3>6, <3>7, Zenon DEF Under
    <3> QED
      BY <2>2, <3>4, <3>8
  <2> QED
    BY <2>1, <2>2
<1>14. ASSUME NEW x \in Libs PROVE LibRight(x)'
  <2>1. ASSUME NEW u \in Threads, asked[u] = x, Len(todo[u]) \in 1..8 PROVE FALSE
    <3>1. u = t \/ todo[u] = <<>>
      BY <1>2, Given
    <3>2. 10 \notin 1..8
      OBVIOUS
    <3> QED
      BY <1>2, <2>1, <3>1, <3>2, NothingLeft, Zenon
  <2>2. /\ Listed(x)' <=> Listed(x)
        /\ Halfway(x, 0) => Halfway(x, 0)'
    BY <1>1 DEF Listed, Halfway
  <2>3. LibRight(x)
    BY DEF LoaderInv
  <2>4. Listed(x)' => Kept(x)'
    BY <1>5, <2>1, <2>2, <2>3 DEF LibRight
  <2> QED
    BY <1>1, <1>5, <2>2, <2>3, <2>4 DEF LibRight
<1> QED
  BY <1>1, <1>10, <1>11, <1>13, <1>14 DEF LoaderInv

----------------------------------------------------------------------------
(* dlsym_fake, the first state, and the theorem.                           *)

LEMMA DlsymStep ==
  ASSUME LoaderInv, NEW t \in Threads, NEW s \in Asked, Loading!DlsymMain(t, s)
  PROVE  LoaderInv'
<1> DEFINE S == {soList[i] : i \in Loading!Searched(s)}
<1>1. /\ ended = "no" /\ Loading!Read(S) /\ \A a \in Actors : todo[a] = <<>>
      /\ UNCHANGED <<todo, soList, table, mapped, inits, symcache, slots, lock, asked, handle>>
  BY Parties DEF Loading!DlsymMain, Loading!Booted, Loading!Quiet, Loading!image, Loading!native,
                 Actors
<1>2. \A x \in S : Listed(x) /\ x \in Modules
  BY Given DEF Loading!Searched, Listed
<1> HIDE DEF S
<1>3. Len(todo[Boot]) = 0 /\ \A u \in Threads : todo[u] = <<>>
  BY <1>1, Parties, NothingLeft
<1>4. \A x \in S : Loading!Readable(x)
  BY <1>2, <1>3, ListedReadable
<1>5. ended' = "no"
  BY <1>1, <1>4, ReadWell
<1> QED
  BY <1>1, <1>5, SameInv

LEMMA InitLoader == Loading!Init => LoaderInv
<1> SUFFICES ASSUME Loading!Init PROVE LoaderInv
  OBVIOUS
<1>1. /\ todo = [a \in Actors |-> IF a = Boot THEN Loading!BootProgram ELSE <<>>]
      /\ soList = <<>> /\ table = [m \in Modules |-> "none"]
      /\ mapped = [m \in Modules |-> FALSE] /\ inits = [m \in Modules |-> 0]
      /\ symcache = [m \in Modules |-> {}]
      /\ slots = [i \in 1..MaxNative |-> [name |-> "", state |-> 0]]
      /\ lock = "free" /\ asked = [t \in Threads |-> ""]
      /\ handle = [m \in Modules |-> "none"] /\ ended = "no"
  BY Parties DEF Loading!Init, Loading!NoSlot, Actors, Modules
<1>2. todo[Boot] = Loading!BootProgram /\ \A t \in Threads : todo[t] = <<>>
  BY <1>1, Parties
<1>3. soList \in Seq(Modules) /\ DOMAIN soList = {}
  <2>1. <<>> \in Seq(Modules) /\ DOMAIN <<>> = {}
    OBVIOUS
  <2> QED
    BY <1>1, <2>1
<1>4. \A x : ~Listed(x)
  BY <1>3, Zenon DEF Listed
<1>5. \A x : ~Kept(x)
  <2>1. 0 # 1
    OBVIOUS
  <2> QED
    BY <1>1, <2>1 DEF Kept
<1>6. LoaderTypes /\ OneEach
  <2>1. todo \in [Actors -> Seq(Tasks)]
    <3>1. <<>> \in Seq(Tasks)
      OBVIOUS
    <3> QED
      BY <1>1, <3>1, Programs
  <2>2. OneEach
    BY <1>3, Zenon DEF OneEach
  <2>3. slots \in [1..MaxNative -> [name : Libs \cup {""}, state : {-1, 0, 1}]]
    BY <1>1
  <2> QED
    BY <1>1, <1>3, <2>1, <2>2, <2>3 DEF LoaderTypes
<1>7. BootRight
  <2>1. Len(todo[Boot]) = 16 /\ RestOf(todo[Boot], Loading!BootProgram)
    BY <1>2, Programs, WholeProgram
  <2>2. ~(16 <= 15) /\ ~(16 <= 14) /\ ~(16 <= 7) /\ ~(16 <= 4)
    OBVIOUS
  <2>3. ~mapped[Cxx] /\ ~mapped[GameLib] /\ \A t \in Threads : asked[t] = ""
    BY <1>1, Parties
  <2>4. AtBoot(16)
    BY <1>4, <2>2, <2>3, Zenon DEF AtBoot
  <2> QED
    BY <2>1, <2>4 DEF BootRight
<1>8. ASSUME NEW t \in Threads PROVE Opening(t) /\ Under(t)
  <2>1. todo[t] = <<>> /\ lock # t
    BY <1>1, <1>2, Parties
  <2>2. Under(t)
    BY <2>1, NothingLeft, Zenon DEF Under
  <2> QED
    BY <2>1, <2>2 DEF Opening
<1>9. ASSUME NEW m \in Libs PROVE LibRight(m)
  BY <1>1, <1>5, <1>4, Parties DEF LibRight
<1> QED
  BY <1>1, <1>6, <1>7, <1>8, <1>9 DEF LoaderInv

LEMMA NextLoader == LoaderInv /\ [Loading!Next]_Loading!vars => LoaderInv'
<1> SUFFICES ASSUME LoaderInv, [Loading!Next]_Loading!vars PROVE LoaderInv'
  OBVIOUS
<1>0. CASE UNCHANGED Loading!vars
  <2>1. ended' # "abort"
    BY <1>0 DEF Loading!vars, LoaderInv
  <2> QED
    BY <1>0, <2>1, SameInv DEF Loading!vars
<1>1. ASSUME NEW a \in Actors, NEW m \in Modules, ended = "no", Loading!Step(a, m)
      PROVE  LoaderInv'
  BY <1>1, LoadStep, RelocateStep, ResolveStep, CacheStep, MapStep, RebaseStep, InitStep
     DEF Loading!Step
<1>2. ASSUME NEW m, ended = "no", Loading!LoadFails(m) PROVE LoaderInv'
  <2>1. /\ ended' = "fatal"
        /\ UNCHANGED <<todo, soList, table, mapped, inits, symcache, slots, lock, asked, handle>>
    BY <1>2 DEF Loading!LoadFails, Loading!image, Loading!native
  <2> QED
    BY <2>1, SameInv
<1>3. ASSUME NEW t \in Threads, NEW m \in Libs, ended = "no", Loading!Open(t, m)
      PROVE  LoaderInv'
  BY <1>3, FoundStep, TakeStep, FailsStep, KeepStep DEF Loading!Open
<1>4. ASSUME NEW a \in Actors, Loading!Progress(a) PROVE LoaderInv'
  BY <1>1, <1>2, <1>3, <1>4, RegionStep, LockStep, Parties DEF Loading!Progress, Modules
<1> QED
  BY <1>0, <1>4, DlopenStep, DlsymStep DEF Loading!Next, Actors

LEMMA SameCardinality == ASSUME NEW S PROVE Loading!Cardinality(S) = Cardinality(S)
  BY DEF Loading!Cardinality, Cardinality

LEMMA SafeLoader == LoaderInv => HandlesWork
<1> SUFFICES ASSUME LoaderInv PROVE HandlesWork
  OBVIOUS
<1>1. ASSUME NEW m \in Libs, handle[m] = m
      PROVE  /\ inits[m] = 1
             /\ Loading!Cardinality({i \in DOMAIN soList : soList[i] = m}) = 1
             /\ Loading!Readable(m)
             /\ symcache[m] = Wanted \cap Loading!Names(m)
  <2>1. Halfway(m, 0)
    BY <1>1 DEF LoaderInv, LibRight
  <2>2. ~(0 >= 4) /\ 0 <= 4 /\ 0 <= 1 /\ 0 <= 5
    OBVIOUS
  <2>3. /\ Listed(m) /\ table[m] = "virt" /\ mapped[m] /\ inits[m] = 1
        /\ symcache[m] = Wanted \cap Loading!Names(m)
    BY <2>1, <2>2, Zenon DEF Halfway
  <2>4. PICK i \in DOMAIN soList : soList[i] = m
    BY <2>3 DEF Listed
  <2>5. {j \in DOMAIN soList : soList[j] = m} = {i}
    BY <2>4 DEF LoaderInv, OneEach
  <2>6. Loading!Cardinality({j \in DOMAIN soList : soList[j] = m}) = 1
    BY <2>5, FS_Singleton, SameCardinality
  <2> QED
    BY <2>3, <2>6 DEF Loading!Readable
<1>2. ended # "abort"
  BY DEF LoaderInv
<1> QED
  BY <1>1, <1>2 DEF HandlesWork, Loading!HandlesWork

(* What the wrapper's loader promises about native modules: no lookup reads *)
(* a symbol table through memory that so_finalize has taken away, whichever *)
(* threads call dlopen meanwhile, and a handle that was given for a module  *)
(* is one copy of it, initialised once, with its entry points known         *)
(* (native_module_open, so_finalize).                                       *)
THEOREM HandlesAlwaysWork == Loading!Spec => []HandlesWork
  BY InitLoader, NextLoader, SafeLoader, PTL DEF Loading!Spec

----------------------------------------------------------------------------
(* What a module's code runs in.                                           *)

BootLeft == Len(todo[Boot])

\* There are at most b steps left of the boot, or k of a native module's opening.
Over(m, b, k) ==
  IF m \in Libs
  THEN Kept(m) \/ \E t \in Threads : asked[t] = m /\ Len(todo[t]) \in 1..k
  ELSE BootLeft <= b
IsRelocated(m) == Over(m, IF m = Cxx THEN 12 ELSE 10, 7)
IsResolved(m) == Over(m, IF m = Cxx THEN 11 ELSE 9, 6)
IsPermitted(m) == Over(m, IF m = Cxx THEN 5 ELSE 2, 2)

Relocated(m) == \A w \in DOMAIN word[m] : word[m][w] = IF w \in Image[m].pointers THEN 1 ELSE 0
Fresh(m) == \A w \in DOMAIN word[m] : word[m][w] = 0
Permitted(m) == \A p \in DOMAIN perm[m] : (perm[m][p] = "rx") <=> (p \in Image[m].code)

\* What was there for m to bind to.
Earlier(m) ==
  {n \in Modules \ {m} : \E i \in DOMAIN soList :
     soList[i] = n /\ (n \in {Cxx, GameLib} \/ \E j \in DOMAIN soList : soList[j] = m /\ i < j)}
BoundTo(m, s) ==
  \/ got[m][s] = "shim" /\ s \in Imported
  \/ got[m][s] \in Earlier(m) /\ s \in Loading!Exports(got[m][s])
  \/ /\ got[m][s] = IF s \in Image[m].weak THEN "null" ELSE "poison"
     /\ s \notin Imported /\ \A n \in Earlier(m) : s \notin Loading!Exports(n)
Bound(m) == \A s \in DOMAIN got[m] : BoundTo(m, s)

\* The slices are one after the other, and the native modules in the last.
End(m) == base[m] + Image[m].size
Places ==
  /\ base \in [Modules -> Nat] /\ region \in Nat
  /\ \A m \in Modules : base[m] # 0 => Listed(m)
  /\ Listed(Cxx) => base[Cxx] = 1 /\ End(Cxx) <= GameAt
  /\ Listed(GameLib) => base[GameLib] = GameAt /\ End(GameLib) <= NativeAt
  /\ BootLeft <= 13 => NativeAt <= region /\ region <= ReserveEnd
  /\ \A l \in Libs : Kept(l) => NativeAt <= base[l] /\ End(l) <= region
  /\ \A t \in Threads : Len(todo[t]) \in 1..8 => base[asked[t]] = region /\ End(asked[t]) <= ReserveEnd
  /\ \A l, k \in Libs : l # k /\ Kept(l) /\ Kept(k) => End(l) <= base[k] \/ End(k) <= base[l]

Words ==
  /\ DOMAIN word = Modules /\ \A m \in Modules : DOMAIN word[m] = 0..Image[m].size-1
  /\ \A m \in Modules : IF IsRelocated(m) THEN Relocated(m) ELSE Fresh(m)
Perms == DOMAIN perm = Modules /\ \A m \in Modules : IsPermitted(m) => Permitted(m)
Bindings ==
  /\ DOMAIN got = Modules
  /\ \A t \in Threads : Len(todo[t]) \in 1..8 => soList[Len(soList)] = asked[t]
  /\ \A m \in Modules : IsResolved(m) => Bound(m)
Inits ==
  /\ inits[Cxx] > 0 => BootLeft <= 1
  /\ inits[GameLib] > 0 => BootLeft = 0

ImagesInv == Places /\ Words /\ Perms /\ Bindings /\ Inits

----------------------------------------------------------------------------

\* Which step of the boot comes when.
LEMMA BootTask ==
  ASSUME LoaderInv, NEW step, NEW m, Loading!At(Boot, step, m)
  PROVE  \E n \in 0..15 :
           /\ Len(todo[Boot]) = n + 1 /\ n = Len(todo[Boot]) - 1
           /\ Loading!BootProgram[16 - n] = <<step, m>>
<1>1. todo[Boot] \in Seq(Tasks) /\ todo[Boot] # <<>> /\ todo[Boot][1] = <<step, m>>
  BY Parties DEF LoaderInv, LoaderTypes, Loading!At
<1>2. RestOf(todo[Boot], Loading!BootProgram)
  BY DEF LoaderInv, BootRight
<1>3. PICK s : s = todo[Boot]
  OBVIOUS
<1>4. Len(s) \in 1..16 /\ s[1] = Loading!BootProgram[16 + 1 - Len(s)] /\ s[1] = <<step, m>>
  BY <1>1, <1>2, <1>3, Programs, Shorter
<1>5. PICK n \in 0..15 : Len(s) = n + 1 /\ n = Len(s) - 1 /\ 16 + 1 - Len(s) = 16 - n
  <2>1. PICK l \in 1..16 : l = Len(s)
    BY <1>4
  <2>2. l - 1 \in 0..15 /\ l = (l - 1) + 1 /\ 16 + 1 - l = 16 - (l - 1)
    OBVIOUS
  <2>3. QED BY <2>1, <2>2
<1>6. QED BY <1>3, <1>4, <1>5

LEMMA BootTimes ==
  ASSUME LoaderInv, NEW step, NEW m, Loading!At(Boot, step, m)
  PROVE  \E n \in 0..15 :
           /\ Len(todo[Boot]) = n + 1 /\ n = Len(todo[Boot]) - 1
           /\ (step = "relocate" /\ m = Cxx) <=> n = 12
           /\ (step = "relocate" /\ m = GameLib) <=> n = 10
           /\ (step = "resolve" /\ m = Cxx) <=> n = 11
           /\ (step = "resolve" /\ m = GameLib) <=> n = 9
           /\ (step = "permit" /\ m = Cxx) <=> n = 5
           /\ (step = "permit" /\ m = GameLib) <=> n = 2
           /\ step = "region" => n = 13
           /\ n = 13 => step = "region"
           /\ step = "init" /\ m = Cxx => n = 1
           /\ step = "init" /\ m = GameLib => n = 0
           /\ m \in {Cxx, GameLib}
<1>1. PICK n \in 0..15 : /\ Len(todo[Boot]) = n + 1 /\ n = Len(todo[Boot]) - 1
                         /\ Loading!BootProgram[16 - n] = <<step, m>>
  BY BootTask
<1>2. PICK k \in 1..16 : k = 16 - n
  <2>1. 16 - n \in 1..16
    OBVIOUS
  <2>2. QED BY <2>1
<1>3. Loading!BootProgram[k] = <<step, m>>
  BY <1>1, <1>2
<1>4. /\ step = "region" => k = 3
      /\ step = "relocate" => k = 4 \/ k = 6
      /\ step = "resolve" => k = 5 \/ k = 7
      /\ step = "permit" => k = 11 \/ k = 14
      /\ step = "init" => k = 15 \/ k = 16
      /\ m \in {Cxx, GameLib}
  BY <1>3, BootOrder
<1>5. /\ k = 3 => step = "region"
      /\ k = 4 => step = "relocate" /\ m = Cxx
      /\ k = 5 => step = "resolve" /\ m = Cxx
      /\ k = 6 => step = "relocate" /\ m = GameLib
      /\ k = 7 => step = "resolve" /\ m = GameLib
      /\ k = 11 => step = "permit" /\ m = Cxx
      /\ k = 14 => step = "permit" /\ m = GameLib
      /\ k = 15 => m = Cxx
      /\ k = 16 => m = GameLib
  BY <1>3, BootTasks
<1>6. Cxx # GameLib
  BY Parties
<1>7. /\ k = 3 <=> n = 13
      /\ k = 4 <=> n = 12
      /\ k = 5 <=> n = 11
      /\ k = 6 <=> n = 10
      /\ k = 7 <=> n = 9
      /\ k = 11 <=> n = 5
      /\ k = 14 <=> n = 2
      /\ k = 15 <=> n = 1
      /\ k = 16 <=> n = 0
  BY <1>2
<1>8. QED
  <2> WITNESS n \in 0..15
  <2>1. Len(todo[Boot]) = n + 1 /\ n = Len(todo[Boot]) - 1
    BY <1>1
  <2>2. QED BY <2>1, <1>4, <1>5, <1>6, <1>7, Zenon

\* Which step of an opening comes when.
LEMMA ThreadTask ==
  ASSUME LoaderInv, NEW t \in Threads, NEW step, NEW m, Loading!At(t, step, m)
  PROVE  \E n \in 0..9 :
           /\ Len(todo[t]) = n + 1
           /\ Loading!NativeProgram(asked[t])[10 - n] = <<step, m>>
<1>1. todo[t] \in Seq(Tasks) /\ todo[t] # <<>> /\ todo[t][1] = <<step, m>>
  BY Parties DEF LoaderInv, LoaderTypes, Loading!At
<1>2. asked[t] \in Libs /\ RestOf(todo[t], Loading!NativeProgram(asked[t]))
  BY <1>1 DEF LoaderInv, Opening
<1>3. PICK s : s = todo[t]
  OBVIOUS
<1>4. Len(s) \in 1..10 /\ s[1] = Loading!NativeProgram(asked[t])[10 + 1 - Len(s)] /\ s[1] = <<step, m>>
  BY <1>1, <1>2, <1>3, Programs, Shorter
<1>5. PICK n \in 0..9 : Len(s) = n + 1 /\ 10 + 1 - Len(s) = 10 - n
  <2>1. PICK l \in 1..10 : l = Len(s)
    BY <1>4
  <2>2. l - 1 \in 0..9 /\ l = (l - 1) + 1 /\ 10 + 1 - l = 10 - (l - 1)
    OBVIOUS
  <2>3. QED BY <2>1, <2>2
<1>6. QED BY <1>3, <1>4, <1>5

LEMMA ThreadTimes ==
  ASSUME LoaderInv, NEW t \in Threads, NEW step, NEW m, Loading!At(t, step, m)
  PROVE  \E n \in 0..9 :
           /\ Len(todo[t]) = n + 1 /\ m = asked[t] /\ m \in Libs
           /\ step = "relocate" <=> n = 7
           /\ step = "resolve" <=> n = 6
           /\ step = "permit" <=> n = 2
           /\ step # "keep" => n # 0
<1>1. PICK n \in 0..9 : Len(todo[t]) = n + 1 /\ Loading!NativeProgram(asked[t])[10 - n] = <<step, m>>
  BY ThreadTask
<1>2. asked[t] \in Libs
  <2>1. todo[t] # <<>>
    BY ThreadAt
  <2>2. QED BY <2>1 DEF LoaderInv, Opening
<1>5. PICK k \in 1..10 : k = 10 - n
  <2>1. 10 - n \in 1..10
    OBVIOUS
  <2>2. QED BY <2>1
<1>6. Loading!NativeProgram(asked[t])[k] = <<step, m>>
  BY <1>1, <1>5
<1>7. /\ m = asked[t]
      /\ step = "relocate" => k = 3
      /\ step = "resolve" => k = 4
      /\ step = "permit" => k = 8
  BY <1>6, NativeOrder
<1>8. /\ k = 3 => step = "relocate"
      /\ k = 4 => step = "resolve"
      /\ k = 8 => step = "permit"
      /\ k = 10 => step = "keep"
  BY <1>6 DEF Loading!NativeProgram
<1>9. /\ k = 3 <=> n = 7
      /\ k = 4 <=> n = 6
      /\ k = 8 <=> n = 2
      /\ k = 10 <=> n = 0
  BY <1>5
<1>10. Len(todo[t]) = n + 1
  BY <1>1
<1>11. QED BY <1>2, <1>7, <1>8, <1>9, <1>10, Zenon

\* A native module that is being opened has no slot for good yet.
LEMMA NotKept ==
  ASSUME LoaderInv, NEW t \in Threads, Len(todo[t]) \in 1..9
  PROVE  ~Kept(asked[t]) /\ asked[t] \in Libs /\ todo[t] # <<>>
<1>1. todo[t] # <<>>
  <2>1. Len(todo[t]) \in 1..16
    OBVIOUS
  <2>2. QED BY <2>1, Going
<1>2. asked[t] \in Libs
  BY <1>1 DEF LoaderInv, Opening
<1>3. Loading!SlotOf(asked[t]) = {} /\ DOMAIN slots = 1..MaxNative
  BY DEF LoaderInv, LoaderTypes, Under
<1>4. ~Kept(asked[t])
  <2>1. SUFFICES ASSUME NEW i \in 1..MaxNative, slots[i].name = asked[t], slots[i].state = 1
                 PROVE  FALSE
    BY DEF Kept
  <2>2. i \in Loading!SlotOf(asked[t])
    BY <1>3, <2>1 DEF Loading!SlotOf
  <2>3. QED BY <1>3, <2>2
<1>5. QED BY <1>1, <1>2, <1>4

LEMMA Begun ==
  ASSUME NEW s, NEW k \in 1..8, Len(s) \in 1..k
  PROVE  s # <<>>
<1>1. PICK j \in 1..k : j = Len(s)
  BY Zenon
<1>2. j \in 1..16
  OBVIOUS
<1>3. QED BY <1>1, <1>2, Going

\* How far a native module is while it is being opened.
LEMMA OverWhile ==
  ASSUME LoaderInv, NEW t \in Threads, Len(todo[t]) \in 1..9, NEW b, NEW k \in 1..8
  PROVE  Over(asked[t], b, k) <=> Len(todo[t]) \in 1..k
<1>1. ~Kept(asked[t]) /\ asked[t] \in Libs /\ todo[t] # <<>>
  BY NotKept
<1>2. ASSUME NEW u \in Threads, Len(todo[u]) \in 1..k PROVE u = t
  <2>1. todo[u] # <<>>
    BY <1>2, Begun
  <2>2. QED BY <1>1, <2>1, Given
<1>3. QED BY <1>1, <1>2 DEF Over

----------------------------------------------------------------------------
(* How far the modules are before and after a step.                        *)

\* The boot is one step further, and no native module is being opened.
LEMMA BootTurn ==
  ASSUME LoaderInv, NEW step, NEW m, Loading!At(Boot, step, m), Loading!Done(Boot),
         UNCHANGED <<slots, asked>>
  PROVE  /\ BootLeft' = BootLeft - 1 /\ BootLeft \in 1..16
         /\ \A t \in Threads : Len(todo[t]) = 0 /\ Len(todo'[t]) = 0
         /\ \A x \in Libs : \A b, k : ~Over(x, b, k) /\ ~Over(x, b, k)'
<1>1. todo[Boot] # <<>>
  BY BootAt
<1>2. LoaderTypes /\ Boot \in Actors
  BY Parties DEF LoaderInv
<1>3. /\ todo'[Boot] = Tail(todo[Boot]) /\ Len(todo'[Boot]) = Len(todo[Boot]) - 1
      /\ \A a \in Actors \ {Boot} : todo'[a] = todo[a]
  BY <1>1, <1>2, DoneWith
<1>4. PICK n \in 0..15 : Len(todo[Boot]) = n + 1
  BY BootTask
<1>5. \A t \in Threads : todo[t] = <<>> /\ todo'[t] = <<>>
  BY <1>1, <1>3, Booting1, Parties
<1>6. \A t \in Threads : Len(todo[t]) = 0 /\ Len(todo'[t]) = 0
  BY <1>5
<1>7. ASSUME NEW x \in Libs, NEW b, NEW k PROVE ~Over(x, b, k) /\ ~Over(x, b, k)'
  <2>1. ~Kept(x) /\ ~Kept(x)'
    BY <1>1, Booting1 DEF Kept
  <2>2. 0 \notin 1..k
    OBVIOUS
  <2>3. QED BY <1>6, <2>1, <2>2, Zenon DEF Over
<1>8. BootLeft' = BootLeft - 1 /\ BootLeft \in 1..16
  BY <1>3, <1>4 DEF BootLeft
<1>9. QED BY <1>6, <1>7, <1>8

\* A thread is one step further; it and no other opens a module.
LEMMA ThreadTurn ==
  ASSUME LoaderInv, NEW t \in Threads, todo[t] # <<>>, Loading!Done(t),
         \A x : Kept(x)' <=> Kept(x), UNCHANGED asked
  PROVE  /\ Len(todo'[t]) = Len(todo[t]) - 1 /\ Len(todo[t]) \in 1..10
         /\ asked[t] \in Libs
         /\ BootLeft = 0 /\ BootLeft' = 0
         /\ \A u \in Threads \ {t} : Len(todo[u]) = 0 /\ Len(todo'[u]) = 0
         /\ \A x \in Modules : x # asked[t] => \A b, k : Over(x, b, k)' <=> Over(x, b, k)
         /\ \A b : \A k \in 1..8 : Over(asked[t], b, k)' <=> Kept(asked[t]) \/ Len(todo'[t]) \in 1..k
<1>1. LoaderTypes /\ t \in Actors /\ t # Boot
  BY Parties DEF LoaderInv
<1>2. /\ todo'[t] = Tail(todo[t]) /\ Len(todo'[t]) = Len(todo[t]) - 1
      /\ \A a \in Actors \ {t} : todo'[a] = todo[a]
  BY <1>1, DoneWith
<1>3. asked[t] \in Libs /\ RestOf(todo[t], Loading!NativeProgram(asked[t]))
  BY DEF LoaderInv, Opening
<1>4. Len(todo[t]) \in 1..10
  BY <1>1, <1>3, Programs, Shorter DEF LoaderTypes
<1>5. todo[Boot] = <<>> /\ todo'[Boot] = <<>>
  BY <1>1, <1>2, Given, Parties
<1>6. BootLeft = 0 /\ BootLeft' = 0
  BY <1>5 DEF BootLeft
<1>7. \A u \in Threads \ {t} : todo[u] = <<>> /\ todo'[u] = <<>>
  BY <1>1, <1>2, Given, Parties
<1>8. \A u \in Threads \ {t} : Len(todo[u]) = 0 /\ Len(todo'[u]) = 0
  BY <1>7
<1>9. ASSUME NEW x \in Modules, x # asked[t], NEW b, NEW k PROVE Over(x, b, k)' <=> Over(x, b, k)
  <2>1. 0 \notin 1..k
    OBVIOUS
  <2>2. ASSUME NEW u \in Threads, asked[u] = x PROVE Len(todo[u]) = 0 /\ Len(todo'[u]) = 0
    BY <1>8, <1>9, <2>2
  <2>3. asked' = asked /\ (Kept(x)' <=> Kept(x))
    OBVIOUS
  <2>4. (\E u \in Threads : asked[u] = x /\ Len(todo[u]) \in 1..k) <=> FALSE
    BY <2>1, <2>2, Zenon
  <2>5. (\E u \in Threads : asked'[u] = x /\ Len(todo'[u]) \in 1..k) <=> FALSE
    BY <2>1, <2>2, <2>3, Zenon
  <2>6. QED BY <1>6, <2>3, <2>4, <2>5, Zenon DEF Over
<1>10. ASSUME NEW b, NEW k \in 1..8
       PROVE  Over(asked[t], b, k)' <=> Kept(asked[t]) \/ Len(todo'[t]) \in 1..k
  <2>1. 0 \notin 1..k
    OBVIOUS
  <2>2. PICK l \in Libs : l = asked[t] /\ asked'[t] = l
    BY <1>3
  <2>3. Over(l, b, k)' <=> Kept(l) \/ Len(todo'[t]) \in 1..k
    BY <1>8, <2>1, <2>2, Zenon DEF Over
  <2>4. QED BY <2>2, <2>3 DEF Over, Kept
<1>11. QED BY <1>2, <1>3, <1>4, <1>6, <1>8, <1>9, <1>10

\* Whoever does a step of its program: what that step is for is over then and
\* was not before, and nothing else changes.
LEMMA Turn ==
  ASSUME LoaderInv, NEW a \in Actors, NEW m \in Modules, NEW step,
         Loading!At(a, step, m), Loading!Done(a), step # "keep",
         \A x : Kept(x)' <=> Kept(x), UNCHANGED asked, a = Boot => UNCHANGED slots,
         NEW x \in Modules
  PROVE  /\ IF step = "relocate" /\ x = m THEN ~IsRelocated(x) /\ IsRelocated(x)'
            ELSE IsRelocated(x)' <=> IsRelocated(x)
         /\ IF step = "resolve" /\ x = m THEN ~IsResolved(x) /\ IsResolved(x)'
            ELSE IsResolved(x)' <=> IsResolved(x)
         /\ IF step = "permit" /\ x = m THEN ~IsPermitted(x) /\ IsPermitted(x)'
            ELSE IsPermitted(x)' <=> IsPermitted(x)
<1>1. CASE a = Boot
  <2>1. PICK n \in 0..15 :
           /\ Len(todo[Boot]) = n + 1
           /\ (step = "relocate" /\ m = Cxx) <=> n = 12
           /\ (step = "relocate" /\ m = GameLib) <=> n = 10
           /\ (step = "resolve" /\ m = Cxx) <=> n = 11
           /\ (step = "resolve" /\ m = GameLib) <=> n = 9
           /\ (step = "permit" /\ m = Cxx) <=> n = 5
           /\ (step = "permit" /\ m = GameLib) <=> n = 2
           /\ m \in {Cxx, GameLib}
    BY <1>1, BootTimes
  <2>2. /\ BootLeft' = BootLeft - 1 /\ BootLeft \in 1..16
        /\ \A y \in Libs : \A b, k : ~Over(y, b, k) /\ ~Over(y, b, k)'
    BY <1>1, BootTurn
  <2>3. BootLeft = n + 1 /\ BootLeft' = n
    BY <2>1, <2>2 DEF BootLeft
  <2>4. CASE x \in Libs
    <3>1. x # m
      BY <2>1, <2>4, Parties
    <3>2. QED BY <2>2, <2>4, <3>1, Zenon DEF IsRelocated, IsResolved, IsPermitted
  <2>5. CASE x = Cxx
    <3>1. \A b, k : Over(Cxx, b, k) <=> BootLeft <= b
      BY Parties DEF Over
    <3>2. \A b, k : Over(Cxx, b, k)' <=> BootLeft' <= b
      BY Parties DEF Over
    <3>3. /\ IsRelocated(Cxx) <=> n + 1 <= 12
          /\ IsResolved(Cxx) <=> n + 1 <= 11
          /\ IsPermitted(Cxx) <=> n + 1 <= 5
      BY <2>3, <3>1, Zenon DEF IsRelocated, IsResolved, IsPermitted
    <3>4. /\ IsRelocated(Cxx)' <=> n <= 12
          /\ IsResolved(Cxx)' <=> n <= 11
          /\ IsPermitted(Cxx)' <=> n <= 5
      BY <2>3, <3>2, Zenon DEF IsRelocated, IsResolved, IsPermitted
    <3>5. /\ n <= 12 <=> (n = 12 \/ n + 1 <= 12)
          /\ n <= 11 <=> (n = 11 \/ n + 1 <= 11)
          /\ n <= 5 <=> (n = 5 \/ n + 1 <= 5)
          /\ n = 12 => ~(n + 1 <= 12)
          /\ n = 11 => ~(n + 1 <= 11)
          /\ n = 5 => ~(n + 1 <= 5)
      OBVIOUS
    <3>6. QED BY <2>1, <2>5, <3>3, <3>4, <3>5, Zenon
  <2>6. CASE x = GameLib
    <3>1. \A b, k : Over(GameLib, b, k) <=> BootLeft <= b
      BY Parties DEF Over
    <3>2. \A b, k : Over(GameLib, b, k)' <=> BootLeft' <= b
      BY Parties DEF Over
    <3>3. /\ IsRelocated(GameLib) <=> n + 1 <= 10
          /\ IsResolved(GameLib) <=> n + 1 <= 9
          /\ IsPermitted(GameLib) <=> n + 1 <= 2
      BY <2>3, <3>1, Parties, Zenon DEF IsRelocated, IsResolved, IsPermitted
    <3>4. /\ IsRelocated(GameLib)' <=> n <= 10
          /\ IsResolved(GameLib)' <=> n <= 9
          /\ IsPermitted(GameLib)' <=> n <= 2
      BY <2>3, <3>2, Parties, Zenon DEF IsRelocated, IsResolved, IsPermitted
    <3>5. /\ n <= 10 <=> (n = 10 \/ n + 1 <= 10)
          /\ n <= 9 <=> (n = 9 \/ n + 1 <= 9)
          /\ n <= 2 <=> (n = 2 \/ n + 1 <= 2)
          /\ n = 10 => ~(n + 1 <= 10)
          /\ n = 9 => ~(n + 1 <= 9)
          /\ n = 2 => ~(n + 1 <= 2)
      OBVIOUS
    <3>6. QED BY <2>1, <2>6, <3>3, <3>4, <3>5, Zenon
  <2>7. QED BY <2>4, <2>5, <2>6, Parties
<1>2. CASE a \in Threads
  <2>1. PICK n \in 0..9 :
           /\ Len(todo[a]) = n + 1 /\ m = asked[a] /\ m \in Libs
           /\ step = "relocate" <=> n = 7
           /\ step = "resolve" <=> n = 6
           /\ step = "permit" <=> n = 2
           /\ step # "keep" => n # 0
    BY <1>2, ThreadTimes
  <2>2. todo[a] # <<>> /\ n # 0
    BY <1>2, <2>1, ThreadAt
  <2>3. /\ Len(todo'[a]) = n
        /\ \A y \in Modules : y # asked[a] => \A b, k : Over(y, b, k)' <=> Over(y, b, k)
        /\ \A b : \A k \in 1..8 : Over(asked[a], b, k)' <=> Kept(asked[a]) \/ Len(todo'[a]) \in 1..k
    <3>1. Len(todo'[a]) = Len(todo[a]) - 1
      BY <1>2, <2>2, ThreadTurn
    <3>2. Len(todo'[a]) = n
      BY <2>1, <3>1
    <3>3. QED BY <1>2, <2>2, <3>2, ThreadTurn
  <2>4. CASE x # m
    BY <2>1, <2>3, <2>4, Zenon DEF IsRelocated, IsResolved, IsPermitted
  <2>5. CASE x = m
    <3>1. 7 \in 1..8 /\ 6 \in 1..8 /\ 2 \in 1..8
      OBVIOUS
    <3>2. CASE n = 9
      <4>1. \A b : \A k \in 1..8 : Over(m, b, k)' <=> Over(m, b, k)
        <5>1. ASSUME NEW b, NEW k \in 1..8 PROVE Over(m, b, k) <=> Kept(m)
          <6>1. ASSUME NEW u \in Threads, asked[u] = m, Len(todo[u]) \in 1..k PROVE FALSE
            <7>1. todo[u] # <<>>
              BY <6>1, Begun
            <7>2. u = a
              BY <1>2, <2>2, <7>1, Given
            <7>3. Len(todo[a]) = 10 /\ 10 \notin 1..k
              BY <2>1, <3>2
            <7>4. QED BY <6>1, <7>2, <7>3, Zenon
          <6>2. QED BY <2>1, <6>1, Zenon DEF Over
        <5>2. ASSUME NEW k \in 1..8 PROVE n \notin 1..k
          BY <3>2
        <5>3. QED BY <2>1, <2>3, <5>1, <5>2, Zenon
      <4>2. 7 # 9 /\ 6 # 9 /\ 2 # 9
        OBVIOUS
      <4>3. QED BY <2>1, <2>5, <3>1, <3>2, <4>1, <4>2, Zenon DEF IsRelocated, IsResolved, IsPermitted
    <3>3. CASE n # 9
      <4>1. Len(todo[a]) \in 1..9
        BY <2>1, <3>3
      <4>2. \A b : \A k \in 1..8 : Over(m, b, k) <=> n + 1 \in 1..k
        BY <1>2, <2>1, <4>1, OverWhile
      <4>3. ~Kept(m)
        BY <1>2, <2>1, <4>1, NotKept
      <4>4. \A b : \A k \in 1..8 : Over(m, b, k)' <=> n \in 1..k
        BY <2>1, <2>3, <4>3, Zenon
      <4>5. /\ n \in 1..7 <=> (n = 7 \/ n + 1 \in 1..7)
            /\ n \in 1..6 <=> (n = 6 \/ n + 1 \in 1..6)
            /\ n \in 1..2 <=> (n = 2 \/ n + 1 \in 1..2)
            /\ n = 7 => ~(n + 1 \in 1..7)
            /\ n = 6 => ~(n + 1 \in 1..6)
            /\ n = 2 => ~(n + 1 \in 1..2)
        BY <2>1
      <4>6. QED BY <2>1, <2>5, <3>1, <4>2, <4>4, <4>5, Zenon DEF IsRelocated, IsResolved, IsPermitted
    <3>4. QED BY <3>2, <3>3
  <2>6. QED BY <2>4, <2>5
<1>3. QED BY <1>1, <1>2, Parties

\* The steps that belong to no module's program, and the ends of an opening.
LEMMA Rest ==
  ASSUME LoaderInv, \A x : Kept(x)' <=> Kept(x), BootLeft' = BootLeft,
         \A u \in Threads : /\ Len(todo[u]) \in 1..8 <=> Len(todo'[u]) \in 1..8
                            /\ Len(todo[u]) \in 1..8 => Len(todo'[u]) = Len(todo[u]) /\ asked'[u] = asked[u],
         NEW x \in Modules
  PROVE  /\ IsRelocated(x)' <=> IsRelocated(x)
         /\ IsResolved(x)' <=> IsResolved(x)
         /\ IsPermitted(x)' <=> IsPermitted(x)
<1>1. ASSUME NEW b, NEW k \in 1..8 PROVE Over(x, b, k)' <=> Over(x, b, k)
  <2>1. 1..k \subseteq 1..8
    OBVIOUS
  <2>2. ASSUME NEW u \in Threads
        PROVE  asked[u] = x /\ Len(todo[u]) \in 1..k <=> asked'[u] = x /\ Len(todo'[u]) \in 1..k
    BY <2>1, Zenon
  <2>3. QED BY <2>2, Zenon DEF Over
<1>2. 7 \in 1..8 /\ 6 \in 1..8 /\ 2 \in 1..8
  OBVIOUS
<1>3. QED BY <1>1, <1>2, Zenon DEF IsRelocated, IsResolved, IsPermitted

\* The end of an opening that succeeds.
LEMMA KeepTurn ==
  ASSUME LoaderInv, NEW t \in Threads, NEW m, Loading!Keep(t, m), NEW x \in Modules
  PROVE  /\ IsRelocated(x)' <=> IsRelocated(x)
         /\ IsResolved(x)' <=> IsResolved(x)
         /\ IsPermitted(x)' <=> IsPermitted(x)
         /\ m \in Libs /\ m = asked[t] /\ Len(todo[t]) = 1 /\ Kept(m)' /\ ~Kept(m)
         /\ \A y : y # m => (Kept(y)' <=> Kept(y))
         /\ \A u \in Threads : Len(todo'[u]) = 0
         /\ BootLeft = 0 /\ BootLeft' = 0
<1> DEFINE named == {i \in DOMAIN slots : slots[i].name = m}
           k == Loading!First(named)
<1>1. /\ Loading!At(t, "keep", m) /\ Loading!Answer(t, m, m)
      /\ slots' = [slots EXCEPT ![k].state = 1]
  BY DEF Loading!Keep
<1>2. todo[t] # <<>> /\ m = asked[t] /\ m \in Libs /\ Len(todo[t]) = 1
  BY <1>1, ThreadAt
<1>3. ~Kept(m)
  <2>1. Len(todo[t]) \in 1..9
    BY <1>2
  <2>2. QED BY <1>2, <2>1, NotKept
<1>4. \E i \in 1..MaxNative : slots[i].name = m
  <2>1. 1 \in 1..9
    OBVIOUS
  <2>2. QED BY <1>2, <2>1, Zenon DEF LoaderInv, Under
<1>5. k \in named
  <2>1. named \subseteq 1..MaxNative /\ named # {}
    BY <1>4, SlotTypes
  <2> HIDE DEF named
  <2>2. QED BY <2>1, FirstOf
<1>6. k \in 1..MaxNative /\ slots[k].name = m
  BY <1>5, SlotTypes
<1> HIDE DEF named, k
<1>7. Kept(m)' /\ \A y : y # m => (Kept(y)' <=> Kept(y))
  BY <1>1, <1>6, Marked
<1>8. /\ \A u \in Threads : todo'[u] = <<>> /\ (u # t => todo[u] = <<>>)
      /\ todo[Boot] = <<>> /\ todo'[Boot] = <<>>
  <2>1. todo' = [todo EXCEPT ![t] = <<>>] /\ DOMAIN todo = Actors
    BY <1>1 DEF Loading!Answer, LoaderInv, LoaderTypes
  <2>2. QED BY <1>2, <2>1, Given, Parties
<1>9. /\ \A u \in Threads : Len(todo'[u]) = 0 /\ (u # t => Len(todo[u]) = 0)
      /\ BootLeft = 0 /\ BootLeft' = 0
  BY <1>8 DEF BootLeft
<1>10. ASSUME NEW b, NEW j \in 1..8 PROVE Over(x, b, j)' <=> Over(x, b, j)
  <2>1. 0 \notin 1..j /\ 1 \in 1..j
    OBVIOUS
  <2>2. CASE x = m
    BY <1>2, <1>7, <2>1, <2>2, Zenon DEF Over
  <2>3. CASE x # m
    BY <1>2, <1>7, <1>9, <2>1, <2>3, Zenon DEF Over
  <2>4. QED BY <2>2, <2>3
<1>11. 7 \in 1..8 /\ 6 \in 1..8 /\ 2 \in 1..8
  OBVIOUS
<1>12. QED BY <1>2, <1>3, <1>7, <1>9, <1>10, <1>11, Zenon DEF IsRelocated, IsResolved, IsPermitted

----------------------------------------------------------------------------
(* Words, permissions.                                                     *)

LEMMA WordsSame ==
  ASSUME Words, word' = word, \A x \in Modules : IsRelocated(x)' <=> IsRelocated(x)
  PROVE  Words'
  BY Zenon DEF Words, Relocated, Fresh

LEMMA WordsRight ==
  ASSUME Words, NEW a, NEW m \in Modules, Loading!Relocate(a, m),
         ~IsRelocated(m), IsRelocated(m)',
         \A x \in Modules : x # m => (IsRelocated(x)' <=> IsRelocated(x))
  PROVE  Words'
<1>1. word' = [word EXCEPT ![m] = [w \in DOMAIN word[m] |->
                (IF w \in Image[m].rela THEN 1 ELSE word[m][w]) + Loading!Cardinality(Loading!Hits(m, w))]]
  BY DEF Loading!Relocate
<1>2. m \in DOMAIN word /\ DOMAIN word = Modules
  BY DEF Words
<1>3. /\ word'[m] = [w \in DOMAIN word[m] |->
                (IF w \in Image[m].rela THEN 1 ELSE word[m][w]) + Loading!Cardinality(Loading!Hits(m, w))]
      /\ DOMAIN word' = Modules /\ \A x \in Modules : x # m => word'[x] = word[x]
  BY <1>1, <1>2
<1>4. DOMAIN word'[m] = 0..Image[m].size-1 /\ DOMAIN word[m] = 0..Image[m].size-1
  BY <1>3 DEF Words
<1>5. Relocated(m)'
  <2>1. Fresh(m)
    BY DEF Words
  <2>2. ASSUME NEW w \in 0..Image[m].size-1
        PROVE  word'[m][w] = IF w \in Image[m].pointers THEN 1 ELSE 0
    <3>1. word[m][w] = 0
      BY <1>4, <2>1 DEF Fresh
    <3>2. word'[m][w] = (IF w \in Image[m].rela THEN 1 ELSE 0) + Loading!Cardinality(Loading!Hits(m, w))
      BY <1>3, <1>4, <3>1
    <3>3. QED BY <3>2, LinkedAssumption DEF Modules
  <2>3. QED BY <1>4, <2>2 DEF Relocated
<1>6. ASSUME NEW x \in Modules
      PROVE  /\ DOMAIN word'[x] = 0..Image[x].size-1
             /\ IF IsRelocated(x)' THEN Relocated(x)' ELSE Fresh(x)'
  <2>1. CASE x = m
    BY <1>4, <1>5, <2>1
  <2>2. CASE x # m
    <3>1. word'[x] = word[x] /\ (IsRelocated(x)' <=> IsRelocated(x))
      BY <1>3, <2>2
    <3>2. QED BY <3>1, Zenon DEF Words, Relocated, Fresh
  <2>3. QED BY <2>1, <2>2
<1>7. QED BY <1>3, <1>6 DEF Words

LEMMA PermsSame ==
  ASSUME Perms, perm' = perm, \A x \in Modules : IsPermitted(x)' <=> IsPermitted(x)
  PROVE  Perms'
  BY Zenon DEF Perms, Permitted

LEMMA PermsRight ==
  ASSUME Perms, NEW a, NEW m \in Modules, Loading!Permit(a, m),
         \A x \in Modules : x # m => (IsPermitted(x)' <=> IsPermitted(x))
  PROVE  Perms'
<1>1. perm' = [perm EXCEPT ![m] = [p \in DOMAIN perm[m] |-> IF p \in Image[m].code THEN "rx" ELSE "rw"]]
  BY DEF Loading!Permit
<1>2. m \in DOMAIN perm /\ DOMAIN perm = Modules
  BY DEF Perms
<1>3. /\ perm'[m] = [p \in DOMAIN perm[m] |-> IF p \in Image[m].code THEN "rx" ELSE "rw"]
      /\ DOMAIN perm' = Modules /\ \A x \in Modules : x # m => perm'[x] = perm[x]
  BY <1>1, <1>2
<1>4. Permitted(m)'
  BY <1>3 DEF Permitted
<1>5. ASSUME NEW x \in Modules, IsPermitted(x)' PROVE Permitted(x)'
  <2>1. CASE x = m
    BY <1>4, <2>1
  <2>2. CASE x # m
    <3>1. perm'[x] = perm[x] /\ IsPermitted(x)
      BY <1>3, <1>5, <2>2
    <3>2. QED BY <3>1, Zenon DEF Perms, Permitted
  <2>3. QED BY <2>1, <2>2
<1>6. QED BY <1>3, <1>5 DEF Perms

----------------------------------------------------------------------------
(* What the symbols are bound to.                                          *)

\* Who is resolved is on the list, and not before both modules of the boot are.
LEMMA ResolvedListed ==
  ASSUME LoaderInv, NEW m \in Modules, IsResolved(m)
  PROVE  Listed(m) /\ Listed(Cxx) /\ Listed(GameLib) /\ BootLeft <= 11
<1>1. PICK n \in Nat : n = BootLeft /\ AtBoot(n)
  <2>1. todo[Boot] \in Seq(Tasks)
    BY Parties DEF LoaderInv, LoaderTypes
  <2>2. BootLeft \in Nat
    BY <2>1 DEF BootLeft
  <2>3. AtBoot(BootLeft)
    BY DEF LoaderInv, BootRight, BootLeft
  <2>4. QED BY <2>2, <2>3
<1>2. n <= 11 => Listed(Cxx) /\ Listed(GameLib)
  <2>1. n <= 11 => n <= 15 /\ n <= 14
    OBVIOUS
  <2>2. QED BY <1>1, <2>1, Zenon DEF AtBoot
<1>3. CASE m \in Libs
  <2>1. Kept(m) \/ \E t \in Threads : asked[t] = m /\ Len(todo[t]) \in 1..6
    BY <1>3, Zenon DEF IsResolved, Over
  <2>2. Listed(m)
    <3>1. CASE Kept(m)
      BY <1>3, <3>1 DEF LoaderInv, LibRight, Halfway
    <3>2. CASE \E t \in Threads : asked[t] = m /\ Len(todo[t]) \in 1..6
      <4>1. PICK t \in Threads : asked[t] = m /\ Len(todo[t]) \in 1..6
        BY <3>2
      <4>2. Len(todo[t]) \in 1..8
        BY <4>1
      <4>3. QED BY <4>1, <4>2 DEF LoaderInv, Under, Halfway
    <3>3. QED BY <2>1, <3>1, <3>2
  <2>3. n = 0
    <3>1. ~(n > 0)
      BY <1>1, <1>3, <2>2, Zenon DEF AtBoot
    <3>2. QED BY <3>1
  <2>4. n <= 11
    BY <2>3
  <2>5. QED BY <1>1, <1>2, <2>2, <2>4
<1>4. CASE m \in {Cxx, GameLib}
  <2>1. n <= 11 \/ n <= 9
    BY <1>1, <1>4, Parties, Zenon DEF IsResolved, Over
  <2>2. n <= 11
    BY <2>1
  <2>3. QED BY <1>1, <1>2, <1>4, <2>2
<1>5. QED BY <1>3, <1>4, Parties

LEMMA BindingsSame ==
  ASSUME Bindings, got' = got, soList' = soList,
         \A x \in Modules : IsResolved(x)' <=> IsResolved(x),
         \A t \in Threads : Len(todo'[t]) \in 1..8 => Len(todo[t]) \in 1..8 /\ asked'[t] = asked[t]
  PROVE  Bindings'
<1>1. ASSUME NEW m \in Modules, IsResolved(m)' PROVE Bound(m)'
  <2>1. Bound(m)
    BY <1>1, Zenon DEF Bindings
  <2>2. Earlier(m)' = Earlier(m)
    BY DEF Earlier
  <2>3. QED BY <2>1, <2>2, Zenon DEF Bound, BoundTo
<1>2. \A t \in Threads : Len(todo'[t]) \in 1..8 => soList'[Len(soList')] = asked'[t]
  BY Zenon DEF Bindings
<1>3. DOMAIN got' = Modules
  BY DEF Bindings
<1>4. QED BY <1>1, <1>2, <1>3, Zenon DEF Bindings

\* A module that comes to the list is none of those that m had to bind to.
LEMMA EarlierStays ==
  ASSUME soList \in Seq(Modules), NEW x \in Libs, ~Listed(x), soList' = Append(soList, x),
         NEW m, Listed(m)
  PROVE  Earlier(m)' = Earlier(m)
<1> DEFINE N == Len(soList)
<1>1. /\ N \in Nat /\ DOMAIN soList = 1..N /\ DOMAIN soList' = 1..(N + 1)
      /\ soList'[N + 1] = x /\ \A i \in 1..N : soList'[i] = soList[i]
  OBVIOUS
<1>2. x # m /\ x \notin {Cxx, GameLib}
  BY Parties DEF Listed
<1> HIDE DEF N
<1>3. ASSUME NEW n \in Earlier(m) PROVE n \in Earlier(m)'
  <2>1. PICK i \in 1..N : soList[i] = n /\ n \in Modules \ {m}
            /\ (n \in {Cxx, GameLib} \/ \E j \in 1..N : soList[j] = m /\ i < j)
    BY <1>1, <1>3 DEF Earlier
  <2>2. \A k \in 1..N : k \in 1..(N + 1)
    BY <1>1
  <2>3. i \in DOMAIN soList' /\ soList'[i] = n
    BY <1>1, <2>1, <2>2
  <2>4. n \in {Cxx, GameLib} \/ \E j \in DOMAIN soList' : soList'[j] = m /\ i < j
    BY <1>1, <2>1, <2>2
  <2>5. QED BY <2>1, <2>3, <2>4 DEF Earlier
<1>4. ASSUME NEW n \in Earlier(m)' PROVE n \in Earlier(m)
  <2>1. PICK i \in 1..(N + 1) : soList'[i] = n /\ n \in Modules \ {m}
            /\ (n \in {Cxx, GameLib} \/ \E j \in 1..(N + 1) : soList'[j] = m /\ i < j)
    BY <1>1, <1>4 DEF Earlier
  <2>2. CASE n \in {Cxx, GameLib}
    <3>1. i # N + 1
      BY <1>1, <1>2, <2>1, <2>2
    <3>2. i \in 1..N /\ soList[i] = n
      BY <1>1, <2>1, <3>1
    <3>3. QED BY <1>1, <2>1, <2>2, <3>2 DEF Earlier
  <2>3. CASE n \notin {Cxx, GameLib}
    <3>1. PICK j \in 1..(N + 1) : soList'[j] = m /\ i < j
      BY <2>1, <2>3
    <3>2. j # N + 1
      BY <1>1, <1>2, <3>1
    <3>3. j \in 1..N /\ i \in 1..N
      BY <1>1, <3>1, <3>2
    <3>4. soList[j] = m /\ soList[i] = n
      BY <1>1, <2>1, <3>1, <3>3
    <3>5. QED BY <1>1, <2>1, <3>1, <3>3, <3>4 DEF Earlier
  <2>4. QED BY <2>2, <2>3
<1>5. QED BY <1>3, <1>4

LEMMA BindingsGrow ==
  ASSUME LoaderInv, Bindings, NEW a \in Actors, NEW m \in Modules, Loading!Load(a, m),
         \A x \in Modules : IsResolved(x)' <=> IsResolved(x)
  PROVE  Bindings'
<1>1. /\ Loading!At(a, "load", m) /\ Loading!Done(a) /\ soList' = Append(soList, m)
      /\ UNCHANGED <<slots, lock, asked, handle, got>>
  BY DEF Loading!Load, Loading!native
<1>2. DOMAIN got' = Modules
  BY <1>1 DEF Bindings
<1>3. CASE a = Boot
  <2>1. PICK n \in 0..15 : n = BootLeft - 1 /\ (n = 15 \/ n = 14)
    BY <1>1, <1>3, BootAt DEF BootLeft
  <2>2. BootLeft' = BootLeft - 1 /\ BootLeft \in 1..16 /\ \A t \in Threads : Len(todo'[t]) = 0
    BY <1>1, <1>3, BootTurn
  <2>3. ASSUME NEW x \in Modules PROVE ~IsResolved(x)
    <3>1. IsResolved(x) => BootLeft <= 11
      BY ResolvedListed
    <3>2. ~(BootLeft <= 11)
      BY <2>1, <2>2
    <3>3. QED BY <3>1, <3>2
  <2>4. 0 \notin 1..8
    OBVIOUS
  <2>5. QED BY <1>2, <2>2, <2>3, <2>4, Zenon DEF Bindings
<1>4. CASE a \in Threads
  <2>1. todo[a] # <<>> /\ m = asked[a] /\ m \in Libs /\ Len(todo[a]) = 9
    BY <1>1, <1>4, ThreadAt
  <2>2. ~Listed(m)
    BY <1>4, <2>1, NotYet
  <2>3. soList \in Seq(Modules)
    BY Given
  <2>4. ASSUME NEW x \in Modules, IsResolved(x)' PROVE Bound(x)'
    <3>1. IsResolved(x)
      BY <2>4, Zenon
    <3>2. Listed(x)
      BY <3>1, ResolvedListed
    <3>3. Earlier(x)' = Earlier(x)
      BY <1>1, <2>1, <2>2, <2>3, <3>2, EarlierStays
    <3>4. Bound(x) /\ got' = got
      BY <1>1, <3>1, Zenon DEF Bindings
    <3>5. QED BY <3>3, <3>4, Zenon DEF Bound, BoundTo
  <2>5. soList'[Len(soList')] = m
    BY <1>1, <2>3
  <2>6. ASSUME NEW u \in Threads, Len(todo'[u]) \in 1..8 PROVE soList'[Len(soList')] = asked'[u]
    <3>1. Kept(m)' = Kept(m) /\ \A x : Kept(x)' <=> Kept(x)
      BY <1>1 DEF Kept
    <3>2. u = a
      <4>1. \A v \in Threads \ {a} : Len(todo'[v]) = 0
        BY <1>1, <1>4, <2>1, <3>1, ThreadTurn
      <4>2. 0 \notin 1..8
        OBVIOUS
      <4>3. QED BY <2>6, <4>1, <4>2, Zenon
    <3>3. QED BY <1>1, <2>1, <2>5, <3>2
  <2>7. QED BY <1>2, <2>4, <2>6, Zenon DEF Bindings
<1>5. QED BY <1>3, <1>4, Parties

\* The first of a set of places.
LEMMA Foremost ==
  ASSUME NEW S, S \subseteq Nat, S # {}
  PROVE  Loading!First(S) \in S
<1>1. PICK i \in S : \A j \in S : ~(<<j, i>> \in Less)
  BY LessIsWellFounded, WFMin
<1>2. \A k, l \in Nat : k < l => <<k, l>> \in Less
  BY DEF Less
<1>3. ASSUME NEW j \in S PROVE i <= j
  <2>1. i \in Nat /\ j \in Nat
    OBVIOUS
  <2>2. ~(j < i)
    BY <1>1, <1>2, <2>1, Zenon
  <2>3. QED BY <2>1, <2>2
<1>4. QED BY <1>3 DEF Loading!First

LEMMA BindingsRight ==
  ASSUME LoaderInv, Bindings, NEW a \in Actors, NEW m \in Modules, Loading!Resolve(a, m),
         \A x \in Modules : x # m => (IsResolved(x)' <=> IsResolved(x))
  PROVE  Bindings'
<1>1. /\ Loading!At(a, "resolve", m) /\ Loading!Done(a)
      /\ got' = [got EXCEPT ![m] = [s \in DOMAIN got[m] |-> Loading!Provider(m, s)]]
      /\ UNCHANGED <<soList, slots, lock, asked, handle>>
  BY DEF Loading!Resolve, Loading!native
<1>2. m \in DOMAIN got /\ DOMAIN got = Modules
  BY DEF Bindings
<1>3. /\ got'[m] = [s \in DOMAIN got[m] |-> Loading!Provider(m, s)]
      /\ DOMAIN got' = Modules /\ \A x \in Modules : x # m => got'[x] = got[x]
  BY <1>1, <1>2
<1>4. \A x : Earlier(x)' = Earlier(x)
  BY <1>1 DEF Earlier
<1>5. soList \in Seq(Modules)
  BY Given
<1>6. ASSUME NEW i \in DOMAIN soList, soList[i] # m PROVE soList[i] \in Earlier(m)
  <2>1. soList[i] \in Modules
    BY <1>5
  <2>2. CASE a = Boot
    <3>1. todo[Boot] # <<>>
      BY <1>1, <2>2, BootAt
    <3>2. soList[i] \notin Libs
      BY <3>1, Booting1 DEF Listed
    <3>3. soList[i] \in {Cxx, GameLib}
      BY <2>1, <3>2, Parties
    <3>4. QED BY <1>6, <2>1, <3>3 DEF Earlier
  <2>3. CASE a \in Threads
    <3>1. m = asked[a] /\ Len(todo[a]) = 7
      BY <1>1, <2>3, ThreadAt
    <3>2. Len(todo[a]) \in 1..8
      BY <3>1
    <3>3. soList[Len(soList)] = m
      BY <2>3, <3>1, <3>2, Zenon DEF Bindings
    <3>4. Len(soList) \in DOMAIN soList /\ i < Len(soList)
      BY <1>5, <1>6, <3>3
    <3>5. QED BY <1>6, <2>1, <3>3, <3>4 DEF Earlier
  <2>4. QED BY <2>2, <2>3, Parties
<1>7. \A n \in Earlier(m) : n # m /\ \E i \in DOMAIN soList : soList[i] = n
  BY DEF Earlier
<1>8. ASSUME NEW s \in DOMAIN got'[m] PROVE BoundTo(m, s)'
  <2>1. got'[m][s] = Loading!Provider(m, s)
    BY <1>3, <1>8
  <2>2. CASE s \in Imported
    BY <2>1, <2>2 DEF Loading!Provider, BoundTo
  <2>3. CASE s \notin Imported /\ Loading!Offering(m, s) # {}
    <3>1. Loading!Offering(m, s) \subseteq Nat
      BY <1>5 DEF Loading!Offering
    <3>2. PICK i \in Loading!Offering(m, s) : i = Loading!First(Loading!Offering(m, s))
      BY <2>3, <3>1, Foremost
    <3>3. got'[m][s] = soList[i]
      BY <2>1, <2>3, <3>2 DEF Loading!Provider
    <3>4. i \in DOMAIN soList /\ soList[i] # m /\ s \in Loading!Exports(soList[i])
      BY DEF Loading!Offering
    <3>5. QED BY <1>4, <1>6, <3>3, <3>4 DEF BoundTo, Loading!Exports
  <2>4. CASE s \notin Imported /\ Loading!Offering(m, s) = {}
    <3>1. \A i \in DOMAIN soList : soList[i] # m => s \notin Loading!Exports(soList[i])
      BY <2>4 DEF Loading!Offering
    <3>2. \A n \in Earlier(m) : s \notin Loading!Exports(n)
      BY <1>7, <3>1
    <3>3. got'[m][s] = IF s \in Image[m].weak THEN "null" ELSE "poison"
      BY <2>1, <2>4 DEF Loading!Provider
    <3>4. QED BY <1>4, <2>4, <3>2, <3>3 DEF BoundTo, Loading!Exports
  <2>5. QED BY <2>2, <2>3, <2>4
<1>9. ASSUME NEW x \in Modules, IsResolved(x)' PROVE Bound(x)'
  <2>1. CASE x = m
    BY <1>8, <2>1 DEF Bound
  <2>2. CASE x # m
    <3>1. Bound(x) /\ got'[x] = got[x]
      BY <1>3, <1>9, <2>2, Zenon DEF Bindings
    <3>2. QED BY <1>4, <3>1, Zenon DEF Bound, BoundTo
  <2>3. QED BY <2>1, <2>2
<1>10. ASSUME NEW u \in Threads, Len(todo'[u]) \in 1..8 PROVE soList'[Len(soList')] = asked'[u]
  <2>1. CASE a = Boot
    <3>1. Len(todo'[u]) = 0 /\ 0 \notin 1..8
      BY <1>1, <2>1, BootTurn
    <3>2. QED BY <1>10, <3>1, Zenon
  <2>2. CASE a \in Threads
    <3>1. todo[a] # <<>> /\ Len(todo[a]) = 7
      BY <1>1, <2>2, ThreadAt
    <3>2. \A v \in Threads \ {a} : Len(todo'[v]) = 0
      <4>1. \A x : Kept(x)' <=> Kept(x)
        BY <1>1 DEF Kept
      <4>2. QED BY <1>1, <2>2, <3>1, <4>1, ThreadTurn
    <3>3. 0 \notin 1..8 /\ 7 \in 1..8
      OBVIOUS
    <3>4. u = a
      BY <1>10, <3>2, <3>3, Zenon
    <3>5. soList[Len(soList)] = asked[a]
      BY <2>2, <3>1, <3>3, Zenon DEF Bindings
    <3>6. QED BY <1>1, <3>4, <3>5
  <2>3. QED BY <2>1, <2>2, Parties
<1>11. QED BY <1>3, <1>9, <1>10, Zenon DEF Bindings

----------------------------------------------------------------------------
(* Where the images lie.                                                   *)

\* A share of the region holds the module it is for.
LEMMA Covers ==
  ASSUME NEW n \in Nat, NEW g \in Nat \ {0}
  PROVE  n <= g * ((n + g - 1) \div g) /\ g * ((n + g - 1) \div g) \in Nat
<1>1. PICK q \in Int, r \in Int : /\ n + g - 1 = g * q + r /\ 0 <= r /\ r < g
                                  /\ q = (n + g - 1) \div g
  OBVIOUS
<1>2. n <= g * q
  BY <1>1
<1>3. g * q \in Nat
  BY <1>1, <1>2
<1>4. QED BY <1>1, <1>2, <1>3

LEMMA ShareCovers ==
  ASSUME NEW m \in Modules
  PROVE  Image[m].size \in Nat /\ Loading!Share(m) \in Nat /\ Image[m].size <= Loading!Share(m)
  BY SlicesAssumption, Covers DEF Loading!Share, Modules

LEMMA PlacesSame ==
  ASSUME Places, UNCHANGED <<base, region>>,
         \A x : Listed(x)' <=> Listed(x), \A x : Kept(x)' <=> Kept(x),
         BootLeft' <= 13 => BootLeft <= 13,
         \A t \in Threads : Len(todo'[t]) \in 1..8 => Len(todo[t]) \in 1..8 /\ asked'[t] = asked[t]
  PROVE  Places'
<1>1. \A m : End(m)' = End(m)
  BY DEF End
<1>2. base' \in [Modules -> Nat] /\ region' \in Nat /\ \A m \in Modules : base'[m] # 0 => Listed(m)'
  BY DEF Places
<1>3. BootLeft' <= 13 => NativeAt <= region' /\ region' <= ReserveEnd
  BY DEF Places
<1>4. /\ Listed(Cxx)' => base'[Cxx] = 1 /\ End(Cxx)' <= GameAt
      /\ Listed(GameLib)' => base'[GameLib] = GameAt /\ End(GameLib)' <= NativeAt
  BY <1>1, Zenon DEF Places
<1>5. \A l \in Libs : Kept(l)' => NativeAt <= base'[l] /\ End(l)' <= region'
  BY <1>1, Zenon DEF Places
<1>6. \A t \in Threads : Len(todo'[t]) \in 1..8 =>
         base'[asked'[t]] = region' /\ base'[asked'[t]] + Image[asked'[t]].size <= ReserveEnd
  <2>1. ASSUME NEW t \in Threads, Len(todo'[t]) \in 1..8
        PROVE  base'[asked'[t]] = region' /\ base'[asked'[t]] + Image[asked'[t]].size <= ReserveEnd
    <3>1. base[asked[t]] = region /\ End(asked[t]) <= ReserveEnd /\ asked'[t] = asked[t]
      BY <2>1, Zenon DEF Places
    <3>2. base' = base /\ region' = region
      OBVIOUS
    <3>3. base[asked[t]] + Image[asked[t]].size <= ReserveEnd
      BY <3>1 DEF End
    <3>4. QED BY <3>1, <3>2, <3>3, Zenon
  <2>2. QED BY <2>1, Zenon
<1>7. \A l, k \in Libs : l # k /\ Kept(l)' /\ Kept(k)' => End(l)' <= base'[k] \/ End(k)' <= base'[l]
  BY <1>1, Zenon DEF Places
<1>8. QED BY <1>2, <1>3, <1>4, <1>5, <1>6, <1>7, Zenon DEF Places, End

LEMMA PlacesLoad ==
  ASSUME LoaderInv, Places, NEW a \in Actors, NEW m \in Modules, Loading!Load(a, m)
  PROVE  Places'
<1>1. /\ Loading!At(a, "load", m) /\ Loading!Done(a) /\ soList' = Append(soList, m)
      /\ Image[m].size <= Loading!Limit(m) /\ base' = [base EXCEPT ![m] = Loading!Place(m)]
      /\ UNCHANGED <<slots, lock, asked, handle, region>>
  BY DEF Loading!Load, Loading!native, Loading!Loads
<1>2. \A x : Listed(x)' <=> Listed(x) \/ x = m
  BY <1>1, Given, Appended
<1>3. \A x : Kept(x)' <=> Kept(x)
  BY <1>1 DEF Kept
<1>4. base \in [Modules -> Nat] /\ region \in Nat /\ \A x \in Modules : base[x] # 0 => Listed(x)
  BY DEF Places
<1>5. /\ base'[m] = Loading!Place(m) /\ \A x \in Modules : x # m => base'[x] = base[x]
      /\ \A x \in Modules : x # m => End(x)' = End(x)
      /\ End(m)' = Loading!Place(m) + Image[m].size
  BY <1>1, <1>4 DEF End
<1>6. \A x \in Modules : Image[x].size \in Nat
  BY ShareCovers
<1>7. GameAt \in Nat /\ NativeAt \in Nat /\ ReserveEnd \in Nat
  BY SlicesAssumption
<1>8. /\ Cxx \in Modules /\ GameLib \in Modules /\ Cxx # GameLib /\ Cxx \notin Libs /\ GameLib \notin Libs
      /\ Libs \subseteq Modules
  BY Parties
<1>9. /\ Loading!Place(Cxx) = 1 /\ Loading!Limit(Cxx) = GameAt - 1
      /\ Loading!Place(GameLib) = GameAt /\ Loading!Limit(GameLib) = NativeAt - GameAt
      /\ \A l \in Libs : Loading!Place(l) = region /\ Loading!Limit(l) = ReserveEnd - region
  BY Parties DEF Loading!Place, Loading!Limit
<1>10. Loading!Place(m) \in Nat
  <2>1. CASE m = Cxx
    BY <1>9, <2>1
  <2>2. CASE m = GameLib
    BY <1>7, <1>9, <2>2
  <2>3. CASE m \in Libs
    BY <1>4, <1>9, <2>3
  <2>4. QED BY <2>1, <2>2, <2>3, Parties
<1>11. base' \in [Modules -> Nat] /\ region' \in Nat /\ \A x \in Modules : base'[x] # 0 => Listed(x)'
  BY <1>1, <1>2, <1>4, <1>5, <1>10
<1>12. CASE a = Boot
  <2>1. PICK n \in 0..15 : n = BootLeft - 1 /\ ((n = 15 /\ m = Cxx) \/ (n = 14 /\ m = GameLib))
    BY <1>1, <1>12, BootAt DEF BootLeft
  <2>2. BootLeft' = BootLeft - 1 /\ BootLeft \in 1..16 /\ \A t \in Threads : Len(todo'[t]) = 0
    BY <1>1, <1>12, BootTurn
  <2>3. ~(BootLeft' <= 13)
    BY <2>1, <2>2
  <2>4. 0 \notin 1..8
    OBVIOUS
  <2>5. \A l \in Libs : ~Kept(l)'
    <3>1. todo[Boot] # <<>>
      BY <1>1, <1>12, BootAt
    <3>2. QED BY <1>3, <3>1, Booting1
  <2>6. Listed(Cxx)' => base'[Cxx] = 1 /\ End(Cxx)' <= GameAt
    <3>1. CASE m = Cxx
      <4>1. base'[Cxx] = 1 /\ End(Cxx)' = 1 + Image[Cxx].size /\ Image[Cxx].size <= GameAt - 1
        BY <1>1, <1>5, <1>9, <3>1
      <4>2. QED BY <1>6, <1>7, <1>8, <4>1
    <3>2. CASE m # Cxx
      BY <1>2, <1>5, <1>8, <3>2, Zenon DEF Places
    <3>3. QED BY <3>1, <3>2
  <2>7. Listed(GameLib)' => base'[GameLib] = GameAt /\ End(GameLib)' <= NativeAt
    <3>1. CASE m = GameLib
      <4>1. base'[GameLib] = GameAt /\ End(GameLib)' = GameAt + Image[GameLib].size
            /\ Image[GameLib].size <= NativeAt - GameAt
        BY <1>1, <1>5, <1>9, <3>1
      <4>2. QED BY <1>6, <1>7, <1>8, <4>1
    <3>2. CASE m # GameLib
      BY <1>2, <1>5, <1>8, <3>2, Zenon DEF Places
    <3>3. QED BY <3>1, <3>2
  <2>8. QED BY <1>11, <2>2, <2>3, <2>4, <2>5, <2>6, <2>7, Zenon DEF Places
<1>13. CASE a \in Threads
  <2>1. todo[a] # <<>> /\ m = asked[a] /\ m \in Libs /\ Len(todo[a]) = 9
    BY <1>1, <1>13, ThreadAt
  <2>2. /\ BootLeft = 0 /\ BootLeft' = 0
        /\ \A u \in Threads \ {a} : Len(todo'[u]) = 0
    BY <1>1, <1>3, <1>13, <2>1, ThreadTurn
  <2>3. ~Kept(m)
    <3>1. Len(todo[a]) \in 1..9
      BY <2>1
    <3>2. QED BY <1>13, <2>1, <3>1, NotKept
  <2>4. NativeAt <= region /\ region <= ReserveEnd
    <3>1. BootLeft <= 13
      BY <2>2
    <3>2. QED BY <3>1 DEF Places
  <2>5. base'[m] = region /\ End(m)' <= ReserveEnd
    <3>1. base'[m] = region /\ End(m)' = region + Image[m].size /\ Image[m].size <= ReserveEnd - region
      BY <1>1, <1>5, <1>9, <2>1
    <3>2. Image[m].size \in Nat
      BY <1>6
    <3>3. QED BY <1>4, <1>7, <3>1, <3>2
  <2>6. ASSUME NEW t \in Threads, Len(todo'[t]) \in 1..8
        PROVE  base'[asked'[t]] = region' /\ base'[asked'[t]] + Image[asked'[t]].size <= ReserveEnd
    <3>1. 0 \notin 1..8
      OBVIOUS
    <3>2. t = a
      BY <2>2, <2>6, <3>1, Zenon
    <3>3. asked'[t] = m /\ base'[m] = region' /\ base'[m] + Image[m].size <= ReserveEnd
      BY <1>1, <2>1, <2>5, <3>2 DEF End
    <3>4. QED BY <3>3
  <2>7. \A x \in Modules : x # m => base'[x] = base[x] /\ End(x)' = End(x) /\ (Listed(x)' <=> Listed(x))
    BY <1>2, <1>5
  <2>8. /\ Listed(Cxx)' => base'[Cxx] = 1 /\ End(Cxx)' <= GameAt
        /\ Listed(GameLib)' => base'[GameLib] = GameAt /\ End(GameLib)' <= NativeAt
    <3>1. Cxx # m /\ GameLib # m
      BY <1>8, <2>1
    <3>2. QED BY <1>8, <2>7, <3>1, Zenon DEF Places
  <2>9. \A l \in Libs : Kept(l)' => NativeAt <= base'[l] /\ End(l)' <= region'
    <3>1. ASSUME NEW l \in Libs, Kept(l)' PROVE NativeAt <= base'[l] /\ End(l)' <= region'
      <4>1. Kept(l) /\ l # m /\ l \in Modules
        BY <1>3, <1>8, <2>3, <3>1
      <4>2. QED BY <1>1, <2>7, <4>1 DEF Places
    <3>2. QED BY <3>1
  <2>10. \A l, k \in Libs : l # k /\ Kept(l)' /\ Kept(k)' => End(l)' <= base'[k] \/ End(k)' <= base'[l]
    <3>1. ASSUME NEW l \in Libs, NEW k \in Libs, l # k, Kept(l)', Kept(k)'
          PROVE  End(l)' <= base'[k] \/ End(k)' <= base'[l]
      <4>1. Kept(l) /\ l # m /\ l \in Modules /\ Kept(k) /\ k # m /\ k \in Modules
        BY <1>3, <1>8, <2>3, <3>1
      <4>2. End(l) <= base[k] \/ End(k) <= base[l]
        BY <3>1, <4>1 DEF Places
      <4>3. QED BY <2>7, <4>1, <4>2
    <3>2. QED BY <3>1
  <2>11. \A t \in Threads : Len(todo'[t]) \in 1..8 =>
            base'[asked'[t]] = region' /\ base'[asked'[t]] + Image[asked'[t]].size <= ReserveEnd
    BY <2>6, Zenon
  <2>12. BootLeft' <= 13 => NativeAt <= region' /\ region' <= ReserveEnd
    BY <1>1, <2>4
  <2>13. QED BY <1>11, <2>8, <2>9, <2>10, <2>11, <2>12, Zenon DEF Places, End
<1>14. QED BY <1>12, <1>13, Parties

LEMMA PlacesRegion ==
  ASSUME LoaderInv, Places, Loading!SetRegion
  PROVE  Places'
<1>1. /\ Loading!At(Boot, "region", GameLib) /\ Loading!Done(Boot) /\ region' = NativeAt
      /\ UNCHANGED <<soList, base, slots, asked>>
  BY Parties DEF Loading!SetRegion, Loading!image
<1>2. \A t \in Threads : Len(todo'[t]) = 0
  BY <1>1, BootTurn
<1>3. \A x : (Listed(x)' <=> Listed(x)) /\ End(x)' = End(x)
  BY <1>1 DEF Listed, End
<1>4. \A l \in Libs : ~Kept(l)'
  <2>1. todo[Boot] # <<>>
    BY <1>1, BootAt
  <2>2. QED BY <1>1, <2>1, Booting1 DEF Kept
<1>5. 0 \notin 1..8
  OBVIOUS
<1>6. NativeAt <= region' /\ region' <= ReserveEnd /\ region' \in Nat
  BY <1>1, SlicesAssumption
<1>7. /\ base' \in [Modules -> Nat] /\ \A m \in Modules : base'[m] # 0 => Listed(m)'
      /\ Listed(Cxx)' => base'[Cxx] = 1 /\ End(Cxx)' <= GameAt
      /\ Listed(GameLib)' => base'[GameLib] = GameAt /\ End(GameLib)' <= NativeAt
  BY <1>1, <1>3, Zenon DEF Places
<1>8. QED BY <1>2, <1>4, <1>5, <1>6, <1>7, Zenon DEF Places

LEMMA PlacesKeep ==
  ASSUME LoaderInv, Places, NEW t \in Threads, NEW m, Loading!Keep(t, m)
  PROVE  Places'
<1>1. /\ m \in Libs /\ m = asked[t] /\ Len(todo[t]) = 1 /\ Kept(m)' /\ ~Kept(m)
      /\ \A y : y # m => (Kept(y)' <=> Kept(y))
      /\ \A u \in Threads : Len(todo'[u]) = 0
      /\ BootLeft = 0 /\ BootLeft' = 0
  <2>1. Cxx \in Modules
    BY Parties
  <2>2. QED BY <2>1, KeepTurn
<1>2. /\ UNCHANGED <<soList, base>>
      /\ region' = IF Loading!Share(m) < ReserveEnd - region THEN region + Loading!Share(m) ELSE ReserveEnd
  BY DEF Loading!Keep, Loading!image
<1>3. \A x : (Listed(x)' <=> Listed(x)) /\ End(x)' = End(x)
  BY <1>2 DEF Listed, End
<1>4. base[m] = region /\ End(m) <= ReserveEnd
  <2>1. Len(todo[t]) \in 1..8
    BY <1>1
  <2>2. QED BY <1>1, <2>1 DEF Places
<1>5. NativeAt <= region /\ region <= ReserveEnd /\ region \in Nat /\ base \in [Modules -> Nat]
  <2>1. BootLeft <= 13
    BY <1>1
  <2>2. QED BY <2>1 DEF Places
<1>6. /\ Loading!Share(m) \in Nat /\ Image[m].size \in Nat /\ Image[m].size <= Loading!Share(m)
      /\ ReserveEnd \in Nat /\ NativeAt \in Nat
  BY <1>1, ShareCovers, SlicesAssumption, Parties
<1>7. /\ region <= region' /\ region' <= ReserveEnd /\ region' \in Nat
      /\ End(m) <= region' /\ NativeAt <= region'
  BY <1>2, <1>4, <1>5, <1>6 DEF End
<1>8. ASSUME NEW l \in Libs, l # m, Kept(l) PROVE NativeAt <= base[l] /\ End(l) <= base[m] /\ End(l) <= region'
  <2>1. NativeAt <= base[l] /\ End(l) <= region
    BY <1>8 DEF Places
  <2>2. l \in Modules /\ Image[l].size \in Nat
    BY ShareCovers, Parties
  <2>3. base[l] \in Nat /\ End(l) \in Nat
    BY <1>5, <2>2 DEF End
  <2>4. QED BY <1>4, <1>5, <1>7, <2>1, <2>3
<1>9. ASSUME NEW l \in Libs, Kept(l)' PROVE NativeAt <= base'[l] /\ End(l)' <= region'
  <2>1. CASE l = m
    BY <1>2, <1>3, <1>4, <1>5, <1>7, <2>1
  <2>2. CASE l # m
    BY <1>1, <1>2, <1>3, <1>8, <1>9, <2>2
  <2>3. QED BY <2>1, <2>2
<1>10. ASSUME NEW l \in Libs, NEW k \in Libs, l # k, Kept(l)', Kept(k)'
       PROVE  End(l)' <= base'[k] \/ End(k)' <= base'[l]
  <2>1. CASE l = m
    <3>1. Kept(k) /\ k # m
      BY <1>1, <1>10, <2>1
    <3>2. QED BY <1>2, <1>3, <1>8, <2>1, <3>1
  <2>2. CASE k = m
    <3>1. Kept(l) /\ l # m
      BY <1>1, <1>10, <2>2
    <3>2. QED BY <1>2, <1>3, <1>8, <2>2, <3>1
  <2>3. CASE l # m /\ k # m
    <3>1. Kept(l) /\ Kept(k)
      BY <1>1, <1>10, <2>3
    <3>2. End(l) <= base[k] \/ End(k) <= base[l]
      BY <1>10, <3>1 DEF Places
    <3>3. QED BY <1>2, <1>3, <3>2
  <2>4. QED BY <2>1, <2>2, <2>3
<1>11. 0 \notin 1..8
  OBVIOUS
<1>12. /\ base' \in [Modules -> Nat] /\ \A x \in Modules : base'[x] # 0 => Listed(x)'
       /\ Listed(Cxx)' => base'[Cxx] = 1 /\ End(Cxx)' <= GameAt
       /\ Listed(GameLib)' => base'[GameLib] = GameAt /\ End(GameLib)' <= NativeAt
  BY <1>2, <1>3, Zenon DEF Places
<1>13. QED BY <1>1, <1>7, <1>9, <1>10, <1>11, <1>12, Zenon DEF Places

----------------------------------------------------------------------------
(* The first state, every step, and what follows.                          *)

LEMMA InitImages == Loading!Init => ImagesInv
<1> SUFFICES ASSUME Loading!Init PROVE ImagesInv
  OBVIOUS
<1>1. /\ todo = [a \in Actors |-> IF a = Boot THEN Loading!BootProgram ELSE <<>>]
      /\ soList = <<>> /\ base = [m \in Modules |-> 0]
      /\ word = [m \in Modules |-> [w \in 0..Image[m].size-1 |-> 0]]
      /\ got = [m \in Modules |-> [s \in Image[m].strong \cup Image[m].weak |-> "stale"]]
      /\ perm = [m \in Modules |-> [p \in 0..Image[m].size-1 |-> "none"]]
      /\ inits = [m \in Modules |-> 0] /\ region = 0
      /\ slots = [i \in 1..MaxNative |-> [name |-> "", state |-> 0]]
  BY Parties DEF Loading!Init, Loading!NoSlot, Actors, Modules
<1>2. BootLeft = 16 /\ \A t \in Threads : Len(todo[t]) = 0
  <2>1. todo[Boot] = Loading!BootProgram /\ \A t \in Threads : todo[t] = <<>>
    BY <1>1, Parties
  <2>2. QED BY <2>1, Programs, NothingLeft DEF BootLeft
<1>3. \A x : ~Listed(x)
  <2>1. DOMAIN <<>> = {}
    OBVIOUS
  <2>2. DOMAIN soList = {}
    BY <1>1, <2>1
  <2>3. QED BY <2>2, Zenon DEF Listed
<1>4. \A x : ~Kept(x)
  <2>1. 0 # 1
    OBVIOUS
  <2>2. QED BY <1>1, <2>1 DEF Kept
<1>5. ASSUME NEW x \in Modules PROVE ~IsRelocated(x) /\ ~IsResolved(x) /\ ~IsPermitted(x)
  <2>1. 0 \notin 1..7 /\ 0 \notin 1..6 /\ 0 \notin 1..2
    OBVIOUS
  <2>2. ~(16 <= 12) /\ ~(16 <= 10) /\ ~(16 <= 11) /\ ~(16 <= 9) /\ ~(16 <= 5) /\ ~(16 <= 2)
    OBVIOUS
  <2>3. QED BY <1>2, <1>4, <2>1, <2>2, Zenon DEF IsRelocated, IsResolved, IsPermitted, Over
<1>6. 0 \notin 1..8 /\ ~(16 <= 13)
  OBVIOUS
<1>7. Places
  <2>1. base \in [Modules -> Nat] /\ region \in Nat /\ \A m \in Modules : base[m] = 0
    BY <1>1
  <2>2. QED BY <1>2, <1>3, <1>4, <1>6, <2>1, Zenon DEF Places
<1>8. Words
  <2>1. DOMAIN word = Modules /\ \A m \in Modules : DOMAIN word[m] = 0..Image[m].size-1 /\ Fresh(m)
    BY <1>1 DEF Fresh
  <2>2. QED BY <1>5, <2>1, Zenon DEF Words
<1>9. Perms
  BY <1>1, <1>5 DEF Perms
<1>10. Bindings
  <2>1. DOMAIN got = Modules
    BY <1>1
  <2>2. QED BY <1>2, <1>5, <1>6, <2>1, Zenon DEF Bindings
<1>11. Inits
  <2>1. inits[Cxx] = 0 /\ inits[GameLib] = 0
    BY <1>1, Parties
  <2>2. ~(0 > 0)
    OBVIOUS
  <2>3. QED BY <2>1, <2>2, Zenon DEF Inits
<1>12. QED BY <1>7, <1>8, <1>9, <1>10, <1>11 DEF ImagesInv

\* A step of a program that is not for the memory, on the list's modules.
LEMMA InitsSame ==
  ASSUME LoaderInv, Inits, inits' = inits, BootLeft' <= BootLeft, BootLeft \in Nat, BootLeft' \in Nat
  PROVE  Inits'
<1>1. BootLeft <= 1 => BootLeft' <= 1
  OBVIOUS
<1>2. BootLeft = 0 => BootLeft' = 0
  OBVIOUS
<1>3. QED BY <1>1, <1>2, Zenon DEF Inits

\* What every step of a program does with the rest.
LEMMA TurnRest ==
  ASSUME LoaderInv, NEW a \in Actors, NEW m, NEW step,
         Loading!At(a, step, m), Loading!Done(a), step # "keep",
         \A x : Kept(x)' <=> Kept(x), UNCHANGED asked, a = Boot => UNCHANGED slots
  PROVE  /\ BootLeft \in Nat /\ BootLeft' \in Nat /\ BootLeft' <= BootLeft
         /\ step \notin {"load", "region"} => (BootLeft' <= 13 => BootLeft <= 13)
         /\ step \notin {"load", "find"} =>
              \A t \in Threads : Len(todo'[t]) \in 1..8 => Len(todo[t]) \in 1..8 /\ asked'[t] = asked[t]
         /\ step = "find" => \A t \in Threads : Len(todo'[t]) \notin 1..8
<1>1. CASE a = Boot
  <2>1. PICK n \in 0..15 : Len(todo[Boot]) = n + 1 /\ (n = 13 => step = "region")
    BY <1>1, BootTimes
  <2>2. BootLeft' = BootLeft - 1 /\ BootLeft \in 1..16 /\ \A t \in Threads : Len(todo'[t]) = 0
    BY <1>1, BootTurn
  <2>3. BootLeft = n + 1 /\ BootLeft' = n
    BY <2>1, <2>2 DEF BootLeft
  <2>4. BootLeft \in Nat /\ BootLeft' \in Nat /\ BootLeft' <= BootLeft
    BY <2>3
  <2>5. step # "region" => (BootLeft' <= 13 => BootLeft <= 13)
    BY <2>1, <2>3
  <2>6. 0 \notin 1..8
    OBVIOUS
  <2>7. QED BY <2>2, <2>4, <2>5, <2>6, Zenon
<1>2. CASE a \in Threads
  <2>1. todo[a] # <<>>
    BY <1>2, ThreadAt
  <2>2. /\ Len(todo'[a]) = Len(todo[a]) - 1 /\ Len(todo[a]) \in 1..10
        /\ BootLeft = 0 /\ BootLeft' = 0
        /\ \A u \in Threads \ {a} : Len(todo'[u]) = 0
    BY <1>2, <2>1, ThreadTurn
  <2>3. step = "find" => Len(todo'[a]) = 9
    <3>1. step = "find" => Len(todo[a]) = 10
      BY <1>2, ThreadAt
    <3>2. QED BY <2>2, <3>1
  <2>4. step \notin {"load", "find"} => (Len(todo'[a]) \in 1..8 => Len(todo[a]) \in 1..8)
    <3>1. PICK n \in 0..9 : Len(todo[a]) = n + 1
                            /\ (step = "find" \/ step = "load" \/ n \in 0..7)
      <4>1. PICK n \in 0..9 :
              /\ Len(todo[a]) = n + 1
              /\ Loading!NativeProgram(asked[a])[10 - n] = <<step, m>>
        BY <1>2, ThreadTask
      <4>2. n = 9 => step = "find"
        BY <4>1 DEF Loading!NativeProgram
      <4>3. n = 8 => step = "load"
        BY <4>1 DEF Loading!NativeProgram
      <4>4. n = 9 \/ n = 8 \/ n \in 0..7
        OBVIOUS
      <4>5. QED BY <4>1, <4>2, <4>3, <4>4, Zenon
    <3>2. n \in 0..7 => Len(todo[a]) \in 1..8
      BY <3>1
    <3>3. QED BY <3>1, <3>2, Zenon
  <2>5. 0 \notin 1..8 /\ 9 \notin 1..8
    OBVIOUS
  <2>6. 0 \in Nat /\ 0 <= 0
    OBVIOUS
  <2>7. QED BY <2>2, <2>3, <2>4, <2>5, <2>6, Zenon
<1>3. QED BY <1>1, <1>2, Parties

\* A step of a program that moves no image: what it does not write stays right.
LEMMA Ordinary ==
  ASSUME LoaderInv, ImagesInv, NEW a \in Actors, NEW m \in Modules, NEW step,
         Loading!At(a, step, m), Loading!Done(a), step \notin {"load", "region", "keep"},
         UNCHANGED <<soList, base, region, asked>>,
         \A x : Kept(x)' <=> Kept(x), a = Boot => UNCHANGED slots
  PROVE  /\ Places'
         /\ got' = got /\ step # "resolve" => Bindings'
         /\ word' = word /\ step # "relocate" => Words'
         /\ perm' = perm /\ step # "permit" => Perms'
         /\ inits' = inits => Inits'
         /\ \A x \in Modules :
              /\ IF step = "relocate" /\ x = m THEN ~IsRelocated(x) /\ IsRelocated(x)'
                 ELSE IsRelocated(x)' <=> IsRelocated(x)
              /\ step # "resolve" \/ x # m => (IsResolved(x)' <=> IsResolved(x))
              /\ step # "permit" \/ x # m => (IsPermitted(x)' <=> IsPermitted(x))
<1>1. step # "keep" /\ step # "load" /\ step # "region"
  OBVIOUS
<1>2. ASSUME NEW x \in Modules
      PROVE  /\ IF step = "relocate" /\ x = m THEN ~IsRelocated(x) /\ IsRelocated(x)'
                ELSE IsRelocated(x)' <=> IsRelocated(x)
             /\ step # "resolve" \/ x # m => (IsResolved(x)' <=> IsResolved(x))
             /\ step # "permit" \/ x # m => (IsPermitted(x)' <=> IsPermitted(x))
  BY <1>1, Turn, Zenon
<1>3. /\ BootLeft \in Nat /\ BootLeft' \in Nat /\ BootLeft' <= BootLeft
      /\ BootLeft' <= 13 => BootLeft <= 13
      /\ \A t \in Threads : Len(todo'[t]) \in 1..8 => Len(todo[t]) \in 1..8 /\ asked'[t] = asked[t]
  <2>1. /\ BootLeft \in Nat /\ BootLeft' \in Nat /\ BootLeft' <= BootLeft
        /\ step \notin {"load", "region"} => (BootLeft' <= 13 => BootLeft <= 13)
        /\ step \notin {"load", "find"} =>
             \A t \in Threads : Len(todo'[t]) \in 1..8 => Len(todo[t]) \in 1..8 /\ asked'[t] = asked[t]
        /\ step = "find" => \A t \in Threads : Len(todo'[t]) \notin 1..8
    BY <1>1, TurnRest
  <2>2. QED BY <1>1, <2>1, Zenon
<1>4. Places /\ Words /\ Perms /\ Bindings /\ Inits
  BY DEF ImagesInv
<1>5. Places'
  <2>1. \A x : Listed(x)' <=> Listed(x)
    BY DEF Listed
  <2>2. QED BY <1>3, <1>4, <2>1, PlacesSame
<1>6. got' = got /\ step # "resolve" => Bindings'
  BY <1>2, <1>3, <1>4, BindingsSame
<1>7. word' = word /\ step # "relocate" => Words'
  BY <1>2, <1>4, WordsSame
<1>8. perm' = perm /\ step # "permit" => Perms'
  BY <1>2, <1>4, PermsSame
<1>9. inits' = inits => Inits'
  BY <1>3, <1>4, InitsSame
<1>10. QED BY <1>2, <1>5, <1>6, <1>7, <1>8, <1>9

\* What the steps of so_util do.
LEMMA LoadImages ==
  ASSUME LoaderInv, ImagesInv, NEW a \in Actors, NEW m \in Modules, Loading!Load(a, m)
  PROVE  ImagesInv'
<1>1. /\ Loading!At(a, "load", m) /\ Loading!Done(a)
      /\ UNCHANGED <<word, got, perm, inits, slots, asked>>
  BY DEF Loading!Load, Loading!native
<1>2. \A x : Kept(x)' <=> Kept(x)
  BY <1>1 DEF Kept
<1>3. ASSUME NEW x \in Modules
      PROVE  /\ IsRelocated(x)' <=> IsRelocated(x)
             /\ IsResolved(x)' <=> IsResolved(x)
             /\ IsPermitted(x)' <=> IsPermitted(x)
  <2>1. "load" # "keep" /\ "load" # "relocate" /\ "load" # "resolve" /\ "load" # "permit"
    OBVIOUS
  <2>2. QED BY <1>1, <1>2, <2>1, Turn, Zenon
<1>4. BootLeft \in Nat /\ BootLeft' \in Nat /\ BootLeft' <= BootLeft
  BY <1>1, <1>2, TurnRest
<1>5. Places /\ Words /\ Perms /\ Bindings /\ Inits
  BY DEF ImagesInv
<1>6. Places'
  BY <1>5, PlacesLoad
<1>7. Words' /\ Perms'
  BY <1>1, <1>3, <1>5, WordsSame, PermsSame
<1>8. Bindings'
  BY <1>3, <1>5, BindingsGrow
<1>9. Inits'
  BY <1>1, <1>4, <1>5, InitsSame
<1>10. QED BY <1>6, <1>7, <1>8, <1>9 DEF ImagesInv

LEMMA RelocateImages ==
  ASSUME LoaderInv, ImagesInv, NEW a \in Actors, NEW m \in Modules, Loading!Relocate(a, m)
  PROVE  ImagesInv'
<1>1. /\ Loading!At(a, "relocate", m) /\ Loading!Done(a)
      /\ UNCHANGED <<soList, base, region, got, perm, inits, slots, asked>>
  BY DEF Loading!Relocate, Loading!native
<1>2. \A x : Kept(x)' <=> Kept(x)
  BY <1>1 DEF Kept
<1>3. /\ Places' /\ Bindings' /\ Perms' /\ Inits'
      /\ ~IsRelocated(m) /\ IsRelocated(m)'
      /\ \A x \in Modules : x # m => (IsRelocated(x)' <=> IsRelocated(x))
  <2>1. /\ "relocate" \notin {"load", "region", "keep"}
        /\ "relocate" # "resolve" /\ "relocate" # "permit"
    OBVIOUS
  <2>2. QED BY <1>1, <1>2, <2>1, Ordinary
<1>4. Words'
  BY <1>3, WordsRight DEF ImagesInv
<1>5. QED BY <1>3, <1>4 DEF ImagesInv

LEMMA ResolveImages ==
  ASSUME LoaderInv, ImagesInv, NEW a \in Actors, NEW m \in Modules, Loading!Resolve(a, m)
  PROVE  ImagesInv'
<1>1. /\ Loading!At(a, "resolve", m) /\ Loading!Done(a)
      /\ UNCHANGED <<soList, base, region, word, perm, inits, slots, asked>>
  BY DEF Loading!Resolve, Loading!native
<1>2. \A x : Kept(x)' <=> Kept(x)
  BY <1>1 DEF Kept
<1>3. /\ Places' /\ Words' /\ Perms' /\ Inits'
      /\ \A x \in Modules : x # m => (IsResolved(x)' <=> IsResolved(x))
  <2>1. /\ "resolve" \notin {"load", "region", "keep"}
        /\ "resolve" # "relocate" /\ "resolve" # "permit"
    OBVIOUS
  <2>2. QED BY <1>1, <1>2, <2>1, Ordinary
<1>4. Bindings'
  BY <1>3, BindingsRight DEF ImagesInv
<1>5. QED BY <1>3, <1>4 DEF ImagesInv

LEMMA PermitImages ==
  ASSUME LoaderInv, ImagesInv, NEW a \in Actors, NEW m \in Modules, Loading!Permit(a, m)
  PROVE  ImagesInv'
<1>1. /\ Loading!At(a, "permit", m) /\ Loading!Done(a)
      /\ UNCHANGED <<soList, base, region, word, got, inits, slots, asked>>
  BY DEF Loading!Permit, Loading!native
<1>2. \A x : Kept(x)' <=> Kept(x)
  BY <1>1 DEF Kept
<1>3. /\ Places' /\ Words' /\ Bindings' /\ Inits'
      /\ \A x \in Modules : x # m => (IsPermitted(x)' <=> IsPermitted(x))
  <2>1. /\ "permit" \notin {"load", "region", "keep"}
        /\ "permit" # "relocate" /\ "permit" # "resolve"
    OBVIOUS
  <2>2. QED BY <1>1, <1>2, <2>1, Ordinary
<1>4. Perms'
  BY <1>3, PermsRight DEF ImagesInv
<1>5. QED BY <1>3, <1>4 DEF ImagesInv

LEMMA QuietImages ==
  ASSUME LoaderInv, ImagesInv, NEW a \in Actors, NEW m \in Modules,
         Loading!Cache(a, m) \/ Loading!Map(a, m) \/ Loading!Rebase(a, m)
  PROVE  ImagesInv'
<1>1. PICK step \in {"cache", "map", "rebase"} :
        /\ Loading!At(a, step, m) /\ Loading!Done(a)
        /\ UNCHANGED <<soList, base, region, word, got, perm, inits, slots, asked>>
  BY DEF Loading!Cache, Loading!Map, Loading!Rebase, Loading!native, Loading!image
<1>2. \A x : Kept(x)' <=> Kept(x)
  BY <1>1 DEF Kept
<1>3. step \notin {"load", "region", "keep"} /\ step \notin {"relocate", "resolve", "permit"}
  OBVIOUS
<1>4. Places' /\ Words' /\ Perms' /\ Bindings' /\ Inits'
  BY <1>1, <1>2, <1>3, Ordinary
<1>5. QED BY <1>4 DEF ImagesInv

\* The code of the boot's modules runs when the boot is at its end.
LEMMA RunImages ==
  ASSUME LoaderInv, ImagesInv, NEW a \in Actors, NEW m \in Modules, Loading!InitArray(a, m)
  PROVE  ImagesInv'
<1>1. /\ Loading!At(a, "init", m) /\ Loading!Done(a)
      /\ inits' = [inits EXCEPT ![m] = inits[m] + 1]
      /\ UNCHANGED <<soList, base, region, word, got, perm, slots, asked>>
  BY DEF Loading!InitArray, Loading!native
<1>2. \A x : Kept(x)' <=> Kept(x)
  BY <1>1 DEF Kept
<1>3. Places' /\ Words' /\ Perms' /\ Bindings'
  <2>1. /\ "init" \notin {"load", "region", "keep"}
        /\ "init" # "relocate" /\ "init" # "resolve" /\ "init" # "permit"
    OBVIOUS
  <2>2. QED BY <1>1, <1>2, <2>1, Ordinary
<1>4. \A x \in Modules : x # m => inits'[x] = inits[x]
  BY <1>1, Given
<1>5. Inits'
  <2>1. CASE a = Boot
    <3>1. PICK n \in 0..15 : /\ Len(todo[Boot]) = n + 1 /\ n = Len(todo[Boot]) - 1
                             /\ m = Cxx => n = 1
                             /\ m = GameLib => n = 0
                             /\ m \in {Cxx, GameLib}
      BY <1>1, <2>1, BootTimes
    <3>2. BootLeft = n + 1 /\ BootLeft' = n
      <4>1. BootLeft' = BootLeft - 1
        BY <1>1, <2>1, BootTurn
      <4>2. QED BY <3>1, <4>1 DEF BootLeft
    <3>3. CASE m = Cxx
      <4>1. ~(inits[GameLib] > 0)
        <5>1. BootLeft # 0
          BY <3>1, <3>2
        <5>2. QED BY <5>1, Zenon DEF ImagesInv, Inits
      <4>2. inits'[GameLib] = inits[GameLib]
        BY <1>4, <3>3, Parties
      <4>3. BootLeft' <= 1
        BY <3>1, <3>2, <3>3
      <4>4. QED BY <4>1, <4>2, <4>3, Zenon DEF Inits
    <3>4. CASE m = GameLib
      <4>1. BootLeft' <= 1 /\ BootLeft' = 0
        BY <3>1, <3>2, <3>4
      <4>2. QED BY <4>1, Zenon DEF Inits
    <3>5. QED BY <3>1, <3>3, <3>4
  <2>2. CASE a \in Threads
    <3>1. todo[a] # <<>> /\ m \in Libs
      BY <1>1, <2>2, ThreadAt
    <3>2. BootLeft' = 0
      BY <1>1, <1>2, <2>2, <3>1, ThreadTurn
    <3>3. BootLeft' <= 1
      BY <3>2
    <3>4. QED BY <3>2, <3>3, Zenon DEF Inits
  <2>3. QED BY <2>1, <2>2, Parties
<1>6. QED BY <1>3, <1>5 DEF ImagesInv

LEMMA RegionImages ==
  ASSUME LoaderInv, ImagesInv, Loading!SetRegion
  PROVE  ImagesInv'
<1>1. /\ Loading!At(Boot, "region", GameLib) /\ Loading!Done(Boot)
      /\ UNCHANGED <<soList, word, got, perm, inits, slots, asked>>
  BY Parties DEF Loading!SetRegion, Loading!image
<1>2. \A x : Kept(x)' <=> Kept(x)
  BY <1>1 DEF Kept
<1>3. "region" # "keep" /\ "region" # "relocate" /\ "region" # "resolve" /\ "region" # "permit"
  OBVIOUS
<1>4. Boot \in Actors /\ GameLib \in Modules
  BY Parties
<1>5. ASSUME NEW x \in Modules
      PROVE  /\ IsRelocated(x)' <=> IsRelocated(x)
             /\ IsResolved(x)' <=> IsResolved(x)
             /\ IsPermitted(x)' <=> IsPermitted(x)
  BY <1>1, <1>2, <1>3, <1>4, Turn, Zenon
<1>6. /\ BootLeft \in Nat /\ BootLeft' \in Nat /\ BootLeft' <= BootLeft
      /\ \A t \in Threads : Len(todo'[t]) \in 1..8 => Len(todo[t]) \in 1..8 /\ asked'[t] = asked[t]
  <2>1. "region" \notin {"load", "find"}
    OBVIOUS
  <2>2. QED BY <1>1, <1>2, <1>3, <1>4, <2>1, TurnRest
<1>7. Places /\ Words /\ Perms /\ Bindings /\ Inits
  BY DEF ImagesInv
<1>8. Places'
  BY <1>7, PlacesRegion
<1>9. Words' /\ Perms'
  BY <1>1, <1>5, <1>7, WordsSame, PermsSame
<1>10. Bindings'
  BY <1>1, <1>5, <1>6, <1>7, BindingsSame
<1>11. Inits'
  BY <1>1, <1>6, <1>7, InitsSame
<1>12. QED BY <1>8, <1>9, <1>10, <1>11 DEF ImagesInv

\* The steps between two openings, and those that take nothing further.
LEMMA RestImages ==
  ASSUME LoaderInv, ImagesInv, UNCHANGED <<soList, base, region, word, got, perm, inits>>,
         \A x : Kept(x)' <=> Kept(x), BootLeft' = BootLeft,
         \A u \in Threads : /\ Len(todo[u]) \in 1..8 <=> Len(todo'[u]) \in 1..8
                            /\ Len(todo[u]) \in 1..8 => Len(todo'[u]) = Len(todo[u]) /\ asked'[u] = asked[u]
  PROVE  ImagesInv'
<1>1. ASSUME NEW x \in Modules
      PROVE  /\ IsRelocated(x)' <=> IsRelocated(x)
             /\ IsResolved(x)' <=> IsResolved(x)
             /\ IsPermitted(x)' <=> IsPermitted(x)
  BY Rest, Zenon
<1>2. Places /\ Words /\ Perms /\ Bindings /\ Inits
  BY DEF ImagesInv
<1>3. \A t \in Threads : Len(todo'[t]) \in 1..8 => Len(todo[t]) \in 1..8 /\ asked'[t] = asked[t]
  BY Zenon
<1>4. BootLeft' <= 13 => BootLeft <= 13
  BY Zenon
<1>5. \A x : Listed(x)' <=> Listed(x)
  BY DEF Listed
<1>6. Places'
  BY <1>2, <1>3, <1>4, <1>5, PlacesSame
<1>7. Words' /\ Perms'
  BY <1>1, <1>2, WordsSame, PermsSame
<1>8. Bindings'
  BY <1>1, <1>2, <1>3, BindingsSame
<1>9. Inits'
  BY <1>2, Zenon DEF Inits
<1>10. QED BY <1>6, <1>7, <1>8, <1>9 DEF ImagesInv

\* native_module_open returns without a module, or begins.
LEMMA AnswerImages ==
  ASSUME LoaderInv, ImagesInv, NEW t \in Threads, NEW m, NEW h, Loading!Answer(t, m, h),
         Len(todo[t]) \notin 1..8, todo[t] # <<>>,
         UNCHANGED <<soList, base, region, word, got, perm, inits>>, \A x : Kept(x)' <=> Kept(x)
  PROVE  ImagesInv'
<1>1. /\ todo' = [todo EXCEPT ![t] = <<>>] /\ asked' = [asked EXCEPT ![t] = ""]
      /\ DOMAIN todo = Actors /\ DOMAIN asked = Threads
  BY DEF Loading!Answer, LoaderInv, LoaderTypes
<1>2. todo'[t] = <<>> /\ Len(todo'[t]) \notin 1..8
  <2>1. todo'[t] = <<>>
    BY <1>1, Parties
  <2>2. Len(<<>>) = 0 /\ 0 \notin 1..8
    OBVIOUS
  <2>3. QED BY <2>1, <2>2
<1>3. \A u \in Threads \ {t} : todo'[u] = todo[u] /\ asked'[u] = asked[u]
  BY <1>1, Parties
<1>4. BootLeft' = BootLeft
  BY <1>1, Parties DEF BootLeft
<1>5. ASSUME NEW u \in Threads
      PROVE  /\ Len(todo[u]) \in 1..8 <=> Len(todo'[u]) \in 1..8
             /\ Len(todo[u]) \in 1..8 => Len(todo'[u]) = Len(todo[u]) /\ asked'[u] = asked[u]
  <2>1. CASE u = t
    BY <1>2, <2>1, Zenon
  <2>2. CASE u # t
    BY <1>3, <2>2, Zenon
  <2>3. QED BY <2>1, <2>2
<1>6. QED BY <1>4, <1>5, RestImages

LEMMA OpenImages ==
  ASSUME LoaderInv, ImagesInv, NEW t \in Threads, NEW m \in Libs,
         \/ Loading!FoundOld(t, m)
         \/ Loading!NoRoom(t, m)
         \/ Loading!NativeFails(t, m)
  PROVE  ImagesInv'
<1>1. CASE Loading!FoundOld(t, m) \/ Loading!NoRoom(t, m)
  <2>1. PICK h : /\ Loading!At(t, "find", m) /\ Loading!Answer(t, m, h)
                 /\ UNCHANGED <<soList, base, region, word, got, perm, inits, slots>>
    BY <1>1 DEF Loading!FoundOld, Loading!NoRoom, Loading!image
  <2>2. \A x : Kept(x)' <=> Kept(x)
    BY <2>1 DEF Kept
  <2>3. todo[t] # <<>> /\ Len(todo[t]) = 10
    BY <2>1, FindAt
  <2>4. Len(todo[t]) \notin 1..8
    BY <2>3
  <2>5. QED BY <2>1, <2>2, <2>3, <2>4, AnswerImages
<1>2. CASE Loading!NativeFails(t, m)
  <2> DEFINE k == Loading!First(Loading!FreeSlots)
  <2>1. /\ Loading!At(t, "load", m) /\ Loading!Answer(t, m, "bridge")
        /\ slots' = [slots EXCEPT ![k].state = -1]
        /\ UNCHANGED <<soList, base, region, word, got, perm, inits>>
    BY <1>2 DEF Loading!NativeFails, Loading!image
  <2>2. todo[t] # <<>> /\ m = asked[t] /\ Len(todo[t]) = 9
    BY <2>1, ThreadAt
  <2>3. Loading!FreeSlots # {}
    <3>1. Loading!SlotOf(m) = {} /\ \E i \in 1..MaxNative : slots[i].name = m
      <4>1. 9 \in 1..9
        OBVIOUS
      <4>2. QED BY <2>2, <4>1, Zenon DEF LoaderInv, Under
    <3>2. PICK i \in 1..MaxNative : slots[i].name = m
      BY <3>1
    <3>3. i \in DOMAIN slots
      BY SlotTypes
    <3>4. slots[i].state = 0
      BY <3>1, <3>2, <3>3, Zenon DEF Loading!SlotOf
    <3>5. i \in Loading!FreeSlots
      BY <3>3, <3>4 DEF Loading!FreeSlots
    <3>6. QED BY <3>5
  <2>4. k \in 1..MaxNative /\ slots[k].state = 0
    BY <2>3, FreeSlot
  <2> HIDE DEF k
  <2>5. \A x : Kept(x)' <=> Kept(x)
    BY <2>1, <2>4, Marked
  <2>6. Len(todo[t]) \notin 1..8
    BY <2>2
  <2>7. QED BY <2>1, <2>2, <2>5, <2>6, AnswerImages
<1>3. QED BY <1>1, <1>2

LEMMA TakeImages ==
  ASSUME LoaderInv, ImagesInv, NEW t \in Threads, NEW m \in Libs, Loading!TakeSlot(t, m)
  PROVE  ImagesInv'
<1> DEFINE k == Loading!First(Loading!FreeSlots)
<1>1. /\ Loading!At(t, "find", m) /\ Loading!FreeSlots # {} /\ Loading!Done(t)
      /\ slots' = [slots EXCEPT ![k] = [name |-> m, state |-> 0]]
      /\ UNCHANGED <<soList, base, region, word, got, perm, inits, asked>>
  BY DEF Loading!TakeSlot, Loading!image
<1>2. k \in 1..MaxNative /\ slots[k].state = 0
  BY <1>1, FreeSlot
<1> HIDE DEF k
<1>3. slots'[k].state = 0 /\ \A i \in 1..MaxNative : i = k \/ slots'[i] = slots[i]
  BY <1>1, <1>2, SlotTypes
<1>4. ASSUME NEW x PROVE Kept(x)' <=> Kept(x)
  <2>1. 0 # 1
    OBVIOUS
  <2>2. QED BY <1>2, <1>3, <2>1, Zenon DEF Kept
<1>5. Places' /\ Words' /\ Perms' /\ Bindings' /\ Inits'
  <2>1. /\ "find" \notin {"load", "region", "keep"}
        /\ "find" # "relocate" /\ "find" # "resolve" /\ "find" # "permit"
    OBVIOUS
  <2>2. t \in Actors /\ t # Boot /\ m \in Modules
    BY Parties
  <2>3. QED BY <1>1, <1>4, <2>1, <2>2, Ordinary
<1>6. QED BY <1>5 DEF ImagesInv

LEMMA KeepImages ==
  ASSUME LoaderInv, ImagesInv, NEW t \in Threads, NEW m \in Libs, Loading!Keep(t, m)
  PROVE  ImagesInv'
<1>1. UNCHANGED <<soList, word, got, perm, inits>>
  BY DEF Loading!Keep, Loading!image
<1>2. ASSUME NEW x \in Modules
      PROVE  /\ IsRelocated(x)' <=> IsRelocated(x)
             /\ IsResolved(x)' <=> IsResolved(x)
             /\ IsPermitted(x)' <=> IsPermitted(x)
             /\ \A u \in Threads : Len(todo'[u]) = 0
             /\ BootLeft = 0 /\ BootLeft' = 0
  BY KeepTurn, Zenon
<1>3. \A u \in Threads : Len(todo'[u]) = 0
  BY <1>2, Parties
<1>4. BootLeft = 0 /\ BootLeft' = 0
  BY <1>2, Parties
<1>5. Places /\ Words /\ Perms /\ Bindings /\ Inits
  BY DEF ImagesInv
<1>6. Places'
  BY <1>5, PlacesKeep
<1>7. Words' /\ Perms'
  BY <1>1, <1>2, <1>5, WordsSame, PermsSame
<1>8. Bindings'
  <2>1. 0 \notin 1..8
    OBVIOUS
  <2>2. \A u \in Threads : Len(todo'[u]) \notin 1..8
    BY <1>3, <2>1, Zenon
  <2>3. QED BY <1>1, <1>2, <1>5, <2>2, BindingsSame
<1>9. Inits'
  BY <1>1, <1>4, <1>5, Zenon DEF Inits
<1>10. QED BY <1>6, <1>7, <1>8, <1>9 DEF ImagesInv

LEMMA DlopenImages ==
  ASSUME LoaderInv, ImagesInv, NEW t \in Threads, NEW m, Loading!Dlopen(t, m)
  PROVE  ImagesInv'
<1>1. /\ todo[t] = <<>> /\ asked' = [asked EXCEPT ![t] = m] /\ DOMAIN asked = Threads
      /\ UNCHANGED <<todo, slots, soList, base, region, word, got, perm, inits>>
  BY DEF Loading!Dlopen, Loading!image, LoaderInv, LoaderTypes
<1>2. Len(todo[t]) \notin 1..8
  <2>1. Len(<<>>) = 0 /\ 0 \notin 1..8
    OBVIOUS
  <2>2. QED BY <1>1, <2>1
<1>3. \A u \in Threads \ {t} : asked'[u] = asked[u]
  BY <1>1
<1>4. ASSUME NEW u \in Threads
      PROVE  /\ Len(todo[u]) \in 1..8 <=> Len(todo'[u]) \in 1..8
             /\ Len(todo[u]) \in 1..8 => Len(todo'[u]) = Len(todo[u]) /\ asked'[u] = asked[u]
  BY <1>1, <1>2, <1>3, Zenon
<1>5. BootLeft' = BootLeft /\ \A x : Kept(x)' <=> Kept(x)
  BY <1>1 DEF BootLeft, Kept
<1>6. QED BY <1>1, <1>4, <1>5, RestImages

LEMMA LockImages ==
  ASSUME LoaderInv, ImagesInv, NEW t \in Threads, Loading!Lock(t)
  PROVE  ImagesInv'
<1>1. /\ asked[t] # "" /\ todo[t] = <<>> /\ DOMAIN todo = Actors
      /\ todo' = [todo EXCEPT ![t] = Loading!NativeProgram(asked[t])]
      /\ UNCHANGED <<asked, slots, soList, base, region, word, got, perm, inits>>
  BY DEF Loading!Lock, Loading!image, LoaderInv, LoaderTypes
<1>2. PICK l \in Libs : l = asked[t]
  BY <1>1 DEF LoaderInv, LoaderTypes
<1>3. Len(todo[t]) \notin 1..8 /\ Len(todo'[t]) \notin 1..8
  <2>1. Len(<<>>) = 0 /\ 0 \notin 1..8 /\ 10 \notin 1..8
    OBVIOUS
  <2>2. Len(todo'[t]) = 10
    <3>1. todo'[t] = Loading!NativeProgram(l)
      BY <1>1, <1>2, Parties
    <3>2. QED BY <3>1, Programs
  <2>3. QED BY <1>1, <2>1, <2>2
<1>4. \A a \in Actors \ {t} : todo'[a] = todo[a]
  BY <1>1
<1>5. ASSUME NEW u \in Threads
      PROVE  /\ Len(todo[u]) \in 1..8 <=> Len(todo'[u]) \in 1..8
             /\ Len(todo[u]) \in 1..8 => Len(todo'[u]) = Len(todo[u]) /\ asked'[u] = asked[u]
  <2>1. CASE u = t
    BY <1>3, <2>1, Zenon
  <2>2. CASE u # t
    <3>1. todo'[u] = todo[u] /\ asked'[u] = asked[u]
      BY <1>1, <1>4, <2>2, Parties
    <3>2. QED BY <3>1, Zenon
  <2>3. QED BY <2>1, <2>2
<1>6. BootLeft' = BootLeft /\ \A x : Kept(x)' <=> Kept(x)
  BY <1>1, <1>4, Parties DEF BootLeft, Kept
<1>7. QED BY <1>1, <1>5, <1>6, RestImages

\* A lookup, an end of the program, a stutter.
LEMMA SameImages ==
  ASSUME LoaderInv, ImagesInv,
         UNCHANGED <<todo, asked, slots, soList, base, region, word, got, perm, inits>>
  PROVE  ImagesInv'
<1>1. BootLeft' = BootLeft /\ \A x : Kept(x)' <=> Kept(x)
  BY DEF BootLeft, Kept
<1>2. QED BY <1>1, RestImages

LEMMA NextImages == LoaderInv /\ ImagesInv /\ [Loading!Next]_Loading!vars => ImagesInv'
<1> SUFFICES ASSUME LoaderInv, ImagesInv, [Loading!Next]_Loading!vars PROVE ImagesInv'
  OBVIOUS
<1>0. CASE UNCHANGED Loading!vars
  BY <1>0, SameImages DEF Loading!vars
<1>1. ASSUME NEW a \in Actors, NEW m \in Modules, Loading!Step(a, m)
      PROVE  ImagesInv'
  BY <1>1, LoadImages, RelocateImages, ResolveImages, QuietImages, PermitImages, RunImages
     DEF Loading!Step
<1>2. ASSUME NEW m, Loading!LoadFails(m) PROVE ImagesInv'
  BY <1>2, SameImages DEF Loading!LoadFails, Loading!image, Loading!native
<1>3. ASSUME NEW t \in Threads, NEW m \in Libs, Loading!Open(t, m) PROVE ImagesInv'
  BY <1>3, OpenImages, TakeImages, KeepImages DEF Loading!Open
<1>4. ASSUME NEW t, NEW s, Loading!DlsymMain(t, s) PROVE ImagesInv'
  BY <1>4, SameImages DEF Loading!DlsymMain, Loading!image, Loading!native
<1>5. ASSUME NEW a \in Actors, Loading!Progress(a) PROVE ImagesInv'
  BY <1>1, <1>2, <1>3, <1>5, RegionImages, LockImages, Parties DEF Loading!Progress, Modules
<1> QED
  BY <1>0, <1>4, <1>5, DlopenImages DEF Loading!Next, Actors

\* Whose code has run has been through everything before.
LEMMA HasRun ==
  ASSUME LoaderInv, Inits, NEW m \in Modules, inits[m] > 0
  PROVE  /\ IsRelocated(m) /\ IsResolved(m) /\ IsPermitted(m)
         /\ Listed(m) /\ mapped[m]
         /\ BootLeft \in Nat /\ BootLeft <= 1 /\ Listed(Cxx) /\ Listed(GameLib)
<1>1. PICK n \in Nat : n = BootLeft /\ AtBoot(n)
  <2>1. todo[Boot] \in Seq(Tasks)
    BY Parties DEF LoaderInv, LoaderTypes
  <2>2. BootLeft \in Nat
    BY <2>1 DEF BootLeft
  <2>3. AtBoot(BootLeft)
    BY DEF LoaderInv, BootRight, BootLeft
  <2>4. QED BY <2>2, <2>3
<1>2. ASSUME n <= 1
      PROVE  /\ Listed(Cxx) /\ Listed(GameLib) /\ mapped[Cxx] /\ mapped[GameLib]
             /\ n <= 12 /\ n <= 10 /\ n <= 11 /\ n <= 9 /\ n <= 5
  <2>1. n <= 15 /\ n <= 14 /\ n <= 7 /\ n <= 4 /\ n <= 12 /\ n <= 10 /\ n <= 11 /\ n <= 9 /\ n <= 5
    BY <1>2
  <2>2. QED BY <1>1, <2>1, Zenon DEF AtBoot
<1>3. CASE m \in Libs
  <2>1. Listed(m)
    <3>1. inits[m] # 0
      OBVIOUS
    <3>2. QED BY <1>3, <3>1 DEF LoaderInv, LibRight
  <2>2. n <= 1
    <3>1. ~(n > 0)
      BY <1>1, <1>3, <2>1, Zenon DEF AtBoot
    <3>2. QED BY <3>1
  <2>3. 0 <= 4 /\ 1 <= 4 /\ 1 \in 1..7 /\ 1 \in 1..6 /\ 1 \in 1..2
    OBVIOUS
  <2>4. CASE Kept(m)
    <3>1. mapped[m]
      <4>1. Halfway(m, 0)
        BY <1>3, <2>4 DEF LoaderInv, LibRight
      <4>2. QED BY <2>3, <4>1, Zenon DEF Halfway
    <3>2. IsRelocated(m) /\ IsResolved(m) /\ IsPermitted(m)
      BY <1>3, <2>4, Zenon DEF IsRelocated, IsResolved, IsPermitted, Over
    <3>3. QED BY <1>1, <1>2, <2>1, <2>2, <3>1, <3>2
  <2>5. CASE ~Kept(m)
    <3>1. PICK t \in Threads : asked[t] = m /\ Len(todo[t]) \in 1..8
      BY <1>3, <2>1, <2>5 DEF LoaderInv, LibRight
    <3>2. PICK k \in 1..8 : k = Len(todo[t])
      BY <3>1, Zenon
    <3>3. Halfway(m, k)
      BY <3>1, <3>2 DEF LoaderInv, Under
    <3>4. k = 1
      <4>1. inits[m] # 0
        OBVIOUS
      <4>2. k <= 1
        BY <3>3, <4>1, Zenon DEF Halfway
      <4>3. QED BY <4>2
    <3>5. mapped[m]
      BY <2>3, <3>3, <3>4, Zenon DEF Halfway
    <3>6. IsRelocated(m) /\ IsResolved(m) /\ IsPermitted(m)
      BY <1>3, <2>3, <3>1, <3>2, <3>4, Zenon DEF IsRelocated, IsResolved, IsPermitted, Over
    <3>7. QED BY <1>1, <1>2, <2>1, <2>2, <3>5, <3>6
  <2>6. QED BY <2>4, <2>5
<1>4. CASE m \in {Cxx, GameLib}
  <2>1. n <= 1
    <3>1. n <= 1 \/ n = 0
      BY <1>1, <1>4, Zenon DEF Inits
    <3>2. QED BY <3>1
  <2>2. m = GameLib => n <= 2
    BY <2>1
  <2>3. IsRelocated(m) /\ IsResolved(m) /\ IsPermitted(m)
    BY <1>1, <1>2, <1>4, <2>1, <2>2, Parties, Zenon DEF IsRelocated, IsResolved, IsPermitted, Over
  <2>4. QED BY <1>1, <1>2, <1>4, <2>1, <2>3
<1>5. QED BY <1>3, <1>4, Parties

\* Once the boot is over, a native module on the list is in the region.
LEMMA InRegion ==
  ASSUME LoaderInv, Places, BootLeft <= 1, BootLeft \in Nat, NEW l \in Libs, Listed(l)
  PROVE  /\ NativeAt <= base[l] /\ End(l) <= ReserveEnd
         /\ End(l) \in Nat /\ base[l] \in Nat
<1>1. NativeAt <= region /\ region <= ReserveEnd /\ region \in Nat
  <2>1. BootLeft <= 13
    OBVIOUS
  <2>2. QED BY <2>1 DEF Places
<1>2. base[l] \in Nat /\ End(l) \in Nat
  <2>1. l \in Modules /\ base \in [Modules -> Nat]
    BY Parties DEF Places
  <2>2. base[l] \in Nat /\ Image[l].size \in Nat
    BY <2>1, ShareCovers
  <2>3. QED BY <2>2 DEF End
<1>3. NativeAt \in Nat /\ ReserveEnd \in Nat
  BY SlicesAssumption
<1>4. CASE Kept(l)
  <2>1. NativeAt <= base[l] /\ End(l) <= region
    BY <1>4 DEF Places
  <2>2. QED BY <1>1, <1>2, <1>3, <2>1
<1>5. CASE ~Kept(l)
  <2>1. PICK t \in Threads : asked[t] = l /\ Len(todo[t]) \in 1..8
    BY <1>5 DEF LoaderInv, LibRight
  <2>2. base[l] = region /\ End(l) <= ReserveEnd
    BY <2>1 DEF Places
  <2>3. QED BY <1>1, <1>2, <2>2
<1>6. QED BY <1>4, <1>5

\* No two native modules on the list share a page.
LEMMA LibsApart ==
  ASSUME LoaderInv, Places, NEW l \in Libs, NEW k \in Libs, l # k, Listed(l), Listed(k)
  PROVE  End(l) <= base[k] \/ End(k) <= base[l]
<1>1. ASSUME NEW x \in Libs, NEW y \in Libs, x # y, Listed(x), Listed(y), ~Kept(x)
      PROVE  End(y) <= base[x]
  <2>1. PICK t \in Threads : asked[t] = x /\ Len(todo[t]) \in 1..8
    BY <1>1 DEF LoaderInv, LibRight
  <2>2. Kept(y)
    <3>1. ASSUME NEW u \in Threads, asked[u] = y, Len(todo[u]) \in 1..8 PROVE FALSE
      <4>1. 8 \in 1..8
        OBVIOUS
      <4>2. todo[u] # <<>> /\ todo[t] # <<>>
        BY <2>1, <3>1, <4>1, Begun
      <4>3. u = t
        BY <4>2, Given
      <4>4. QED BY <1>1, <2>1, <3>1, <4>3
    <3>2. QED BY <1>1, <3>1 DEF LoaderInv, LibRight
  <2>3. base[x] = region /\ End(y) <= region
    BY <2>1, <2>2 DEF Places
  <2>4. QED BY <2>3
<1>2. CASE Kept(l) /\ Kept(k)
  BY <1>2 DEF Places
<1>3. QED BY <1>1, <1>2

\* Where an image lies, and that it lies there alone.
LEMMA Alone ==
  ASSUME LoaderInv, Places, BootLeft <= 1, BootLeft \in Nat, Listed(Cxx), Listed(GameLib),
         NEW m \in Modules, Listed(m)
  PROVE  /\ base[m] \in Nat /\ End(m) \in Nat /\ End(m) <= ReserveEnd
         /\ \A n \in Modules \ {m} : Listed(n) => End(m) <= base[n] \/ End(n) <= base[m]
<1>1. \A x \in Modules : base[x] \in Nat /\ End(x) \in Nat /\ base[x] <= End(x)
  BY ShareCovers DEF Places, End
<1>2. /\ GameAt \in Nat /\ NativeAt \in Nat /\ ReserveEnd \in Nat /\ NativeAt <= ReserveEnd
  BY SlicesAssumption
<1>3. End(Cxx) <= GameAt /\ base[GameLib] = GameAt /\ End(GameLib) <= NativeAt
  BY DEF Places
<1>4. GameAt <= NativeAt
  <2>1. base[GameLib] <= End(GameLib) /\ End(GameLib) \in Nat
    BY <1>1, Parties
  <2>2. QED BY <1>2, <1>3, <2>1
<1>5. \A l \in Libs : Listed(l) => NativeAt <= base[l] /\ End(l) <= ReserveEnd
  BY InRegion
<1>6. End(m) <= ReserveEnd
  <2>1. CASE m \in Libs
    BY <1>5, <2>1
  <2>2. CASE m = Cxx
    BY <1>1, <1>2, <1>3, <1>4, <2>2
  <2>3. CASE m = GameLib
    BY <1>1, <1>2, <1>3, <2>3
  <2>4. QED BY <2>1, <2>2, <2>3, Parties
<1>7. End(Cxx) <= base[GameLib]
  BY <1>3
<1>8. ASSUME NEW l \in Libs, Listed(l) PROVE End(Cxx) <= base[l] /\ End(GameLib) <= base[l]
  <2>1. NativeAt <= base[l] /\ base[l] \in Nat /\ End(Cxx) \in Nat /\ End(GameLib) \in Nat
    BY <1>1, <1>5, <1>8, Parties
  <2>2. QED BY <1>2, <1>3, <1>4, <2>1
<1>9. ASSUME NEW n \in Modules \ {m}, Listed(n) PROVE End(m) <= base[n] \/ End(n) <= base[m]
  <2>1. CASE m \in Libs /\ n \in Libs
    BY <1>9, <2>1, LibsApart
  <2>2. CASE m \in Libs /\ n \in {Cxx, GameLib}
    BY <1>8, <2>2
  <2>3. CASE m \in {Cxx, GameLib} /\ n \in Libs
    BY <1>8, <1>9, <2>3
  <2>4. CASE m \in {Cxx, GameLib} /\ n \in {Cxx, GameLib}
    BY <1>7, <1>9, <2>4
  <2>5. QED BY <2>1, <2>2, <2>3, <2>4, Parties
<1>10. QED BY <1>1, <1>6, <1>9

\* What the property counts as there before m is what the invariant does.
LEMMA BeforeIsEarlier ==
  ASSUME LoaderInv, NEW m \in Modules, Listed(m), inits[m] > 0
  PROVE  Loading!Before(m) = Earlier(m)
<1> DEFINE S == {i \in DOMAIN soList : soList[i] = m}
<1>1. S \subseteq Nat /\ S # {}
  BY Given DEF Listed
<1>2. PICK j \in DOMAIN soList : j = Loading!Position(m) /\ soList[j] = m
  <2>1. Loading!First(S) \in S
    <3> HIDE DEF S
    <3>1. QED BY <1>1, Foremost
  <2>2. QED BY <2>1 DEF Loading!Position
<1>3. \A k \in DOMAIN soList : soList[k] = m => k = j
  BY <1>2, Given DEF OneEach
<1> HIDE DEF S
<1>4. ASSUME NEW n
      PROVE  n \in Loading!Before(m) <=> n \in Earlier(m)
  <2>1. n \in Loading!Before(m) <=>
           /\ n \in Modules \ {m}
           /\ \E i \in DOMAIN soList : soList[i] = n /\ (n \in {Cxx, GameLib} \/ i < j)
    BY <1>2, Parties, Zenon DEF Loading!Before, Modules
  <2>2. ASSUME NEW i
        PROVE  (\E k \in DOMAIN soList : soList[k] = m /\ i < k) <=> i < j
    BY <1>2, <1>3, Zenon
  <2>3. n \in Earlier(m) <=>
           /\ n \in Modules \ {m}
           /\ \E i \in DOMAIN soList : soList[i] = n /\ (n \in {Cxx, GameLib} \/ i < j)
    BY <2>2, Zenon DEF Earlier
  <2>4. QED BY <2>1, <2>3, Zenon
<1>5. QED BY <1>4

LEMMA SafeImages == LoaderInv /\ ImagesInv => LoadedRight
<1> SUFFICES ASSUME LoaderInv, ImagesInv, NEW m \in Modules, inits[m] > 0
             PROVE  /\ \A n \in Modules \ {m} : base[n] # 0 => Loading!Span(m) \cap Loading!Span(n) = {}
                    /\ \A p \in Loading!Span(m) : p < ReserveEnd
                    /\ \A w \in DOMAIN word[m] : word[m][w] = IF w \in Image[m].pointers THEN 1 ELSE 0
                    /\ \A s \in DOMAIN got[m] :
                         \/ got[m][s] = "shim" /\ s \in Imported
                         \/ got[m][s] \in Loading!Before(m) /\ s \in Loading!Exports(got[m][s])
                         \/ /\ got[m][s] = IF s \in Image[m].weak THEN "null" ELSE "poison"
                            /\ s \notin Imported /\ \A n \in Loading!Before(m) : s \notin Loading!Exports(n)
                    /\ mapped[m]
                    /\ \A p \in DOMAIN perm[m] : (perm[m][p] = "rx") <=> (p \in Image[m].code)
  BY Zenon DEF LoadedRight, Loading!LoadedRight, Modules
<1>1. Places /\ Words /\ Perms /\ Bindings /\ Inits
  BY DEF ImagesInv
<1>2. /\ IsRelocated(m) /\ IsResolved(m) /\ IsPermitted(m)
      /\ Listed(m) /\ mapped[m]
      /\ BootLeft \in Nat /\ BootLeft <= 1 /\ Listed(Cxx) /\ Listed(GameLib)
  BY <1>1, HasRun
<1>3. /\ base[m] \in Nat /\ End(m) \in Nat /\ End(m) <= ReserveEnd
      /\ \A n \in Modules \ {m} : Listed(n) => End(m) <= base[n] \/ End(n) <= base[m]
  BY <1>1, <1>2, Alone
<1>4. ReserveEnd \in Nat /\ \A x \in Modules : base[x] \in Nat /\ Image[x].size \in Nat
  BY <1>1, SlicesAssumption, ShareCovers DEF Places
<1>5. ASSUME NEW n \in Modules \ {m}, base[n] # 0, NEW p, p \in Loading!Span(m), p \in Loading!Span(n)
      PROVE  FALSE
  <2>1. Listed(n)
    BY <1>1, <1>5 DEF Places
  <2>2. /\ p \in base[m]..base[m] + Image[m].size - 1
        /\ p \in base[n]..base[n] + Image[n].size - 1
    BY <1>5 DEF Loading!Span
  <2>3. base[m] + Image[m].size <= base[n] \/ base[n] + Image[n].size <= base[m]
    BY <1>3, <2>1 DEF End
  <2>4. QED BY <1>4, <2>2, <2>3
<1>6. ASSUME NEW p \in Loading!Span(m) PROVE p < ReserveEnd
  <2>1. p \in base[m]..base[m] + Image[m].size - 1 /\ base[m] + Image[m].size <= ReserveEnd
    BY <1>3, <1>6 DEF Loading!Span, End
  <2>2. QED BY <1>4, <2>1
<1>7. Relocated(m) /\ Permitted(m) /\ Bound(m)
  BY <1>1, <1>2, Zenon DEF Words, Perms, Bindings
<1>8. Loading!Before(m) = Earlier(m)
  BY <1>2, BeforeIsEarlier
<1>9. ASSUME NEW s \in DOMAIN got[m]
      PROVE  \/ got[m][s] = "shim" /\ s \in Imported
             \/ got[m][s] \in Loading!Before(m) /\ s \in Loading!Exports(got[m][s])
             \/ /\ got[m][s] = IF s \in Image[m].weak THEN "null" ELSE "poison"
                /\ s \notin Imported /\ \A n \in Loading!Before(m) : s \notin Loading!Exports(n)
  <2>1. BoundTo(m, s)
    BY <1>7, Zenon DEF Bound
  <2>2. QED BY <1>8, <2>1, Zenon DEF BoundTo
<1>10. \A n \in Modules \ {m} : base[n] # 0 => Loading!Span(m) \cap Loading!Span(n) = {}
  <2>1. ASSUME NEW n \in Modules \ {m}, base[n] # 0 PROVE Loading!Span(m) \cap Loading!Span(n) = {}
    BY <1>5, <2>1, Zenon
  <2>2. QED BY <2>1, Zenon
<1>11. \A p \in Loading!Span(m) : p < ReserveEnd
  BY <1>6, Zenon
<1>12. \A w \in DOMAIN word[m] : word[m][w] = IF w \in Image[m].pointers THEN 1 ELSE 0
  BY <1>7, Zenon DEF Relocated
<1>13. \A p \in DOMAIN perm[m] : (perm[m][p] = "rx") <=> (p \in Image[m].code)
  BY <1>7, Zenon DEF Permitted
<1>14. QED BY <1>2, <1>9, <1>10, <1>11, <1>12, <1>13, Zenon

(* When code of a module first runs (so_execute_init_array), at boot or     *)
(* within a dlopen, it runs in an image of its own inside the reserve, in   *)
(* which every address was relocated once, every symbol is bound to the     *)
(* wrapper's own function, to a module that was there before and defines    *)
(* it, or to nothing if none does, and exactly its code is executable       *)
(* (so_load, so_relocate, so_resolve, so_finalize, native_module_open).     *)
THEOREM CodeRunsInItsImage == Loading!Spec => []LoadedRight
  BY InitLoader, NextLoader, InitImages, NextImages, SafeImages, PTL DEF Loading!Spec

----------------------------------------------------------------------------
(* override.cfg (OverrideCfg).                                              *)

Before == {ss \in Nat \X Nat : ss[1] < ss[2]}

LEMMA BeforeIsWellFounded == IsWellFoundedOn(Before, Nat)
  BY NatLessThanWellFounded DEF OpToRel, Before

\* A set of numbers that is not empty has a least one.
LEMMA LeastOf ==
  ASSUME NEW S \in SUBSET Nat, S # {}
  PROVE  \E i \in S : \A j \in Nat : j < i => j \notin S
<1>1. PICK i \in S : \A j \in S : ~(<<j, i>> \in Before)
  BY BeforeIsWellFounded, WFMin
<1>2. ASSUME NEW j \in Nat, j < i PROVE j \notin S
  BY <1>1, <1>2 DEF Before
<1> QED
  BY <1>2

\* The least number of a part of 0..n follows one that is not in it.
LEMMA FirstFollows ==
  ASSUME NEW n \in Nat, NEW S \in SUBSET (0..n), S # {}, 0 \notin S
  PROVE  \E k \in 0..(n - 1) : k \notin S /\ k + 1 \in S
<1>1. S \in SUBSET Nat
  OBVIOUS
<1>2. PICK m \in S : \A j \in Nat : j < m => j \notin S
  BY <1>1, LeastOf
<1>3. m \in 0..n /\ m # 0
  OBVIOUS
<1>4. m - 1 \in 0..(n - 1) /\ m - 1 \in Nat /\ m - 1 < m /\ (m - 1) + 1 = m
  BY <1>3
<1> QED
  BY <1>2, <1>4

\* One line of Among's, and one round of StripBlock's loop.
OneAmong(before, line, S) == IF line \in S THEN Append(before, line) ELSE before
OneRound(kind, before, line, begin, end) ==
  IF kind = "among" THEN OneAmong(before, line, begin) ELSE Cfg!StripOne(before, begin, end)

Rounds(g, m, start, kind, f, begin, end) ==
  g = [k \in 0..m |-> IF k = 0 THEN start ELSE OneRound(kind, g[k - 1], f[k], begin, end)]

\* A recursive function that goes on for m rounds.
LEMMA RoundsGoOn ==
  ASSUME NEW start, NEW kind, NEW f, NEW begin, NEW end, NEW m \in Nat
  PROVE  \E g : Rounds(g, m, start, kind, f, begin, end)
<1> DEFINE Some(i) == \E g : Rounds(g, i, start, kind, f, begin, end)
           S == {i \in 0..m : ~Some(i)}
<1>1. Some(0)
  <2>1. PICK g : g = [k \in 0..0 |-> start]
    OBVIOUS
  <2>2. g = [k \in 0..0 |-> IF k = 0 THEN start ELSE OneRound(kind, g[k - 1], f[k], begin, end)]
    <3>1. \A k \in 0..0 : k = 0
      OBVIOUS
    <3> QED
      BY <2>1, <3>1, Zenon
  <2>3. Rounds(g, 0, start, kind, f, begin, end)
    BY <2>2, Zenon DEF Rounds
  <2> QED
    BY <2>3
<1>2. ASSUME NEW i \in 0..(m - 1), Some(i) PROVE Some(i + 1)
  <2>1. PICK h : Rounds(h, i, start, kind, f, begin, end)
    BY <1>2
  <2> DEFINE g == [k \in 0..(i + 1) |->
                     IF k = 0 THEN start ELSE OneRound(kind, h[k - 1], f[k], begin, end)]
  <2>2. \A k \in 0..i : g[k] = h[k]
    <3>1. 0..i \subseteq 0..(i + 1)
      OBVIOUS
    <3>2. \A k \in 0..i : h[k] = IF k = 0 THEN start ELSE OneRound(kind, h[k - 1], f[k], begin, end)
      BY <2>1, Zenon DEF Rounds
    <3>3. \A k \in 0..(i + 1) :
            g[k] = IF k = 0 THEN start ELSE OneRound(kind, h[k - 1], f[k], begin, end)
      BY Zenon
    <3> QED
      BY <3>1, <3>2, <3>3, Zenon
  <2>3. \A k \in 0..(i + 1) : k # 0 => k - 1 \in 0..i
    OBVIOUS
  <2>4. \A k \in 0..(i + 1) : k # 0 => g[k - 1] = h[k - 1]
    BY <2>2, <2>3, Zenon
  <2>5. g = [k \in 0..(i + 1) |->
               IF k = 0 THEN start ELSE OneRound(kind, g[k - 1], f[k], begin, end)]
    <3>1. \A k \in 0..(i + 1) :
            (IF k = 0 THEN start ELSE OneRound(kind, h[k - 1], f[k], begin, end))
              = IF k = 0 THEN start ELSE OneRound(kind, g[k - 1], f[k], begin, end)
      <4> HIDE DEF g
      <4> QED
        BY <2>4, Zenon
    <3>2. PICK e : e = g
      OBVIOUS
    <3>3. e = [k \in 0..(i + 1) |->
                 IF k = 0 THEN start ELSE OneRound(kind, h[k - 1], f[k], begin, end)]
      BY <3>2
    <3>4. e = [k \in 0..(i + 1) |->
                 IF k = 0 THEN start ELSE OneRound(kind, e[k - 1], f[k], begin, end)]
      <4> HIDE DEF g
      <4> QED
        BY <3>1, <3>2, <3>3, Zenon
    <3> HIDE DEF g
    <3> QED
      BY <3>2, <3>4, Zenon
  <2> HIDE DEF g
  <2>6. Rounds(g, i + 1, start, kind, f, begin, end)
    BY <2>5, Zenon DEF Rounds
  <2> QED
    BY <2>6
<1>3. S = {}
  <2> SUFFICES ASSUME S # {} PROVE FALSE
    OBVIOUS
  <2>1. S \in SUBSET (0..m) /\ 0 \notin S
    BY <1>1
  <2>2. PICK i \in 0..(m - 1) : i \notin S /\ i + 1 \in S
    <3> HIDE DEF S
    <3> QED
      BY <2>1, FirstFollows
  <2>3. i \in 0..m
    OBVIOUS
  <2> QED
    BY <1>2, <2>2, <2>3
<1>4. m \in 0..m
  OBVIOUS
<1> QED
  BY <1>3, <1>4

\* Among and StripBlock are such functions.
LEMMA AmongIs ==
  ASSUME NEW f, NEW S, Len(f) \in Nat
  PROVE  \E g : /\ Rounds(g, Len(f), <<>>, "among", f, S, S)
                /\ Cfg!Among(f, S) = g[Len(f)]
<1> DEFINE g == CHOOSE h : Rounds(h, Len(f), <<>>, "among", f, S, S)
<1>1. Rounds(g, Len(f), <<>>, "among", f, S, S)
  BY RoundsGoOn
<1>2. Cfg!Among(f, S) = g[Len(f)]
  BY DEF Cfg!Among, Rounds, OneRound, OneAmong
<1> QED
  BY <1>1, <1>2

LEMMA StripBlockIs ==
  ASSUME NEW f, NEW begin, NEW end, Len(f) \in Nat
  PROVE  \E g : /\ Rounds(g, Len(f), f, "strip", f, begin, end)
                /\ Cfg!StripBlock(f, begin, end) = g[Len(f)]
<1> DEFINE g == CHOOSE h : Rounds(h, Len(f), f, "strip", f, begin, end)
<1>1. Rounds(g, Len(f), f, "strip", f, begin, end)
  BY RoundsGoOn
<1>2. Cfg!StripBlock(f, begin, end) = g[Len(f)]
  BY DEF Cfg!StripBlock, Rounds, OneRound
<1> QED
  BY <1>1, <1>2

----------------------------------------------------------------------------
(* The lines of a file that are in a set.                                  *)

LEMMA AmongSteps ==
  ASSUME NEW X, NEW f \in Seq(X), NEW S
  PROVE  \E g : /\ Cfg!Among(f, S) = g[Len(f)]
                /\ g[0] = <<>>
                /\ \A k \in 1..Len(f) : g[k] = OneAmong(g[k - 1], f[k], S)
                /\ \A k \in 0..Len(f) : g[k] \in Seq(X)
<1>1. Len(f) \in Nat /\ \A k \in 1..Len(f) : f[k] \in X
  OBVIOUS
<1>2. PICK g : /\ Rounds(g, Len(f), <<>>, "among", f, S, S)
               /\ Cfg!Among(f, S) = g[Len(f)]
  BY <1>1, AmongIs
<1>3. \A k \in 0..Len(f) : g[k] = IF k = 0 THEN <<>> ELSE OneAmong(g[k - 1], f[k], S)
  <2>1. \A k \in 0..Len(f) :
          g[k] = IF k = 0 THEN <<>> ELSE OneRound("among", g[k - 1], f[k], S, S)
    BY <1>2, Zenon DEF Rounds
  <2> QED
    BY <2>1 DEF OneRound
<1>4. g[0] = <<>>
  <2>1. 0 \in 0..Len(f)
    BY <1>1
  <2> QED
    BY <1>3, <2>1
<1>5. \A k \in 1..Len(f) : g[k] = OneAmong(g[k - 1], f[k], S)
  <2>1. \A k \in 1..Len(f) : k \in 0..Len(f) /\ k # 0
    OBVIOUS
  <2> QED
    BY <1>3, <2>1, Zenon
<1>6. \A k \in 0..Len(f) : g[k] \in Seq(X)
  <2> DEFINE T == {k \in 0..Len(f) : g[k] \notin Seq(X)}
  <2> SUFFICES ASSUME T # {} PROVE FALSE
    OBVIOUS
  <2>1. T \in SUBSET (0..Len(f)) /\ 0 \notin T
    <3>1. <<>> \in Seq(X)
      OBVIOUS
    <3> QED
      BY <1>4, <3>1
  <2>2. PICK k \in 0..(Len(f) - 1) : k \notin T /\ k + 1 \in T
    <3> HIDE DEF T
    <3> QED
      BY <1>1, <2>1, FirstFollows
  <2>3. k \in 0..Len(f) /\ k + 1 \in 1..Len(f) /\ (k + 1) - 1 = k
    BY <1>1
  <2>4. g[k] \in Seq(X) /\ g[k + 1] \notin Seq(X)
    BY <2>2, <2>3
  <2>5. g[k + 1] = OneAmong(g[k], f[k + 1], S)
    BY <1>5, <2>3
  <2>6. f[k + 1] \in X
    BY <1>1, <2>3
  <2>7. OneAmong(g[k], f[k + 1], S) \in Seq(X)
    BY <2>4, <2>6 DEF OneAmong
  <2> QED
    BY <2>4, <2>5, <2>7
<1> QED
  BY <1>2, <1>4, <1>5, <1>6

LEMMA AmongType ==
  ASSUME NEW X, NEW f \in Seq(X), NEW S
  PROVE  Cfg!Among(f, S) \in Seq(X)
<1>1. Len(f) \in 0..Len(f)
  OBVIOUS
<1> QED
  BY <1>1, AmongSteps

\* A file without such lines.
LEMMA AmongNone ==
  ASSUME NEW X, NEW f \in Seq(X), NEW S, \A i \in 1..Len(f) : f[i] \notin S
  PROVE  Cfg!Among(f, S) = <<>>
<1>1. Len(f) \in Nat /\ Len(f) \in 0..Len(f)
  OBVIOUS
<1>2. PICK g : /\ Cfg!Among(f, S) = g[Len(f)]
               /\ g[0] = <<>>
               /\ \A k \in 1..Len(f) : g[k] = OneAmong(g[k - 1], f[k], S)
  BY AmongSteps
<1> DEFINE T == {k \in 0..Len(f) : g[k] # <<>>}
<1>3. SUFFICES ASSUME T # {} PROVE FALSE
  BY <1>1, <1>2
<1>4. T \in SUBSET (0..Len(f)) /\ 0 \notin T
  BY <1>2
<1>5. PICK k \in 0..(Len(f) - 1) : k \notin T /\ k + 1 \in T
  <2> HIDE DEF T
  <2> QED
    BY <1>1, <1>3, <1>4, FirstFollows
<1>6. k \in 0..Len(f) /\ k + 1 \in 1..Len(f) /\ (k + 1) - 1 = k
  BY <1>1
<1>7. g[k] = <<>> /\ g[k + 1] # <<>>
  BY <1>5, <1>6
<1>8. g[k + 1] = OneAmong(g[k], f[k + 1], S)
  BY <1>2, <1>6
<1> QED
  BY <1>6, <1>7, <1>8 DEF OneAmong

LEMMA AmongEmpty == ASSUME NEW S PROVE Cfg!Among(<<>>, S) = <<>>
<1>1. <<>> \in Seq(S) /\ \A i \in 1..Len(<<>>) : <<>>[i] \notin S
  OBVIOUS
<1> QED
  BY <1>1, AmongNone, Zenon

LEMMA AmongNext ==
  ASSUME NEW X, NEW f \in Seq(X), NEW x \in X, NEW S
  PROVE  Cfg!Among(Append(f, x), S) = OneAmong(Cfg!Among(f, S), x, S)
<1>1. PICK e : e = Append(f, x)
  OBVIOUS
<1>2. /\ e \in Seq(X) /\ Len(e) = Len(f) + 1 /\ Len(f) \in Nat
      /\ e[Len(f) + 1] = x /\ \A k \in 1..Len(f) : e[k] = f[k]
  BY <1>1
<1>3. PICK g : /\ Cfg!Among(f, S) = g[Len(f)]
               /\ g[0] = <<>>
               /\ \A k \in 1..Len(f) : g[k] = OneAmong(g[k - 1], f[k], S)
  BY AmongSteps
<1>4. PICK h : /\ Cfg!Among(e, S) = h[Len(e)]
               /\ h[0] = <<>>
               /\ \A k \in 1..Len(e) : h[k] = OneAmong(h[k - 1], e[k], S)
  BY <1>2, AmongSteps
<1>5. \A k \in 0..Len(f) : h[k] = g[k]
  <2> DEFINE T == {k \in 0..Len(f) : h[k] # g[k]}
  <2> SUFFICES ASSUME T # {} PROVE FALSE
    OBVIOUS
  <2>1. T \in SUBSET (0..Len(f)) /\ 0 \notin T
    BY <1>3, <1>4
  <2>2. PICK k \in 0..(Len(f) - 1) : k \notin T /\ k + 1 \in T
    <3> HIDE DEF T
    <3> QED
      BY <1>2, <2>1, FirstFollows
  <2>3. k \in 0..Len(f) /\ k + 1 \in 1..Len(f) /\ k + 1 \in 1..Len(e) /\ (k + 1) - 1 = k
    BY <1>2
  <2>4. h[k] = g[k] /\ h[k + 1] # g[k + 1]
    BY <2>2, <2>3
  <2>5. h[k + 1] = OneAmong(h[k], e[k + 1], S) /\ g[k + 1] = OneAmong(g[k], f[k + 1], S)
    BY <1>3, <1>4, <2>3
  <2>6. e[k + 1] = f[k + 1]
    BY <1>2, <2>3
  <2> QED
    BY <2>4, <2>5, <2>6, Zenon
<1>6. Len(f) \in 0..Len(f) /\ Len(f) + 1 \in 1..Len(e) /\ (Len(f) + 1) - 1 = Len(f)
  BY <1>2
<1>7. h[Len(f) + 1] = OneAmong(h[Len(f)], e[Len(f) + 1], S)
  BY <1>4, <1>6
<1>8. h[Len(e)] = OneAmong(g[Len(f)], x, S)
  BY <1>2, <1>5, <1>6, <1>7
<1> QED
  BY <1>1, <1>3, <1>4, <1>8

\* A beginning of a file and the beginning that is one line longer.
LEMMA OneLineLonger ==
  ASSUME NEW X, NEW f \in Seq(X), NEW k \in 0..(Len(f) - 1)
  PROVE  /\ SubSeq(f, 1, k) \in Seq(X) /\ f[k + 1] \in X
         /\ SubSeq(f, 1, k + 1) = Append(SubSeq(f, 1, k), f[k + 1])
<1>1. Len(f) \in Nat /\ k + 1 \in 1..Len(f) /\ 1 \in 1..Len(f) /\ (k + 1) - 1 = k
  OBVIOUS
<1>2. f[k + 1] \in X /\ \A i \in 1..k : f[i] \in X
  BY <1>1
<1>3. SubSeq(f, 1, k) \in Seq(X)
  BY <1>1, <1>2, SubSeqProperties
<1>4. SubSeq(f, 1, k + 1) = SubSeq(f, 1, k) \o <<f[k + 1]>>
  BY <1>1, SubSeqRecursiveSecond
<1> QED
  BY <1>2, <1>3, <1>4, AppendIsConcat

LEMMA AppendConcat ==
  ASSUME NEW X, NEW a \in Seq(X), NEW b \in Seq(X), NEW x \in X
  PROVE  a \o Append(b, x) = Append(a \o b, x)
<1>1. PICK c : c = <<x>>
  OBVIOUS
<1>2. c \in Seq(X)
  BY <1>1
<1>3. (a \o b) \o c = a \o (b \o c)
  BY <1>2, ConcatAssociative
<1>4. a \o b \in Seq(X)
  OBVIOUS
<1>5. Append(b, x) = b \o c
  BY <1>1, AppendIsConcat
<1>6. Append(a \o b, x) = (a \o b) \o c
  BY <1>1, <1>4, AppendIsConcat
<1> QED
  BY <1>3, <1>5, <1>6, Zenon

LEMMA OneAmongConcat ==
  ASSUME NEW X, NEW a \in Seq(X), NEW b \in Seq(X), NEW x \in X, NEW S
  PROVE  OneAmong(a \o b, x, S) = a \o OneAmong(b, x, S)
<1>1. a \o Append(b, x) = Append(a \o b, x)
  BY AppendConcat
<1> QED
  BY <1>1, Zenon DEF OneAmong

LEMMA AmongConcat ==
  ASSUME NEW X, NEW f \in Seq(X), NEW e \in Seq(X), NEW S
  PROVE  Cfg!Among(f \o e, S) = Cfg!Among(f, S) \o Cfg!Among(e, S)
<1> DEFINE Piece(k) == SubSeq(e, 1, k)
           Right(k) == Cfg!Among(f \o Piece(k), S) = Cfg!Among(f, S) \o Cfg!Among(Piece(k), S)
           T == {k \in 0..Len(e) : ~Right(k)}
<1>1. Len(e) \in Nat /\ Len(e) \in 0..Len(e) /\ Piece(Len(e)) = e
  BY SubSeqFull
<1>2. Right(0)
  <2>1. Piece(0) = <<>>
    BY SubSeqEmpty
  <2>2. f \o <<>> = f
    BY ConcatEmptySeq
  <2>3. Cfg!Among(f, S) \o <<>> = Cfg!Among(f, S)
    BY AmongType, ConcatEmptySeq
  <2> QED
    BY <2>1, <2>2, <2>3, AmongEmpty
<1>3. ASSUME NEW k \in 0..(Len(e) - 1), Right(k) PROVE Right(k + 1)
  <2>1. PICK s, x : s = Piece(k) /\ x = e[k + 1]
    OBVIOUS
  <2>2. s \in Seq(X) /\ x \in X /\ Piece(k + 1) = Append(s, x)
    BY <2>1, OneLineLonger
  <2>3. f \o s \in Seq(X)
    BY <2>2
  <2>4. f \o Append(s, x) = Append(f \o s, x)
    BY <2>2, AppendConcat
  <2>5. PICK a, b : a = Cfg!Among(f, S) /\ b = Cfg!Among(s, S)
    OBVIOUS
  <2>6. a \in Seq(X) /\ b \in Seq(X)
    BY <2>2, <2>5, AmongType
  <2>7. Cfg!Among(f \o s, S) = a \o b
    BY <1>3, <2>1, <2>5
  <2>8. Cfg!Among(Append(f \o s, x), S) = OneAmong(a \o b, x, S)
    BY <2>2, <2>3, <2>7, AmongNext
  <2>9. Cfg!Among(Append(s, x), S) = OneAmong(b, x, S)
    BY <2>2, <2>5, AmongNext
  <2>10. OneAmong(a \o b, x, S) = a \o OneAmong(b, x, S)
    <3>1. a \in Seq(X) /\ b \in Seq(X) /\ x \in X
      BY <2>2, <2>6, Zenon
    <3> HIDE DEF Piece, Right, T
    <3> QED
      BY <3>1, OneAmongConcat
  <2> QED
    BY <2>2, <2>4, <2>5, <2>8, <2>9, <2>10
<1>4. T = {}
  <2> SUFFICES ASSUME T # {} PROVE FALSE
    OBVIOUS
  <2>1. T \in SUBSET (0..Len(e)) /\ 0 \notin T
    BY <1>2
  <2>2. PICK k \in 0..(Len(e) - 1) : k \notin T /\ k + 1 \in T
    <3> HIDE DEF T
    <3> QED
      BY <1>1, <2>1, FirstFollows
  <2>3. k \in 0..Len(e)
    BY <1>1
  <2> QED
    BY <1>3, <2>2, <2>3
<1>5. Right(Len(e))
  BY <1>1, <1>4
<1> QED
  BY <1>1, <1>5

----------------------------------------------------------------------------
(* A file with the lines lo to hi cut out of it.                           *)

Cut(f, lo, hi) == SubSeq(f, 1, lo - 1) \o SubSeq(f, hi + 1, Len(f))

\* Where line k of such a file was.
WasAt(lo, hi, k) == IF k < lo THEN k ELSE k + (hi - lo + 1)

IsCut(g, f, lo, hi) ==
  /\ f \in Seq(Cfg!Lines) /\ g \in Seq(Cfg!Lines)
  /\ lo \in 1..Len(f) /\ hi \in lo..Len(f)
  /\ Len(g) = Len(f) - (hi - lo + 1)
  /\ \A k \in 1..Len(g) : g[k] = f[WasAt(lo, hi, k)]

LEMMA CutIs ==
  ASSUME NEW f \in Seq(Cfg!Lines), NEW lo \in 1..Len(f), NEW hi \in lo..Len(f)
  PROVE  IsCut(Cut(f, lo, hi), f, lo, hi)
<1>1. PICK a, b : a = SubSeq(f, 1, lo - 1) /\ b = SubSeq(f, hi + 1, Len(f))
  OBVIOUS
<1>2. Len(f) \in Nat /\ lo \in Nat /\ hi \in Nat /\ \A i \in 1..Len(f) : f[i] \in Cfg!Lines
  OBVIOUS
<1>3. /\ a \in Seq(Cfg!Lines) /\ Len(a) = lo - 1
      /\ \A i \in 1..(lo - 1) : a[i] = f[i]
  <2>1. \A i \in 1..(lo - 1) : f[i] \in Cfg!Lines /\ 1 + i - 1 = i
    BY <1>2
  <2>2. 1 \in Int /\ lo - 1 \in Int /\ (IF 1 <= lo - 1 THEN lo - 1 - 1 + 1 ELSE 0) = lo - 1
        /\ lo - 1 - 1 + 1 = lo - 1
    BY <1>2
  <2>3. /\ a \in Seq(Cfg!Lines)
        /\ Len(a) = IF 1 <= lo - 1 THEN lo - 1 - 1 + 1 ELSE 0
        /\ \A i \in 1..(lo - 1 - 1 + 1) : a[i] = f[1 + i - 1]
    BY <1>1, <2>1, <2>2, SubSeqProperties
  <2> QED
    BY <2>1, <2>2, <2>3
<1>4. /\ b \in Seq(Cfg!Lines) /\ Len(b) = Len(f) - hi
      /\ \A i \in 1..(Len(f) - hi) : b[i] = f[hi + i]
  <2>1. \A i \in (hi + 1)..Len(f) : f[i] \in Cfg!Lines
    BY <1>2
  <2>2. hi + 1 \in Int /\ Len(f) \in Int
        /\ (IF hi + 1 <= Len(f) THEN Len(f) - (hi + 1) + 1 ELSE 0) = Len(f) - hi
        /\ Len(f) - (hi + 1) + 1 = Len(f) - hi
    BY <1>2
  <2>3. /\ b \in Seq(Cfg!Lines)
        /\ Len(b) = IF hi + 1 <= Len(f) THEN Len(f) - (hi + 1) + 1 ELSE 0
        /\ \A i \in 1..(Len(f) - (hi + 1) + 1) : b[i] = f[hi + 1 + i - 1]
    <3>1. PICK m \in Int, n \in Int : m = hi + 1 /\ n = Len(f)
      BY <2>2
    <3>2. b = SubSeq(f, m, n) /\ \A i \in m..n : f[i] \in Cfg!Lines
      BY <1>1, <2>1, <3>1
    <3>3. /\ b \in Seq(Cfg!Lines)
          /\ Len(b) = IF m <= n THEN n - m + 1 ELSE 0
          /\ \A i \in 1..(n - m + 1) : b[i] = f[m + i - 1]
      BY <3>1, <3>2, SubSeqProperties
    <3> QED
      BY <3>1, <3>3, Zenon
  <2>4. \A i \in 1..(Len(f) - hi) : hi + 1 + i - 1 = hi + i
    BY <1>2
  <2> QED
    BY <2>2, <2>3, <2>4
<1>5. PICK g : g = a \o b
  OBVIOUS
<1>6. /\ g \in Seq(Cfg!Lines) /\ Len(g) = Len(a) + Len(b)
      /\ \A k \in 1..Len(g) : g[k] = IF k <= Len(a) THEN a[k] ELSE b[k - Len(a)]
  <2>1. a \in Seq(Cfg!Lines) /\ b \in Seq(Cfg!Lines)
    BY <1>3, <1>4
  <2>2. /\ g \in Seq(Cfg!Lines) /\ Len(g) = Len(a) + Len(b)
        /\ \A k \in 1..(Len(a) + Len(b)) : g[k] = IF k <= Len(a) THEN a[k] ELSE b[k - Len(a)]
    BY <1>5, <2>1, ConcatProperties, Zenon
  <2> QED
    BY <2>2, Zenon
<1>7. Len(g) = Len(f) - (hi - lo + 1)
  BY <1>2, <1>3, <1>4, <1>6
<1>8. ASSUME NEW k \in 1..Len(g) PROVE g[k] = f[WasAt(lo, hi, k)]
  <2>1. CASE k < lo
    <3>1. k <= Len(a) /\ k \in 1..(lo - 1) /\ WasAt(lo, hi, k) = k
      BY <1>2, <1>3, <1>8, <2>1 DEF WasAt
    <3> QED
      BY <1>3, <1>6, <3>1
  <2>2. CASE ~(k < lo)
    <3>1. /\ ~(k <= Len(a)) /\ k - Len(a) = k - (lo - 1) /\ k - (lo - 1) \in 1..(Len(f) - hi)
          /\ WasAt(lo, hi, k) = hi + (k - (lo - 1))
      BY <1>2, <1>3, <1>7, <1>8, <2>2 DEF WasAt
    <3>2. g[k] = b[k - (lo - 1)]
      BY <1>6, <1>8, <3>1
    <3> QED
      BY <1>4, <3>1, <3>2
  <2> QED
    BY <2>1, <2>2
<1>9. g = Cut(f, lo, hi)
  BY <1>1, <1>5 DEF Cut
<1> QED
  BY <1>6, <1>7, <1>8, <1>9 DEF IsCut

\* Each line but those cut out is in the new file, in the old order.
LEMMA OverFacts ==
  ASSUME NEW g, NEW f, NEW lo, NEW hi, IsCut(g, f, lo, hi)
  PROVE  /\ Len(f) \in Nat /\ Len(g) \in Nat /\ lo \in Nat /\ hi \in Nat /\ lo <= hi
         /\ Len(g) < Len(f)
         /\ \A k \in 1..Len(g) : /\ WasAt(lo, hi, k) \in 1..Len(f)
                                 /\ WasAt(lo, hi, k) \notin lo..hi
                                 /\ g[k] = f[WasAt(lo, hi, k)]
         /\ \A i \in 1..Len(f) : i \notin lo..hi => \E k \in 1..Len(g) : i = WasAt(lo, hi, k)
         /\ \A k, m \in 1..Len(g) : WasAt(lo, hi, k) < WasAt(lo, hi, m) => k < m
         /\ \A k, m \in 1..Len(g) : k < m => WasAt(lo, hi, k) < WasAt(lo, hi, m)
<1>1. /\ Len(f) \in Nat /\ Len(g) \in Nat /\ lo \in Nat /\ hi \in Nat /\ lo <= hi
      /\ lo >= 1 /\ hi <= Len(f) /\ Len(g) = Len(f) - (hi - lo + 1)
  BY DEF IsCut
<1>2. \A k \in 1..Len(g) : /\ WasAt(lo, hi, k) \in 1..Len(f)
                           /\ WasAt(lo, hi, k) \notin lo..hi
  BY <1>1 DEF WasAt
<1>3. \A k \in 1..Len(g) : g[k] = f[WasAt(lo, hi, k)]
  BY DEF IsCut
<1>4. ASSUME NEW i \in 1..Len(f), i \notin lo..hi
      PROVE  \E k \in 1..Len(g) : i = WasAt(lo, hi, k)
  <2>1. CASE i < lo
    <3>1. i \in 1..Len(g) /\ i = WasAt(lo, hi, i)
      BY <1>1, <1>4, <2>1 DEF WasAt
    <3> QED
      BY <3>1
  <2>2. CASE ~(i < lo)
    <3>1. i - (hi - lo + 1) \in 1..Len(g) /\ i = WasAt(lo, hi, i - (hi - lo + 1))
      BY <1>1, <1>4, <2>2 DEF WasAt
    <3> QED
      BY <3>1
  <2> QED
    BY <2>1, <2>2
<1>5. \A k, m \in 1..Len(g) : WasAt(lo, hi, k) < WasAt(lo, hi, m) => k < m
  BY <1>1 DEF WasAt
<1>6. \A k, m \in 1..Len(g) : k < m => WasAt(lo, hi, k) < WasAt(lo, hi, m)
  BY <1>1 DEF WasAt
<1>7. Len(g) < Len(f)
  BY <1>1
<1> QED
  BY <1>1, <1>2, <1>3, <1>4, <1>5, <1>6, <1>7

\* Blocks of a kind that the cut does not touch stay as they are.
LEMMA OtherBlocks ==
  ASSUME NEW g, NEW f, NEW lo, NEW hi, IsCut(g, f, lo, hi), NEW begin, NEW end,
         \A j \in lo..hi : f[j] # begin /\ f[j] # end, NEW k \in 1..Len(g)
  PROVE  Cfg!Inside(g, k, begin, end) <=> Cfg!Inside(f, WasAt(lo, hi, k), begin, end)
<1> DEFINE At(m) == WasAt(lo, hi, m)
<1>1. /\ Len(f) \in Nat /\ Len(g) \in Nat /\ lo \in Nat /\ hi \in Nat
      /\ \A m \in 1..Len(g) : At(m) \in 1..Len(f) /\ At(m) \notin lo..hi /\ g[m] = f[At(m)]
      /\ \A i \in 1..Len(f) : i \notin lo..hi => \E m \in 1..Len(g) : i = At(m)
      /\ \A m, n \in 1..Len(g) : At(m) < At(n) => m < n
      /\ \A m, n \in 1..Len(g) : m < n => At(m) < At(n)
  BY OverFacts
<1>2. ASSUME Cfg!Inside(g, k, begin, end) PROVE Cfg!Inside(f, At(k), begin, end)
  <2>1. PICK b \in 1..k : g[b] = begin /\ \A j \in b..(k - 1) : g[j] # end
    BY <1>2 DEF Cfg!Inside
  <2> HIDE DEF At
  <2>2. b \in 1..Len(g) /\ (b = k \/ b < k)
    BY <1>1
  <2>3. At(b) \in 1..At(k) /\ f[At(b)] = begin
    BY <1>1, <2>1, <2>2
  <2>4. ASSUME NEW j \in At(b)..(At(k) - 1) PROVE f[j] # end
    <3>1. j \in 1..Len(f) /\ At(b) <= j /\ j < At(k) /\ j \in Nat
      BY <1>1, <2>2
    <3>2. CASE j \in lo..hi
      BY <3>2
    <3>3. CASE j \notin lo..hi
      <4>1. PICK m \in 1..Len(g) : j = At(m)
        BY <1>1, <3>1, <3>3
      <4>2. m < k /\ (m = b \/ b < m)
        BY <1>1, <2>2, <3>1, <4>1
      <4>3. m \in b..(k - 1)
        BY <1>1, <2>2, <4>2
      <4> QED
        BY <1>1, <2>1, <4>1, <4>3
    <3> QED
      BY <3>2, <3>3
  <2> QED
    BY <2>3, <2>4 DEF Cfg!Inside
<1>3. ASSUME Cfg!Inside(f, At(k), begin, end) PROVE Cfg!Inside(g, k, begin, end)
  <2>1. PICK b \in 1..At(k) : f[b] = begin /\ \A j \in b..(At(k) - 1) : f[j] # end
    BY <1>3 DEF Cfg!Inside
  <2> HIDE DEF At
  <2>2. At(k) \in 1..Len(f)
    BY <1>1
  <2>3. b \in 1..Len(f) /\ b \notin lo..hi /\ b <= At(k)
    BY <1>1, <2>1, <2>2
  <2>4. PICK m \in 1..Len(g) : b = At(m)
    BY <1>1, <2>3
  <2>5. ~(k < m)
    BY <1>1, <2>2, <2>3, <2>4
  <2>6. m \in 1..k /\ g[m] = begin
    BY <1>1, <2>1, <2>4, <2>5
  <2>7. ASSUME NEW j \in m..(k - 1) PROVE g[j] # end
    <3>1. j \in 1..Len(g) /\ (j = m \/ m < j) /\ j < k
      BY <1>1, <2>6
    <3>2. At(j) \in b..(At(k) - 1)
      BY <1>1, <2>2, <2>4, <3>1
    <3> QED
      BY <1>1, <2>1, <3>1, <3>2
  <2> QED
    BY <2>6, <2>7 DEF Cfg!Inside
<1> QED
  BY <1>2, <1>3

\* So do the other blocks of its kind when the cut takes the first one whole.
LEMMA OwnBlocks ==
  ASSUME NEW g, NEW f, NEW lo, NEW hi, IsCut(g, f, lo, hi), NEW begin, NEW end,
         \A j \in 1..(lo - 1) : f[j] # begin, hi = Len(f) \/ f[hi] = end, NEW k \in 1..Len(g)
  PROVE  Cfg!Inside(g, k, begin, end) <=> Cfg!Inside(f, WasAt(lo, hi, k), begin, end)
<1> DEFINE At(m) == WasAt(lo, hi, m)
<1>1. /\ Len(f) \in Nat /\ Len(g) \in Nat /\ lo \in Nat /\ hi \in Nat /\ lo <= hi
      /\ \A m \in 1..Len(g) : At(m) \in 1..Len(f) /\ At(m) \notin lo..hi /\ g[m] = f[At(m)]
      /\ \A i \in 1..Len(f) : i \notin lo..hi => \E m \in 1..Len(g) : i = At(m)
      /\ \A m, n \in 1..Len(g) : At(m) < At(n) => m < n
      /\ \A m, n \in 1..Len(g) : m < n => At(m) < At(n)
  BY OverFacts
<1>2. ASSUME Cfg!Inside(g, k, begin, end) PROVE Cfg!Inside(f, At(k), begin, end)
  <2>1. PICK b \in 1..k : g[b] = begin /\ \A j \in b..(k - 1) : g[j] # end
    BY <1>2 DEF Cfg!Inside
  <2> HIDE DEF At
  <2>2. b \in 1..Len(g) /\ (b = k \/ b < k)
    BY <1>1
  <2>3. At(b) \in 1..At(k) /\ f[At(b)] = begin
    BY <1>1, <2>1, <2>2
  <2>4. At(b) > hi
    <3>1. At(b) \notin 1..(lo - 1)
      BY <2>3
    <3> QED
      BY <1>1, <2>2, <3>1
  <2>5. ASSUME NEW j \in At(b)..(At(k) - 1) PROVE f[j] # end
    <3>1. j \in 1..Len(f) /\ At(b) <= j /\ j < At(k) /\ j \in Nat /\ j \notin lo..hi
      BY <1>1, <2>2, <2>4
    <3>2. PICK m \in 1..Len(g) : j = At(m)
      BY <1>1, <3>1
    <3>3. m < k /\ (m = b \/ b < m)
      BY <1>1, <2>2, <3>1, <3>2
    <3>4. m \in b..(k - 1)
      BY <1>1, <2>2, <3>3
    <3> QED
      BY <1>1, <2>1, <3>2, <3>4
  <2> QED
    BY <2>3, <2>5 DEF Cfg!Inside
<1>3. ASSUME Cfg!Inside(f, At(k), begin, end) PROVE Cfg!Inside(g, k, begin, end)
  <2>1. PICK b \in 1..At(k) : f[b] = begin /\ \A j \in b..(At(k) - 1) : f[j] # end
    BY <1>3 DEF Cfg!Inside
  <2> HIDE DEF At
  <2>2. At(k) \in 1..Len(f) /\ At(k) \notin lo..hi
    BY <1>1
  <2>3. b \in 1..Len(f) /\ b <= At(k) /\ b \notin 1..(lo - 1)
    BY <1>1, <2>1, <2>2
  <2>4. b \notin lo..hi
    <3> SUFFICES ASSUME b \in lo..hi PROVE FALSE
      OBVIOUS
    <3>1. hi < At(k) /\ hi # Len(f) /\ hi \in b..(At(k) - 1)
      BY <1>1, <2>2, <2>3
    <3> QED
      BY <2>1, <3>1
  <2>5. PICK m \in 1..Len(g) : b = At(m)
    BY <1>1, <2>3, <2>4
  <2>6. ~(k < m)
    BY <1>1, <2>2, <2>3, <2>5
  <2>7. m \in 1..k /\ g[m] = begin
    BY <1>1, <2>1, <2>5, <2>6
  <2>8. ASSUME NEW j \in m..(k - 1) PROVE g[j] # end
    <3>1. j \in 1..Len(g) /\ (j = m \/ m < j) /\ j < k
      BY <1>1, <2>7
    <3>2. At(j) \in b..(At(k) - 1)
      BY <1>1, <2>2, <2>5, <3>1
    <3> QED
      BY <1>1, <2>1, <3>1, <3>2
  <2> QED
    BY <2>7, <2>8 DEF Cfg!Inside
<1> QED
  BY <1>2, <1>3

----------------------------------------------------------------------------
(* What Orderly says, line by line.                                        *)

OwnWords(begin, end) == {begin, end, Cfg!Blank, "[physics]"} \cup Cfg!PhysicsLines
Managed(f, i) == Cfg!Inside(f, i, Cfg!Begin, Cfg!End)
Legacy(f, i) == Cfg!Inside(f, i, Cfg!OldBegin, Cfg!OldEnd)

LineIn(f, i) ==
  /\ Managed(f, i) => f[i] \in OwnWords(Cfg!Begin, Cfg!End)
  /\ Legacy(f, i) => f[i] \in OwnWords(Cfg!OldBegin, Cfg!OldEnd)
  /\ f[i] \in Cfg!PhysicsLines => Managed(f, i) \/ Legacy(f, i)

Helpers == {Cfg!Helper, Cfg!OldHelper}

InOrder(f) ==
  /\ \A i \in 1..Len(f) : LineIn(f, i)
  /\ \A i, j \in 1..Len(f) : f[i] \in Helpers /\ f[j] \in Helpers => i = j

LEMMA OrderlyIs ==
  ASSUME NEW f \in Seq(Cfg!Lines) PROVE Cfg!Orderly(f) <=> InOrder(f)
<1>1. DOMAIN f = 1..Len(f)
  OBVIOUS
<1>2. \A i, j : {f[i], f[j]} \subseteq {Cfg!Helper, Cfg!OldHelper}
                  <=> f[i] \in Helpers /\ f[j] \in Helpers
  BY DEF Helpers
<1>3. Cfg!Orderly(f) <=>
        /\ \A i \in 1..Len(f) : Managed(f, i) => f[i] \in OwnWords(Cfg!Begin, Cfg!End)
        /\ \A i \in 1..Len(f) : Legacy(f, i) => f[i] \in OwnWords(Cfg!OldBegin, Cfg!OldEnd)
        /\ \A i \in 1..Len(f) : f[i] \in Cfg!PhysicsLines => Managed(f, i) \/ Legacy(f, i)
        /\ \A i, j \in 1..Len(f) :
             {f[i], f[j]} \subseteq {Cfg!Helper, Cfg!OldHelper} => i = j
  BY <1>1, Zenon DEF Cfg!Orderly, Cfg!BlocksHold, Managed, Legacy, OwnWords
<1> QED
  BY <1>2, <1>3, Zenon DEF InOrder, LineIn

\* A file whose blocks are what they were, with fewer lines.
LEMMA CutInOrder ==
  ASSUME NEW g, NEW f, NEW lo, NEW hi, IsCut(g, f, lo, hi), InOrder(f),
         \A k \in 1..Len(g) : /\ Managed(g, k) <=> Managed(f, WasAt(lo, hi, k))
                              /\ Legacy(g, k) <=> Legacy(f, WasAt(lo, hi, k))
  PROVE  InOrder(g)
<1>1. /\ \A k \in 1..Len(g) : WasAt(lo, hi, k) \in 1..Len(f) /\ g[k] = f[WasAt(lo, hi, k)]
      /\ \A k, m \in 1..Len(g) : k < m => WasAt(lo, hi, k) < WasAt(lo, hi, m)
      /\ Len(g) \in Nat /\ Len(f) \in Nat
  BY OverFacts
<1>2. \A k \in 1..Len(g) : LineIn(g, k)
  BY <1>1, Zenon DEF InOrder, LineIn
<1>3. \A k, m \in 1..Len(g) : WasAt(lo, hi, k) = WasAt(lo, hi, m) => k = m
  BY <1>1
<1>4. \A k, m \in 1..Len(g) : g[k] \in Helpers /\ g[m] \in Helpers => k = m
  BY <1>1, <1>3, Zenon DEF InOrder
<1> QED
  BY <1>2, <1>4, Zenon DEF InOrder

----------------------------------------------------------------------------
(* A round of strip_block.                                                 *)

Kind(begin, end) ==
  \/ begin = Cfg!Begin /\ end = Cfg!End
  \/ begin = Cfg!OldBegin /\ end = Cfg!OldEnd

Has(f, line) == \E i \in 1..Len(f) : f[i] = line

\* The first block, or what there is of it.
FirstBlock(f, lo, hi, begin, end) ==
  /\ lo \in 1..Len(f) /\ hi \in lo..Len(f)
  /\ f[lo] = begin
  /\ \A j \in 1..(lo - 1) : f[j] # begin
  /\ \A j \in lo..(hi - 1) : f[j] # end
  /\ hi = Len(f) \/ f[hi] = end

LEMMA BlockWords ==
  ASSUME NEW f \in Seq(Cfg!Lines), InOrder(f), NEW begin, NEW end, Kind(begin, end),
         NEW lo, NEW hi, FirstBlock(f, lo, hi, begin, end)
  PROVE  \A j \in lo..hi : f[j] \in OwnWords(begin, end)
<1> SUFFICES ASSUME NEW j \in lo..hi PROVE f[j] \in OwnWords(begin, end)
  OBVIOUS
<1>1. j \in 1..Len(f) /\ lo \in 1..j /\ lo..(j - 1) \subseteq lo..(hi - 1) /\ f[lo] = begin
  BY DEF FirstBlock
<1>2. Cfg!Inside(f, j, begin, end)
  BY <1>1, Zenon DEF Cfg!Inside, FirstBlock
<1> QED
  BY <1>1, <1>2, Zenon DEF Kind, InOrder, LineIn, Managed, Legacy

\* The words of a block are neither the player's lines nor helpers, nor words
\* that open or close blocks of the other kind.
LEMMA WordsApart ==
  /\ \A x \in OwnWords(Cfg!Begin, Cfg!End) :
       x \notin UserLines /\ x \notin Helpers /\ x # Cfg!OldBegin /\ x # Cfg!OldEnd
  /\ \A x \in OwnWords(Cfg!OldBegin, Cfg!OldEnd) :
       x \notin UserLines /\ x \notin Helpers /\ x # Cfg!Begin /\ x # Cfg!End
<1>1. Cfg!PhysicsLines = {"thread_model", "interpolation"}
  BY DEF Cfg!PhysicsLines, Cfg!Physics
<1>2. /\ OwnWords(Cfg!Begin, Cfg!End) \subseteq Cfg!Known
      /\ OwnWords(Cfg!OldBegin, Cfg!OldEnd) \subseteq Cfg!Known
  BY DEF OwnWords, Cfg!Known
<1>3. UserLines \cap Cfg!Known = {}
  BY CfgAssumption
<1>4. \A x \in OwnWords(Cfg!Begin, Cfg!End) :
        x \notin Helpers /\ x # Cfg!OldBegin /\ x # Cfg!OldEnd
  BY <1>1, Zenon DEF OwnWords, Helpers, Cfg!Begin, Cfg!End, Cfg!Blank, Cfg!Helper, Cfg!OldHelper,
              Cfg!OldBegin, Cfg!OldEnd
<1>5. \A x \in OwnWords(Cfg!OldBegin, Cfg!OldEnd) :
        x \notin Helpers /\ x # Cfg!Begin /\ x # Cfg!End
  BY <1>1, Zenon DEF OwnWords, Helpers, Cfg!Begin, Cfg!End, Cfg!Blank, Cfg!Helper, Cfg!OldHelper,
              Cfg!OldBegin, Cfg!OldEnd
<1> QED
  BY <1>2, <1>3, <1>4, <1>5

LEMMA BlockCut ==
  ASSUME NEW f \in Seq(Cfg!Lines), InOrder(f), NEW begin, NEW end, Kind(begin, end),
         NEW lo, NEW hi, FirstBlock(f, lo, hi, begin, end), NEW g, IsCut(g, f, lo, hi)
  PROVE  InOrder(g)
<1>1. \A j \in lo..hi : f[j] \in OwnWords(begin, end)
  BY BlockWords
<1>2. /\ \A j \in 1..(lo - 1) : f[j] # begin
      /\ hi = Len(f) \/ f[hi] = end
  BY DEF FirstBlock
<1>3. \A k \in 1..Len(g) : /\ Managed(g, k) <=> Managed(f, WasAt(lo, hi, k))
                           /\ Legacy(g, k) <=> Legacy(f, WasAt(lo, hi, k))
  <2>1. CASE begin = Cfg!Begin /\ end = Cfg!End
    <3>1. \A j \in lo..hi : f[j] # Cfg!OldBegin /\ f[j] # Cfg!OldEnd
      BY <1>1, <2>1, WordsApart, Zenon
    <3>2. \A k \in 1..Len(g) : Managed(g, k) <=> Managed(f, WasAt(lo, hi, k))
      BY <1>2, <2>1, OwnBlocks, Zenon DEF Managed
    <3>3. \A k \in 1..Len(g) : Legacy(g, k) <=> Legacy(f, WasAt(lo, hi, k))
      BY <3>1, OtherBlocks, Zenon DEF Legacy
    <3> QED
      BY <3>2, <3>3, Zenon
  <2>2. CASE begin = Cfg!OldBegin /\ end = Cfg!OldEnd
    <3>1. \A j \in lo..hi : f[j] # Cfg!Begin /\ f[j] # Cfg!End
      BY <1>1, <2>2, WordsApart, Zenon
    <3>2. \A k \in 1..Len(g) : Managed(g, k) <=> Managed(f, WasAt(lo, hi, k))
      BY <3>1, OtherBlocks, Zenon DEF Managed
    <3>3. \A k \in 1..Len(g) : Legacy(g, k) <=> Legacy(f, WasAt(lo, hi, k))
      BY <1>2, <2>2, OwnBlocks, Zenon DEF Legacy
    <3> QED
      BY <3>2, <3>3, Zenon
  <2> QED
    BY <2>1, <2>2, Zenon DEF Kind
<1> QED
  BY <1>3, CutInOrder, Zenon

\* A file is what comes before a cut, what is cut out, and what comes after it.
LEMMA ThreeParts ==
  ASSUME NEW X, NEW f \in Seq(X), NEW lo \in 1..Len(f), NEW hi \in lo..Len(f)
  PROVE  /\ SubSeq(f, 1, lo - 1) \in Seq(X)
         /\ SubSeq(f, lo, hi) \in Seq(X)
         /\ SubSeq(f, hi + 1, Len(f)) \in Seq(X)
         /\ f = (SubSeq(f, 1, lo - 1) \o SubSeq(f, lo, hi)) \o SubSeq(f, hi + 1, Len(f))
<1>1. Len(f) \in Nat /\ lo \in Nat /\ hi \in Nat /\ lo <= hi /\ hi <= Len(f) /\ 1 <= lo
  OBVIOUS
<1>2. \A i \in 1..Len(f) : f[i] \in X
  OBVIOUS
<1>3. PICK m \in Int, n \in Int, l \in Int :
         m = lo - 1 /\ n = hi + 1 /\ l = Len(f)
  BY <1>1
<1>4. /\ \A i \in 1..m : f[i] \in X
      /\ \A i \in lo..hi : f[i] \in X
      /\ \A i \in n..l : f[i] \in X
      /\ lo \in Int /\ hi \in Int
  BY <1>1, <1>2, <1>3
<1>5. SubSeq(f, 1, m) \in Seq(X) /\ SubSeq(f, lo, hi) \in Seq(X) /\ SubSeq(f, n, l) \in Seq(X)
  <2>1. 1 \in Int
    OBVIOUS
  <2> QED
    BY <1>3, <1>4, <2>1, SubSeqProperties
<1>6. SubSeq(f, 1, lo - 1) \o SubSeq(f, lo, hi) = SubSeq(f, 1, hi)
  <2>1. 1 \in 1..(Len(f) + 1) /\ m \in (1 - 1)..Len(f) /\ hi \in m..Len(f) /\ m + 1 = lo
    BY <1>1, <1>3
  <2>2. SubSeq(f, 1, m) \o SubSeq(f, m + 1, hi) = SubSeq(f, 1, hi)
    BY <2>1, ConcatAdjacentSubSeq
  <2> QED
    BY <1>3, <2>1, <2>2
<1>7. SubSeq(f, 1, hi) \o SubSeq(f, hi + 1, Len(f)) = SubSeq(f, 1, Len(f))
  <2>1. 1 \in 1..(Len(f) + 1) /\ hi \in (1 - 1)..Len(f) /\ Len(f) \in hi..Len(f)
    BY <1>1
  <2> QED
    BY <2>1, ConcatAdjacentSubSeq
<1>8. SubSeq(f, 1, Len(f)) = f
  BY SubSeqFull
<1> QED
  BY <1>3, <1>5, <1>6, <1>7, <1>8, Zenon

\* The lines that are in S do not change when none of them is cut out.
LEMMA CutAmong ==
  ASSUME NEW f \in Seq(Cfg!Lines), NEW lo \in 1..Len(f), NEW hi \in lo..Len(f), NEW S,
         \A j \in lo..hi : f[j] \notin S
  PROVE  Cfg!Among(Cut(f, lo, hi), S) = Cfg!Among(f, S)
<1>1. PICK a, m, b : /\ a = SubSeq(f, 1, lo - 1) /\ m = SubSeq(f, lo, hi)
                     /\ b = SubSeq(f, hi + 1, Len(f))
  OBVIOUS
<1>2. /\ a \in Seq(Cfg!Lines) /\ m \in Seq(Cfg!Lines) /\ b \in Seq(Cfg!Lines)
      /\ f = (a \o m) \o b
  BY <1>1, ThreeParts
<1>3. Len(m) = hi - lo + 1 /\ \A i \in 1..(hi - lo + 1) : m[i] = f[lo + i - 1]
  <2>1. lo \in Int /\ hi \in Int /\ lo <= hi
    OBVIOUS
  <2>2. \A i \in lo..hi : f[i] \in Cfg!Lines
    OBVIOUS
  <2>3. /\ Len(m) = IF lo <= hi THEN hi - lo + 1 ELSE 0
        /\ \A i \in 1..(hi - lo + 1) : m[i] = f[lo + i - 1]
    BY <1>1, <2>1, <2>2, SubSeqProperties
  <2> QED
    BY <2>1, <2>3
<1>4. \A i \in 1..Len(m) : m[i] \notin S
  <2>1. \A i \in 1..(hi - lo + 1) : lo + i - 1 \in lo..hi
    OBVIOUS
  <2> QED
    BY <1>3, <2>1
<1>5. Cfg!Among(m, S) = <<>>
  BY <1>2, <1>4, AmongNone
<1>6. a \o m \in Seq(Cfg!Lines)
  BY <1>2
<1>7. PICK u, v : u = Cfg!Among(a, S) /\ v = Cfg!Among(b, S)
  OBVIOUS
<1>8. u \in Seq(Cfg!Lines)
  BY <1>2, <1>7, AmongType
<1>9. Cfg!Among(a \o m, S) = u \o <<>>
  <2>1. Cfg!Among(a \o m, S) = Cfg!Among(a, S) \o Cfg!Among(m, S)
    BY <1>2, AmongConcat
  <2> QED
    BY <1>5, <1>7, <2>1, Zenon
<1>10. u \o <<>> = u
  BY <1>8, ConcatEmptySeq
<1>11. Cfg!Among((a \o m) \o b, S) = u \o v
  <2>1. PICK c : c = a \o m
    OBVIOUS
  <2>2. c \in Seq(Cfg!Lines) /\ b \in Seq(Cfg!Lines)
    BY <1>2, <1>6, <2>1, Zenon
  <2>3. Cfg!Among(c \o b, S) = Cfg!Among(c, S) \o Cfg!Among(b, S)
    BY <2>2, AmongConcat
  <2> QED
    BY <1>7, <1>9, <1>10, <2>1, <2>3, Zenon
<1>12. Cfg!Among(a \o b, S) = u \o v
  <2>1. Cfg!Among(a \o b, S) = Cfg!Among(a, S) \o Cfg!Among(b, S)
    BY <1>2, AmongConcat
  <2> QED
    BY <1>7, <2>1, Zenon
<1> QED
  BY <1>1, <1>2, <1>11, <1>12, Zenon DEF Cut

\* What a file keeps of f.
Keeps(g, f) ==
  /\ g \in Seq(Cfg!Lines) /\ InOrder(g)
  /\ Cfg!PlayersOwn(g) = Cfg!PlayersOwn(f)
  /\ Has(f, Cfg!Helper) => Has(g, Cfg!Helper)
  /\ \A line : Has(g, line) => Has(f, line)

LEMMA CutKeeps ==
  ASSUME NEW f \in Seq(Cfg!Lines), NEW lo \in 1..Len(f), NEW hi \in lo..Len(f),
         InOrder(Cut(f, lo, hi)),
         \A j \in lo..hi : f[j] \notin UserLines /\ f[j] \notin Helpers
  PROVE  Keeps(Cut(f, lo, hi), f)
<1>1. PICK g : g = Cut(f, lo, hi)
  OBVIOUS
<1>2. IsCut(g, f, lo, hi)
  BY <1>1, CutIs
<1>3. g \in Seq(Cfg!Lines)
  BY <1>2 DEF IsCut
<1>4. Cfg!PlayersOwn(g) = Cfg!PlayersOwn(f)
  <2>1. \A j \in lo..hi : f[j] \notin UserLines
    OBVIOUS
  <2> QED
    BY <1>1, <2>1, CutAmong, Zenon DEF Cfg!PlayersOwn
<1>5. /\ \A k \in 1..Len(g) : WasAt(lo, hi, k) \in 1..Len(f) /\ g[k] = f[WasAt(lo, hi, k)]
      /\ \A i \in 1..Len(f) : i \notin lo..hi => \E k \in 1..Len(g) : i = WasAt(lo, hi, k)
  BY <1>2, OverFacts
<1>6. Cfg!Helper \in Helpers
  BY DEF Helpers
<1>7. ASSUME Has(f, Cfg!Helper) PROVE Has(g, Cfg!Helper)
  <2>1. PICK i \in 1..Len(f) : f[i] = Cfg!Helper
    BY <1>7 DEF Has
  <2>2. i \notin lo..hi
    BY <1>6, <2>1, Zenon
  <2>3. PICK k \in 1..Len(g) : i = WasAt(lo, hi, k)
    BY <1>5, <2>2, Zenon
  <2>4. g[k] = Cfg!Helper
    BY <1>5, <2>1, <2>3, Zenon
  <2> QED
    BY <2>4 DEF Has
<1>8. \A line : Has(g, line) => Has(f, line)
  BY <1>5, Zenon DEF Has
<1> QED
  BY <1>1, <1>3, <1>4, <1>7, <1>8, Zenon DEF Keeps

LEMMA KeepsOn ==
  ASSUME NEW e, NEW g, NEW f, Keeps(e, g), Keeps(g, f)
  PROVE  Keeps(e, f)
  BY Zenon DEF Keeps

----------------------------------------------------------------------------
\* Where a line stands first.
LEMMA PositionIs ==
  ASSUME NEW f, DOMAIN f = 1..Len(f), Len(f) \in Nat, NEW line, Has(f, line)
  PROVE  /\ Cfg!Position(f, line) \in 1..Len(f)
         /\ f[Cfg!Position(f, line)] = line
         /\ \A j \in 1..(Cfg!Position(f, line) - 1) : f[j] # line
<1> DEFINE S == {i \in 1..Len(f) : f[i] = line}
<1>1. S \in SUBSET Nat /\ S # {}
  BY DEF Has
<1>2. PICK i \in S : \A j \in Nat : j < i => j \notin S
  <2> HIDE DEF S
  <2> QED
    BY <1>1, LeastOf
<1>3. i \in 1..Len(f) /\ f[i] = line
  OBVIOUS
<1>4. \A j \in 1..(i - 1) : f[j] # line
  <2> SUFFICES ASSUME NEW j \in 1..(i - 1) PROVE f[j] # line
    OBVIOUS
  <2>1. j \in Nat /\ j < i /\ j \in 1..Len(f)
    BY <1>3
  <2> QED
    BY <1>2, <2>1
<1>5. \E k \in DOMAIN f : f[k] = line /\ \A j \in 1..(k - 1) : f[j] # line
  BY <1>3, <1>4
<1> HIDE DEF S
<1> QED
  BY <1>5, Zenon DEF Cfg!Position

LEMMA StripOneIs ==
  ASSUME NEW f \in Seq(Cfg!Lines), NEW begin, NEW end, Has(f, begin)
  PROVE  \E lo, hi : /\ FirstBlock(f, lo, hi, begin, end)
                     /\ Cfg!StripOne(f, begin, end) = Cut(f, lo, hi)
<1>1. Len(f) \in Nat /\ DOMAIN f = 1..Len(f) /\ \A i \in 1..Len(f) : f[i] \in Cfg!Lines
  OBVIOUS
<1>2. PICK b : b = Cfg!Position(f, begin)
  OBVIOUS
<1>3. b \in 1..Len(f) /\ f[b] = begin /\ \A j \in 1..(b - 1) : f[j] # begin
  BY <1>1, <1>2, PositionIs
<1>4. PICK rest : rest = SubSeq(f, b, Len(f))
  OBVIOUS
<1>5. /\ rest \in Seq(Cfg!Lines) /\ Len(rest) = Len(f) - b + 1
      /\ \A i \in 1..(Len(f) - b + 1) : rest[i] = f[b + i - 1]
  <2>1. b \in Int /\ Len(f) \in Int /\ b <= Len(f)
    BY <1>1, <1>3
  <2>2. \A i \in b..Len(f) : f[i] \in Cfg!Lines
    BY <1>1, <1>3
  <2>3. /\ rest \in Seq(Cfg!Lines)
        /\ Len(rest) = IF b <= Len(f) THEN Len(f) - b + 1 ELSE 0
        /\ \A i \in 1..(Len(f) - b + 1) : rest[i] = f[b + i - 1]
    BY <1>4, <2>1, <2>2, SubSeqProperties
  <2> QED
    BY <2>1, <2>3
<1>6. Cfg!StripOne(f, begin, end)
        = SubSeq(f, 1, b - 1) \o (IF Has(rest, end)
                                  THEN SubSeq(rest, Cfg!Position(rest, end) + 1, Len(rest))
                                  ELSE <<>>)
  BY <1>2, <1>4, Zenon DEF Cfg!StripOne, Cfg!Contains, Has, Cfg!From, Cfg!UpTo
<1>7. CASE Has(rest, end)
  <2>1. PICK p : p = Cfg!Position(rest, end)
    OBVIOUS
  <2>2. DOMAIN rest = 1..Len(rest) /\ Len(rest) \in Nat
    BY <1>5
  <2>3. p \in 1..Len(rest) /\ rest[p] = end /\ \A j \in 1..(p - 1) : rest[j] # end
    BY <1>7, <2>1, <2>2, PositionIs
  <2>4. PICK hi : hi = b + p - 1
    OBVIOUS
  <2>5. hi \in b..Len(f) /\ b \in Nat /\ p \in Nat /\ hi \in Nat
    BY <1>1, <1>3, <1>5, <2>3, <2>4
  <2>6. f[hi] = end
    <3>1. p \in 1..(Len(f) - b + 1)
      BY <1>5, <2>3
    <3> QED
      BY <1>5, <2>3, <2>4, <3>1
  <2>7. \A j \in b..(hi - 1) : f[j] # end
    <3> SUFFICES ASSUME NEW j \in b..(hi - 1) PROVE f[j] # end
      OBVIOUS
    <3>1. PICK i \in Nat : i = j - b + 1
      BY <2>5
    <3>2. i \in 1..(p - 1) /\ i \in 1..(Len(f) - b + 1) /\ b + i - 1 = j
      BY <1>1, <1>3, <2>4, <2>5, <3>1
    <3> QED
      BY <1>5, <2>3, <3>2
  <2>8. SubSeq(rest, p + 1, Len(rest)) = SubSeq(f, hi + 1, Len(f))
    <3>1. PICK m, l, n, k : m = p + 1 /\ l = Len(rest) /\ n = hi + 1 /\ k = Len(f)
      OBVIOUS
    <3> m \in Int /\ l \in Int /\ n \in Int /\ k \in Int
      BY <1>1, <2>2, <2>5, <3>1
    <3>2. PICK c, d : c = SubSeq(rest, m, l) /\ d = SubSeq(f, n, k)
      OBVIOUS
    <3>3. \A i \in m..l : rest[i] \in Cfg!Lines
      BY <1>5, <2>2, <2>5, <3>1
    <3>4. \A i \in n..k : f[i] \in Cfg!Lines
      BY <1>1, <2>5, <3>1
    <3>5. /\ c \in Seq(Cfg!Lines) /\ Len(c) = IF m <= l THEN l - m + 1 ELSE 0
          /\ \A i \in 1..(l - m + 1) : c[i] = rest[m + i - 1]
      BY <3>2, <3>3, SubSeqProperties
    <3>6. /\ d \in Seq(Cfg!Lines) /\ Len(d) = IF n <= k THEN k - n + 1 ELSE 0
          /\ \A i \in 1..(k - n + 1) : d[i] = f[n + i - 1]
      BY <3>2, <3>4, SubSeqProperties
    <3>7. l - m = k - n
      BY <1>1, <1>3, <1>5, <2>4, <2>5, <3>1
    <3>8. Len(c) = Len(d)
      BY <3>5, <3>6, <3>7
    <3>9. ASSUME NEW i \in 1..Len(c) PROVE c[i] = d[i]
      <4>1. i \in 1..(l - m + 1) /\ i \in 1..(k - n + 1)
        BY <3>5, <3>7
      <4>2. m + i - 1 \in 1..(Len(f) - b + 1) /\ b + (m + i - 1) - 1 = n + i - 1
        BY <1>1, <1>3, <1>5, <2>4, <2>5, <3>1, <4>1
      <4> QED
        BY <1>5, <3>5, <3>6, <4>1, <4>2
    <3>10. c = d
      BY <3>5, <3>6, <3>8, <3>9, SeqEqual
    <3> QED
      BY <3>1, <3>2, <3>10
  <2>9. FirstBlock(f, b, hi, begin, end)
    BY <1>3, <2>5, <2>6, <2>7, Zenon DEF FirstBlock
  <2>10. Cfg!StripOne(f, begin, end) = Cut(f, b, hi)
    BY <1>6, <1>7, <2>1, <2>8, Zenon DEF Cut
  <2> QED
    BY <2>9, <2>10
<1>8. CASE ~Has(rest, end)
  <2>1. \A j \in b..Len(f) : f[j] # end
    <3> SUFFICES ASSUME NEW j \in b..Len(f) PROVE f[j] # end
      OBVIOUS
    <3>1. PICK i \in Nat : i = j - b + 1
      BY <1>3
    <3>2. i \in 1..Len(rest) /\ i \in 1..(Len(f) - b + 1) /\ b + i - 1 = j
      BY <1>1, <1>3, <1>5, <3>1
    <3> QED
      BY <1>5, <1>8, <3>2 DEF Has
  <2>2. \A j \in b..(Len(f) - 1) : f[j] # end
    BY <1>3, <2>1
  <2>3. Len(f) \in b..Len(f)
    BY <1>1, <1>3
  <2>4. FirstBlock(f, b, Len(f), begin, end)
    BY <1>3, <2>2, <2>3, Zenon DEF FirstBlock
  <2>5. SubSeq(f, Len(f) + 1, Len(f)) = <<>>
    <3>1. Len(f) + 1 \in Int /\ Len(f) \in Int /\ Len(f) < Len(f) + 1
      BY <1>1
    <3> QED
      BY <3>1, SubSeqEmpty
  <2>6. Cfg!StripOne(f, begin, end) = Cut(f, b, Len(f))
    BY <1>6, <1>8, <2>5, Zenon DEF Cut
  <2> QED
    BY <2>4, <2>6
<1> QED
  BY <1>7, <1>8

\* A round takes one block and leaves the rest.
LEMMA StripOneKeeps ==
  ASSUME NEW f \in Seq(Cfg!Lines), InOrder(f), NEW begin, NEW end, Kind(begin, end)
  PROVE  /\ Keeps(Cfg!StripOne(f, begin, end), f)
         /\ Has(f, begin) => Len(Cfg!StripOne(f, begin, end)) < Len(f)
         /\ ~Has(f, begin) => Cfg!StripOne(f, begin, end) = f
<1>1. CASE ~Has(f, begin)
  <2>1. Cfg!StripOne(f, begin, end) = f
    BY <1>1, Zenon DEF Cfg!StripOne, Cfg!Contains, Has
  <2> QED
    BY <1>1, <2>1, Zenon DEF Keeps
<1>2. CASE Has(f, begin)
  <2>1. PICK lo, hi : /\ FirstBlock(f, lo, hi, begin, end)
                      /\ Cfg!StripOne(f, begin, end) = Cut(f, lo, hi)
    BY <1>2, StripOneIs
  <2>2. PICK g : g = Cut(f, lo, hi)
    OBVIOUS
  <2>3. lo \in 1..Len(f) /\ hi \in lo..Len(f)
    BY <2>1 DEF FirstBlock
  <2>4. IsCut(g, f, lo, hi)
    BY <2>2, <2>3, CutIs
  <2>5. InOrder(g)
    BY <2>1, <2>4, BlockCut
  <2>6. \A j \in lo..hi : f[j] \notin UserLines /\ f[j] \notin Helpers
    <3>1. \A j \in lo..hi : f[j] \in OwnWords(begin, end)
      BY <2>1, BlockWords
    <3> QED
      BY <3>1, WordsApart, Zenon DEF Kind
  <2>7. Keeps(g, f)
    BY <2>2, <2>3, <2>5, <2>6, CutKeeps
  <2>8. Len(g) < Len(f)
    BY <2>4, OverFacts
  <2> QED
    BY <1>2, <2>1, <2>2, <2>7, <2>8
<1> QED
  BY <1>1, <1>2

\* strip_block leaves no block of its kind.
LEMMA StripBlockKeeps ==
  ASSUME NEW f \in Seq(Cfg!Lines), InOrder(f), NEW begin, NEW end, Kind(begin, end)
  PROVE  /\ Keeps(Cfg!StripBlock(f, begin, end), f)
         /\ ~Has(Cfg!StripBlock(f, begin, end), begin)
<1>1. Len(f) \in Nat /\ Len(f) \in 0..Len(f)
  OBVIOUS
<1>2. PICK g : /\ Rounds(g, Len(f), f, "strip", f, begin, end)
               /\ Cfg!StripBlock(f, begin, end) = g[Len(f)]
  BY <1>1, StripBlockIs
<1>3. \A k \in 0..Len(f) : g[k] = IF k = 0 THEN f ELSE Cfg!StripOne(g[k - 1], begin, end)
  <2>1. \A k \in 0..Len(f) :
          g[k] = IF k = 0 THEN f ELSE OneRound("strip", g[k - 1], f[k], begin, end)
    BY <1>2, Zenon DEF Rounds
  <2> QED
    BY <2>1 DEF OneRound
<1> DEFINE Fewer(k) == Len(g[k]) <= Len(f) - k
           Right(k) == Keeps(g[k], f) /\ (~Has(g[k], begin) \/ Fewer(k))
           T == {k \in 0..Len(f) : ~Right(k)}
<1>4. g[0] = f
  <2>1. 0 \in 0..Len(f)
    BY <1>1
  <2> QED
    BY <1>3, <2>1
<1>5. Right(0)
  <2>1. Keeps(f, f)
    BY DEF Keeps
  <2>2. Fewer(0)
    BY <1>1, <1>4
  <2> QED
    BY <1>4, <2>1, <2>2
<1>6. ASSUME NEW k \in 0..(Len(f) - 1), Right(k) PROVE Right(k + 1)
  <2>1. k + 1 \in 0..Len(f) /\ k + 1 # 0 /\ (k + 1) - 1 = k /\ k \in Nat
    BY <1>1
  <2>2. PICK e : e = g[k]
    OBVIOUS
  <2>3. e \in Seq(Cfg!Lines) /\ InOrder(e) /\ Keeps(e, f)
    BY <1>6, <2>2 DEF Keeps
  <2>4. PICK d : d = Cfg!StripOne(e, begin, end)
    OBVIOUS
  <2>5. g[k + 1] = d
    BY <1>3, <2>1, <2>2, <2>4
  <2>6. /\ Keeps(d, e)
        /\ Has(e, begin) => Len(d) < Len(e)
        /\ ~Has(e, begin) => d = e
    BY <2>3, <2>4, StripOneKeeps
  <2>7. Keeps(d, f)
    BY <2>3, <2>6, KeepsOn
  <2>8. CASE ~Has(e, begin)
    BY <2>5, <2>6, <2>7, <2>8
  <2>9. CASE Has(e, begin)
    <3>1. Len(e) <= Len(f) - k
      BY <1>6, <2>2, <2>9
    <3>2. d \in Seq(Cfg!Lines)
      BY <2>6 DEF Keeps
    <3>3. Len(d) \in Nat /\ Len(e) \in Nat
      BY <2>3, <3>2
    <3>4. Len(d) < Len(e)
      BY <2>6, <2>9, Zenon
    <3>5. Fewer(k + 1)
      BY <1>1, <2>1, <2>5, <3>1, <3>3, <3>4
    <3> QED
      BY <2>5, <2>7, <3>5
  <2> QED
    BY <2>8, <2>9
<1>7. T = {}
  <2> SUFFICES ASSUME T # {} PROVE FALSE
    OBVIOUS
  <2>1. T \in SUBSET (0..Len(f)) /\ 0 \notin T
    BY <1>5
  <2>2. PICK k \in 0..(Len(f) - 1) : k \notin T /\ k + 1 \in T
    <3> HIDE DEF T
    <3> QED
      BY <1>1, <2>1, FirstFollows
  <2>3. k \in 0..Len(f)
    BY <1>1
  <2> HIDE DEF Right
  <2> QED
    BY <1>6, <2>2, <2>3
<1>8. Right(Len(f))
  <2> HIDE DEF Right
  <2> QED
    BY <1>1, <1>7
<1>9. PICK h : h = g[Len(f)]
  OBVIOUS
<1>10. Keeps(h, f) /\ (~Has(h, begin) \/ Len(h) <= Len(f) - Len(f))
  BY <1>8, <1>9
<1>11. ~Has(h, begin)
  <2> SUFFICES ASSUME Has(h, begin) PROVE FALSE
    OBVIOUS
  <2>1. h \in Seq(Cfg!Lines) /\ Len(h) <= Len(f) - Len(f)
    BY <1>10 DEF Keeps
  <2>2. Len(h) = 0
    BY <1>1, <2>1
  <2>3. PICK i \in 1..Len(h) : h[i] = begin
    BY DEF Has
  <2> QED
    BY <2>2, <2>3
<1> QED
  BY <1>2, <1>9, <1>10, <1>11

\* A line that is of no block goes without changing the blocks.
LEMMA LineCut ==
  ASSUME NEW f \in Seq(Cfg!Lines), InOrder(f), NEW at \in 1..Len(f), f[at] = Cfg!Blank
  PROVE  Keeps(Cut(f, at, at), f)
<1>1. at \in at..Len(f) /\ \A j \in at..at : j = at
  OBVIOUS
<1>2. PICK g : g = Cut(f, at, at)
  OBVIOUS
<1>3. IsCut(g, f, at, at)
  BY <1>1, <1>2, CutIs
<1>4. \A j \in at..at : /\ f[j] # Cfg!Begin /\ f[j] # Cfg!End
                        /\ f[j] # Cfg!OldBegin /\ f[j] # Cfg!OldEnd
                        /\ f[j] \notin Helpers
  BY <1>1, Zenon DEF Cfg!Blank, Cfg!Begin, Cfg!End, Cfg!OldBegin, Cfg!OldEnd, Helpers, Cfg!Helper,
              Cfg!OldHelper
<1>5. \A j \in at..at : f[j] \notin UserLines
  <2>1. Cfg!Blank \in Cfg!Known
    BY DEF Cfg!Known
  <2> QED
    BY <1>1, <2>1, CfgAssumption
<1>6. \A k \in 1..Len(g) : /\ Managed(g, k) <=> Managed(f, WasAt(at, at, k))
                           /\ Legacy(g, k) <=> Legacy(f, WasAt(at, at, k))
  <2>1. /\ \A j \in at..at : f[j] # Cfg!Begin /\ f[j] # Cfg!End
        /\ \A j \in at..at : f[j] # Cfg!OldBegin /\ f[j] # Cfg!OldEnd
    BY <1>4
  <2> QED
    BY <1>3, <2>1, OtherBlocks, Zenon DEF Managed, Legacy
<1>7. InOrder(g)
  BY <1>3, <1>6, CutInOrder, Zenon
<1> QED
  BY <1>1, <1>2, <1>4, <1>5, <1>7, CutKeeps

LEMMA WithoutLegacyKeeps ==
  ASSUME NEW f \in Seq(Cfg!Lines), InOrder(f)
  PROVE  /\ Keeps(Cfg!WithoutLegacy(f), f)
         /\ ~Has(Cfg!WithoutLegacy(f), Cfg!OldBegin)
<1>1. Kind(Cfg!OldBegin, Cfg!OldEnd)
  BY DEF Kind
<1>2. CASE ~Has(f, Cfg!OldBegin)
  <2>1. Cfg!WithoutLegacy(f) = f
    BY <1>2, Zenon DEF Cfg!WithoutLegacy, Cfg!Contains, Has
  <2> QED
    BY <1>2, <2>1, Zenon DEF Keeps
<1>3. CASE Has(f, Cfg!OldBegin)
  <2>1. PICK b : b = Cfg!Position(f, Cfg!OldBegin)
    OBVIOUS
  <2>2. b \in 1..Len(f) /\ Len(f) \in Nat
    <3>1. DOMAIN f = 1..Len(f) /\ Len(f) \in Nat
      OBVIOUS
    <3> QED
      BY <1>3, <2>1, <3>1, PositionIs
  <2>3. PICK g : g = IF b > 2 /\ f[b - 1] = Cfg!Blank THEN Cfg!RemoveAt(f, b - 1) ELSE f
    OBVIOUS
  <2>4. Cfg!WithoutLegacy(f) = Cfg!StripBlock(g, Cfg!OldBegin, Cfg!OldEnd)
    BY <1>3, <2>1, <2>3, Zenon DEF Cfg!WithoutLegacy, Cfg!Contains, Has
  <2>5. Keeps(g, f)
    <3>1. CASE b > 2 /\ f[b - 1] = Cfg!Blank
      <4>1. PICK at : at = b - 1
        OBVIOUS
      <4>2. at \in 1..Len(f) /\ f[at] = Cfg!Blank
        BY <2>2, <3>1, <4>1
      <4>3. g = Cut(f, at, at)
        BY <2>3, <3>1, <4>1, Zenon DEF Cfg!RemoveAt, Cut
      <4> QED
        BY <4>2, <4>3, LineCut
    <3>2. CASE ~(b > 2 /\ f[b - 1] = Cfg!Blank)
      <4>1. g = f
        BY <2>3, <3>2, Zenon
      <4> QED
        BY <4>1 DEF Keeps
    <3> QED
      BY <3>1, <3>2
  <2>6. g \in Seq(Cfg!Lines) /\ InOrder(g)
    BY <2>5 DEF Keeps
  <2>7. PICK h : h = Cfg!StripBlock(g, Cfg!OldBegin, Cfg!OldEnd)
    OBVIOUS
  <2>8. Keeps(h, g) /\ ~Has(h, Cfg!OldBegin)
    BY <1>1, <2>6, <2>7, StripBlockKeeps
  <2>9. Keeps(h, f)
    BY <2>5, <2>8, KeepsOn
  <2> QED
    BY <2>4, <2>7, <2>8, <2>9
<1> QED
  BY <1>2, <1>3

\* What sync_override_cfg leaves of the file: no block.
LEMMA NoBlockIsLeft ==
  ASSUME NEW f \in Seq(Cfg!Lines), InOrder(f),
         NEW g, g = Cfg!WithoutLegacy(Cfg!StripBlock(f, Cfg!Begin, Cfg!End))
  PROVE  Keeps(g, f) /\ ~Has(g, Cfg!Begin) /\ ~Has(g, Cfg!OldBegin)
<1>1. PICK e : e = Cfg!StripBlock(f, Cfg!Begin, Cfg!End)
  OBVIOUS
<1>2. Kind(Cfg!Begin, Cfg!End)
  BY DEF Kind
<1>3. Keeps(e, f) /\ ~Has(e, Cfg!Begin)
  BY <1>1, <1>2, StripBlockKeeps
<1>4. e \in Seq(Cfg!Lines) /\ InOrder(e)
  BY <1>3 DEF Keeps
<1>5. Keeps(g, e) /\ ~Has(g, Cfg!OldBegin)
  BY <1>1, <1>4, WithoutLegacyKeeps
<1>6. Keeps(g, f)
  BY <1>3, <1>5, KeepsOn
<1>7. ~Has(g, Cfg!Begin)
  BY <1>3, <1>5, Zenon DEF Keeps
<1> QED
  BY <1>5, <1>6, <1>7

----------------------------------------------------------------------------
(* The block of config.txt.                                                *)

Once(f, line) == \E i \in 1..Len(f) : \A j \in 1..Len(f) : f[j] = line <=> j = i

\* The lines that set physics are those that are asked for.
AsWanted(f) ==
  \A s \in DOMAIN Cfg!Physics :
    IF s \in want THEN Once(f, Cfg!Physics[s]) ELSE ~Has(f, Cfg!Physics[s])

LEMMA Settings ==
  /\ DOMAIN Cfg!Physics = {"thread", "interpolation"}
  /\ Cfg!Physics["thread"] = "thread_model"
  /\ Cfg!Physics["interpolation"] = "interpolation"
  /\ Cfg!PhysicsLines = {"thread_model", "interpolation"}
  BY DEF Cfg!Physics, Cfg!PhysicsLines

\* One line more.
Longer(g, f, n, x) ==
  /\ g \in Seq(Cfg!Lines) /\ Len(g) = n + 1
  /\ g[n + 1] = x /\ \A i \in 1..n : g[i] = f[i]

LEMMA LineAdded ==
  ASSUME NEW f \in Seq(Cfg!Lines), NEW x \in Cfg!Lines, NEW g, g = f \o <<x>>,
         NEW n, n = Len(f)
  PROVE  Longer(g, f, n, x)
<1>1. g = Append(f, x)
  BY AppendIsConcat
<1> QED
  BY <1>1, AppendProperties DEF Longer

LEMMA KnownLines ==
  {"begin", "blank", "[physics]", "thread_model", "interpolation", "end"} \subseteq Cfg!Lines
<1>1. "thread_model" \in Cfg!Known /\ "interpolation" \in Cfg!Known
  BY Settings DEF Cfg!Known
<1>2. {"begin", "blank", "[physics]", "end"} \subseteq Cfg!Known
  BY DEF Cfg!Known, Cfg!Begin, Cfg!End, Cfg!Blank
<1> QED
  BY <1>1, <1>2 DEF Cfg!Lines

\* A block is one of these.
BlockText(f, one) ==
  /\ f \in Seq(Cfg!Lines) /\ Len(f) \in {6, 7}
  /\ f[1] = "begin" /\ f[2] = "blank" /\ f[3] = "[physics]" /\ f[4] = "blank"
  /\ IF Len(f) = 6 THEN f[5] = one /\ f[6] = "end"
     ELSE f[5] = "thread_model" /\ f[6] = "interpolation" /\ f[7] = "end"

LEMMA BlockTextIs ==
  ASSUME NEW f, NEW one \in {"thread_model", "interpolation"}, BlockText(f, one)
  PROVE  /\ f \in Seq(Cfg!Lines)
         /\ Len(f) \in {6, 7}
         /\ f[1] = Cfg!Begin
         /\ f[Len(f)] = Cfg!End
         /\ \A j \in 1..Len(f) : /\ f[j] \in OwnWords(Cfg!Begin, Cfg!End)
                                 /\ j # 1 => f[j] # Cfg!Begin
                                 /\ j # Len(f) => f[j] # Cfg!End
         /\ Len(f) = 6 => \A j \in 1..Len(f) : f[j] \in Cfg!PhysicsLines => j = 5 /\ f[j] = one
         /\ Len(f) = 7 => \A j \in 1..Len(f) : f[j] \in Cfg!PhysicsLines =>
                            \/ j = 5 /\ f[j] = "thread_model"
                            \/ j = 6 /\ f[j] = "interpolation"
<1>1. /\ f \in Seq(Cfg!Lines) /\ Len(f) \in {6, 7}
      /\ f[1] = "begin" /\ f[2] = "blank" /\ f[3] = "[physics]" /\ f[4] = "blank"
      /\ Len(f) = 6 => f[5] = one /\ f[6] = "end"
      /\ Len(f) = 7 => f[5] = "thread_model" /\ f[6] = "interpolation" /\ f[7] = "end"
  BY DEF BlockText
<1>2. PICK w : w = {"begin", "blank", "[physics]", "thread_model", "interpolation", "end"}
  OBVIOUS
<1>3. w = OwnWords(Cfg!Begin, Cfg!End)
  BY <1>2, Settings DEF OwnWords, Cfg!Begin, Cfg!End, Cfg!Blank
<1>4. CASE Len(f) = 6
  <2>1. \A j \in 1..6 : j = 1 \/ j = 2 \/ j = 3 \/ j = 4 \/ j = 5 \/ j = 6
    OBVIOUS
  <2>2. \A j \in 1..6 : /\ f[j] \in w
                        /\ j # 1 => f[j] # "begin"
                        /\ j # 6 => f[j] # "end"
                        /\ f[j] \in {"thread_model", "interpolation"} => j = 5 /\ f[j] = one
    BY <1>1, <1>2, <1>4, <2>1
  <2> QED
    BY <1>1, <1>3, <1>4, <2>2, Settings DEF Cfg!Begin, Cfg!End
<1>5. CASE Len(f) = 7
  <2>1. \A j \in 1..7 : j = 1 \/ j = 2 \/ j = 3 \/ j = 4 \/ j = 5 \/ j = 6 \/ j = 7
    OBVIOUS
  <2>2. \A j \in 1..7 : /\ f[j] \in w
                        /\ j # 1 => f[j] # "begin"
                        /\ j # 7 => f[j] # "end"
                        /\ f[j] \in {"thread_model", "interpolation"} =>
                             \/ j = 5 /\ f[j] = "thread_model"
                             \/ j = 6 /\ f[j] = "interpolation"
    BY <1>1, <1>2, <1>5, <2>1
  <2> QED
    BY <1>1, <1>3, <1>5, <2>2, Settings DEF Cfg!Begin, Cfg!End
<1> QED
  BY <1>1, <1>4, <1>5

LEMMA BlockIs ==
  ASSUME want \subseteq DOMAIN Cfg!Physics, want # {}
  PROVE  \E one \in {"thread_model", "interpolation"} :
           /\ BlockText(Cfg!Block, one)
           /\ Len(Cfg!Block) = 6 => want = IF one = "thread_model" THEN {"thread"}
                                           ELSE {"interpolation"}
           /\ Len(Cfg!Block) = 7 => want = {"thread", "interpolation"}
<1>1. \/ want = {"thread"}
      \/ want = {"interpolation"}
      \/ want = {"thread", "interpolation"}
  BY Settings
<1>2. PICK top : top = <<"begin", "blank", "[physics]", "blank">>
  OBVIOUS
<1>3. /\ top \in Seq(Cfg!Lines) /\ Len(top) = 4
      /\ top[1] = "begin" /\ top[2] = "blank" /\ top[3] = "[physics]" /\ top[4] = "blank"
  <2>1. "begin" \in Cfg!Lines /\ "blank" \in Cfg!Lines /\ "[physics]" \in Cfg!Lines
    BY KnownLines
  <2> QED
    BY <1>2, <2>1
<1>4. PICK u, v, l : /\ u = top \o (IF "thread" \in want THEN <<"thread_model">> ELSE <<>>)
                     /\ v = u \o (IF "interpolation" \in want THEN <<"interpolation">> ELSE <<>>)
                     /\ l = v \o <<"end">>
  OBVIOUS
<1>5. Cfg!Block = l
  <2>1. want # {}
    OBVIOUS
  <2>2. Cfg!Physics.thread = "thread_model" /\ Cfg!Physics.interpolation = "interpolation"
    BY DEF Cfg!Physics
  <2> QED
    BY <1>2, <1>4, <2>1, <2>2, Zenon DEF Cfg!Block, Cfg!Begin, Cfg!End, Cfg!Blank
<1>6. "thread_model" \in Cfg!Lines /\ "interpolation" \in Cfg!Lines /\ "end" \in Cfg!Lines
  BY KnownLines
<1>7. CASE want = {"thread"}
  <2>1. u = top \o <<"thread_model">> /\ v = u \o <<>>
    BY <1>4, <1>7
  <2>2. u \in Seq(Cfg!Lines) /\ Len(u) = 5 /\ u[5] = "thread_model" /\ \A i \in 1..4 : u[i] = top[i]
    <3>1. top \in Seq(Cfg!Lines) /\ 4 = Len(top) /\ u = top \o <<"thread_model">> /\ "thread_model" \in Cfg!Lines
      BY <1>3, <1>6, <2>1, Zenon
    <3>2. Longer(u, top, 4, "thread_model")
      BY <3>1, LineAdded, Zenon
    <3> QED
      BY <3>2 DEF Longer
  <2>3. v = u
    BY <2>1, <2>2, ConcatEmptySeq
  <2>4. l \in Seq(Cfg!Lines) /\ Len(l) = 6 /\ l[6] = "end" /\ \A i \in 1..5 : l[i] = u[i]
    <3>1. u \in Seq(Cfg!Lines) /\ 5 = Len(u) /\ l = u \o <<"end">> /\ "end" \in Cfg!Lines
      BY <1>4, <1>6, <2>2, <2>3, Zenon
    <3>2. Longer(l, u, 5, "end")
      BY <3>1, LineAdded, Zenon
    <3> QED
      BY <3>2 DEF Longer
  <2>5. BlockText(l, "thread_model")
    BY <1>3, <2>2, <2>4 DEF BlockText
  <2> QED
    BY <1>5, <1>7, <2>4, <2>5
<1>8. CASE want = {"interpolation"}
  <2>1. u = top \o <<>> /\ v = u \o <<"interpolation">>
    BY <1>4, <1>8
  <2>2. u = top
    BY <1>3, <2>1, ConcatEmptySeq
  <2>3. v \in Seq(Cfg!Lines) /\ Len(v) = 5 /\ v[5] = "interpolation" /\ \A i \in 1..4 : v[i] = top[i]
    <3>1. top \in Seq(Cfg!Lines) /\ 4 = Len(top) /\ v = top \o <<"interpolation">> /\ "interpolation" \in Cfg!Lines
      BY <1>3, <1>6, <2>1, <2>2, Zenon
    <3>2. Longer(v, top, 4, "interpolation")
      BY <3>1, LineAdded, Zenon
    <3> QED
      BY <3>2 DEF Longer
  <2>4. l \in Seq(Cfg!Lines) /\ Len(l) = 6 /\ l[6] = "end" /\ \A i \in 1..5 : l[i] = v[i]
    <3>1. v \in Seq(Cfg!Lines) /\ 5 = Len(v) /\ l = v \o <<"end">> /\ "end" \in Cfg!Lines
      BY <1>4, <1>6, <2>3, Zenon
    <3>2. Longer(l, v, 5, "end")
      BY <3>1, LineAdded, Zenon
    <3> QED
      BY <3>2 DEF Longer
  <2>5. BlockText(l, "interpolation")
    BY <1>3, <2>3, <2>4 DEF BlockText
  <2> QED
    BY <1>5, <1>8, <2>4, <2>5
<1>9. CASE want = {"thread", "interpolation"}
  <2>1. u = top \o <<"thread_model">> /\ v = u \o <<"interpolation">>
    BY <1>4, <1>9
  <2>2. u \in Seq(Cfg!Lines) /\ Len(u) = 5 /\ u[5] = "thread_model" /\ \A i \in 1..4 : u[i] = top[i]
    <3>1. top \in Seq(Cfg!Lines) /\ 4 = Len(top) /\ u = top \o <<"thread_model">> /\ "thread_model" \in Cfg!Lines
      BY <1>3, <1>6, <2>1, Zenon
    <3>2. Longer(u, top, 4, "thread_model")
      BY <3>1, LineAdded, Zenon
    <3> QED
      BY <3>2 DEF Longer
  <2>3. v \in Seq(Cfg!Lines) /\ Len(v) = 6 /\ v[6] = "interpolation" /\ \A i \in 1..5 : v[i] = u[i]
    <3>1. u \in Seq(Cfg!Lines) /\ 5 = Len(u) /\ v = u \o <<"interpolation">> /\ "interpolation" \in Cfg!Lines
      BY <1>6, <2>1, <2>2, Zenon
    <3>2. Longer(v, u, 5, "interpolation")
      BY <3>1, LineAdded, Zenon
    <3> QED
      BY <3>2 DEF Longer
  <2>4. l \in Seq(Cfg!Lines) /\ Len(l) = 7 /\ l[7] = "end" /\ \A i \in 1..6 : l[i] = v[i]
    <3>1. v \in Seq(Cfg!Lines) /\ 6 = Len(v) /\ l = v \o <<"end">> /\ "end" \in Cfg!Lines
      BY <1>4, <1>6, <2>3, Zenon
    <3>2. Longer(l, v, 6, "end")
      BY <3>1, LineAdded, Zenon
    <3> QED
      BY <3>2 DEF Longer
  <2>5. BlockText(l, "thread_model")
    BY <1>3, <2>2, <2>3, <2>4 DEF BlockText
  <2> QED
    BY <1>5, <1>9, <2>4, <2>5
<1> QED
  BY <1>1, <1>7, <1>8, <1>9

\* The physics lines of a file that are the lines of the block, one for one.
LEMMA BlockSays ==
  ASSUME want \subseteq DOMAIN Cfg!Physics, want # {}, NEW f, NEW p \in Nat,
         Len(f) \in Nat, p + Len(Cfg!Block) - 1 \in 1..Len(f), p # 0,
         \A j \in 1..Len(Cfg!Block) : f[p + j - 1] = Cfg!Block[j],
         \A i \in 1..Len(f) : f[i] \in Cfg!PhysicsLines => i \in p..(p + Len(Cfg!Block) - 1)
  PROVE  AsWanted(f)
<1>1. PICK one \in {"thread_model", "interpolation"} :
         /\ BlockText(Cfg!Block, one)
         /\ Len(Cfg!Block) = 6 => want = IF one = "thread_model" THEN {"thread"}
                                         ELSE {"interpolation"}
         /\ Len(Cfg!Block) = 7 => want = {"thread", "interpolation"}
  BY BlockIs
<1>2. PICK l : l = Cfg!Block
  OBVIOUS
<1>3. /\ Len(l) \in {6, 7}
      /\ Len(l) = 6 => \A j \in 1..Len(l) : l[j] \in Cfg!PhysicsLines => j = 5 /\ l[j] = one
      /\ Len(l) = 7 => \A j \in 1..Len(l) : l[j] \in Cfg!PhysicsLines =>
                         \/ j = 5 /\ l[j] = "thread_model"
                         \/ j = 6 /\ l[j] = "interpolation"
  BY <1>1, <1>2, BlockTextIs, Zenon
<1>4. \A i \in 1..Len(f) : f[i] \in Cfg!PhysicsLines =>
        \E j \in 1..Len(l) : i = p + j - 1 /\ f[i] = l[j]
  <2> SUFFICES ASSUME NEW i \in 1..Len(f), f[i] \in Cfg!PhysicsLines
               PROVE  \E j \in 1..Len(l) : i = p + j - 1 /\ f[i] = l[j]
    OBVIOUS
  <2>1. PICK j : j = i - p + 1
    OBVIOUS
  <2>2. i \in p..(p + Len(l) - 1)
    BY <1>2
  <2>3. j \in 1..Len(l) /\ i = p + j - 1
    BY <1>3, <2>1, <2>2
  <2>4. f[i] = l[j]
    BY <1>2, <2>3
  <2> QED
    BY <2>3, <2>4
<1>5. \A j \in 1..Len(l) : f[p + j - 1] = l[j] /\ p + j - 1 \in 1..Len(f)
  <2>1. \A j \in 1..Len(l) : f[p + j - 1] = l[j]
    BY <1>2
  <2>2. \A j \in 1..Len(l) : p + j - 1 \in 1..Len(f)
    BY <1>2, <1>3
  <2> QED
    BY <2>1, <2>2
<1>6. CASE Len(l) = 6
  <2>1. \A i \in 1..Len(f) : f[i] \in Cfg!PhysicsLines => i = p + 5 - 1 /\ f[i] = one
    <3> SUFFICES ASSUME NEW i \in 1..Len(f), f[i] \in Cfg!PhysicsLines
                 PROVE  i = p + 5 - 1 /\ f[i] = one
      BY Zenon
    <3>1. PICK j \in 1..Len(l) : i = p + j - 1 /\ f[i] = l[j]
      BY <1>4, Zenon
    <3>2. j = 5 /\ l[j] = one
      BY <1>3, <1>6, <3>1, Zenon
    <3> QED
      BY <3>1, <3>2, Zenon
  <2>2. p + 5 - 1 \in 1..Len(f) /\ f[p + 5 - 1] = one
    <3>1. 5 \in 1..Len(l) /\ l[5] = one
      BY <1>1, <1>2, <1>6 DEF BlockText
    <3> QED
      BY <1>5, <3>1
  <2>3. Once(f, one)
    BY <2>1, <2>2, Settings DEF Once
  <2>4. \A x \in Cfg!PhysicsLines : x # one => ~Has(f, x)
    BY <2>1 DEF Has
  <2>5. CASE one = "thread_model"
    <3>1. want = {"thread"}
      BY <1>1, <1>2, <1>6, <2>5
    <3>2. ~Has(f, "interpolation")
      BY <2>4, <2>5, Settings
    <3> QED
      BY <2>3, <2>5, <3>1, <3>2, Settings DEF AsWanted
  <2>6. CASE one = "interpolation"
    <3>1. want = {"interpolation"}
      BY <1>1, <1>2, <1>6, <2>6
    <3>2. ~Has(f, "thread_model")
      BY <2>4, <2>6, Settings
    <3> QED
      BY <2>3, <2>6, <3>1, <3>2, Settings DEF AsWanted
  <2> QED
    BY <2>5, <2>6
<1>7. CASE Len(l) = 7
  <2>1. \A i \in 1..Len(f) : f[i] \in Cfg!PhysicsLines =>
          \/ i = p + 5 - 1 /\ f[i] = "thread_model"
          \/ i = p + 6 - 1 /\ f[i] = "interpolation"
    <3> SUFFICES ASSUME NEW i \in 1..Len(f), f[i] \in Cfg!PhysicsLines
                 PROVE  \/ i = p + 5 - 1 /\ f[i] = "thread_model"
                        \/ i = p + 6 - 1 /\ f[i] = "interpolation"
      BY Zenon
    <3>1. PICK j \in 1..Len(l) : i = p + j - 1 /\ f[i] = l[j]
      BY <1>4, Zenon
    <3>2. \/ j = 5 /\ l[j] = "thread_model"
          \/ j = 6 /\ l[j] = "interpolation"
      BY <1>3, <1>7, <3>1, Zenon
    <3> QED
      BY <3>1, <3>2, Zenon
  <2>2. /\ p + 5 - 1 \in 1..Len(f) /\ f[p + 5 - 1] = "thread_model"
        /\ p + 6 - 1 \in 1..Len(f) /\ f[p + 6 - 1] = "interpolation"
    <3>1. /\ 5 \in 1..Len(l) /\ l[5] = "thread_model"
          /\ 6 \in 1..Len(l) /\ l[6] = "interpolation"
      BY <1>1, <1>2, <1>7 DEF BlockText
    <3> QED
      BY <1>5, <3>1
  <2>3. Once(f, "thread_model") /\ Once(f, "interpolation")
    <3>1. "thread_model" \in Cfg!PhysicsLines /\ "interpolation" \in Cfg!PhysicsLines
      BY Settings
    <3>2. \A i \in 1..Len(f) : f[i] = "thread_model" <=> i = p + 5 - 1
      BY <2>1, <2>2, <3>1, Zenon
    <3>3. \A i \in 1..Len(f) : f[i] = "interpolation" <=> i = p + 6 - 1
      BY <2>1, <2>2, <3>1, Zenon
    <3> QED
      BY <2>2, <3>2, <3>3, Zenon DEF Once
  <2>4. want = {"thread", "interpolation"}
    BY <1>1, <1>2, <1>7
  <2> QED
    BY <2>3, <2>4, Settings DEF AsWanted
<1> QED
  BY <1>3, <1>6, <1>7

----------------------------------------------------------------------------
(* What the two functions write.                                           *)

\* Without a line that opens a block there is no block, and so no physics.
LEMMA NoBlocks ==
  ASSUME NEW f, NEW i \in 1..Len(f), ~Has(f, Cfg!OldBegin)
  PROVE  /\ ~Legacy(f, i)
         /\ ~Has(f, Cfg!Begin) => ~Managed(f, i)
<1>1. \A b \in 1..i : b \in 1..Len(f)
  OBVIOUS
<1> QED
  BY <1>1, Zenon DEF Has, Legacy, Managed, Cfg!Inside

LEMMA NoPhysics ==
  ASSUME NEW f, InOrder(f), ~Has(f, Cfg!OldBegin), ~Has(f, Cfg!Begin)
  PROVE  \A i \in 1..Len(f) : f[i] \notin Cfg!PhysicsLines
  BY NoBlocks, Zenon DEF InOrder, LineIn

LEMMA SyncedIs ==
  ASSUME NEW f \in Seq(Cfg!Lines), InOrder(f), want \subseteq DOMAIN Cfg!Physics,
         NEW h, h = Cfg!Synced(f)
  PROVE  /\ h \in Seq(Cfg!Lines) /\ InOrder(h)
         /\ Cfg!PlayersOwn(h) = Cfg!PlayersOwn(f)
         /\ Has(f, Cfg!Helper) => Has(h, Cfg!Helper)
         /\ AsWanted(h) /\ ~Has(h, Cfg!OldBegin)
<1>1. PICK g : g = Cfg!WithoutLegacy(Cfg!StripBlock(f, Cfg!Begin, Cfg!End))
  OBVIOUS
<1>2. Keeps(g, f) /\ ~Has(g, Cfg!Begin) /\ ~Has(g, Cfg!OldBegin)
  BY <1>1, NoBlockIsLeft
<1>3. g \in Seq(Cfg!Lines) /\ InOrder(g)
  BY <1>2 DEF Keeps
<1>4. PICK l : l = Cfg!Block
  OBVIOUS
<1>5. h = g \o l
  BY <1>1, <1>4, Zenon DEF Cfg!Synced
<1>6. \A i \in 1..Len(g) : g[i] \notin Cfg!PhysicsLines
  BY <1>2, <1>3, NoPhysics
<1>7. CASE want = {}
  <2>1. l = <<>>
    BY <1>4, <1>7 DEF Cfg!Block
  <2>2. h = g
    BY <1>3, <1>5, <2>1, ConcatEmptySeq
  <2>3. AsWanted(h)
    <3>1. \A s \in DOMAIN Cfg!Physics : Cfg!Physics[s] \in Cfg!PhysicsLines
      BY Settings
    <3> QED
      BY <1>6, <1>7, <2>2, <3>1, Zenon DEF AsWanted, Has
  <2> QED
    BY <1>2, <1>3, <2>2, <2>3, Zenon DEF Keeps
<1>8. CASE want # {}
  <2>1. PICK one \in {"thread_model", "interpolation"} : BlockText(l, one)
    BY <1>4, <1>8, BlockIs
  <2>2. /\ l \in Seq(Cfg!Lines)
        /\ Len(l) \in {6, 7}
        /\ l[1] = Cfg!Begin
        /\ \A j \in 1..Len(l) : l[j] \in OwnWords(Cfg!Begin, Cfg!End)
        /\ \A j \in 1..Len(l) : j # Len(l) => l[j] # Cfg!End
    BY <2>1, BlockTextIs, Zenon
  <2>3. PICK n : n = Len(g)
    OBVIOUS
  <2>4. n \in Nat /\ Len(l) \in Nat /\ Len(l) > 0
    BY <1>3, <2>2, <2>3
  <2>5. /\ h \in Seq(Cfg!Lines) /\ Len(h) = n + Len(l)
        /\ \A i \in 1..(n + Len(l)) : h[i] = IF i <= n THEN g[i] ELSE l[i - n]
    BY <1>3, <1>5, <2>2, <2>3, ConcatProperties
  <2>6. \A i \in 1..n : h[i] = g[i] /\ i \in 1..Len(h) /\ i \in 1..Len(g)
    BY <2>3, <2>4, <2>5
  <2>7. \A j \in 1..Len(l) : h[n + j] = l[j] /\ n + j \in 1..Len(h)
    <3> SUFFICES ASSUME NEW j \in 1..Len(l) PROVE h[n + j] = l[j] /\ n + j \in 1..Len(h)
      OBVIOUS
    <3>1. n + j \in 1..(n + Len(l)) /\ ~(n + j <= n) /\ (n + j) - n = j
      BY <2>4
    <3> QED
      BY <2>5, <3>1
  <2>8. \A i \in 1..Len(h) : i \in 1..n \/ \E j \in 1..Len(l) : i = n + j
    <3> SUFFICES ASSUME NEW i \in 1..Len(h), i \notin 1..n
                 PROVE  \E j \in 1..Len(l) : i = n + j
      OBVIOUS
    <3>1. i - n \in 1..Len(l) /\ i = n + (i - n)
      BY <2>4, <2>5
    <3> QED
      BY <3>1
  <2>9. \A j \in 1..Len(l) : h[n + j] \notin UserLines /\ h[n + j] \notin Helpers
                             /\ h[n + j] # Cfg!OldBegin
    BY <2>2, <2>7, WordsApart, Zenon
  <2>10. ~Has(h, Cfg!OldBegin)
    BY <1>2, <2>3, <2>6, <2>8, <2>9, Zenon DEF Has
  <2>11. \A i \in 1..n : /\ ~Managed(h, i)
                         /\ h[i] \notin Cfg!PhysicsLines
    <3> SUFFICES ASSUME NEW i \in 1..n PROVE ~Managed(h, i) /\ h[i] \notin Cfg!PhysicsLines
      OBVIOUS
    <3>1. \A b \in 1..i : b \in 1..n
      BY <2>4
    <3>2. ~Managed(h, i)
      BY <1>2, <2>6, <3>1, Zenon DEF Managed, Cfg!Inside, Has
    <3> QED
      BY <1>6, <2>6, <3>2, Zenon
  <2>12. \A j \in 1..Len(l) : Managed(h, n + j)
    <3> SUFFICES ASSUME NEW j \in 1..Len(l) PROVE Managed(h, n + j)
      OBVIOUS
    <3>1. n + 1 \in 1..(n + j) /\ 1 \in 1..Len(l)
      BY <2>4
    <3>2. h[n + 1] = Cfg!Begin
      BY <2>2, <2>7, <3>1, Zenon
    <3>3. ASSUME NEW k \in (n + 1)..((n + j) - 1) PROVE h[k] # Cfg!End
      <4>1. PICK m : m = k - n
        OBVIOUS
      <4>2. m \in 1..Len(l) /\ m # Len(l) /\ n + m = k
        BY <2>4, <4>1
      <4> QED
        BY <2>2, <2>7, <4>2, Zenon
    <3> QED
      BY <3>1, <3>2, <3>3, Zenon DEF Managed, Cfg!Inside
  <2>13. \A i \in 1..Len(h) : LineIn(h, i)
    <3> SUFFICES ASSUME NEW i \in 1..Len(h) PROVE LineIn(h, i)
      OBVIOUS
    <3>1. ~Legacy(h, i)
      BY <2>10, NoBlocks
    <3>2. CASE i \in 1..n
      BY <2>11, <3>1, <3>2, Zenon DEF LineIn
    <3>3. CASE i \notin 1..n
      <4>1. PICK j \in 1..Len(l) : i = n + j
        BY <2>8, <3>3
      <4>2. h[i] \in OwnWords(Cfg!Begin, Cfg!End) /\ Managed(h, i)
        BY <2>2, <2>7, <2>12, <4>1, Zenon
      <4> QED
        BY <3>1, <4>2, Zenon DEF LineIn
    <3> QED
      BY <3>2, <3>3
  <2>14. \A i, j \in 1..Len(h) : h[i] \in Helpers /\ h[j] \in Helpers => i = j
    <3>1. \A i \in 1..Len(h) : h[i] \in Helpers => i \in 1..n
      BY <2>8, <2>9, Zenon
    <3> QED
      BY <1>3, <2>6, <3>1, Zenon DEF InOrder
  <2>15. InOrder(h)
    BY <2>13, <2>14, Zenon DEF InOrder
  <2>16. Cfg!PlayersOwn(h) = Cfg!PlayersOwn(f)
    <3>1. PICK u : u = Cfg!Among(g, UserLines)
      OBVIOUS
    <3>2. u \in Seq(Cfg!Lines)
      BY <1>3, <3>1, AmongType
    <3>3. \A j \in 1..Len(l) : l[j] \notin UserLines
      BY <2>7, <2>9, Zenon
    <3>4. Cfg!Among(l, UserLines) = <<>>
      BY <2>2, <3>3, AmongNone
    <3>5. Cfg!Among(g \o l, UserLines) = Cfg!Among(g, UserLines) \o Cfg!Among(l, UserLines)
      <4>1. g \in Seq(Cfg!Lines) /\ l \in Seq(Cfg!Lines)
        BY <1>3, <2>2, Zenon
      <4> QED
        BY <4>1, AmongConcat
    <3>6. u \o <<>> = u
      BY <3>2, ConcatEmptySeq
    <3>7. Cfg!PlayersOwn(h) = Cfg!PlayersOwn(g)
      BY <1>5, <3>1, <3>4, <3>5, <3>6, Zenon DEF Cfg!PlayersOwn
    <3> QED
      BY <1>2, <3>7, Zenon DEF Keeps
  <2>17. Has(f, Cfg!Helper) => Has(h, Cfg!Helper)
    BY <1>2, <2>3, <2>6, Zenon DEF Keeps, Has
  <2>18. AsWanted(h)
    <3>1. PICK p : p = n + 1
      OBVIOUS
    <3>2. p \in Nat /\ p # 0 /\ Len(h) \in Nat /\ p + Len(l) - 1 \in 1..Len(h)
      BY <2>4, <2>5, <3>1
    <3>3. \A j \in 1..Len(l) : h[p + j - 1] = l[j]
      <4>1. \A j \in 1..Len(l) : p + j - 1 = n + j
        BY <2>4, <3>1
      <4> QED
        BY <2>7, <4>1, Zenon
    <3>4. \A i \in 1..Len(h) : h[i] \in Cfg!PhysicsLines => i \in p..(p + Len(l) - 1)
      <4>1. \A j \in 1..Len(l) : n + j \in p..(p + Len(l) - 1)
        BY <2>4, <3>1
      <4> QED
        BY <2>8, <2>11, <4>1, Zenon
    <3> QED
      BY <1>4, <1>8, <3>2, <3>3, <3>4, BlockSays
  <2> QED
    BY <2>5, <2>10, <2>15, <2>16, <2>17, <2>18
<1> QED
  BY <1>7, <1>8

LEMMA MatchesIs ==
  ASSUME NEW f \in Seq(Cfg!Lines), InOrder(f), want \subseteq DOMAIN Cfg!Physics,
         Cfg!Matches(f)
  PROVE  AsWanted(f) /\ ~Has(f, Cfg!OldBegin)
<1>1. ~Has(f, Cfg!OldBegin)
  BY Zenon DEF Cfg!Matches, Cfg!Contains, Has
<1>2. CASE want = {}
  <2>1. ~Has(f, Cfg!Begin)
    BY <1>2, Zenon DEF Cfg!Matches, Cfg!Contains, Has
  <2>2. \A i \in 1..Len(f) : f[i] \notin Cfg!PhysicsLines
    BY <1>1, <2>1, NoPhysics
  <2>3. \A s \in DOMAIN Cfg!Physics : Cfg!Physics[s] \in Cfg!PhysicsLines
    BY Settings
  <2> QED
    BY <1>1, <1>2, <2>2, <2>3, Zenon DEF AsWanted, Has
<1>3. CASE want # {}
  <2>1. Has(f, Cfg!Begin)
    BY <1>3, Zenon DEF Cfg!Matches, Cfg!Contains, Has
  <2>2. Len(f) \in Nat /\ DOMAIN f = 1..Len(f) /\ \A i \in 1..Len(f) : f[i] \in Cfg!Lines
    OBVIOUS
  <2>3. PICK p : p = Cfg!Position(f, Cfg!Begin)
    OBVIOUS
  <2>4. p \in 1..Len(f) /\ f[p] = Cfg!Begin /\ \A j \in 1..(p - 1) : f[j] # Cfg!Begin
    BY <2>1, <2>2, <2>3, PositionIs
  <2>5. PICK b : b = SubSeq(f, p, Len(f))
    OBVIOUS
  <2>6. PICK l : l = Cfg!Block
    OBVIOUS
  <2>7. /\ Len(l) <= Len(b) /\ SubSeq(l, 1, Len(l)) = SubSeq(b, 1, Len(l))
        /\ ~(\E i \in 1..Len(Tail(b)) : Tail(b)[i] = Cfg!Begin)
    BY <1>3, <2>3, <2>5, <2>6, Zenon
       DEF Cfg!Matches, Cfg!Contains, Cfg!IsPrefix, Cfg!From
  <2>8. /\ b \in Seq(Cfg!Lines) /\ Len(b) = Len(f) - p + 1
        /\ \A i \in 1..(Len(f) - p + 1) : b[i] = f[p + i - 1]
    <3>1. p \in Int /\ Len(f) \in Int /\ p <= Len(f)
      BY <2>2, <2>4
    <3>2. \A i \in p..Len(f) : f[i] \in Cfg!Lines
      BY <2>2, <2>4
    <3>3. /\ b \in Seq(Cfg!Lines)
          /\ Len(b) = IF p <= Len(f) THEN Len(f) - p + 1 ELSE 0
          /\ \A i \in 1..(Len(f) - p + 1) : b[i] = f[p + i - 1]
      BY <2>5, <3>1, <3>2, SubSeqProperties
    <3> QED
      BY <3>1, <3>3
  <2>9. PICK one \in {"thread_model", "interpolation"} : BlockText(l, one)
    BY <1>3, <2>6, BlockIs
  <2>10. /\ l \in Seq(Cfg!Lines) /\ Len(l) \in {6, 7} /\ l[Len(l)] = Cfg!End
    BY <2>9, BlockTextIs, Zenon
  <2>11. Len(l) \in Nat /\ Len(l) > 0
    <3>1. PICK n : n = Len(l)
      OBVIOUS
    <3>2. n \in {6, 7}
      BY <2>10, <3>1, Zenon
    <3>3. n \in Nat /\ n > 0
      BY <3>2
    <3> QED
      BY <3>1, <3>3, Zenon
  <2>12. \A j \in 1..Len(l) : b[j] = l[j]
    <3>1. SubSeq(l, 1, Len(l)) = l
      BY <2>10, SubSeqFull
    <3>2. 1 \in Int /\ Len(l) \in Int /\ Len(l) - 1 + 1 = Len(l)
      BY <2>11
    <3>3. \A j \in 1..Len(l) : b[j] \in Cfg!Lines /\ 1 + j - 1 = j
      BY <2>7, <2>8, <2>11
    <3>4. \A j \in 1..(Len(l) - 1 + 1) : SubSeq(b, 1, Len(l))[j] = b[1 + j - 1]
      BY <3>2, <3>3, SubSeqProperties
    <3> QED
      BY <2>7, <3>1, <3>2, <3>3, <3>4, Zenon
  <2>13. \A j \in 1..Len(l) : f[p + j - 1] = l[j]
    <3>1. \A j \in 1..Len(l) : j \in 1..(Len(f) - p + 1)
      BY <2>7, <2>8, <2>11
    <3> QED
      BY <2>8, <2>12, <3>1, Zenon
  <2>14. \A j \in (p + 1)..Len(f) : f[j] # Cfg!Begin
    <3> SUFFICES ASSUME NEW j \in (p + 1)..Len(f) PROVE f[j] # Cfg!Begin
      OBVIOUS
    <3>1. b # <<>>
      BY <2>2, <2>4, <2>8
    <3>2. Len(Tail(b)) = Len(b) - 1 /\ \A i \in 1..Len(Tail(b)) : Tail(b)[i] = b[i + 1]
      BY <2>8, <3>1, HeadTailProperties
    <3>3. PICK i : i = j - p
      OBVIOUS
    <3>4. i \in 1..Len(Tail(b)) /\ i + 1 \in 1..(Len(f) - p + 1) /\ p + (i + 1) - 1 = j
      BY <2>2, <2>4, <2>8, <3>2, <3>3
    <3>5. Tail(b)[i] = f[j]
      BY <2>8, <3>2, <3>4
    <3> QED
      BY <2>7, <3>4, <3>5, Zenon
  <2>15. \A i \in 1..Len(f) : f[i] = Cfg!Begin => i = p
    <3>1. \A i \in 1..Len(f) : i \in 1..(p - 1) \/ i = p \/ i \in (p + 1)..Len(f)
      BY <2>2, <2>4
    <3> QED
      BY <2>4, <2>14, <3>1, Zenon
  <2>16. PICK last : last = p + Len(l) - 1
    OBVIOUS
  <2>17. last \in 1..Len(f) /\ last \in p..Len(f) /\ p \in Nat /\ p # 0 /\ last \in Nat
    BY <2>2, <2>4, <2>7, <2>8, <2>11, <2>16
  <2>18. f[last] = Cfg!End
    <3>1. Len(l) \in 1..Len(l)
      BY <2>11
    <3> QED
      BY <2>10, <2>13, <2>16, <3>1, Zenon
  <2>19. ASSUME NEW i \in 1..Len(f), f[i] \in Cfg!PhysicsLines PROVE i \in p..last
    <3>1. Managed(f, i)
      <4>1. ~Legacy(f, i)
        BY <1>1, NoBlocks
      <4> QED
        BY <2>19, <4>1, Zenon DEF InOrder, LineIn
    <3>2. PICK c \in 1..i : f[c] = Cfg!Begin /\ \A j \in c..(i - 1) : f[j] # Cfg!End
      BY <3>1, Zenon DEF Managed, Cfg!Inside
    <3>3. c \in 1..Len(f)
      OBVIOUS
    <3>4. c = p
      BY <2>15, <3>2, <3>3, Zenon
    <3>5. last \notin c..(i - 1)
      BY <2>18, <3>2, Zenon
    <3> QED
      BY <2>17, <3>4, <3>5
  <2>20. AsWanted(f)
    <3>1. /\ p + Len(l) - 1 \in 1..Len(f)
          /\ \A i \in 1..Len(f) : f[i] \in Cfg!PhysicsLines => i \in p..(p + Len(l) - 1)
      BY <2>16, <2>17, <2>19, Zenon
    <3> QED
      BY <1>3, <2>2, <2>6, <2>13, <2>17, <3>1, BlockSays
  <2> QED
    BY <1>1, <2>20
<1> QED
  BY <1>2, <1>3

\* The beginning of a file, which is what a power cut leaves.
LEMMA BeginningIs ==
  ASSUME NEW f \in Seq(Cfg!Lines), InOrder(f), NEW n \in 0..Len(f), NEW g, g = Cfg!UpTo(f, n)
  PROVE  g \in Seq(Cfg!Lines) /\ InOrder(g)
<1>1. n \in Nat /\ Len(f) \in Nat /\ n <= Len(f)
  OBVIOUS
<1>2. g = SubSeq(f, 1, n)
  BY DEF Cfg!UpTo
<1>3. /\ g \in Seq(Cfg!Lines) /\ Len(g) = n
      /\ \A i \in 1..n : g[i] = f[i] /\ i \in 1..Len(f)
  <2>1. 1 \in Int /\ n \in Int /\ n - 1 + 1 = n /\ (IF 1 <= n THEN n - 1 + 1 ELSE 0) = n
    BY <1>1
  <2>2. \A i \in 1..n : f[i] \in Cfg!Lines /\ 1 + i - 1 = i /\ i \in 1..Len(f)
    BY <1>1
  <2>3. /\ g \in Seq(Cfg!Lines) /\ Len(g) = IF 1 <= n THEN n - 1 + 1 ELSE 0
        /\ \A i \in 1..(n - 1 + 1) : g[i] = f[1 + i - 1]
    BY <1>2, <2>1, <2>2, SubSeqProperties
  <2> QED
    BY <2>1, <2>2, <2>3, Zenon
<1>4. \A i \in 1..n : /\ Managed(g, i) <=> Managed(f, i)
                      /\ Legacy(g, i) <=> Legacy(f, i)
  <2> SUFFICES ASSUME NEW i \in 1..n
               PROVE  /\ Managed(g, i) <=> Managed(f, i)
                      /\ Legacy(g, i) <=> Legacy(f, i)
    OBVIOUS
  <2>1. \A b \in 1..i : b \in 1..n /\ \A j \in b..(i - 1) : j \in 1..n
    BY <1>1
  <2> QED
    BY <1>3, <2>1, Zenon DEF Managed, Legacy, Cfg!Inside
<1> QED
  BY <1>3, <1>4, Zenon DEF InOrder, LineIn

LEMMA OneLineOut ==
  ASSUME NEW f \in Seq(Cfg!Lines), NEW p \in 1..Len(f), NEW S, f[p] \notin S
  PROVE  Cfg!Among(Cut(f, p, p), S) = Cfg!Among(f, S)
<1>1. p \in p..Len(f) /\ \A j \in p..p : j = p
  OBVIOUS
<1>2. \A j \in p..p : f[j] \notin S
  BY <1>1, Zenon
<1> QED
  BY <1>1, <1>2, CutAmong

\* A helper's line in place of another's.
LEMMA ReplacedIs ==
  ASSUME NEW f \in Seq(Cfg!Lines), InOrder(f), NEW p \in 1..Len(f), f[p] = Cfg!OldHelper,
         NEW g, g = [f EXCEPT ![p] = Cfg!Helper]
  PROVE  /\ g \in Seq(Cfg!Lines) /\ InOrder(g) /\ Has(g, Cfg!Helper)
         /\ Cfg!PlayersOwn(g) = Cfg!PlayersOwn(f)
<1>1. Cfg!Helper \in Cfg!Known /\ Cfg!OldHelper \in Cfg!Known
  BY DEF Cfg!Known
<1>2. Cfg!Helper \in Cfg!Lines /\ Cfg!Helper \notin UserLines /\ Cfg!OldHelper \notin UserLines
  BY <1>1, CfgAssumption DEF Cfg!Lines
<1>3. /\ g \in Seq(Cfg!Lines) /\ Len(g) = Len(f) /\ g[p] = Cfg!Helper
      /\ \A i \in 1..Len(f) : i # p => g[i] = f[i]
  BY <1>2
<1>4. /\ Cfg!Helper \notin {Cfg!Begin, Cfg!End, Cfg!OldBegin, Cfg!OldEnd}
      /\ Cfg!OldHelper \notin {Cfg!Begin, Cfg!End, Cfg!OldBegin, Cfg!OldEnd}
      /\ Cfg!Helper \notin Cfg!PhysicsLines /\ Cfg!OldHelper \notin OwnWords(Cfg!Begin, Cfg!End)
      /\ Cfg!OldHelper \notin OwnWords(Cfg!OldBegin, Cfg!OldEnd)
      /\ Cfg!Helper \in Helpers /\ Cfg!OldHelper \in Helpers
  BY Settings, Zenon DEF Cfg!Helper, Cfg!OldHelper, Cfg!Begin, Cfg!End, Cfg!OldBegin, Cfg!OldEnd,
                  OwnWords, Helpers, Cfg!Blank
<1>5. \A i \in 1..Len(f) : /\ Managed(g, i) <=> Managed(f, i)
                           /\ Legacy(g, i) <=> Legacy(f, i)
  <2>1. \A i \in 1..Len(f) : /\ g[i] = Cfg!Begin <=> f[i] = Cfg!Begin
                             /\ g[i] = Cfg!End <=> f[i] = Cfg!End
                             /\ g[i] = Cfg!OldBegin <=> f[i] = Cfg!OldBegin
                             /\ g[i] = Cfg!OldEnd <=> f[i] = Cfg!OldEnd
    BY <1>3, <1>4, Zenon
  <2> SUFFICES ASSUME NEW i \in 1..Len(f)
               PROVE  /\ Managed(g, i) <=> Managed(f, i)
                      /\ Legacy(g, i) <=> Legacy(f, i)
    OBVIOUS
  <2>2. \A b \in 1..i : b \in 1..Len(f) /\ \A j \in b..(i - 1) : j \in 1..Len(f)
    OBVIOUS
  <2> QED
    BY <2>1, <2>2, Zenon DEF Managed, Legacy, Cfg!Inside
<1>6. \A i \in 1..Len(g) : LineIn(g, i)
  <2> SUFFICES ASSUME NEW i \in 1..Len(f) PROVE LineIn(g, i)
    BY <1>3
  <2>1. LineIn(f, i)
    BY DEF InOrder
  <2>2. CASE i # p
    BY <1>3, <1>5, <2>1, <2>2, Zenon DEF LineIn
  <2>3. CASE i = p
    <3>1. ~Managed(f, i) /\ ~Legacy(f, i)
      BY <1>4, <2>1, <2>3, Zenon DEF LineIn
    <3> QED
      BY <1>3, <1>4, <1>5, <2>3, <3>1, Zenon DEF LineIn
  <2> QED
    BY <2>2, <2>3
<1>7. \A i, j \in 1..Len(g) : g[i] \in Helpers /\ g[j] \in Helpers => i = j
  <2>1. \A i \in 1..Len(f) : g[i] \in Helpers => f[i] \in Helpers
    BY <1>3, <1>4, Zenon
  <2> QED
    BY <1>3, <2>1, Zenon DEF InOrder
<1>8. InOrder(g) /\ Has(g, Cfg!Helper)
  BY <1>3, <1>6, <1>7, Zenon DEF InOrder, Has
<1>9. Cfg!PlayersOwn(g) = Cfg!PlayersOwn(f)
  <2>1. p \in p..Len(f) /\ p \in p..Len(g) /\ p \in 1..Len(g)
    BY <1>3
  <2>2. Cfg!Among(Cut(f, p, p), UserLines) = Cfg!Among(f, UserLines)
    <3>1. f[p] \notin UserLines
      BY <1>2, Zenon
    <3> QED
      BY <3>1, OneLineOut, ZenonT(30)
  <2>3. Cfg!Among(Cut(g, p, p), UserLines) = Cfg!Among(g, UserLines)
    <3>1. g[p] \notin UserLines /\ g \in Seq(Cfg!Lines) /\ p \in 1..Len(g)
      BY <1>2, <1>3, <2>1, Zenon
    <3> QED
      BY <3>1, OneLineOut, ZenonT(30)
  <2>4. PICK c, d : c = Cut(g, p, p) /\ d = Cut(f, p, p)
    OBVIOUS
  <2>5. IsCut(c, g, p, p) /\ IsCut(d, f, p, p)
    BY <1>3, <2>1, <2>4, CutIs
  <2>6. /\ c \in Seq(Cfg!Lines) /\ d \in Seq(Cfg!Lines) /\ Len(c) = Len(d)
        /\ \A k \in 1..Len(c) : c[k] = g[WasAt(p, p, k)] /\ d[k] = f[WasAt(p, p, k)]
    <3>1. /\ c \in Seq(Cfg!Lines) /\ d \in Seq(Cfg!Lines)
          /\ Len(c) = Len(g) - (p - p + 1) /\ Len(d) = Len(f) - (p - p + 1)
          /\ \A k \in 1..Len(c) : c[k] = g[WasAt(p, p, k)]
          /\ \A k \in 1..Len(d) : d[k] = f[WasAt(p, p, k)]
      BY <2>5, Zenon DEF IsCut
    <3> QED
      BY <1>3, <3>1, Zenon
  <2>7. \A k \in 1..Len(c) : WasAt(p, p, k) \in 1..Len(f) /\ WasAt(p, p, k) # p
    <3>1. \A k \in 1..Len(d) : WasAt(p, p, k) \in 1..Len(f) /\ WasAt(p, p, k) \notin p..p
      BY <2>5, OverFacts
    <3>2. p \in p..p
      OBVIOUS
    <3> QED
      BY <2>6, <3>1, <3>2, Zenon
  <2>8. c = d
    <3>1. \A k \in 1..Len(c) : c[k] = d[k]
      BY <1>3, <2>6, <2>7, Zenon
    <3> QED
      BY <2>6, <3>1, SeqEqual
  <2> QED
    BY <2>2, <2>3, <2>4, <2>8, Zenon DEF Cfg!PlayersOwn
<1> QED
  BY <1>3, <1>8, <1>9

\* The lines that register the helper, before a file that registers none.
LEMMA PrependedIs ==
  ASSUME NEW f \in Seq(Cfg!Lines), InOrder(f), ~Has(f, Cfg!Helper), ~Has(f, Cfg!OldHelper),
         NEW t \in Seq(Cfg!Lines), Has(t, Cfg!Helper),
         \A i \in 1..Len(t) : t[i] \in {"[autoload]", Cfg!Blank, Cfg!Helper},
         \A i, j \in 1..Len(t) : t[i] = Cfg!Helper /\ t[j] = Cfg!Helper => i = j,
         NEW g, g = t \o f
  PROVE  /\ g \in Seq(Cfg!Lines) /\ InOrder(g) /\ Has(g, Cfg!Helper)
         /\ Cfg!PlayersOwn(g) = Cfg!PlayersOwn(f)
<1>1. PICK n : n = Len(t)
  OBVIOUS
<1>2. n \in Nat /\ Len(f) \in Nat /\ n > 0
  BY <1>1 DEF Has
<1>3. /\ g \in Seq(Cfg!Lines) /\ Len(g) = n + Len(f)
      /\ \A i \in 1..(n + Len(f)) : g[i] = IF i <= n THEN t[i] ELSE f[i - n]
  BY <1>1, ConcatProperties
<1>4. \A i \in 1..n : g[i] = t[i] /\ i \in 1..Len(g)
  BY <1>2, <1>3
<1>5. \A k \in 1..Len(f) : WasAt(1, n, k) = n + k /\ g[n + k] = f[k] /\ n + k \in 1..Len(g)
  <2> SUFFICES ASSUME NEW k \in 1..Len(f)
               PROVE  WasAt(1, n, k) = n + k /\ g[n + k] = f[k] /\ n + k \in 1..Len(g)
    OBVIOUS
  <2>1. WasAt(1, n, k) = n + k
    BY <1>2 DEF WasAt
  <2>2. n + k \in 1..(n + Len(f)) /\ ~(n + k <= n) /\ (n + k) - n = k
    BY <1>2
  <2> QED
    BY <1>3, <2>1, <2>2
<1>6. IsCut(f, g, 1, n)
  <2>1. 1 \in 1..Len(g) /\ n \in 1..Len(g) /\ Len(f) = Len(g) - (n - 1 + 1)
    BY <1>2, <1>3
  <2> QED
    BY <1>3, <1>5, <2>1, Zenon DEF IsCut
<1>7. \A x \in {"[autoload]", Cfg!Blank, Cfg!Helper} :
        /\ x \notin {Cfg!Begin, Cfg!End, Cfg!OldBegin, Cfg!OldEnd}
        /\ x \notin Cfg!PhysicsLines
        /\ x \in Helpers => x = Cfg!Helper
        /\ x \in Cfg!Known
  BY Settings, Zenon DEF Cfg!Helper, Cfg!OldHelper, Cfg!Begin, Cfg!End, Cfg!OldBegin, Cfg!OldEnd,
                  Helpers, Cfg!Blank, Cfg!Known
<1>8. \A i \in 1..n : /\ g[i] \notin {Cfg!Begin, Cfg!End, Cfg!OldBegin, Cfg!OldEnd}
                      /\ g[i] \notin Cfg!PhysicsLines
                      /\ g[i] \in Helpers => t[i] = Cfg!Helper
                      /\ t[i] \notin UserLines
  <2>1. \A x \in Cfg!Known : x \notin UserLines
    BY CfgAssumption
  <2> QED
    BY <1>1, <1>4, <1>7, <2>1, Zenon
<1>9. \A k \in 1..Len(f) : /\ Managed(f, k) <=> Managed(g, n + k)
                           /\ Legacy(f, k) <=> Legacy(g, n + k)
  <2>1. PICK lo : lo = 1
    OBVIOUS
  <2>2. /\ \A j \in lo..n : g[j] # Cfg!Begin /\ g[j] # Cfg!End
        /\ \A j \in lo..n : g[j] # Cfg!OldBegin /\ g[j] # Cfg!OldEnd
        /\ IsCut(f, g, lo, n)
    BY <1>6, <1>8, <2>1, Zenon
  <2>3. \A k \in 1..Len(f) : Managed(f, k) <=> Managed(g, WasAt(lo, n, k))
    BY <2>2, OtherBlocks, Zenon DEF Managed
  <2>4. \A k \in 1..Len(f) : Legacy(f, k) <=> Legacy(g, WasAt(lo, n, k))
    BY <2>2, OtherBlocks, Zenon DEF Legacy
  <2> QED
    BY <1>5, <2>1, <2>3, <2>4, Zenon
<1>10. \A i \in 1..n : ~Managed(g, i) /\ ~Legacy(g, i)
  <2>1. \A i \in 1..n : \A b \in 1..i : b \in 1..n
    BY <1>2
  <2> QED
    BY <1>8, <2>1, Zenon DEF Managed, Legacy, Cfg!Inside
<1>11. \A i \in 1..Len(g) : i \in 1..n \/ \E k \in 1..Len(f) : i = n + k
  <2> SUFFICES ASSUME NEW i \in 1..Len(g), i \notin 1..n
               PROVE  \E k \in 1..Len(f) : i = n + k
    OBVIOUS
  <2>1. i - n \in 1..Len(f) /\ i = n + (i - n)
    BY <1>2, <1>3
  <2> QED
    BY <2>1
<1>12. \A i \in 1..Len(g) : LineIn(g, i)
  <2>1. \A i \in 1..n : LineIn(g, i)
    BY <1>8, <1>10, Zenon DEF LineIn
  <2>2. \A k \in 1..Len(f) : LineIn(g, n + k)
    BY <1>5, <1>9, Zenon DEF LineIn, InOrder
  <2> QED
    BY <1>11, <2>1, <2>2, Zenon
<1>13. \A i, j \in 1..Len(g) : g[i] \in Helpers /\ g[j] \in Helpers => i = j
  <2>1. \A k \in 1..Len(f) : g[n + k] \notin Helpers
    BY <1>5, Zenon DEF Helpers, Has
  <2>2. \A i \in 1..Len(g) : g[i] \in Helpers => i \in 1..n /\ t[i] = Cfg!Helper
    BY <1>8, <1>11, <2>1, Zenon
  <2> QED
    BY <1>1, <2>2, Zenon
<1>14. Has(g, Cfg!Helper)
  BY <1>1, <1>4, Zenon DEF Has
<1>15. Cfg!PlayersOwn(g) = Cfg!PlayersOwn(f)
  <2>1. Cfg!Among(t, UserLines) = <<>>
    BY <1>1, <1>8, AmongNone
  <2>2. Cfg!Among(t \o f, UserLines) = Cfg!Among(t, UserLines) \o Cfg!Among(f, UserLines)
    BY AmongConcat
  <2>3. PICK u : u = Cfg!Among(f, UserLines)
    OBVIOUS
  <2>4. u \in Seq(Cfg!Lines)
    BY <2>3, AmongType
  <2>5. <<>> \o u = u
    BY <2>4, ConcatEmptySeq
  <2> QED
    BY <2>1, <2>2, <2>3, <2>5, Zenon DEF Cfg!PlayersOwn
<1> QED
  BY <1>3, <1>12, <1>13, <1>14, <1>15, Zenon DEF InOrder

LEMMA EnsuredIs ==
  ASSUME NEW f \in Seq(Cfg!Lines), InOrder(f), ~Has(f, Cfg!Helper), NEW g, g = Cfg!Ensured(f)
  PROVE  /\ g \in Seq(Cfg!Lines) /\ InOrder(g) /\ Has(g, Cfg!Helper)
         /\ Cfg!PlayersOwn(g) = Cfg!PlayersOwn(f)
<1>1. CASE Has(f, Cfg!OldHelper)
  <2>1. PICK p : p = Cfg!Position(f, Cfg!OldHelper)
    OBVIOUS
  <2>2. p \in 1..Len(f) /\ f[p] = Cfg!OldHelper
    <3>1. DOMAIN f = 1..Len(f) /\ Len(f) \in Nat
      OBVIOUS
    <3> QED
      BY <1>1, <2>1, <3>1, PositionIs
  <2>3. g = [f EXCEPT ![p] = Cfg!Helper]
    BY <1>1, <2>1, Zenon DEF Cfg!Ensured, Cfg!Contains, Has
  <2> QED
    BY <2>2, <2>3, ReplacedIs
<1>2. CASE ~Has(f, Cfg!OldHelper)
  <2>1. PICK h, blank : h = <<"[autoload]", "blank", "helper">> /\ blank = <<"blank">>
    OBVIOUS
  <2>2. "[autoload]" \in Cfg!Lines /\ "blank" \in Cfg!Lines /\ "helper" \in Cfg!Lines
    <3>1. {"[autoload]", "blank", "helper"} \subseteq Cfg!Known
      BY DEF Cfg!Known, Cfg!Helper, Cfg!Blank
    <3> QED
      BY <3>1 DEF Cfg!Lines
  <2>3. /\ h \in Seq(Cfg!Lines) /\ Len(h) = 3
        /\ h[1] = "[autoload]" /\ h[2] = "blank" /\ h[3] = "helper"
    BY <2>1, <2>2
  <2>4. Cfg!Header \o <<Cfg!Helper>> = h
    <3>1. PICK e : e = <<"[autoload]", "blank">>
      OBVIOUS
    <3>2. e \in Seq(Cfg!Lines) /\ Len(e) = 2 /\ e[1] = "[autoload]" /\ e[2] = "blank"
      BY <2>2, <3>1
    <3>3. PICK d : d = e \o <<"helper">>
      OBVIOUS
    <3>4. Longer(d, e, 2, "helper")
      BY <2>2, <3>2, <3>3, LineAdded
    <3>5. /\ d \in Seq(Cfg!Lines) /\ Len(d) = 3
          /\ d[1] = "[autoload]" /\ d[2] = "blank" /\ d[3] = "helper"
      BY <3>2, <3>4 DEF Longer
    <3>6. \A i \in 1..3 : i = 1 \/ i = 2 \/ i = 3
      OBVIOUS
    <3>7. \A i \in 1..Len(d) : d[i] = h[i]
      BY <2>3, <3>5, <3>6, Zenon
    <3>8. d = h
      BY <2>3, <3>5, <3>7, SeqEqual
    <3> QED
      BY <3>1, <3>3, <3>8, Zenon DEF Cfg!Header, Cfg!Helper, Cfg!Blank
  <2>5. \A i \in 1..3 : i = 1 \/ i = 2 \/ i = 3
    OBVIOUS
  <2>6. /\ Has(h, Cfg!Helper)
        /\ \A i \in 1..Len(h) : h[i] \in {"[autoload]", Cfg!Blank, Cfg!Helper}
        /\ \A i, j \in 1..Len(h) : h[i] = Cfg!Helper /\ h[j] = Cfg!Helper => i = j
    <3>1. 3 \in 1..3
      OBVIOUS
    <3>2. \A i \in 1..Len(h) : h[i] = "helper" => i = 3
      BY <2>3, <2>5, Zenon
    <3>3. \A i \in 1..Len(h) : h[i] \in {"[autoload]", "blank", "helper"}
      BY <2>3, <2>5, Zenon
    <3>4. Has(h, "helper")
      BY <2>3, <3>1, Zenon DEF Has
    <3> QED
      BY <3>2, <3>3, <3>4, Zenon DEF Cfg!Helper, Cfg!Blank
  <2>7. CASE f = <<>>
    <3>1. g = (h \o <<>>) \o f
      BY <1>2, <2>4, <2>7, Zenon DEF Cfg!Ensured, Cfg!Contains, Has
    <3>2. h \o <<>> = h
      BY <2>3, ConcatEmptySeq
    <3>3. g = h \o f /\ h \in Seq(Cfg!Lines)
      BY <2>3, <3>1, <3>2, Zenon
    <3> QED
      BY <1>2, <2>6, <3>3, PrependedIs
  <2>8. CASE f # <<>>
    <3>1. PICK t : t = h \o <<"blank">>
      OBVIOUS
    <3>2. g = t \o f
      BY <1>2, <2>4, <2>8, <3>1, Zenon DEF Cfg!Ensured, Cfg!Contains, Has, Cfg!Blank
    <3>3. Longer(t, h, 3, "blank")
      BY <2>2, <2>3, <3>1, LineAdded
    <3>4. /\ t \in Seq(Cfg!Lines) /\ Len(t) = 4
          /\ t[1] = "[autoload]" /\ t[2] = "blank" /\ t[3] = "helper" /\ t[4] = "blank"
      BY <2>3, <3>3 DEF Longer
    <3>5. \A i \in 1..4 : i = 1 \/ i = 2 \/ i = 3 \/ i = 4
      OBVIOUS
    <3>6. /\ Has(t, Cfg!Helper)
          /\ \A i \in 1..Len(t) : t[i] \in {"[autoload]", Cfg!Blank, Cfg!Helper}
          /\ \A i, j \in 1..Len(t) : t[i] = Cfg!Helper /\ t[j] = Cfg!Helper => i = j
      <4>1. 3 \in 1..4
        OBVIOUS
      <4>2. \A i \in 1..Len(t) : t[i] = "helper" => i = 3
        BY <3>4, <3>5, Zenon
      <4>3. \A i \in 1..Len(t) : t[i] \in {"[autoload]", "blank", "helper"}
        BY <3>4, <3>5, Zenon
      <4>4. Has(t, "helper")
        BY <3>4, <4>1, Zenon DEF Has
      <4> QED
        BY <4>2, <4>3, <4>4, Zenon DEF Cfg!Helper, Cfg!Blank
    <3>7. t \in Seq(Cfg!Lines)
      BY <3>4, Zenon
    <3> QED
      BY <1>2, <3>2, <3>6, <3>7, PrependedIs
  <2> QED
    BY <2>7, <2>8
<1> QED
  BY <1>1, <1>2

----------------------------------------------------------------------------
(* The invariant: a file the program left or will leave is orderly, and the *)
(* one a session reads has been through both functions.                     *)

Orderly(f) == f \in Seq(Cfg!Lines) /\ InOrder(f)

CfgInv ==
  /\ want \subseteq DOMAIN Cfg!Physics
  /\ Orderly(lines)
  /\ cfgPc \in {"ensuring", "syncing"} =>
       Orderly(new) /\ Has(new, Cfg!Helper) /\ Cfg!PlayersOwn(new) = mine
  /\ cfgPc \in {"ensure", "sync", "done"} => Cfg!PlayersOwn(lines) = mine
  /\ cfgPc \in {"sync", "done"} => Has(lines, Cfg!Helper)
  /\ cfgPc = "syncing" => AsWanted(new) /\ ~Has(new, Cfg!OldBegin)
  /\ cfgPc = "done" => AsWanted(lines) /\ ~Has(lines, Cfg!OldBegin)

LEMMA NothingIsOrderly == Orderly(<<>>)
<1>1. PICK f : f = <<>>
  OBVIOUS
<1>2. f \in Seq(Cfg!Lines) /\ Len(f) = 0 /\ \A i \in 1..Len(f) : FALSE
  BY <1>1
<1>3. InOrder(f)
  BY <1>2, Zenon DEF InOrder
<1> QED
  BY <1>1, <1>2, <1>3, Zenon DEF Orderly

LEMMA CfgInit == Cfg!Init => CfgInv
<1> SUFFICES ASSUME Cfg!Init PROVE CfgInv
  OBVIOUS
<1>1. /\ lines \in Files /\ want \in SUBSET DOMAIN Cfg!Physics /\ cfgPc = "off"
  BY DEF Cfg!Init
<1>2. Cfg!Orderly(lines)
  BY <1>1, CfgAssumption
<1>3. lines \in Seq(Cfg!Lines)
  BY <1>2 DEF Cfg!Orderly
<1>4. Orderly(lines)
  BY <1>2, <1>3, OrderlyIs DEF Orderly
<1> QED
  BY <1>1, <1>4 DEF CfgInv

LEMMA CfgStep == CfgInv /\ [Cfg!Next]_(Cfg!vars) => CfgInv'
<1> SUFFICES ASSUME CfgInv, [Cfg!Next]_(Cfg!vars) PROVE CfgInv'
  OBVIOUS
<1>1. CASE Cfg!Boot
  <2>1. /\ cfgPc' = "ensure" /\ mine' = Cfg!PlayersOwn(lines)
        /\ lines' = lines /\ want' = want
    BY <1>1 DEF Cfg!Boot
  <2>2. Cfg!PlayersOwn(lines)' = Cfg!PlayersOwn(lines)
    BY <2>1, Zenon DEF Cfg!PlayersOwn, Cfg!Among
  <2>3. Orderly(lines')
    BY <2>1, Zenon DEF CfgInv
  <2> QED
    BY <2>1, <2>2, <2>3 DEF CfgInv
<1>2. CASE Cfg!Ensure
  <2>1. cfgPc = "ensure" /\ want' = want /\ mine' = mine
    BY <1>2 DEF Cfg!Ensure
  <2>2. Orderly(lines) /\ Cfg!PlayersOwn(lines) = mine
    BY <2>1 DEF CfgInv
  <2>3. CASE Has(lines, Cfg!Helper)
    <3>1. cfgPc' = "sync" /\ lines' = lines /\ new' = new
      BY <1>2, <2>3, Zenon DEF Cfg!Ensure, Cfg!Contains, Has
    <3> QED
      BY <2>1, <2>2, <2>3, <3>1 DEF CfgInv
  <2>4. CASE ~Has(lines, Cfg!Helper)
    <3>1. cfgPc' = "ensuring" /\ lines' = <<>> /\ new' = Cfg!Ensured(lines)
      BY <1>2, <2>4, Zenon DEF Cfg!Ensure, Cfg!Contains, Has, Cfg!Rewrite
    <3>2. PICK g : g = new'
      OBVIOUS
    <3>3. lines \in Seq(Cfg!Lines) /\ InOrder(lines) /\ g = Cfg!Ensured(lines)
      BY <2>2, <3>1, <3>2 DEF Orderly
    <3>4. Orderly(g) /\ Has(g, Cfg!Helper) /\ Cfg!PlayersOwn(g) = mine
      BY <2>2, <2>4, <3>3, EnsuredIs DEF Orderly
    <3>5. Orderly(lines')
      BY <3>1, NothingIsOrderly, Zenon
    <3> QED
      BY <2>1, <3>1, <3>2, <3>4, <3>5, Zenon DEF CfgInv
  <2> QED
    BY <2>3, <2>4
<1>3. CASE Cfg!Sync
  <2>1. cfgPc = "sync" /\ want' = want /\ mine' = mine
    BY <1>3 DEF Cfg!Sync
  <2>2. /\ lines \in Seq(Cfg!Lines) /\ InOrder(lines) /\ want \subseteq DOMAIN Cfg!Physics
        /\ Cfg!PlayersOwn(lines) = mine /\ Has(lines, Cfg!Helper)
    BY <2>1 DEF CfgInv, Orderly
  <2>3. CASE Cfg!Matches(lines)
    <3>1. cfgPc' = "done" /\ lines' = lines /\ new' = new
      BY <1>3, <2>3, Zenon DEF Cfg!Sync
    <3>2. AsWanted(lines) /\ ~Has(lines, Cfg!OldBegin)
      BY <2>2, <2>3, MatchesIs
    <3>3. AsWanted(lines)'
      BY <2>1, <3>1, <3>2, Zenon DEF AsWanted
    <3> QED
      BY <2>1, <2>2, <3>1, <3>2, <3>3, Zenon DEF CfgInv, Orderly
  <2>4. CASE ~Cfg!Matches(lines)
    <3>1. cfgPc' = "syncing" /\ lines' = <<>> /\ new' = Cfg!Synced(lines)
      BY <1>3, <2>4, Zenon DEF Cfg!Sync, Cfg!Rewrite
    <3>2. PICK h : h = new'
      OBVIOUS
    <3>3. h = Cfg!Synced(lines)
      BY <3>1, <3>2
    <3>4. /\ Orderly(h) /\ Has(h, Cfg!Helper) /\ Cfg!PlayersOwn(h) = mine
          /\ AsWanted(h) /\ ~Has(h, Cfg!OldBegin)
      BY <2>2, <3>3, SyncedIs DEF Orderly
    <3>5. AsWanted(new)'
      BY <2>1, <3>2, <3>4, Zenon DEF AsWanted
    <3>6. Orderly(lines')
      BY <3>1, NothingIsOrderly, Zenon
    <3> QED
      BY <2>1, <2>2, <3>1, <3>2, <3>4, <3>5, <3>6, Zenon DEF CfgInv
  <2> QED
    BY <2>3, <2>4
<1>4. CASE Cfg!Written
  <2>1. /\ cfgPc \in {"ensuring", "syncing"} /\ lines' = new
        /\ cfgPc' = (IF cfgPc = "ensuring" THEN "sync" ELSE "done")
        /\ want' = want /\ new' = new /\ mine' = mine
    BY <1>4, Zenon DEF Cfg!Written
  <2>2. Orderly(new) /\ Has(new, Cfg!Helper) /\ Cfg!PlayersOwn(new) = mine
    BY <2>1, Zenon DEF CfgInv
  <2>3. CASE cfgPc = "ensuring"
    <3>1. cfgPc' = "sync"
      BY <2>1, <2>3
    <3> QED
      BY <2>1, <2>2, <3>1, Zenon DEF CfgInv
  <2>4. CASE cfgPc = "syncing"
    <3>1. cfgPc' = "done"
      BY <2>1, <2>4
    <3>2. AsWanted(new) /\ ~Has(new, Cfg!OldBegin)
      BY <2>4, Zenon DEF CfgInv
    <3>3. AsWanted(lines)'
      BY <2>1, <3>2, Zenon DEF AsWanted
    <3> QED
      BY <2>1, <2>2, <3>1, <3>2, <3>3, Zenon DEF CfgInv
  <2> QED
    BY <2>1, <2>3, <2>4, Zenon
<1>5. CASE Cfg!PowerCut
  <2>1. cfgPc' = "off" /\ want' = want
    BY <1>5 DEF Cfg!PowerCut
  <2>2. Orderly(lines')
    <3>1. CASE cfgPc \in {"ensuring", "syncing"}
      <4>1. PICK n \in 0..Len(new) : lines' = Cfg!UpTo(new, n)
        BY <1>5, <3>1, Zenon DEF Cfg!PowerCut
      <4>2. new \in Seq(Cfg!Lines) /\ InOrder(new)
        BY <3>1, Zenon DEF CfgInv, Orderly
      <4>3. PICK g : g = Cfg!UpTo(new, n)
        OBVIOUS
      <4>4. g \in Seq(Cfg!Lines) /\ InOrder(g)
        BY <4>2, <4>3, BeginningIs
      <4> QED
        BY <4>1, <4>3, <4>4, Zenon DEF Orderly
    <3>2. CASE cfgPc \notin {"ensuring", "syncing"}
      <4>1. lines' = lines
        BY <1>5, <3>2, Zenon DEF Cfg!PowerCut
      <4> QED
        BY <4>1, Zenon DEF CfgInv
    <3> QED
      BY <3>1, <3>2
  <2> QED
    BY <2>1, <2>2 DEF CfgInv
<1>6. CASE Cfg!Configure
  <2>1. cfgPc' = "off" /\ want' \in SUBSET DOMAIN Cfg!Physics /\ lines' = lines
    BY <1>6 DEF Cfg!Configure
  <2>2. Orderly(lines')
    BY <2>1, Zenon DEF CfgInv
  <2> QED
    BY <2>1, <2>2 DEF CfgInv
<1>7. CASE UNCHANGED Cfg!vars
  <2>1. /\ lines' = lines /\ want' = want /\ cfgPc' = cfgPc /\ new' = new /\ mine' = mine
    BY <1>7 DEF Cfg!vars
  <2>2. /\ AsWanted(lines)' <=> AsWanted(lines)
        /\ AsWanted(new)' <=> AsWanted(new)
    BY <2>1, Zenon DEF AsWanted
  <2> QED
    BY <2>1, <2>2, Zenon DEF CfgInv
<1> QED
  BY <1>1, <1>2, <1>3, <1>4, <1>5, <1>6, <1>7 DEF Cfg!Next

LEMMA CfgCardinality == ASSUME NEW S PROVE Cfg!Cardinality(S) = Cardinality(S)
  BY DEF Cfg!Cardinality, Cardinality

\* What the invariant says of a finished file is what the engine is to read.
LEMMA CountIs ==
  ASSUME NEW f \in Seq(Cfg!Lines), NEW line
  PROVE  /\ Once(f, line) => Cfg!Count(f, line) = 1
         /\ ~Has(f, line) => Cfg!Count(f, line) = 0
<1>1. DOMAIN f = 1..Len(f)
  OBVIOUS
<1>2. ASSUME Once(f, line) PROVE Cfg!Count(f, line) = 1
  <2>1. PICK i \in 1..Len(f) : \A j \in 1..Len(f) : f[j] = line <=> j = i
    BY <1>2 DEF Once
  <2>2. {j \in DOMAIN f : f[j] = line} = {i}
    BY <1>1, <2>1
  <2> QED
    BY <2>2, FS_Singleton, CfgCardinality, Zenon DEF Cfg!Count
<1>3. ASSUME ~Has(f, line) PROVE Cfg!Count(f, line) = 0
  <2>1. {j \in DOMAIN f : f[j] = line} = {}
    BY <1>1, <1>3 DEF Has
  <2> QED
    BY <2>1, FS_EmptySet, CfgCardinality, Zenon DEF Cfg!Count
<1> QED
  BY <1>2, <1>3

LEMMA CfgReads == CfgInv => ReadAsConfigured
<1> SUFFICES ASSUME CfgInv, cfgPc = "done"
             PROVE  /\ Cfg!Count(lines, Cfg!Helper) = 1
                    /\ \A s \in DOMAIN Cfg!Physics :
                         Cfg!Count(lines, Cfg!Physics[s]) = IF s \in want THEN 1 ELSE 0
                    /\ Cfg!Count(lines, Cfg!OldBegin) = 0
                    /\ Cfg!PlayersOwn(lines) = mine
  BY Zenon DEF ReadAsConfigured, Cfg!ReadAsConfigured
<1>1. /\ lines \in Seq(Cfg!Lines) /\ InOrder(lines) /\ Has(lines, Cfg!Helper)
      /\ AsWanted(lines) /\ ~Has(lines, Cfg!OldBegin) /\ Cfg!PlayersOwn(lines) = mine
  BY DEF CfgInv, Orderly
<1>2. Once(lines, Cfg!Helper)
  <2>1. PICK i \in 1..Len(lines) : lines[i] = Cfg!Helper
    BY <1>1 DEF Has
  <2>2. \A j \in 1..Len(lines) : lines[j] = Cfg!Helper => j = i
    BY <1>1, <2>1, Zenon DEF InOrder, Helpers
  <2> QED
    BY <2>1, <2>2, Zenon DEF Once
<1>3. Cfg!Count(lines, Cfg!Helper) = 1
  BY <1>1, <1>2, CountIs
<1>4. Cfg!Count(lines, Cfg!OldBegin) = 0
  BY <1>1, CountIs
<1>5. \A s \in DOMAIN Cfg!Physics :
        Cfg!Count(lines, Cfg!Physics[s]) = IF s \in want THEN 1 ELSE 0
  BY <1>1, CountIs, Zenon DEF AsWanted
<1> QED
  BY <1>1, <1>3, <1>4, <1>5

\* When the engine comes to read override.cfg it registers the helper once and
\* sets exactly the physics that config.txt asks for, whatever an earlier build
\* or power cuts made of the file, and the player's own lines are those the boot
\* found, in their order (source main.c, ensure_override_cfg,
\* sync_override_cfg).
THEOREM FileReadsAsConfigured == Cfg!Spec => []ReadAsConfigured
<1>1. Cfg!Init => CfgInv
  BY CfgInit
<1>2. CfgInv /\ [Cfg!Next]_(Cfg!vars) => CfgInv'
  BY CfgStep
<1>3. CfgInv => ReadAsConfigured
  BY CfgReads
<1> QED
  BY <1>1, <1>2, <1>3, PTL DEF Cfg!Spec

=============================================================================
