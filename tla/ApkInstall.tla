----------------------------- MODULE ApkInstall -----------------------------
(***************************************************************************)
(* Installing the game from its APK (source/apk_install.c, apk_unpack.c)   *)
(* and replacing a save (source/godot_shim.c, sm127_rename_replacing): the *)
(* two places where the program changes files it cannot do without, on a   *)
(* FAT card on which a rename does not replace.                            *)
(*                                                                         *)
(* Each step is one file operation, so that the power can go between any   *)
(* two.  A file's content is known by the APK it came from; an APK is its  *)
(* modification time, which is all that the choice between two looks at.   *)
(* A file takes one block of the card.                                     *)
(***************************************************************************)
EXTENDS Integers, FiniteSets

CONSTANTS Apks,           \* the APKs the player may put in the folder
          Damaged,        \* those that fail a check of copy_entry
          Room,           \* blocks of the card the game may take
          MaxFaults,      \* bound: power cuts and failed operations
          CarefulPlayer   \* nobody touches the APKs after an interrupted install

Absent  == 0
Torn    == -1             \* created and not yet written to the end
Outputs == 1..3           \* the engine, its C++ library, the pack

\* A folder holds finitely many files, so one of its APKs is the newest.
ASSUME ApkAssumption ==
  /\ Apks \subseteq Nat \ {0} /\ Damaged \subseteq Apks /\ MaxFaults \in Nat
  /\ \A S \in SUBSET Apks : S # {} => \E a \in S : \A b \in S : b <= a

VARIABLES
  apks,       \* *.apk in the app folder
  file,       \* the installed outputs
  part,       \* their .part files
  marker,     \* assets/installed_from.txt
  loose,      \* assets/project.binary is there
  keep,       \* config.keep_apk
  save,       \* a file under user:// ...
  saveTmp,    \* ... and the one the engine writes it to first
  pc,         \* where the program is
  out,        \* the output apk_unpack is at
  apk,        \* the APK it unpacks
  made,       \* the .part files of this run, not moved yet: part[0..nparts-1]
  known,      \* history: this session has a save to lose, that is it found or
              \* made one, and no rename has failed after its remove
  faults

card == <<apks, file, part, marker, loose, keep>>
saves == <<save, saveTmp, known>>
run  == <<out, apk, made>>
vars == <<card, saves, pc, run, faults>>

Contents == Apks \cup {Absent, Torn}
Pcs == {"off", "look", "open", "create", "fill", "swap", "gap", "clean", "mark",
        "marking", "delete", "play", "saving", "replace", "saveGap"}

TypeOK ==
  /\ apks \in SUBSET Apks
  /\ file \in [Outputs -> Contents]
  /\ part \in [Outputs -> Contents]
  /\ marker \in Contents
  /\ loose \in BOOLEAN /\ keep \in BOOLEAN
  /\ save \in {"absent", "full"}
  /\ saveTmp \in {"absent", "torn", "full"}
  /\ pc \in Pcs
  /\ out \in Outputs
  /\ apk \in Apks \cup {Absent}
  /\ made \subseteq Outputs
  /\ pc \in {"create", "fill", "swap", "gap", "mark", "marking", "delete"} => apk \in apks
  /\ known \in BOOLEAN
  /\ faults \in 0..MaxFaults

Init ==
  /\ apks \in SUBSET Apks
  /\ file = [i \in Outputs |-> Absent]
  /\ part = [i \in Outputs |-> Absent]
  /\ marker = Absent
  /\ loose \in BOOLEAN /\ keep \in BOOLEAN
  /\ save = "absent" /\ saveTmp = "absent"
  /\ pc = "off"
  /\ out = 1 /\ apk = Absent /\ made = {}
  /\ known = FALSE
  /\ faults = 0

Fault == faults < MaxFaults /\ faults' = faults + 1

----------------------------------------------------------------------------
(* apk_install_run, up to the call of apk_unpack                           *)

Present(i) == file[i] # Absent

\* has_file: the two libraries, and the pack or the loose tree.
Installed == Present(1) /\ Present(2) /\ (Present(3) \/ loose)

\* find_apk
Newest == CHOOSE a \in apks : \A b \in apks : b <= a

Start ==
  /\ pc = "off"
  /\ pc' = "look"
  /\ out' = 1 /\ apk' = Absent /\ made' = {}
  /\ known' = (save # "absent")
  /\ UNCHANGED <<card, save, saveTmp, faults>>

\* No APK: play what is there, or stop with fatal_error.
NothingToInstall ==
  /\ pc = "look"
  /\ apks = {}
  /\ pc' = IF Installed THEN "play" ELSE "off"
  /\ UNCHANGED <<card, saves, run, faults>>

\* The installer trusting any marker file that is there.
AlreadyInstalledByAny ==
  /\ pc = "look"
  /\ apks # {}
  /\ Installed /\ marker # Absent
  /\ apk' = Newest
  /\ pc' = "delete"
  /\ UNCHANGED <<card, saves, out, made, faults>>

\* marker_matches: the newest APK is the one the marker names.
AlreadyInstalled ==
  /\ pc = "look"
  /\ apks # {}
  /\ Installed /\ marker = Newest
  /\ apk' = Newest
  /\ pc' = "delete"
  /\ UNCHANGED <<card, saves, out, made, faults>>

Unpack ==
  /\ pc = "look"
  /\ apks # {}
  /\ ~(Installed /\ marker = Newest)
  /\ apk' = Newest
  /\ pc' = "open"
  /\ UNCHANGED <<card, saves, out, made, faults>>

----------------------------------------------------------------------------
(* apk_unpack                                                              *)

Free == Room - Cardinality({i \in Outputs : file[i] # Absent})
             - Cardinality({i \in Outputs : part[i] # Absent})

\* The directory has been read and the card has the space.
Open ==
  /\ pc = "open"
  /\ Free >= Cardinality(Outputs)
  /\ pc' = "create"
  /\ UNCHANGED <<card, saves, run, faults>>

NoSpace ==
  /\ pc = "open"
  /\ Free < Cardinality(Outputs)
  /\ pc' = "clean"
  /\ UNCHANGED <<card, saves, run, faults>>

\* fopen(part, "wb")
Create ==
  /\ pc = "create"
  /\ part' = [part EXCEPT ![out] = Torn]
  /\ made' = made \cup {out}
  /\ pc' = "fill"
  /\ UNCHANGED <<apks, file, marker, loose, keep, saves, out, apk, faults>>

\* The copy without a look at size and checksum.
FillUnchecked ==
  /\ pc = "fill"
  /\ part' = [part EXCEPT ![out] = IF apk \in Damaged THEN Torn ELSE apk]
  /\ IF out = Cardinality(Outputs) THEN pc' = "swap" /\ out' = 1
                                   ELSE pc' = "create" /\ out' = out + 1
  /\ UNCHANGED <<apks, file, marker, loose, keep, saves, apk, made, faults>>

\* copy_entry, fclose, and for the pack the check of its size.
Fill ==
  /\ pc = "fill"
  /\ apk \notin Damaged
  /\ part' = [part EXCEPT ![out] = apk]
  /\ IF out = Cardinality(Outputs) THEN pc' = "swap" /\ out' = 1
                                   ELSE pc' = "create" /\ out' = out + 1
  /\ UNCHANGED <<apks, file, marker, loose, keep, saves, apk, made, faults>>

BadChecksum ==
  /\ pc = "fill"
  /\ apk \in Damaged
  /\ pc' = "clean"
  /\ UNCHANGED <<card, saves, run, faults>>

\* An operation fails, or keep_going says that the system wants the program
\* to close: FAIL or STOP, with what has been made so far.
Break ==
  /\ pc \in {"open", "create", "fill"}
  /\ Fault
  /\ pc' = "clean"
  /\ UNCHANGED <<card, saves, run>>

\* sm127_rename_replacing(part, done): the first rename works only when there
\* is nothing to replace.
NextSwap == IF out = Cardinality(Outputs) THEN pc' = "mark" /\ out' = out
                                          ELSE pc' = "swap" /\ out' = out + 1

Rename ==
  /\ \/ pc = "swap" /\ ~Present(out)
     \/ pc = "gap"
  /\ file' = [file EXCEPT ![out] = part[out]]
  /\ part' = [part EXCEPT ![out] = Absent]
  /\ made' = made \ {out}
  /\ NextSwap
  /\ UNCHANGED <<apks, marker, loose, keep, saves, apk, faults>>

RemoveOld ==
  /\ pc = "swap"
  /\ Present(out)
  /\ file' = [file EXCEPT ![out] = Absent]
  /\ pc' = "gap"
  /\ UNCHANGED <<apks, part, marker, loose, keep, saves, run, faults>>

CannotReplace ==
  /\ pc \in {"swap", "gap"}
  /\ Fault
  /\ pc' = "clean"
  /\ UNCHANGED <<card, saves, run>>

\* out: the .part files that are left are removed, and the program ends.
Clean ==
  /\ pc = "clean"
  /\ \/ \E i \in made :
          /\ part' = [part EXCEPT ![i] = Absent]
          /\ made' = made \ {i}
          /\ UNCHANGED pc
     \/ made = {} /\ pc' = "off" /\ UNCHANGED <<part, made>>
  /\ UNCHANGED <<apks, file, marker, loose, keep, saves, out, apk, faults>>

----------------------------------------------------------------------------
(* apk_install_run, after it                                               *)

\* fopen(MARKER, "wb"), which may fail: then there is no marker to write.
Mark ==
  /\ pc = "mark"
  /\ \/ marker' = Torn /\ pc' = "marking" /\ UNCHANGED faults
     \/ Fault /\ pc' = "delete" /\ UNCHANGED marker
  /\ UNCHANGED <<apks, file, part, loose, keep, saves, run>>

MarkWritten ==
  /\ pc = "marking"
  /\ marker' = apk
  /\ pc' = "delete"
  /\ UNCHANGED <<apks, file, part, loose, keep, saves, run, faults>>

\* remove_apk: not with keep_apk, and a failure is only logged.
Delete ==
  /\ pc = "delete"
  /\ pc' = "play"
  /\ \/ ~keep /\ apks' = apks \ {apk} /\ UNCHANGED faults
     \/ ~keep /\ Fault /\ UNCHANGED apks
     \/ keep /\ UNCHANGED <<apks, faults>>
  /\ UNCHANGED <<file, part, marker, loose, keep, saves, run>>

----------------------------------------------------------------------------
(* The game saves: it writes a file beside the save, closes it, and has it *)
(* renamed over the save (sm127_rename_replacing again).                   *)

BeginSave ==
  /\ pc = "play"
  /\ saveTmp' = "torn"
  /\ pc' = "saving"
  /\ UNCHANGED <<card, run, faults, save, known>>

CloseSave ==
  /\ pc = "saving"
  /\ saveTmp' = "full"
  /\ pc' = "replace"
  /\ UNCHANGED <<card, run, faults, save, known>>

ReplaceSave ==
  /\ \/ pc = "replace" /\ save = "absent"
     \/ pc = "saveGap"
  /\ save' = saveTmp
  /\ saveTmp' = "absent"
  /\ known' = TRUE
  /\ pc' = "play"
  /\ UNCHANGED <<card, run, faults>>

\* The old save removed while the new one is still being written.
RemoveSaveEarly ==
  /\ pc \in {"saving", "replace"}
  /\ save # "absent"
  /\ save' = "absent"
  /\ pc' = "saveGap"
  /\ UNCHANGED <<card, run, faults, saveTmp, known>>

RemoveSave ==
  /\ pc = "replace"
  /\ save # "absent"
  /\ save' = "absent"
  /\ pc' = "saveGap"
  /\ UNCHANGED <<card, run, faults, saveTmp, known>>

SaveRefused ==
  /\ pc \in {"replace", "saveGap"}
  /\ Fault
  /\ known' = (known /\ pc = "replace")
  /\ pc' = "play"
  /\ UNCHANGED <<card, run, save, saveTmp>>

Exit ==
  /\ pc = "play"
  /\ pc' = "off"
  /\ UNCHANGED <<card, saves, run, faults>>

----------------------------------------------------------------------------
(* The world                                                               *)

Whole == /\ Present(1)
         /\ file[2] = file[1]
         /\ file[3] = file[1] \/ (~Present(3) /\ loose)
Nothing == \A i \in Outputs : ~Present(i)

PowerCut ==
  /\ pc # "off"
  /\ Fault
  /\ pc' = "off"
  /\ UNCHANGED <<card, saves, run>>

\* Nothing is under way: no mixture, and no .part file an earlier run left.
Settled == Whole \/ (Nothing /\ \A i \in Outputs : part[i] = Absent)

MayTouch == pc = "off" /\ (CarefulPlayer => Settled)

PlayerPuts(a) ==
  /\ MayTouch
  /\ apks' = apks \cup {a}
  /\ UNCHANGED <<file, part, marker, loose, keep, saves, pc, run, faults>>

PlayerTakes(a) ==
  /\ MayTouch
  /\ apks' = apks \ {a}
  /\ UNCHANGED <<file, part, marker, loose, keep, saves, pc, run, faults>>

Install == \/ Start \/ NothingToInstall \/ AlreadyInstalled \/ Unpack
           \/ Open \/ NoSpace \/ Create \/ Fill \/ BadChecksum \/ Break
           \/ Rename \/ RemoveOld \/ CannotReplace \/ Clean
           \/ Mark \/ MarkWritten \/ Delete

Game == BeginSave \/ CloseSave \/ ReplaceSave \/ RemoveSave \/ SaveRefused \/ Exit

Player == \E a \in Apks : PlayerPuts(a) \/ PlayerTakes(a)

Next == Install \/ Game \/ Player \/ PowerCut

\* The program goes on, and the player starts it again.
Fairness == WF_vars(Install)

Spec == Init /\ [][Next]_vars /\ Fairness
----------------------------------------------------------------------------
(* Properties                                                              *)

\* The game starts only with an engine and a pack out of the same APK, an
\* undamaged one, each file whole: neither a marker left by an earlier install
\* nor files left by an interrupted one pass for an installed game (head
\* comments of apk_install.c and apk_unpack.c).
PlaysOneGame == pc = "play" => Whole /\ file[1] \in Apks \ Damaged

\* A mixture of two installs, which an interrupted swap leaves, is made good in
\* the end, because the APK is still there and the marker does not name it; a
\* second failure may leave nothing installed, but then nothing half done.  Or
\* the .part files of earlier runs have filled the card, which the player is
\* told.
MixtureIsRepaired ==
  ~(Whole \/ Nothing) ~> (Settled \/ Free < Cardinality(Outputs))

\* A save that is being replaced is on the card under one of its two names, in
\* full, at every moment the power can go.
SaveIsSomewhere == known => "full" \in {save, saveTmp}
=============================================================================
