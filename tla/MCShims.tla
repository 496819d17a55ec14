------------------------------ MODULE MCShims ------------------------------
(* The shims the running engine calls: its threads, the C11 objects of the   *)
(* driver, its descriptors, file names and sockets, the log, its JNI         *)
(* references, files and assets.  They share no state; a behaviour of this   *)
(* module is a behaviour of one of them, which `component' names.            *)
EXTENDS Shims

VARIABLE component

----------------------------------------------------------------------------
\* C11Pool: slots one at a time, and one fewer than there are objects.
MCOrder == <<"r", "m">>

\* OpenFiles: two descriptors of a pack for a pool of one.
MCSize == [p \in {"pack", "plain"} |-> IF p = "pack" THEN 2 ELSE 1]
MCEntries == [p \in {"top", "sub"} |->
                IF p = "top" THEN <<"sub", "plain">> ELSE <<"plain">>]

\* LogRing: the ring holds two of the four lines and one repetition is kept.
\* Deferred: room for two of three dialogs, of which one kind is answered.

\* Descriptors: two archives, room for one; the read-ahead doubles once and meets the end.

\* FileNames: a directory, a region's directory in it, and a file at every level.
MCDirs == { <<>>, <<"d">>, <<"d", "eu">> }
MCFiles == { <<"f">>, <<"d", "f">>, <<"d", "eu", "f">> }

----------------------------------------------------------------------------
MCInit ==
  /\ component \in {"table", "c11", "fds", "names", "sockets", "log", "refs",
                    "files", "assets", "folders", "stats", "deferred"}
  /\ Table!Init /\ C11!Init /\ Fd!Init /\ Name!Init /\ Log!Init /\ Refs!Init
  /\ File!Init /\ Net!Init /\ Later!Init
  /\ component # "stats" => statsOpen
  /\ component # "sockets" => addresses = {} /\ counts

MCNext ==
  /\ UNCHANGED component
  /\ \/ /\ component = "table" /\ Table!Next
        /\ UNCHANGED <<c11Vars, fdVars, nameVars, socketVars, logVars, refVars, fileVars, deferredVars>>
     \/ /\ component = "c11" /\ C11!Next
        /\ UNCHANGED <<tableVars, fdVars, nameVars, socketVars, logVars, refVars, fileVars, deferredVars>>
     \/ /\ component = "fds" /\ Fd!Next
        /\ UNCHANGED <<tableVars, c11Vars, nameVars, socketVars, logVars, refVars, fileVars, deferredVars>>
     \/ /\ component = "names" /\ Name!Next
        /\ UNCHANGED <<tableVars, c11Vars, fdVars, socketVars, logVars, refVars, fileVars, deferredVars>>
     \/ /\ component = "sockets" /\ Net!Next
        /\ UNCHANGED <<tableVars, c11Vars, fdVars, nameVars, logVars, refVars, fileVars, deferredVars>>
     \/ /\ (component = "log" /\ Log!Logging) \/ (component = "stats" /\ Log!Statistics)
        /\ UNCHANGED <<tableVars, c11Vars, fdVars, nameVars, socketVars, refVars, fileVars, deferredVars>>
     \/ /\ component = "refs" /\ Refs!Next
        /\ UNCHANGED <<tableVars, c11Vars, fdVars, nameVars, socketVars, logVars, fileVars, deferredVars>>
     \/ /\ component = "files" /\ \E t \in Threads : File!Jni(t)
        /\ UNCHANGED <<tableVars, c11Vars, fdVars, nameVars, socketVars, logVars, refVars, deferredVars>>
     \/ /\ component = "assets" /\ \E t \in Threads : File!Asset(t)
        /\ UNCHANGED <<tableVars, c11Vars, fdVars, nameVars, socketVars, logVars, refVars, deferredVars>>
     \/ /\ component = "folders" /\ \E t \in Threads : File!Listing(t)
        /\ UNCHANGED <<tableVars, c11Vars, fdVars, nameVars, socketVars, logVars, refVars, deferredVars>>
     \/ /\ component = "deferred" /\ Later!Next
        /\ UNCHANGED <<tableVars, c11Vars, fdVars, nameVars, socketVars, logVars, refVars, fileVars>>

MCSpec ==
  MCInit /\ [][MCNext]_<<component, tableVars, c11Vars, fdVars, nameVars,
                         socketVars, logVars, refVars, fileVars, deferredVars>>
=============================================================================
