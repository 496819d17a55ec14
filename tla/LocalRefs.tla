----------------------------- MODULE LocalRefs -----------------------------
(***************************************************************************)
(* The references of the fake JNI environment (source/jni_fake.c).  Every  *)
(* object the environment makes is a block of memory; the ones made for    *)
(* the engine are entered in one table, which frames divide, and freed     *)
(* when their frame is popped or the engine deletes them.  Kept beside is  *)
(* what the engine may still use, by JNI's rules.                          *)
(*                                                                         *)
(* One thread.  The table and the frames are the whole process's.          *)
(***************************************************************************)
EXTENDS Naturals, Sequences

CONSTANTS Refs,             \* addresses: a freed one is given out again
          MaxLocals,        \* MAX_LOCALS
          MaxFrames,        \* MAX_FRAMES
          OwnFrameOnly      \* the engine deletes, keeps and returns only
                            \* references of the innermost frame

VARIABLES
  locals,      \* locals, up to locals_top
  stale,       \* what is above locals_top: the array is not cleared
  frames,      \* frames, up to frame_top: marks in locals
  alive,       \* blocks that have been made and not freed
  twice,       \* one was freed that was not alive
  scopes,      \* the engine's frames: the local references of each
  globals      \* its global references

table == <<locals, stale, frames>>
vars == <<table, alive, twice, scopes, globals>>

TypeOK ==
  /\ Len(locals) <= MaxLocals /\ Len(frames) <= MaxFrames
  /\ alive \subseteq Refs /\ globals \subseteq Refs
  /\ twice \in BOOLEAN

Init ==
  /\ locals = <<>> /\ stale = <<>> /\ frames = <<>>
  /\ alive = {} /\ twice = FALSE
  /\ scopes = <<{}>> /\ globals = {}

Range1(s) == {s[i] : i \in DOMAIN s}
Top == Len(scopes)
InScope == UNION Range1(scopes)
Reachable == IF OwnFrameOnly THEN scopes[Top] ELSE InScope
Last(places) == {i \in places : \A j \in places : j <= i}

\* free_ref, on some references at once.
Free(S) ==
  /\ alive' = alive \ S
  /\ twice' = (twice \/ ~(S \subseteq alive))

----------------------------------------------------------------------------

\* reg_local: a table that is full leaves the reference out, and nothing will
\* free it.
New(r) ==
  /\ r \notin alive
  /\ alive' = alive \cup {r}
  /\ locals' = IF Len(locals) < MaxLocals THEN Append(locals, r) ELSE locals
  /\ stale' = IF Len(locals) < MaxLocals /\ stale # <<>> THEN Tail(stale) ELSE stale
  /\ scopes' = [scopes EXCEPT ![Top] = @ \cup {r}]
  /\ UNCHANGED <<frames, twice, globals>>

\* locals[i] = locals[--locals_top]
Without(i) == SubSeq([locals EXCEPT ![i] = locals[Len(locals)]], 1, Len(locals) - 1)

\* The reference leaves the table, if it is in it.
Leave(r) ==
  LET at == Last({i \in DOMAIN locals : locals[i] = r})
  IN /\ locals' = IF at = {} THEN locals ELSE Without(CHOOSE i \in at : TRUE)
     /\ stale' = IF at = {} THEN stale ELSE <<locals[Len(locals)]>> \o stale

\* j_DeleteLocalRef, delete_local: one that is not in the table is not freed.
DeleteLocal(r) ==
  /\ r \in Reachable
  /\ Leave(r)
  /\ IF r \in Range1(locals) THEN Free({r}) ELSE UNCHANGED <<alive, twice>>
  /\ scopes' = [i \in DOMAIN scopes |-> scopes[i] \ {r}]
  /\ UNCHANGED <<frames, globals>>

\* j_NewGlobalRef: the block itself, which no frame frees any more; the engine
\* deletes its local reference too, which then finds nothing in the table.
NewGlobal(r) ==
  /\ r \in Reachable \ globals
  /\ Leave(r)
  /\ globals' = globals \cup {r}
  /\ scopes' = [i \in DOMAIN scopes |-> scopes[i] \ {r}]
  /\ UNCHANGED <<frames, alive, twice>>

\* j_DeleteGlobalRef
DeleteGlobal(r) ==
  /\ r \in globals
  /\ Free({r})
  /\ globals' = globals \ {r}
  /\ UNCHANGED <<table, scopes>>

\* The frame is dropped and success reported.
PushAnyway ==
  /\ frames' = IF Len(frames) < MaxFrames THEN Append(frames, Len(locals)) ELSE frames
  /\ scopes' = Append(scopes, {})
  /\ UNCHANGED <<locals, stale, alive, twice, globals>>

\* j_PushLocalFrame: JNI_ERR, which the engine heeds, when it is too deep.
Push ==
  /\ Len(frames) < MaxFrames
  /\ frames' = Append(frames, Len(locals))
  /\ scopes' = Append(scopes, {})
  /\ UNCHANGED <<locals, stale, alive, twice, globals>>

\* j_PopLocalFrame, with a result to keep or none (the empty set).  A mark that
\* is above locals_top brings entries back that had left the table.
Pop(result) ==
  LET mark == frames[Len(frames)]
      whole == locals \o stale
      kept == SubSeq(whole, 1, mark)
      below == SubSeq(whole, mark + 1, Len(whole))
      back == {<<r>> : r \in result}
  IN /\ Top > 1 /\ frames # <<>> /\ mark <= Len(whole)
     /\ frames' = SubSeq(frames, 1, Len(frames) - 1)
     /\ Free({locals[i] : i \in {j \in DOMAIN locals : j > mark}} \ result)
     /\ IF result # {} /\ mark < MaxLocals
        THEN /\ locals' = kept \o CHOOSE s \in back : TRUE
             /\ stale' = IF below = <<>> THEN <<>> ELSE Tail(below)
        ELSE locals' = kept /\ stale' = below
     /\ scopes' = [SubSeq(scopes, 1, Top - 1) EXCEPT ![Top - 1] = @ \cup result]
     /\ UNCHANGED globals

\* Without a frame it does nothing.
PopNothing ==
  /\ frames = <<>>
  /\ UNCHANGED vars

Next ==
  \/ Push \/ Pop({}) \/ PopNothing
  \/ \E r \in Refs : New(r) \/ DeleteLocal(r) \/ NewGlobal(r) \/ DeleteGlobal(r)
  \/ \E r \in Reachable : Pop({r})

Spec == Init /\ [][Next]_vars

----------------------------------------------------------------------------
(* Properties                                                              *)

\* What the engine may still use has not been freed, and nothing is freed
\* twice, however frames nest and whatever outlives its frame.
AliveWhileUsed == InScope \cup globals \subseteq alive /\ ~twice
=============================================================================
