-------------------------- MODULE KeyboardService --------------------------
(***************************************************************************)
(* What the software keyboard promises the game (swkbd_shim.c, header      *)
(* comment): the engine asks for a keyboard and goes on, the main thread   *)
(* puts at most one keyboard up at a time, and every keyboard that was up  *)
(* gives the engine exactly one answer, which no later one replaces before *)
(* the engine has taken it.                                                *)
(*                                                                         *)
(* SwkbdShim is the code that implements this; FrameLoop uses it.          *)
(***************************************************************************)

CONSTANTS Fields,     \* text fields of the game that can ask for a keyboard
          NoField     \* no text field, and none of Fields

VARIABLES asked,      \* the field that asked for a keyboard, or NoField
          up,         \* the field whose keyboard is being run, or NoField
          answer      \* what the engine has yet to take

vars == <<asked, up, answer>>

NoAnswer == [ready |-> FALSE, for |-> NoField]

\* A keyboard closed with OK answers for its field; a cancelled or a failed
\* one answers with no text, so there is no field to speak of.
Answer(f) == [ready |-> TRUE, for |-> f]
Answers   == {NoAnswer} \cup {Answer(f) : f \in Fields \cup {NoField}}

TypeOK == /\ asked \in Fields \cup {NoField}
          /\ up \in Fields \cup {NoField}
          /\ answer \in Answers

Init == /\ asked = NoField
        /\ up = NoField
        /\ answer = NoAnswer

----------------------------------------------------------------------------
\* A request while another is outstanding is ignored.
Ask(f) == /\ asked = NoField
          /\ asked' = f
          /\ UNCHANGED <<up, answer>>

Withdraw == /\ asked' = NoField
            /\ UNCHANGED <<up, answer>>

\* Nothing opens over an answer the engine has not taken.
Open == /\ asked # NoField
        /\ up = NoField
        /\ ~answer.ready
        /\ up' = asked
        /\ UNCHANGED <<asked, answer>>

Close(f) == /\ up # NoField
            /\ f \in {up, NoField}
            /\ up' = NoField
            /\ asked' = NoField
            /\ answer' = Answer(f)

Take == /\ answer.ready
        /\ answer' = NoAnswer
        /\ UNCHANGED <<asked, up>>

Next == \/ \E f \in Fields : Ask(f)
        \/ Withdraw
        \/ Open
        \/ \E f \in Fields \cup {NoField} : Close(f)
        \/ Take

\* The player closes the keyboard, the engine draws frames, and the main
\* thread goes round its loop.
Fairness == /\ WF_vars(Open)
            /\ WF_vars(\E f \in Fields \cup {NoField} : Close(f))
            /\ WF_vars(Take)

Spec == Init /\ [][Next]_vars /\ Fairness
=============================================================================
