-------------------------- MODULE FrameLoopProofs --------------------------
(***************************************************************************)
(* What FrameLoop guarantees for any set of text fields: its types, with   *)
(* the ties between the main thread's place, the keyboard and the fatal    *)
(* error, and that main() tears nothing down under the game thread.        *)
(***************************************************************************)
EXTENDS FrameLoop, TLAPS

USE NoFieldAssumption

\* One step of the keyboard leaves its types right.
LEMMA KeyboardType ==
  ASSUME Keyboard!TypeOK, [Keyboard!Next]_keyboard
  PROVE  Keyboard!TypeOK'
<1> USE DEF Keyboard!TypeOK, Keyboard!Answers, Keyboard!Answer, Keyboard!NoAnswer
<1>1. CASE UNCHANGED keyboard
  BY <1>1 DEF keyboard
<1>2. CASE \E f \in Fields : Keyboard!Ask(f)
  BY <1>2 DEF Keyboard!Ask
<1>3. CASE Keyboard!Withdraw
  BY <1>3 DEF Keyboard!Withdraw
<1>4. CASE Keyboard!Open
  BY <1>4 DEF Keyboard!Open
<1>5. CASE \E f \in Fields \cup {NoField} : Keyboard!Close(f)
  BY <1>5 DEF Keyboard!Close
<1>6. CASE Keyboard!Take
  BY <1>6 DEF Keyboard!Take
<1> QED
  BY <1>1, <1>2, <1>3, <1>4, <1>5, <1>6 DEF Keyboard!Next

LEMMA InitType == Init => TypeOK
  BY DEF Init, TypeOK, Keyboard!Init, Keyboard!TypeOK, Keyboard!Answers,
         LoopPcs, AppletPcs, LeavePcs, Over

LEMMA NextType == TypeOK /\ [Next]_vars => TypeOK'
<1> SUFFICES ASSUME TypeOK, [Next]_vars
             PROVE  TypeOK'
  OBVIOUS
<1> USE DEF TypeOK, LoopPcs, AppletPcs, LeavePcs, Over
<1>a. ASSUME UNCHANGED keyboard PROVE Keyboard!TypeOK' /\ UNCHANGED up
  BY <1>a, KeyboardType DEF keyboard
<1>1. CASE UNCHANGED vars
  BY <1>1, <1>a DEF vars, flags, console
<1>2. CASE Top
  BY <1>2, <1>a DEF Top, flags, console
<1>3. CASE ReadFocus
  BY <1>3, <1>a DEF ReadFocus, console
<1>4. CASE PumpKeyboard
  <2>1. CASE mainPc' = "web"
    BY <1>4, <2>1, <1>a DEF PumpKeyboard, flags, console
  <2>2. CASE mainPc' = "typing"
    <3>1. Keyboard!Open
      BY <1>4, <2>2 DEF PumpKeyboard
    <3>2. Keyboard!TypeOK' /\ up' # NoField
      BY <3>1, KeyboardType DEF Keyboard!Next, Keyboard!Open
    <3> QED
      BY <1>4, <2>2, <3>2 DEF PumpKeyboard, flags, console
  <2> QED
    BY <1>4, <2>1, <2>2 DEF PumpKeyboard
<1>5. CASE PumpBrowser
  BY <1>5, <1>a DEF PumpBrowser, flags, console
<1>6. CASE Watch
  BY <1>6, <1>a DEF Watch, flags, console
<1>7. CASE Leave
  BY <1>7, <1>a DEF Leave, console
<1>8. CASE Join
  BY <1>8, <1>a DEF Join, flags, console
<1>9. CASE Teardown
  BY <1>9, <1>a DEF Teardown, flags, console
<1>10. CASE KeyboardClosed
  <2>1. Keyboard!TypeOK' /\ up' = NoField
    BY <1>10, KeyboardType DEF KeyboardClosed, Keyboard!Next, Keyboard!Close
  <2> QED
    BY <1>10, <2>1 DEF KeyboardClosed, flags, console
<1>11. CASE BrowserClosed
  BY <1>11, <1>a DEF BrowserClosed, flags, console
<1>12. CASE SetupDone
  BY <1>12, <1>a DEF SetupDone, flags, console
<1>13. CASE SetupFails \/ StepFails
  BY <1>13, <1>a DEF SetupFails, StepFails, Park, console
<1>14. CASE LeaveStepLoop
  BY <1>14, <1>a DEF LeaveStepLoop, flags, console
<1>15. CASE Away
  BY <1>15, <1>a DEF Away, console
<1>16. CASE StartFrame
  BY <1>16, <1>a DEF StartFrame, console
<1>17. CASE Deliver
  <2>1. Keyboard!TypeOK' /\ UNCHANGED up
    BY <1>17, <1>a, KeyboardType DEF Deliver, Keyboard!Next, Keyboard!Take
  <2> QED
    BY <1>17, <2>1 DEF Deliver, flags, console
<1>18. CASE Step
  <2>1. Keyboard!TypeOK' /\ UNCHANGED up
    BY <1>18, <1>a, KeyboardType
    DEF Step, AskKeyboard, HideKeyboard, OpenPage, AskQuit, PlainFrame,
        Keyboard!Next, Keyboard!Ask, Keyboard!Withdraw
  <2>2. {quit, webPending}' \subseteq BOOLEAN
    BY <1>18 DEF Step, AskKeyboard, HideKeyboard, OpenPage, AskQuit, PlainFrame
  <2> QED
    BY <1>18, <2>1, <2>2 DEF Step, console
<1>19. CASE End
  BY <1>19, <1>a DEF End, console
<1>20. CASE WorkerFails
  BY <1>20, <1>a DEF WorkerFails, console
<1>21. CASE FocusMoves
  BY <1>21, <1>a DEF FocusMoves, flags
<1>22. CASE AskedToClose
  BY <1>22, <1>a DEF AskedToClose, flags
<1>23. CASE Ended
  BY <1>23, <1>1 DEF Ended
<1> QED
  BY <1>1, <1>2, <1>3, <1>4, <1>5, <1>6, <1>7, <1>8, <1>9, <1>10, <1>11, <1>12, <1>13,
     <1>14, <1>15, <1>16, <1>17, <1>18, <1>19, <1>20, <1>21, <1>22, <1>23
  DEF Next, MainLoop, MainExit, Applets, Game

\* The keyboard is up exactly while main() is inside swkbdShow, and a fatal
\* error is pending exactly while a thread is parked in fatal_error().
THEOREM TypeCorrect == Spec => []TypeOK
  BY InitType, NextType, PTL DEF Spec

----------------------------------------------------------------------------
LEMMA NextAlone == TeardownAlone /\ [Next]_vars => TeardownAlone'
<1> SUFFICES ASSUME TeardownAlone, [Next]_vars
             PROVE  TeardownAlone'
  OBVIOUS
<1> USE DEF TeardownAlone
<1>1. CASE UNCHANGED vars \/ Ended
  BY <1>1 DEF vars, Ended
<1>2. CASE MainLoop \/ Applets
  BY <1>2 DEF MainLoop, Applets, Top, ReadFocus, PumpKeyboard, PumpBrowser, Watch,
              KeyboardClosed, BrowserClosed
<1>3. CASE MainExit
  BY <1>3 DEF MainExit, Leave, Join, Teardown
<1>4. CASE Game
  BY <1>4 DEF Game, SetupDone, SetupFails, StepFails, Park, LeaveStepLoop, Away, StartFrame,
              Deliver, Step, End
<1>5. CASE WorkerFails \/ FocusMoves \/ AskedToClose
  BY <1>5 DEF WorkerFails, FocusMoves, AskedToClose
<1> QED
  BY <1>1, <1>2, <1>3, <1>4, <1>5 DEF Next

\* main() closes the thread, resets the clocks and destroys the EGL context only
\* when the game thread, which uses all of them, has gone.
THEOREM AloneAtTheEnd == Spec => []TeardownAlone
<1>1. Init => TeardownAlone
  BY DEF Init, TeardownAlone
<1>2. QED
  BY <1>1, NextAlone, PTL DEF Spec
=============================================================================
