----------------------------- MODULE FrameLoop -----------------------------
(***************************************************************************)
(* The life of the program once the engine is loaded (source/main.c): the  *)
(* main thread, which owns the applets, the console's focus and the exit;  *)
(* the game thread, which owns the engine; and any thread of the engine,   *)
(* which may raise a fatal error (source/error.c).  The software keyboard  *)
(* appears as KeyboardService, which SwkbdShim implements; the browser     *)
(* (source/web_applet.c) is small enough to be here.                       *)
(*                                                                         *)
(* s_focused, s_game_running, jni_quit_requested and s_pending are plain   *)
(* volatile flags: each thread reads them where its loop does.             *)
(***************************************************************************)

CONSTANTS Fields, NoField      \* of KeyboardService

ASSUME NoFieldAssumption == NoField \notin Fields

VARIABLES
  mainPc,         \* where the main thread is in main()
  gamePc,         \* where the game thread is in game_thread_fn
  workerParked,   \* an engine thread has called fatal_error() and sleeps
  running,        \* s_game_running
  quit,           \* jni_quit_requested
  fatal,          \* s_pending of error.c
  focused,        \* s_focused
  paused,         \* the game thread has told the engine it is paused
  webPending,     \* s_pending of web_applet.c
  inFocus,        \* external: the console shows this program
  closing,        \* external: the system has asked the program to close
  asked, up, answer   \* the keyboard

flags    == <<running, quit, fatal, focused, paused>>
console  == <<inFocus, closing>>
keyboard == <<asked, up, answer>>
vars == <<mainPc, gamePc, workerParked, flags, webPending, console, keyboard>>

Keyboard == INSTANCE KeyboardService

\* The main loop, what follows it, and the two ways main() ends the process.
LoopPcs   == {"top", "focus", "keyboard", "web", "watch"}
AppletPcs == {"typing", "browsing"}
LeavePcs  == {"leaving", "joining", "teardown"}
Over      == {"exited", "fatal"}

TypeOK ==
  /\ mainPc \in LoopPcs \cup AppletPcs \cup LeavePcs \cup Over
  /\ gamePc \in {"boot", "top", "deliver", "step", "ending", "gone", "parked"}
  /\ {workerParked, running, quit, fatal, focused, paused, webPending, inFocus, closing}
       \subseteq BOOLEAN
  /\ Keyboard!TypeOK
  /\ mainPc = "typing" <=> up # NoField
  /\ fatal <=> workerParked \/ gamePc = "parked"

Init ==
  /\ mainPc = "top"
  /\ gamePc = "boot"
  /\ workerParked = FALSE
  /\ running = TRUE
  /\ quit = FALSE
  /\ fatal = FALSE
  /\ focused = TRUE
  /\ paused = FALSE
  /\ webPending = FALSE
  /\ inFocus = TRUE
  /\ closing = FALSE
  /\ Keyboard!Init

\* Once main() has ended the process no other thread runs.
Alive == mainPc \notin Over

----------------------------------------------------------------------------
(* The main thread.  Each action is one stretch of the loop body between   *)
(* two of its looks at what the other threads write.                       *)

\* The loop without its poll of fatal_error_pending().
TopBlind ==
  /\ mainPc = "top"
  /\ mainPc' = IF closing \/ ~running THEN "leaving" ELSE "focus"
  /\ UNCHANGED <<gamePc, workerParked, flags, webPending, console, keyboard>>

\* while (appletMainLoop() && s_game_running), then the fatal error, if any.
Top ==
  /\ mainPc = "top"
  /\ mainPc' = IF closing \/ ~running THEN "leaving"
               ELSE IF fatal THEN "fatal" ELSE "focus"
  /\ UNCHANGED <<gamePc, workerParked, flags, webPending, console, keyboard>>

\* The focus noticed only when it comes back.
ReadFocusGained ==
  /\ mainPc = "focus"
  /\ focused' = (focused \/ inFocus)
  /\ mainPc' = "keyboard"
  /\ UNCHANGED <<gamePc, workerParked, running, quit, fatal, paused, webPending,
                 console, keyboard>>

ReadFocus ==
  /\ mainPc = "focus"
  /\ focused' = inFocus
  /\ mainPc' = "keyboard"
  /\ UNCHANGED <<gamePc, workerParked, running, quit, fatal, paused, webPending,
                 console, keyboard>>

\* s_focused && swkbd_is_pending(), then swkbd_pump, which shows nothing
\* while an answer is waiting.
PumpKeyboard ==
  /\ mainPc = "keyboard"
  /\ IF focused /\ asked # NoField /\ ~answer.ready
     THEN Keyboard!Open /\ mainPc' = "typing"
     ELSE UNCHANGED keyboard /\ mainPc' = "web"
  /\ UNCHANGED <<gamePc, workerParked, flags, webPending, console>>

KeyboardClosed ==
  /\ mainPc = "typing"
  /\ \E f \in Fields \cup {NoField} : Keyboard!Close(f)
  /\ mainPc' = "web"
  /\ UNCHANGED <<gamePc, workerParked, flags, webPending, console>>

\* s_focused && web_is_pending(), then web_pump.
PumpBrowser ==
  /\ mainPc = "web"
  /\ mainPc' = IF focused /\ webPending THEN "browsing" ELSE "watch"
  /\ UNCHANGED <<gamePc, workerParked, flags, webPending, console, keyboard>>

BrowserClosed ==
  /\ mainPc = "browsing"
  /\ webPending' = FALSE
  /\ mainPc' = "watch"
  /\ UNCHANGED <<gamePc, workerParked, flags, console, keyboard>>

\* The watchdog (Clocks has it) and the sleep.
Watch ==
  /\ mainPc = "watch"
  /\ mainPc' = "top"
  /\ UNCHANGED <<gamePc, workerParked, flags, webPending, console, keyboard>>

\* After the loop: say why, and tell the game thread.
Leave ==
  /\ mainPc = "leaving"
  /\ running' = FALSE
  /\ mainPc' = "joining"
  /\ UNCHANGED <<gamePc, workerParked, quit, fatal, focused, paused, webPending,
                 console, keyboard>>

\* Leaving without waiting for the game thread.
JoinAtOnce ==
  /\ mainPc = "joining"
  /\ mainPc' = "teardown"
  /\ UNCHANGED <<gamePc, workerParked, flags, webPending, console, keyboard>>

\* threadWaitForExit.
Join ==
  /\ mainPc = "joining"
  /\ gamePc = "gone"
  /\ mainPc' = "teardown"
  /\ UNCHANGED <<gamePc, workerParked, flags, webPending, console, keyboard>>

\* Clocks back to stock, EGL torn down, __libnx_exit(0).
Teardown ==
  /\ mainPc = "teardown"
  /\ mainPc' = "exited"
  /\ UNCHANGED <<gamePc, workerParked, flags, webPending, console, keyboard>>

MainLoop == Top \/ ReadFocus \/ PumpKeyboard \/ PumpBrowser \/ Watch
MainExit == Leave \/ Join \/ Teardown
Applets  == KeyboardClosed \/ BrowserClosed
----------------------------------------------------------------------------
(* The game thread.                                                        *)

\* Sleeping for ever without raising s_pending.
ParkSilently == /\ gamePc' = "parked"
                /\ UNCHANGED <<mainPc, workerParked, flags, webPending, console, keyboard>>

\* fatal_error() off the main thread: leave the message and sleep for ever.
\* exit() on the main thread ends the process.
Park == /\ fatal' = TRUE
        /\ gamePc' = "parked"
        /\ UNCHANGED <<mainPc, workerParked, running, quit, focused, paused, webPending,
                       console, keyboard>>

\* e_setup() said no.
SetupFails == Alive /\ gamePc = "boot" /\ Park

SetupDone ==
  /\ Alive
  /\ gamePc = "boot"
  /\ gamePc' = "top"
  /\ UNCHANGED <<mainPc, workerParked, flags, webPending, console, keyboard>>

\* while (s_game_running && !jni_quit_requested), and out of it.
LeaveStepLoop ==
  /\ Alive
  /\ gamePc = "top"
  /\ ~running \/ quit
  /\ gamePc' = "ending"
  /\ UNCHANGED <<mainPc, workerParked, flags, webPending, console, keyboard>>

\* Away: tell the engine once, then sleep and look again.
Away ==
  /\ Alive
  /\ gamePc = "top"
  /\ running /\ ~quit /\ ~focused
  /\ paused' = TRUE
  /\ UNCHANGED <<mainPc, gamePc, workerParked, running, quit, fatal, focused, webPending,
                 console, keyboard>>

\* A game that stays paused.
StartFrameUnpaused ==
  /\ Alive
  /\ gamePc = "top"
  /\ running /\ ~quit /\ focused /\ ~paused
  /\ gamePc' = "deliver"
  /\ UNCHANGED <<mainPc, workerParked, flags, webPending, console, keyboard>>

\* In focus: tell the engine if it was paused, and begin a frame.
StartFrame ==
  /\ Alive
  /\ gamePc = "top"
  /\ running /\ ~quit /\ focused
  /\ paused' = FALSE
  /\ gamePc' = "deliver"
  /\ UNCHANGED <<mainPc, workerParked, running, quit, fatal, focused, webPending,
                 console, keyboard>>

\* swkbd_deliver.
Deliver ==
  /\ Alive
  /\ gamePc = "deliver"
  /\ gamePc' = "step"
  /\ IF answer.ready THEN Keyboard!Take ELSE UNCHANGED keyboard
  /\ UNCHANGED <<mainPc, workerParked, flags, webPending, console>>

\* What one GodotLib.step() may ask of the wrapper: a keyboard, or its end;
\* a web page, dropped while one is pending; to quit (forceQuit, restart).
AskKeyboard == /\ \E f \in Fields : Keyboard!Ask(f)
               /\ UNCHANGED <<quit, webPending>>
HideKeyboard == /\ Keyboard!Withdraw
                /\ UNCHANGED <<quit, webPending>>
OpenPage == /\ webPending' = TRUE
            /\ UNCHANGED <<quit, keyboard>>
AskQuit == /\ quit' = TRUE
           /\ UNCHANGED <<webPending, keyboard>>
PlainFrame == UNCHANGED <<quit, webPending, keyboard>>

Step ==
  /\ Alive
  /\ gamePc = "step"
  /\ AskKeyboard \/ HideKeyboard \/ OpenPage \/ AskQuit \/ PlainFrame
  /\ gamePc' = "top"
  /\ UNCHANGED <<mainPc, workerParked, running, fatal, focused, paused, console>>

StepFails == Alive /\ gamePc = "step" /\ Park

\* A game thread that ends without telling the main thread.
EndQuietly ==
  /\ Alive
  /\ gamePc = "ending"
  /\ gamePc' = "gone"
  /\ UNCHANGED <<mainPc, workerParked, flags, webPending, console, keyboard>>

\* ondestroy, glthread_stop, s_game_running = 0.
End ==
  /\ Alive
  /\ gamePc = "ending"
  /\ running' = FALSE
  /\ gamePc' = "gone"
  /\ UNCHANGED <<mainPc, workerParked, quit, fatal, focused, paused, webPending,
                 console, keyboard>>

Game == SetupDone \/ SetupFails \/ LeaveStepLoop \/ Away \/ StartFrame \/ Deliver
          \/ Step \/ StepFails \/ End

\* fatal_error() on another thread of the engine.
WorkerFails ==
  /\ Alive
  /\ ~workerParked
  /\ workerParked' = TRUE
  /\ fatal' = TRUE
  /\ UNCHANGED <<mainPc, gamePc, running, quit, focused, paused, webPending,
                 console, keyboard>>

----------------------------------------------------------------------------
(* The console (external).                                                 *)

FocusMoves ==
  /\ Alive
  /\ inFocus' = ~inFocus
  /\ UNCHANGED <<mainPc, gamePc, workerParked, flags, webPending, closing, keyboard>>

AskedToClose ==
  /\ Alive
  /\ ~closing
  /\ closing' = TRUE
  /\ UNCHANGED <<mainPc, gamePc, workerParked, flags, webPending, inFocus, keyboard>>

\* A process that has ended stays so.
Ended == ~Alive /\ UNCHANGED vars

Next == MainLoop \/ MainExit \/ Applets \/ Game \/ WorkerFails
          \/ FocusMoves \/ AskedToClose \/ Ended

\* Both threads are scheduled, every engine step returns, and the player
\* closes the applets.
Fairness == /\ WF_vars(MainLoop)
            /\ WF_vars(MainExit)
            /\ WF_vars(Applets)
            /\ WF_vars(Game)

Spec == Init /\ [][Next]_vars /\ Fairness

----------------------------------------------------------------------------
(* Properties                                                              *)

\* The EGL context and the clocks are taken down only when the game thread,
\* which draws with them, is gone (main.c after the loop).
TeardownAlone == mainPc \in {"teardown", "exited"} => gamePc = "gone"

\* However the end is asked for -- by the engine, by the system, by the game
\* thread ending -- the process ends, unless a fatal error parks the game
\* thread on the way.
EndIsReached ==
  closing \/ quit \/ ~running ~> ~Alive \/ gamePc = "parked"

\* A fatal error is shown as long as main() is still looping: no applet, no
\* loss of focus and no other thread can keep it from being shown, only the
\* end of the loop itself.
FatalShownInLoop == fatal ~> mainPc \in {"fatal"} \cup LeavePcs \cup {"exited"}

\* While the program stays away the engine is paused and stays so (main.c, step
\* loop).
PausedWhileAway ==
  <>[]~inFocus => <>[](paused \/ gamePc \in {"ending", "gone", "parked"} \/ ~Alive)

\* A keyboard that was asked for is shown or withdrawn and its answer taken,
\* whatever applets, page requests and losses of focus come between, once the
\* program stays in focus and the game goes on.
KeyboardServed ==
  <>[]inFocus =>
    /\ asked # NoField ~> asked = NoField \/ gamePc \in {"ending", "gone", "parked"}
                             \/ mainPc \in LeavePcs \cup Over
    /\ answer.ready ~> ~answer.ready \/ gamePc \in {"ending", "gone", "parked"}
                             \/ mainPc \in LeavePcs \cup Over

\* error.c, fatal_error: "main()'s loop polls fatal_error_pending() and shows
\* it from there. Park forever; the process exits from the main thread."
FatalIsShown == fatal ~> mainPc = "fatal"
=============================================================================
