----------------------------- MODULE SwkbdShim -----------------------------
(***************************************************************************)
(* The software keyboard (source/swkbd_shim.c).  The engine thread queues  *)
(* a request and takes the result; the main thread runs the system applet  *)
(* in between.  They share s_req, s_res, s_showing, s_closed_tick and the  *)
(* helper's hint under s_lock, and the main thread drops that lock between *)
(* copying the request, marking the keyboard as showing and storing the    *)
(* result, so the engine can run between any two of those.                 *)
(*                                                                         *)
(* A text is known by the field it belongs to: the text a request starts   *)
(* from and the text a keyboard returns are those of one field.  The       *)
(* engine's side is external (Godot) except the helper script that the     *)
(* repository ships, port/switch_port.gd, which names the focused field    *)
(* and puts the result into it.                                            *)
(***************************************************************************)

CONSTANTS Fields,     \* text fields of the game
          NoField     \* no text field has the focus

ASSUME NoFieldAssumption == NoField \notin Fields

VARIABLES
  req,          \* s_req: pending, and the field whose text it starts from
  res,          \* s_res: ready, cancelled, and the field whose text it holds
  showing,      \* s_showing
  recent,       \* s_closed_tick is set and less than KBD_REOPEN_GUARD_MS old
  hint,         \* s_hint_kind/s_hint_guide: the field the helper named
  helperSeen,   \* s_helper_seen
  pump,         \* where swkbd_pump is
  pumpReq,      \* swkbd_pump's copy of the request
  pumpHint,     \* swkbd_pump's copy of the hint
  frame,        \* where the engine thread is in a frame
  focus,        \* external: the field that has the engine's focus
  moveTo,       \* external: the field the focus is moving to
  target,       \* _kbd_target of switch_port.gd
  out           \* what swkbd_deliver handed over and nobody has read yet

shared  == <<req, res, showing, recent, hint, helperSeen>>
mainPc  == <<pump, pumpReq, pumpHint>>
engine  == <<frame, focus, moveTo, target, out>>
vars    == <<shared, mainPc, engine>>

Focusable == Fields \cup {NoField}
NoOutput  == [how |-> "none", for |-> NoField]

TypeOK ==
  /\ req \in [pending : BOOLEAN, for : Focusable]
  /\ req.pending => req.for \in Fields
  /\ res \in [ready : BOOLEAN, cancelled : BOOLEAN, for : Focusable]
  /\ showing \in BOOLEAN
  /\ recent \in BOOLEAN
  /\ hint \in Focusable
  /\ helperSeen \in BOOLEAN
  /\ pump \in {"idle", "taken", "up"}
  /\ pumpReq \in Focusable
  /\ pump # "idle" => pumpReq \in Fields
  /\ pumpHint \in Focusable
  /\ frame \in {"between", "step", "naming", "asking", "drawn"}
  /\ focus \in Focusable
  /\ moveTo \in Focusable
  /\ target \in Focusable
  /\ out \in [how : {"none", "text", "cancel", "keys"}, for : Focusable]

Init ==
  /\ req = [pending |-> FALSE, for |-> NoField]
  /\ res = [ready |-> FALSE, cancelled |-> FALSE, for |-> NoField]
  /\ showing = FALSE
  /\ recent = FALSE
  /\ hint = NoField
  /\ helperSeen = FALSE
  /\ pump = "idle"
  /\ pumpReq = NoField
  /\ pumpHint = NoField
  /\ frame = "between"
  /\ focus = NoField
  /\ moveTo = NoField
  /\ target = NoField
  /\ out = NoOutput

----------------------------------------------------------------------------
(* What the engine calls.  Each runs under s_lock, so each is one step.    *)

\* swkbd_request forgetting that the keyboard has only just closed.
RequestAnyTime(f) ==
  req' = IF req.pending THEN req ELSE [pending |-> TRUE, for |-> f]

\* swkbd_request: ignored while one is pending or just after a keyboard.
Request(f) ==
  req' = IF req.pending \/ recent THEN req ELSE [pending |-> TRUE, for |-> f]

\* swkbd_hide: too late once the applet is up.
Hide == req' = IF showing THEN req ELSE [req EXCEPT !.pending = FALSE]

----------------------------------------------------------------------------
(* The engine thread: swkbd_deliver between frames, then GodotLib.step, in *)
(* which the focus moves at most once.                                     *)

\* swkbd_deliver.  The lock is held only to take the result; everything
\* after that is the engine thread's own.
DeliverResult ==
  IF ~res.ready
  THEN UNCHANGED <<res, out>>
  ELSE /\ res' = [res EXCEPT !.ready = FALSE]
       /\ out' = IF res.cancelled
                 THEN IF helperSeen THEN [how |-> "cancel", for |-> NoField]
                                    ELSE NoOutput
                 ELSE [how |-> IF helperSeen THEN "text" ELSE "keys",
                       for |-> res.for]

Deliver ==
  /\ frame = "between"
  /\ DeliverResult
  /\ frame' = "step"
  /\ UNCHANGED <<req, showing, recent, hint, helperSeen, mainPc, focus, moveTo, target>>

\* A text field that loses the focus hides the keyboard first.
StartMove(f) ==
  /\ frame = "step"
  /\ f # focus
  /\ moveTo' = f
  /\ focus' = NoField
  /\ frame' = "naming"
  /\ IF focus # NoField THEN Hide ELSE UNCHANGED req
  /\ UNCHANGED <<res, showing, recent, hint, helperSeen, mainPc, target, out>>

\* The helper naming only the first field of all.
NameFirstField ==
  /\ frame = "naming"
  /\ target' = moveTo
  /\ hint' = IF helperSeen THEN hint ELSE moveTo
  /\ helperSeen' = (helperSeen \/ hint # moveTo)
  /\ frame' = "asking"
  /\ UNCHANGED <<req, res, showing, recent, mainPc, focus, moveTo, out>>

\* _on_focus_changed -> OS.set_environment -> sm127_setenv.
NameField ==
  /\ frame = "naming"
  /\ target' = moveTo
  /\ hint' = moveTo
  /\ helperSeen' = (helperSeen \/ hint # moveTo)
  /\ frame' = "asking"
  /\ UNCHANGED <<req, res, showing, recent, mainPc, focus, moveTo, out>>

\* The field's own focus notification, after the helper's: showKeyboard.
GainFocus ==
  /\ frame = "asking"
  /\ focus' = moveTo
  /\ IF moveTo # NoField THEN Request(moveTo) ELSE UNCHANGED req
  /\ frame' = "drawn"
  /\ UNCHANGED <<res, showing, recent, hint, helperSeen, mainPc, moveTo, target, out>>

\* LineEdit asks again on the release of the click that focused it.
ClickReleased ==
  /\ frame = "step"
  /\ focus # NoField
  /\ Request(focus)
  /\ frame' = "drawn"
  /\ UNCHANGED <<res, showing, recent, hint, helperSeen, mainPc, focus, moveTo, target, out>>

NothingHappens ==
  /\ frame = "step"
  /\ frame' = "drawn"
  /\ UNCHANGED <<shared, mainPc, focus, moveTo, target, out>>

\* _kbd_poll and _kbd_done: the result goes into the target field, which then
\* lets go of the focus, and with it of the keyboard.
HelperPoll ==
  /\ frame = "drawn"
  /\ out.how # "none"
  /\ out' = NoOutput
  /\ IF out.how # "keys" /\ target # NoField /\ target = focus
     THEN focus' = NoField /\ Hide
     ELSE UNCHANGED <<focus, req>>
  /\ UNCHANGED <<res, showing, recent, hint, helperSeen, mainPc, frame, moveTo, target>>

FrameDone ==
  /\ frame = "drawn"
  /\ out.how = "none"
  /\ frame' = "between"
  /\ UNCHANGED <<shared, mainPc, focus, moveTo, target, out>>

----------------------------------------------------------------------------
(* The main thread: swkbd_pump, called while the game has the console's    *)
(* focus (FrameLoop).                                                      *)

\* The pump without its look at s_req.pending.
TakeNothing ==
  /\ pump = "idle"
  /\ ~res.ready
  /\ pump' = "taken"
  /\ pumpReq' = req.for
  /\ UNCHANGED <<shared, pumpHint, engine>>

\* The pump without its look at s_res.ready.
TakeRequestOverAnswer ==
  /\ pump = "idle"
  /\ req.pending
  /\ pump' = "taken"
  /\ pumpReq' = req.for
  /\ UNCHANGED <<shared, pumpHint, engine>>

TakeRequest ==
  /\ pump = "idle"
  /\ req.pending
  /\ ~res.ready
  /\ pump' = "taken"
  /\ pumpReq' = req.for
  /\ UNCHANGED <<shared, pumpHint, engine>>

\* swkbdCreate failed: an answer without a keyboard, and no guard time.
CreateFails ==
  /\ pump = "taken"
  /\ pump' = "idle"
  /\ req' = [req EXCEPT !.pending = FALSE]
  /\ res' = [res EXCEPT !.ready = TRUE, !.cancelled = TRUE]
  /\ UNCHANGED <<showing, recent, hint, helperSeen, pumpReq, pumpHint, engine>>

\* The hint is read and s_showing set in one critical section; swkbdShow.
Show ==
  /\ pump = "taken"
  /\ pump' = "up"
  /\ pumpHint' = hint
  /\ showing' = TRUE
  /\ UNCHANGED <<req, res, recent, hint, helperSeen, pumpReq, engine>>

\* swkbdShow returned: OK, or cancelled or failed.
Close(cancelled) ==
  /\ pump = "up"
  /\ pump' = "idle"
  /\ recent' = TRUE
  /\ showing' = FALSE
  /\ req' = [req EXCEPT !.pending = FALSE]
  /\ res' = [ready |-> TRUE, cancelled |-> cancelled, for |-> pumpReq]
  /\ UNCHANGED <<hint, helperSeen, pumpReq, pumpHint, engine>>

\* KBD_REOPEN_GUARD_MS have passed since the keyboard closed.
GuardOver ==
  /\ recent
  /\ recent' = FALSE
  /\ UNCHANGED <<req, res, showing, hint, helperSeen, mainPc, engine>>

----------------------------------------------------------------------------
Pump == \/ TakeRequest
        \/ CreateFails
        \/ Show
        \/ \E cancelled \in BOOLEAN : Close(cancelled)

Engine == \/ Deliver
          \/ \E f \in Focusable : StartMove(f)
          \/ NameField
          \/ GainFocus
          \/ ClickReleased
          \/ NothingHappens
          \/ HelperPoll
          \/ FrameDone

Next == Pump \/ Engine \/ GuardOver

\* The main loop and the frame loop never stop by themselves, and the player
\* closes a keyboard that is up.
Fairness == /\ WF_vars(TakeRequest)
            /\ WF_vars(CreateFails \/ Show)
            /\ WF_vars(\E cancelled \in BOOLEAN : Close(cancelled))
            /\ WF_vars(Engine)

Spec == Init /\ [][Next]_vars /\ Fairness

----------------------------------------------------------------------------
(* Properties                                                              *)

\* The code implements KeyboardService: one keyboard at a time, opened only
\* for an outstanding request, each giving exactly one answer, for its own
\* field, that nothing replaces before swkbd_deliver takes it.
Service ==
  INSTANCE KeyboardService WITH
    asked  <- IF req.pending THEN req.for ELSE NoField,
    up     <- IF pump = "idle" THEN NoField ELSE pumpReq,
    answer <- [ready |-> res.ready,
               for   |-> IF res.ready /\ ~res.cancelled THEN res.for ELSE NoField]

ImplementsService == Service!Spec

\* A keyboard that has just closed leaves no request behind, and none gets in
\* until the guard time is over, so the release of the click that focused the
\* field cannot open a second keyboard (the comment on KBD_REOPEN_GUARD_MS).
QuietAfterClose == recent => ~req.pending /\ pump = "idle"

\* A keyboard is configured for another field than the one whose text it
\* edits only when that field has lost the focus meanwhile: otherwise the hint
\* read at show time is the asker's own (comment in swkbd_pump).
KindIsTheAskers ==
  [][Show => hint = pumpReq \/ focus # pumpReq]_vars

\* While the applet is up a request waiting in s_req is the one it was opened
\* for: no second request queues behind it (the comment on s_showing), where
\* the close would drop it.
NothingQueuedBehind == pump = "up" /\ req.pending => req.for = pumpReq
=============================================================================
