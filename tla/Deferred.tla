------------------------------ MODULE Deferred ------------------------------
(***************************************************************************)
(* What the engine asks Java for and gets later (source/jni_helpers.c): a  *)
(* dialog is cancelled, and the motors of the pad are stopped, by the game *)
(* thread between two frames.  The main thread stops the motors when the   *)
(* focus is lost.                                                          *)
(*                                                                         *)
(* A dialog is the number of its request.  The queue's lock is held for    *)
(* one step; the motors and their stop time have no lock.                  *)
(***************************************************************************)
EXTENDS Naturals, Sequences

CONSTANTS Slots,            \* DIALOG_QUEUE_MAX
          Kinds, Called,    \* of dialogs; those whose callback the engine has
          Length,           \* how long the motors run
          MaxAsked, MaxTime \* bounds

VARIABLES
  q, head, tail,            \* s_dialog_q, s_dialog_head, s_dialog_tail
  ready, motor, stopTick,   \* s_vib_ready, what the motors were sent, s_vib_stop_tick
  now,                      \* armGetSystemTick
  game, main, focused,      \* where the two threads are; s_focused
  asked, given,             \* the dialogs that were queued; those that were answered
  refused,                  \* how many were not queued
  crossed                   \* the motors were started in the middle of jni_rumble_stop

dialogs == <<q, head, tail, asked, given, refused>>
rumble == <<ready, motor, stopTick, crossed>>
vars == <<dialogs, rumble, now, game, main, focused>>

NoDialog == [id |-> 0, kind |-> "none"]
Places == 0..(Slots - 1)
Waiting == (head + Slots - tail) % Slots

Init ==
  /\ q = [i \in Places |-> NoDialog] /\ head = 0 /\ tail = 0
  /\ ready = FALSE /\ motor = FALSE /\ stopTick = 0 /\ now = 1
  /\ game = [at |-> "top", dialog |-> NoDialog, started |-> FALSE] /\ main = "loop" /\ focused = TRUE
  /\ asked = <<>> /\ given = <<>> /\ refused = 0 /\ crossed = FALSE

At(place) == game.at = place /\ ~game.started
GoTo(place) == game' = [at |-> place, dialog |-> NoDialog, started |-> FALSE]

----------------------------------------------------------------------------
(* Asked for: by the engine in a frame, or in the callback of a dialog      *)

Asking == At("step") \/ At("answer")

\* Whatever is waiting.
PostOverAny(kind) ==
  LET d == [id |-> Len(asked) + refused + 1, kind |-> kind]
  IN /\ Asking /\ d.id <= MaxAsked
     /\ q' = [q EXCEPT ![head] = d] /\ head' = (head + 1) % Slots
     /\ asked' = Append(asked, d)
     /\ UNCHANGED <<tail, given, refused, rumble, now, game, main, focused>>

\* jni_post_dialog_cancel: one place stays empty, and a full queue drops it.
Post(kind) ==
  LET d == [id |-> Len(asked) + refused + 1, kind |-> kind]
      next == (head + 1) % Slots
  IN /\ Asking /\ d.id <= MaxAsked
     /\ IF next # tail
        THEN q' = [q EXCEPT ![head] = d] /\ head' = next /\ asked' = Append(asked, d)
             /\ UNCHANGED refused
        ELSE refused' = refused + 1 /\ UNCHANGED <<q, head, asked>>
     /\ UNCHANGED <<tail, given, rumble, now, game, main, focused>>

\* jni_request_rumble, as far as the motors are sent; the devices are opened at
\* the first request that manages to.
Start ==
  /\ Asking
  /\ \/ ~ready /\ UNCHANGED <<ready, motor, crossed, game>>
     \/ ready' = TRUE /\ motor' = TRUE /\ game' = [game EXCEPT !.started = TRUE]
        /\ crossed' = (crossed \/ main = "stopping")
  /\ UNCHANGED <<stopTick, dialogs, now, main, focused>>

\* And its stop time.
Started ==
  /\ game.started
  /\ stopTick' = now + Length
  /\ game' = [game EXCEPT !.started = FALSE]
  /\ UNCHANGED <<ready, motor, crossed, dialogs, now, main, focused>>

\* A duration of nothing stops them.
StopRequest ==
  /\ Asking /\ ready' \in {ready, TRUE}
  /\ IF ready' THEN motor' = FALSE /\ stopTick' = 0 ELSE UNCHANGED <<motor, stopTick>>
  /\ UNCHANGED <<crossed, dialogs, now, game, main, focused>>

----------------------------------------------------------------------------
(* Done later: the game thread's loop                                      *)

\* Out of focus there are no frames.
Frame == At("top") /\ focused /\ GoTo("drain")
         /\ UNCHANGED <<dialogs, rumble, now, main, focused>>

\* jni_drain_dialog_queue takes one; the lock is let go before it is answered.
Drain ==
  /\ At("drain")
  /\ IF tail # head
     THEN tail' = (tail + 1) % Slots /\ game' = [game EXCEPT !.at = "answer", !.dialog = q[tail]]
     ELSE UNCHANGED tail /\ GoTo("tick")
  /\ UNCHANGED <<q, head, asked, given, refused, rumble, now, main, focused>>

\* The callback, if the engine has it, returns.
Answer ==
  /\ At("answer")
  /\ given' = IF game.dialog.kind \in Called THEN Append(given, game.dialog) ELSE given
  /\ GoTo("drain")
  /\ UNCHANGED <<q, head, tail, asked, refused, rumble, now, main, focused>>

\* jni_rumble_tick
Expire ==
  /\ At("tick")
  /\ IF stopTick # 0 /\ now >= stopTick
     THEN motor' = (motor /\ ~ready) /\ GoTo("expired")
     ELSE UNCHANGED motor /\ GoTo("step")
  /\ UNCHANGED <<ready, stopTick, crossed, dialogs, now, main, focused>>

Expired ==
  /\ At("expired")
  /\ stopTick' = 0 /\ GoTo("step")
  /\ UNCHANGED <<ready, motor, crossed, dialogs, now, main, focused>>

StepDone == At("step") /\ GoTo("top")
            /\ UNCHANGED <<dialogs, rumble, now, main, focused>>

----------------------------------------------------------------------------
(* The main thread                                                         *)

\* It sees the focus change; at a loss, jni_rumble_stop sends the motors zero ...
FocusChanges ==
  /\ main = "loop"
  /\ focused' = ~focused
  /\ IF focused THEN main' = "stopping" /\ motor' = (motor /\ ~ready)
     ELSE UNCHANGED <<main, motor>>
  /\ UNCHANGED <<ready, stopTick, crossed, dialogs, now, game>>

\* ... and forgets the stop time.
Stopped ==
  /\ main = "stopping"
  /\ stopTick' = 0 /\ main' = "loop"
  /\ UNCHANGED <<ready, motor, crossed, dialogs, now, game, focused>>

Time == now < MaxTime /\ now' = now + 1 /\ UNCHANGED <<dialogs, rumble, game, main, focused>>

----------------------------------------------------------------------------

Next ==
  \/ \E kind \in Kinds : Post(kind)
  \/ Start \/ Started \/ StopRequest
  \/ Frame \/ Drain \/ Answer \/ Expire \/ Expired \/ StepDone
  \/ FocusChanges \/ Stopped \/ Time

Spec == Init /\ [][Next]_vars

----------------------------------------------------------------------------
(* Properties                                                              *)

Queued == [i \in 1..Waiting |-> q[(tail + (i - 1)) % Slots]]
InHand == IF game.at = "answer" THEN <<game.dialog>> ELSE <<>>
InOrder(s) == \A i, j \in DOMAIN s : i < j => s[i].id < s[j].id
Answerable(s) == {d \in {s[i] : i \in DOMAIN s} : d.kind \in Called}

\* Every dialog the queue took is answered once, in the order of asking, or is
\* still on its way, and only a queue with Slots - 1 dialogs refuses one (no
\* caller waits for ever); and motors that run have a time at which they are
\* stopped, or are just about to be given it, unless they were started in the
\* middle of the main thread's own jni_rumble_stop, which then forgets that time.
DoneLater ==
  /\ InOrder(given \o InHand \o Queued)
  /\ {given[i] : i \in DOMAIN given} \cup Answerable(InHand \o Queued) = Answerable(asked)
  /\ refused > 0 => Len(asked) >= Slots - 1
  /\ motor => game.started \/ stopTick # 0 \/ crossed
=============================================================================
