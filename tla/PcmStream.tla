----------------------------- MODULE PcmStream -----------------------------
(***************************************************************************)
(* What the sound path promises: a bounded line of frames.  The frames put *)
(* in are the game's signal sampled at even steps, with nothing left out,  *)
(* repeated or bent where one of the game's buffers ends and the next      *)
(* begins; they come out in the order in which they went in.               *)
(*                                                                         *)
(* A frame is the place of the signal it was sampled at, modulo Wrap.      *)
(***************************************************************************)
EXTENDS Naturals, Sequences

CONSTANTS
  Stride,      \* from one frame to the next
  Wrap,        \* places are counted modulo Wrap
  Capacity     \* frames the line holds

VARIABLES
  next,        \* the place of the next frame to go in
  pending      \* the frames in the line

vars == <<next, pending>>

Init == next = 0 /\ pending = <<>>

\* Some frames go in.
Accept(n) ==
  /\ n > 0 /\ Len(pending) + n <= Capacity
  /\ pending' = pending \o [i \in 1..n |-> (next + (i - 1) * Stride) % Wrap]
  /\ next' = (next + n * Stride) % Wrap

\* Some frames are played.
Play(n) ==
  /\ n \in 1..Len(pending)
  /\ pending' = SubSeq(pending, n + 1, Len(pending))
  /\ UNCHANGED next

Next == \E n \in 1..Capacity : Accept(n) \/ Play(n)

Spec == Init /\ [][Next]_vars
=============================================================================
