----------------------------- MODULE AudioPath -----------------------------
(***************************************************************************)
(* The sound path: the OpenSL player with its buffer queue, resampler and  *)
(* feeder thread (source/audio.c), the sink's ring of frames and its       *)
(* feeder (source/audio_sink.c), and the main thread, which pauses the     *)
(* sink while the program is out of focus.                                 *)
(*                                                                         *)
(* The game's driver (external) owns a few buffers: it enqueues some of    *)
(* them, starts playback, and from then on fills and enqueues one buffer   *)
(* in every callback.  Its samples are numbered, modulo Samples; an output *)
(* frame is the place between two samples it was interpolated at, or Click *)
(* when those two are not neighbours.                                      *)
(***************************************************************************)
EXTENDS Integers, Sequences

CONSTANTS
  InRate, OutRate,   \* the player's rate and the sink's
  BufferSamples,     \* samples in one of the game's buffers
  Slots, Prefill,    \* the game's buffers, and how many it enqueues at the start
  QueueCap,          \* QUEUE_CAP
  RingFrames,        \* RING_FRAMES
  MixFrames,         \* SINK_FRAMES_PER_BUF
  Samples            \* bound: samples are numbered modulo Samples

ASSUME AudioPathAssumption ==
  /\ {InRate, OutRate, BufferSamples, Slots, Prefill, QueueCap, RingFrames, MixFrames,
      Samples} \subseteq Nat \ {0}
  /\ InRate <= OutRate /\ RingFrames > 1
  /\ Prefill <= Slots /\ Samples % BufferSamples = 0
\* The driver has no more buffers than the queue has places (Godot's has two).
ASSUME QueueAssumption == Prefill <= QueueCap

VARIABLES
  state, queue,          \* the player: state, and the slots in q
  feeder,                \* where feeder() is
  ready,                 \* s_audout_ready
  phase, prev,           \* rphase in OutRate-ths of a sample, prevL
  chunk, written,        \* frames converted and not yet in the ring; how many ever were
  data, head, tail,      \* the ring
  sink,                  \* where feeder_thread() is
  paused,                \* s_paused
  mem, fill, sampled     \* external: what each slot holds, the next one, the next sample

player == <<state, queue>>
resampler == <<phase, prev>>
ring == <<data, head, tail>>
driver == <<mem, fill, sampled>>
vars == <<player, feeder, ready, resampler, chunk, written, ring, sink, paused, driver>>

Slot   == 0..(Slots - 1)
Index  == 0..(RingFrames - 1)
Sample == 0..(Samples - 1)
Places == OutRate * Samples
Click  == -1
Frame  == 0..(Places - 1) \cup {Click}

\* ring_used, ring_free (one frame is kept empty) and the frames in the ring.
Used  == (head - tail) % RingFrames
Free  == RingFrames - 1 - Used
InRing == [i \in 1..Used |-> data[(tail + i - 1) % RingFrames]]

TypeOK ==
  /\ state \in {"stopped", "paused", "playing"}
  /\ queue \in Seq(Slot) /\ Len(queue) <= QueueCap
  /\ feeder \in {"unborn", "ensure", "check", "pop", "write", "full", "callback", "idle"}
  /\ {ready, paused} \subseteq BOOLEAN
  /\ phase \in 0..(2 * OutRate) /\ prev \in Sample
  /\ chunk \in Seq(Frame) /\ written \in 0..(Places - 1)
  /\ data \in [Index -> Frame] /\ head \in Index /\ tail \in Index
  /\ sink \in {"closed", "device", "mix"}
  /\ mem \in [Slot -> Sample] /\ fill \in Slot /\ sampled \in Sample

Init ==
  /\ state = "stopped" /\ queue = <<>> /\ feeder = "unborn" /\ ready = FALSE
  /\ phase = 0 /\ prev = Samples - 1
  /\ chunk = <<>> /\ written = 0
  /\ data = [i \in Index |-> 0] /\ head = 0 /\ tail = 0
  /\ sink = "closed" /\ paused = FALSE
  /\ mem = [s \in Slot |-> 0] /\ fill = 0 /\ sampled = 0

----------------------------------------------------------------------------
(* convert: linear interpolation, its phase carried from buffer to buffer. *)

\* A frame at phase p between the previous sample and this one.
FrameAt(before, this, p) ==
  IF this = (before + 1) % Samples THEN (this * OutRate + p) % Places ELSE Click

MaxOut == (BufferSamples * OutRate) \div InRate + 4

\* One input sample: a frame at every InRate-th of OutRate below one sample.
Interpolate(acc, this) ==
  LET due  == IF acc.phase < OutRate
              THEN (OutRate - acc.phase + InRate - 1) \div InRate ELSE 0
      room == MaxOut - Len(acc.out)
      n    == IF due < room THEN due ELSE room
  IN [phase |-> acc.phase + n * InRate - OutRate,
      prev  |-> this,
      out   |-> acc.out \o [i \in 1..n |->
                              FrameAt(acc.prev, this, acc.phase + (i - 1) * InRate)]]

\* The samples of a slot's buffer, one after the other.
Resampled(start, slot) ==
  LET made[k \in 0..BufferSamples] ==
        IF k = 0 THEN start ELSE Interpolate(made[k - 1], (mem[slot] + k - 1) % Samples)
  IN made[BufferSamples]

\* A resampler that begins every buffer afresh.
ConvertAfresh(slot) == Resampled([phase |-> 0, prev |-> prev, out |-> <<>>], slot)

Convert(slot) == Resampled([phase |-> phase, prev |-> prev, out |-> <<>>], slot)

----------------------------------------------------------------------------
(* The game's calls.                                                       *)

\* The driver fills its next buffer (external).
FillNext ==
  /\ mem' = [mem EXCEPT ![fill] = sampled]
  /\ fill' = (fill + 1) % Slots
  /\ sampled' = (sampled + BufferSamples) % Samples

\* condvarWakeOne(&p->cond), if the feeder waits and may now go on.
Wake(pc, q, st) == IF pc = "idle" /\ q # <<>> /\ st = "playing" THEN "check" ELSE pc

\* bq_Enqueue: a full queue takes nothing, and says nothing.
Enqueued(q, slot) == IF Len(q) < QueueCap THEN Append(q, slot) ELSE q

\* player_Realize: the feeder is born.
Realize ==
  /\ feeder = "unborn"
  /\ feeder' = "ensure"
  /\ UNCHANGED <<player, ready, resampler, chunk, written, ring, sink, paused, driver>>

\* The buffers enqueued before playback.
EnqueueFirst ==
  /\ feeder # "unborn" /\ state = "stopped" /\ Len(queue) < Prefill
  /\ FillNext
  /\ queue' = Enqueued(queue, fill)
  /\ feeder' = Wake(feeder, queue', state)
  /\ UNCHANGED <<state, ready, resampler, chunk, written, ring, sink, paused>>

\* play_SetPlayState
SetPlayState(s) ==
  /\ Len(queue) = Prefill \/ state # "stopped"
  /\ state # s
  /\ state' = s
  /\ feeder' = Wake(feeder, queue, s)
  /\ UNCHANGED <<queue, ready, resampler, chunk, written, ring, sink, paused, driver>>

----------------------------------------------------------------------------
(* feeder(): the player's thread.                                          *)

\* audout_ensure, once: audio_sink_client_open and device_open work or fail.
Ensure ==
  /\ feeder = "ensure"
  /\ feeder' = "check"
  /\ \/ ready' = TRUE /\ sink' = "device"
     \/ UNCHANGED <<ready, sink>>
  /\ UNCHANGED <<player, resampler, chunk, written, ring, paused, driver>>

\* The first critical section; without work, the wait at the end of the loop.
Check ==
  /\ feeder = "check"
  /\ feeder' = IF queue # <<>> /\ state = "playing" THEN "pop" ELSE "idle"
  /\ UNCHANGED <<player, ready, resampler, chunk, written, ring, sink, paused, driver>>

\* A buffer that is played and left in the queue.
PopKept ==
  /\ feeder = "pop"
  /\ IF ready
     THEN LET made == Convert(Head(queue))
          IN /\ phase' = made.phase /\ prev' = made.prev /\ chunk' = made.out
             /\ feeder' = "write"
     ELSE feeder' = "callback" /\ UNCHANGED <<resampler, chunk>>
  /\ UNCHANGED <<player, ready, written, ring, sink, paused, driver>>

\* The second one, and convert.  Without a sink the buffer is thrown away.
Pop ==
  /\ feeder = "pop"
  /\ queue' = Tail(queue)
  /\ IF ready
     THEN LET made == Convert(Head(queue))
          IN /\ phase' = made.phase /\ prev' = made.prev /\ chunk' = made.out
             /\ feeder' = "write"
     ELSE feeder' = "callback" /\ UNCHANGED <<resampler, chunk>>
  /\ UNCHANGED <<state, ready, written, ring, sink, paused, driver>>

\* write_frames, blocking: one turn of its loop, as many frames as fit; it
\* waits for space while there is none.
Write ==
  /\ feeder = "write"
  /\ IF chunk = <<>>
     THEN feeder' = "callback" /\ UNCHANGED <<chunk, written, ring>>
     ELSE IF Free = 0
     THEN feeder' = "full" /\ UNCHANGED <<chunk, written, ring>>
     ELSE LET n == IF Len(chunk) < Free THEN Len(chunk) ELSE Free
          IN /\ data' = [i \in Index |->
                           LET k == (i - head) % RingFrames
                           IN IF k < n THEN chunk[k + 1] ELSE data[i]]
             /\ head' = (head + n) % RingFrames
             /\ chunk' = SubSeq(chunk, n + 1, Len(chunk))
             /\ written' = (written + n * InRate) % Places
             /\ UNCHANGED <<tail, feeder>>
  /\ UNCHANGED <<player, ready, resampler, sink, paused, driver>>

\* The buffer-queue callback: the driver fills a buffer and enqueues it.
Callback ==
  /\ feeder = "callback"
  /\ FillNext
  /\ queue' = Enqueued(queue, fill)
  /\ feeder' = "check"
  /\ UNCHANGED <<state, ready, resampler, chunk, written, ring, sink, paused>>

Feeder == Ensure \/ Check \/ Pop \/ Write \/ Callback

----------------------------------------------------------------------------
(* feeder_thread(): the sink's thread.                                     *)

\* A device buffer is mixed whatever the focus.
ReleasedAlways ==
  /\ sink = "device"
  /\ sink' = "mix"
  /\ UNCHANGED <<player, feeder, ready, resampler, chunk, written, ring, paused, driver>>

\* audoutWaitPlayFinish returns a buffer; while paused it goes back silent.
Released ==
  /\ sink = "device"
  /\ sink' = IF paused THEN "device" ELSE "mix"
  /\ UNCHANGED <<player, feeder, ready, resampler, chunk, written, ring, paused, driver>>

\* mix_client without the wake-up.
MixSilently ==
  /\ sink = "mix"
  /\ sink' = "device"
  /\ tail' = (tail + (IF Used < MixFrames THEN Used ELSE MixFrames)) % RingFrames
  /\ UNCHANGED <<player, feeder, ready, resampler, chunk, written, data, head, paused, driver>>

\* mix_client: up to MixFrames frames leave the ring, and whoever waits for
\* space tries again.
Mix ==
  /\ sink = "mix"
  /\ sink' = "device"
  /\ tail' = (tail + (IF Used < MixFrames THEN Used ELSE MixFrames)) % RingFrames
  /\ feeder' = IF feeder = "full" THEN "write" ELSE feeder
  /\ UNCHANGED <<player, ready, resampler, chunk, written, data, head, paused, driver>>

Sink == Released \/ Mix

\* audio_sink_set_paused, from the main thread at a change of focus.
SetPaused(p) ==
  /\ p # paused
  /\ paused' = p
  /\ UNCHANGED <<player, feeder, ready, resampler, chunk, written, ring, sink, driver>>

Next == \/ Realize \/ EnqueueFirst \/ Feeder \/ Sink
        \/ (\E s \in {"paused", "playing"} : SetPlayState(s))
        \/ (\E p \in BOOLEAN : SetPaused(p))

\* Both threads run; audout (external) keeps releasing buffers.
Fairness == WF_vars(Feeder) /\ WF_vars(Released) /\ WF_vars(Mix)

Spec == Init /\ [][Next]_vars /\ Fairness

----------------------------------------------------------------------------
(* Properties                                                              *)

\* The frames that reach the sink and leave it are the game's signal at even
\* steps, without a gap, a repeat or a click at any buffer's end (the comments
\* at the head of audio.c).
Stream == INSTANCE PcmStream
            WITH Stride <- InRate, Wrap <- Places, Capacity <- RingFrames - 1,
                 next <- written, pending <- InRing
ImplementsStream == Stream!Spec

\* convert's output never meets its cap of MaxOut frames: the phase it leaves
\* is always the one the next buffer goes on with.
PhaseWithinASample == phase \in 0..(InRate - 1)

\* While a buffer is being played, none of the game's others is lost to a full
\* queue: every buffer is queued, in the feeder's hands, or not yet enqueued.
NoBufferLost ==
  state # "stopped" =>
    Len(queue) + (IF feeder \in {"write", "full", "callback"} THEN 1 ELSE 0) = Prefill

\* In focus and playing, the sound goes on: the sink keeps taking frames.
SoundGoesOn ==
  <>[](ready /\ state = "playing" /\ ~paused) => []<><<tail' # tail>>_vars

\* Out of focus the sound path comes to rest, whether the game has paused its
\* player or not: the player's thread waits for space or for work.
RestsWhileAway ==
  (\E s \in {"paused", "playing"} : <>[](ready /\ paused /\ state = s))
    => <>[](feeder \in {"full", "idle"})
=============================================================================
