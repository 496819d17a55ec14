-------------------------- MODULE AudioPathProofs --------------------------
(***************************************************************************)
(* What AudioPath guarantees for any rates, sizes and numbers of buffers:  *)
(* no buffer of the game's is lost to a full queue, and the frames in the  *)
(* sink's ring are the game's signal at even steps, as PcmStream says.     *)
(***************************************************************************)
EXTENDS AudioPath, TLAPS, WellFoundedInduction

\* Where the player's thread has a buffer that is in the queue no more.
Playing == {"write", "full", "callback"}

QueueTypes ==
  /\ state \in {"stopped", "paused", "playing"}
  /\ feeder \in {"unborn", "ensure", "check", "pop", "idle"} \cup Playing
  /\ queue \in Seq(Slot) /\ fill \in Slot

\* Before playback the player's thread finds nothing to do, and the queue is not
\* fuller than the driver means to fill it.
BeforePlayback ==
  state = "stopped" => /\ Len(queue) <= Prefill
                       /\ feeder \in {"unborn", "ensure", "check", "idle"}

QueueInv ==
  /\ QueueTypes /\ BeforePlayback /\ NoBufferLost
  /\ feeder = "pop" => queue # <<>>

LEMMA Numbers ==
  /\ Prefill \in Nat \ {0} /\ Slots \in Nat \ {0} /\ QueueCap \in Nat \ {0} /\ Prefill <= QueueCap
  /\ 0 \in Slot /\ \A s \in Slot : (s + 1) % Slots \in Slot
  BY AudioPathAssumption, QueueAssumption DEF Slot

LEMMA Queued ==
  ASSUME NEW q \in Seq(Slot), NEW s \in Slot, Len(q) < Prefill
  PROVE  Enqueued(q, s) \in Seq(Slot) /\ Len(Enqueued(q, s)) = Len(q) + 1
  BY Numbers DEF Enqueued

LEMMA Dequeued ==
  ASSUME NEW q \in Seq(Slot), q # <<>>
  PROVE  Tail(q) \in Seq(Slot) /\ Len(Tail(q)) = Len(q) - 1 /\ Len(q) \in Nat
  OBVIOUS

LEMMA QueueInit == Init => QueueInv
  BY Numbers DEF Init, QueueInv, QueueTypes, BeforePlayback, NoBufferLost

\* A step that leaves the queue alone and lets the thread go on where it may.
LEMMA QueueKept ==
  ASSUME QueueInv, UNCHANGED <<state, queue, fill>>,
         \/ feeder' = feeder
         \/ feeder \in Playing /\ feeder' \in Playing
         \/ feeder \notin Playing /\ feeder' \in {"ensure", "check", "idle"}
         \/ state # "stopped" /\ feeder = "check" /\ feeder' = "pop" /\ queue # <<>>
  PROVE  QueueInv'
  BY DEF QueueInv, QueueTypes, BeforePlayback, NoBufferLost, Playing

LEMMA EnqueueFirstStep == ASSUME QueueInv, EnqueueFirst PROVE QueueInv'
<1>1. /\ queue \in Seq(Slot) /\ fill \in Slot /\ Len(queue) < Prefill
      /\ state = "stopped" /\ state' = state /\ queue' = Enqueued(queue, fill)
      /\ fill' = (fill + 1) % Slots /\ feeder' = Wake(feeder, queue', state)
      /\ feeder \in {"ensure", "check", "idle"}
  BY DEF QueueInv, QueueTypes, BeforePlayback, EnqueueFirst, FillNext
<1>2. queue' \in Seq(Slot) /\ Len(queue') = Len(queue) + 1 /\ fill' \in Slot
  BY <1>1, Queued, Numbers
<1>3. feeder' = feeder
  BY <1>1 DEF Wake
<1>4. Len(queue') <= Prefill
  BY <1>1, <1>2, Numbers
<1> QED
  BY <1>1, <1>2, <1>3, <1>4 DEF QueueInv, QueueTypes, BeforePlayback, NoBufferLost

LEMMA PlayStateStep ==
  ASSUME QueueInv, NEW s \in {"paused", "playing"}, SetPlayState(s)
  PROVE  QueueInv'
<1>1. /\ state' = s /\ UNCHANGED <<queue, fill>>
      /\ feeder' \in {feeder, "check"} /\ (feeder' # feeder => feeder = "idle")
      /\ Len(queue) = Prefill \/ state # "stopped"
  BY DEF SetPlayState, Wake, driver
<1> QED
  BY <1>1 DEF QueueInv, QueueTypes, BeforePlayback, NoBufferLost, Playing

LEMMA PopStep == ASSUME QueueInv, Pop PROVE QueueInv'
<1>1. /\ feeder = "pop" /\ queue \in Seq(Slot) /\ queue # <<>> /\ state # "stopped"
      /\ queue' = Tail(queue) /\ feeder' \in {"write", "callback"} /\ UNCHANGED <<state, fill>>
  BY DEF QueueInv, QueueTypes, BeforePlayback, Pop, driver
<1>2. queue' \in Seq(Slot) /\ Len(queue') = Len(queue) - 1 /\ Len(queue) \in Nat
  BY <1>1, Dequeued
<1>3. Len(queue) = Prefill
  BY <1>1, <1>2 DEF QueueInv, NoBufferLost
<1>4. Len(queue') + 1 = Prefill
  BY <1>2, <1>3
<1> QED
  BY <1>1, <1>2, <1>4 DEF QueueInv, QueueTypes, BeforePlayback, NoBufferLost, Playing

LEMMA CallbackStep == ASSUME QueueInv, Callback PROVE QueueInv'
<1>1. /\ feeder = "callback" /\ queue \in Seq(Slot) /\ fill \in Slot /\ state # "stopped"
      /\ queue' = Enqueued(queue, fill) /\ feeder' = "check" /\ state' = state
      /\ fill' = (fill + 1) % Slots
  BY DEF QueueInv, QueueTypes, BeforePlayback, Callback, FillNext
<1>2. Len(queue) \in Nat /\ Len(queue) + 1 = Prefill
  BY <1>1 DEF QueueInv, NoBufferLost
<1>3. queue' \in Seq(Slot) /\ Len(queue') = Len(queue) + 1 /\ fill' \in Slot
  BY <1>1, <1>2, Queued, Numbers
<1> QED
  BY <1>1, <1>2, <1>3, Numbers DEF QueueInv, QueueTypes, BeforePlayback, NoBufferLost

LEMMA QueueStep == QueueInv /\ [Next]_vars => QueueInv'
<1> SUFFICES ASSUME QueueInv, [Next]_vars PROVE QueueInv'
  OBVIOUS
<1>1. CASE UNCHANGED vars
  BY <1>1, QueueKept DEF vars, player, driver
<1>2. CASE Realize
  BY <1>2, QueueKept DEF Realize, player, driver, Playing
<1>3. CASE EnqueueFirst
  BY <1>3, EnqueueFirstStep
<1>4. CASE Feeder
  <2>1. CASE Ensure
    BY <2>1, QueueKept DEF Ensure, player, driver, Playing
  <2>2. CASE Check
    BY <2>2, QueueKept DEF Check, player, driver, Playing
  <2>3. CASE Pop
    BY <2>3, PopStep
  <2>4. CASE Write
    <3>1. feeder = "write" /\ feeder' \in Playing /\ UNCHANGED <<state, queue, fill>>
      BY <2>4 DEF Write, player, driver, Playing
    <3> QED
      BY <3>1, QueueKept DEF Playing
  <2>5. CASE Callback
    BY <2>5, CallbackStep
  <2> QED
    BY <1>4, <2>1, <2>2, <2>3, <2>4, <2>5 DEF Feeder
<1>5. CASE Sink
  <2>1. CASE Released
    BY <2>1, QueueKept DEF Released, player, driver
  <2>2. CASE Mix
    BY <2>2, QueueKept DEF Mix, player, driver, Playing
  <2> QED
    BY <1>5, <2>1, <2>2 DEF Sink
<1>6. CASE \E s \in {"paused", "playing"} : SetPlayState(s)
  BY <1>6, PlayStateStep
<1>7. CASE \E p \in BOOLEAN : SetPaused(p)
  BY <1>7, QueueKept DEF SetPaused, player, driver
<1> QED
  BY <1>1, <1>2, <1>3, <1>4, <1>5, <1>6, <1>7 DEF Next

\* Whatever the sizes of the queue, the ring and the buffers, while the driver
\* has no more buffers than the queue has places: once playback has begun every
\* buffer is queued, in the feeder's hands, or about to be enqueued again.
THEOREM EveryBufferIsPlayed == Spec => []NoBufferLost
<1>1. QueueInv => NoBufferLost
  BY DEF QueueInv
<1> QED
  BY QueueInit, QueueStep, <1>1, PTL DEF Spec

----------------------------------------------------------------------------
(* Counting modulo a number.                                               *)

LEMMA NoMultiple ==
  ASSUME NEW m \in Nat \ {0}, NEW d \in Int, -m < m * d, m * d < m
  PROVE  d = 0
<1>1. CASE d >= 1
  <2>1. m * d >= m
    BY <1>1
  <2> QED BY <2>1
<1>2. CASE d <= -1
  <2>1. m * d <= -m
    BY <1>2
  <2> QED BY <2>1
<1> QED BY <1>1, <1>2

LEMMA Split ==
  ASSUME NEW m \in Nat \ {0}, NEW a \in Int
  PROVE  a % m \in 0..(m - 1) /\ \E q \in Int : a % m = a + m * q
<1>1. a % m \in 0..(m - 1) /\ a = m * (a \div m) + (a % m) /\ a \div m \in Int
  OBVIOUS
<1>2. PICK d \in Int : d = a \div m
  BY <1>1
<1>3. PICK r \in 0..(m - 1) : r = a % m
  BY <1>1
<1>4. a = m * d + r
  BY <1>1, <1>2, <1>3
<1>5. -d \in Int /\ r = a + m * (-d)
  BY <1>4
<1> QED BY <1>1, <1>3, <1>5

LEMMA SamePlace ==
  ASSUME NEW m \in Nat \ {0}, NEW a \in Int, NEW b \in Int, NEW q \in Int, a = b + m * q
  PROVE  a % m = b % m
<1>1. PICK k \in Int : a % m = a + m * k
  BY Split
<1>2. PICK l \in Int : b % m = b + m * l
  BY Split
<1>3. PICK x \in 0..(m - 1) : x = a % m
  BY Split
<1>4. PICK y \in 0..(m - 1) : y = b % m
  BY Split
<1>5. x - y = m * (q + k - l)
  <2>1. x = a + m * k /\ y = b + m * l
    BY <1>1, <1>2, <1>3, <1>4
  <2>2. m * (q + k - l) = m * q + m * k - m * l
    OBVIOUS
  <2>3. x - y = (b + m * q + m * k) - (b + m * l)
    BY <2>1
  <2> QED BY <2>2, <2>3
<1>6. PICK d \in Int : d = q + k - l
  OBVIOUS
<1>7. -m < m * d /\ m * d < m
  BY <1>5, <1>6
<1>8. d = 0
  BY <1>7, NoMultiple
<1>9. x = y
  BY <1>5, <1>6, <1>8
<1> QED BY <1>3, <1>4, <1>9

\* A term may be taken modulo m, or not.
LEMMA PlusSame ==
  ASSUME NEW m \in Nat \ {0}, NEW a \in Int, NEW c \in Int
  PROVE  ((a % m) + c) % m = (a + c) % m
<1>1. PICK q \in Int : a % m = a + m * q
  BY Split
<1>2. PICK r \in Int : r = a % m
  BY Split
<1>3. r + c = (a + c) + m * q
  BY <1>1, <1>2
<1>4. (r + c) \in Int /\ a + c \in Int
  OBVIOUS
<1>5. (r + c) % m = (a + c) % m
  BY <1>3, <1>4, SamePlace
<1> QED BY <1>2, <1>5

LEMMA SameAhead ==
  ASSUME NEW m \in Nat \ {0}, NEW a \in Int, NEW b \in Int, NEW c \in Int, a % m = b % m
  PROVE  (a + c) % m = (b + c) % m
<1>1. ((a % m) + c) % m = (a + c) % m
  BY PlusSame
<1>2. ((b % m) + c) % m = (b + c) % m
  BY PlusSame
<1> QED BY <1>1, <1>2

\* A sample number, taken modulo s, as a place, modulo o times as many.
LEMMA Scaled ==
  ASSUME NEW s \in Nat \ {0}, NEW o \in Nat \ {0}, NEW a \in Int, NEW p \in Int
  PROVE  ((a % s) * o + p) % (o * s) = (a * o + p) % (o * s)
<1>1. PICK q \in Int : a % s = a + s * q
  BY Split
<1>2. PICK r \in Int : r = a % s
  BY Split
<1>3. r * o + p = (a * o + p) + (o * s) * q
  <2>1. r = a + s * q
    BY <1>1, <1>2
  <2>2. (a + s * q) * o = a * o + (o * s) * q
    OBVIOUS
  <2>3. r * o = a * o + (o * s) * q
    BY <2>1, <2>2
  <2>4. r * o \in Int /\ a * o \in Int /\ (o * s) * q \in Int
    OBVIOUS
  <2> QED BY <2>3, <2>4
<1>4. o * s \in Nat \ {0} /\ r * o + p \in Int /\ a * o + p \in Int
  OBVIOUS
<1>5. (r * o + p) % (o * s) = (a * o + p) % (o * s)
  BY <1>3, <1>4, SamePlace
<1> QED BY <1>2, <1>5

\* n turns of a ring.
LEMMA Around ==
  ASSUME NEW m \in Nat \ {0}, NEW a \in 0..(m - 1)
  PROVE  a % m = a
<1> a \in Int
  OBVIOUS
<1>1. PICK k \in Int : a % m = a + m * k
  BY Split
<1>2. PICK x \in 0..(m - 1) : x = a % m
  BY Split
<1>3. x - a = m * k /\ -m < m * k /\ m * k < m
  BY <1>1, <1>2
<1>4. k = 0
  BY <1>3, NoMultiple
<1> QED BY <1>2, <1>3, <1>4

----------------------------------------------------------------------------
(* The resampler.                                                          *)

LEMMA Sizes ==
  /\ InRate \in Nat \ {0} /\ OutRate \in Nat \ {0} /\ BufferSamples \in Nat \ {0}
  /\ Slots \in Nat \ {0} /\ Prefill \in Nat \ {0} /\ RingFrames \in Nat \ {0}
  /\ MixFrames \in Nat \ {0} /\ Samples \in Nat \ {0} /\ Places \in Nat \ {0}
  /\ InRate <= OutRate /\ RingFrames > 1 /\ Prefill <= Slots
<1>1. /\ InRate \in Nat \ {0} /\ OutRate \in Nat \ {0} /\ BufferSamples \in Nat \ {0}
      /\ Slots \in Nat \ {0} /\ Prefill \in Nat \ {0} /\ RingFrames \in Nat \ {0}
      /\ MixFrames \in Nat \ {0} /\ Samples \in Nat \ {0}
      /\ InRate <= OutRate /\ RingFrames > 1 /\ Prefill <= Slots
  BY AudioPathAssumption
<1>2. \A x, y \in Nat \ {0} : x * y \in Nat \ {0}
  OBVIOUS
<1> QED BY <1>1, <1>2 DEF Places

\* The place of the next frame that is to be made.
Due == (prev + 1) * OutRate + phase

\* What was made of a buffer's first k samples.
Made(acc, k) ==
  /\ acc.phase \in 0..(InRate - 1) /\ acc.prev = (prev + k) % Samples
  /\ Len(acc.out) \in Nat
  /\ acc.out = [j \in 1..Len(acc.out) |-> (Due + (j - 1) * InRate) % Places]
  /\ Len(acc.out) * InRate = acc.phase + k * OutRate - phase

LEMMA Rounded ==
  ASSUME NEW m \in Nat \ {0}, NEW x \in Nat
  PROVE  /\ (x + m - 1) \div m \in Nat
         /\ x <= ((x + m - 1) \div m) * m /\ ((x + m - 1) \div m) * m <= x + m - 1
         /\ x \div m \in Nat /\ x < (x \div m) * m + m
<1>1. ASSUME NEW y \in Nat PROVE y \div m \in Nat /\ (y \div m) * m <= y /\ y < (y \div m) * m + m
  <2>1. y % m \in 0..(m - 1) /\ y = m * (y \div m) + (y % m) /\ y \div m \in Int
    OBVIOUS
  <2>2. PICK d \in Int : d = y \div m
    BY <2>1
  <2>3. PICK r \in 0..(m - 1) : r = y % m
    BY <2>1
  <2>4. y = m * d + r /\ m * d = d * m
    BY <2>1, <2>2, <2>3
  <2>5. d >= 0
    <3>1. CASE d <= -1
      <4>1. d * m <= -m
        BY <3>1
      <4> QED BY <2>4, <4>1
    <3> QED BY <3>1
  <2> QED BY <2>2, <2>4, <2>5
<1>2. x + m - 1 \in Nat
  OBVIOUS
<1>3. PICK y \in Nat : y = x + m - 1
  BY <1>2
<1>4. y \div m \in Nat /\ (y \div m) * m <= y /\ y < (y \div m) * m + m
  BY <1>1
<1>5. x \div m \in Nat /\ x < (x \div m) * m + m
  BY <1>1
<1>6. PICK n \in Nat : n = y \div m
  BY <1>4
<1>7. n * m <= y /\ y < n * m + m /\ n * m \in Nat
  BY <1>4, <1>6
<1>8. x <= n * m /\ n * m <= x + m - 1
  BY <1>3, <1>7
<1> QED BY <1>3, <1>5, <1>6, <1>8

\* The frames of one sample find room, and leave a phase inside the next.
LEMMA Counted ==
  ASSUME NEW p \in 0..(InRate - 1), NEW p0 \in 0..(InRate - 1), NEW k \in 0..(BufferSamples - 1),
         NEW l \in Nat, l * InRate = p + k * OutRate - p0,
         NEW n, n = (OutRate - p + InRate - 1) \div InRate
  PROVE  /\ p < OutRate /\ n \in Nat /\ MaxOut \in Nat /\ n < MaxOut - l
         /\ p + n * InRate - OutRate \in 0..(InRate - 1)
         /\ (l + n) * InRate = (p + n * InRate - OutRate) + (k + 1) * OutRate - p0
<1>1. InRate \in Nat \ {0} /\ OutRate \in Nat \ {0} /\ BufferSamples \in Nat \ {0} /\ InRate <= OutRate
  BY Sizes
<1>2. p < OutRate /\ OutRate - p \in Nat
  BY <1>1
<1>3. PICK x \in Nat : x = OutRate - p
  BY <1>2
<1>4. n = (x + InRate - 1) \div InRate
  BY <1>3
<1>5. n \in Nat /\ x <= n * InRate /\ n * InRate <= x + InRate - 1
  BY <1>1, <1>4, Rounded
<1>6. PICK w \in Nat : w = BufferSamples * OutRate
  BY <1>1
<1>7. PICK m \in Nat : m = w \div InRate /\ w < m * InRate + InRate
  BY <1>1, Rounded
<1>8. MaxOut = m + 4
  BY <1>6, <1>7 DEF MaxOut
<1>9. PICK a \in Nat : a = n * InRate
  BY <1>1, <1>5
<1>10. PICK c \in Nat : c = k * OutRate
  BY <1>1
<1>11. (k + 1) * OutRate = c + OutRate
  BY <1>1, <1>10
<1>12. (l + n) * InRate = p + c - p0 + a
  BY <1>1, <1>5, <1>9, <1>10
<1>13. p + a - OutRate \in 0..(InRate - 1)
  BY <1>1, <1>3, <1>5, <1>9
<1>14. (l + n) * InRate = (p + a - OutRate) + (k + 1) * OutRate - p0
  BY <1>1, <1>11, <1>12
<1>15. c + OutRate <= w
  <2>1. k + 1 <= BufferSamples
    BY <1>1
  <2>2. (k + 1) * OutRate <= BufferSamples * OutRate
    BY <1>1, <2>1
  <2> QED BY <1>6, <1>11, <2>2
<1>16. (l + n) * InRate < (m + 2) * InRate
  <2>1. PICK b \in Nat : b = m * InRate
    BY <1>1
  <2>2. (m + 2) * InRate = b + InRate + InRate
    BY <1>1, <2>1
  <2>3. w < b + InRate
    BY <1>7, <2>1
  <2>4. p + c - p0 + a <= c + OutRate + InRate - 1
    BY <1>1, <1>13
  <2>5. p + c - p0 + a < b + InRate + InRate
    BY <1>1, <1>15, <2>3, <2>4
  <2> QED BY <1>12, <2>2, <2>5
<1>17. l + n < m + 2
  <2>1. CASE l + n >= m + 2
    <3>1. (l + n) * InRate >= (m + 2) * InRate
      BY <1>1, <1>5, <2>1
    <3> QED BY <1>1, <1>5, <1>16, <3>1
  <2> QED BY <1>5, <2>1
<1>18. MaxOut \in Nat /\ n < MaxOut - l
  BY <1>5, <1>8, <1>17
<1>19. n * InRate = a
  BY <1>9
<1> QED BY <1>2, <1>5, <1>13, <1>14, <1>18, <1>19

\* l frames were made of k samples and have left phase p.
Balanced(l, k, p) == l * InRate = p + k * OutRate - phase

\* The i-th frame of the next sample comes after these.
Follows(l, k, p, i) ==
  FrameAt((prev + k) % Samples, (prev + 1 + k) % Samples, p + (i - 1) * InRate)
    = (Due + (l + i - 1) * InRate) % Places

LEMMA NextFrame ==
  ASSUME prev \in Nat, phase \in Nat, NEW p \in Nat, NEW k \in Nat, NEW l \in Nat, NEW i \in Nat,
         Balanced(l, k, p)
  PROVE  Follows(l, k, p, i)
<1>1. InRate \in Nat \ {0} /\ OutRate \in Nat \ {0} /\ Samples \in Nat \ {0}
  BY Sizes
<1>2. PICK a \in Int : a = prev + 1 + k /\ a = (prev + k) + 1
  OBVIOUS
<1>3. (((prev + k) % Samples) + 1) % Samples = a % Samples
  <2>1. PICK z \in Int : z = prev + k
    OBVIOUS
  <2>2. ((z % Samples) + 1) % Samples = (z + 1) % Samples
    <3>1. Samples \in Nat \ {0} /\ 1 \in Int
      BY <1>1
    <3> QED BY <3>1, PlusSame, Zenon
  <2> QED BY <1>2, <2>1, <2>2
<1>4. PICK e \in Int : e = p + (i - 1) * InRate
  BY <1>1
<1>5. ((a % Samples) * OutRate + e) % (OutRate * Samples) = (a * OutRate + e) % (OutRate * Samples)
  BY <1>1, Scaled
<1>6. FrameAt((prev + k) % Samples, a % Samples, e) = (a * OutRate + e) % Places
  BY <1>3, <1>5, Zenon DEF FrameAt, Places
<1>7. a * OutRate + e = Due + (l + i - 1) * InRate
  <2>1. PICK c \in Int : c = k * OutRate
    BY <1>1
  <2>2. PICK b \in Int : b = (prev + 1) * OutRate
    BY <1>1
  <2>3. PICK d \in Int : d = (i - 1) * InRate
    BY <1>1
  <2>4. a * OutRate = b + c
    <3>1. a = (prev + 1) + k
      BY <1>2
    <3>2. ((prev + 1) + k) * OutRate = (prev + 1) * OutRate + k * OutRate
      BY <1>1
    <3> QED BY <2>1, <2>2, <3>1, <3>2
  <2>5. (l + i - 1) * InRate = l * InRate + (i - 1) * InRate
    BY <1>1
  <2>6. e = p + d
    BY <1>4, <2>3
  <2>7. Due = b + phase
    BY <2>2 DEF Due
  <2>8. l * InRate = p + c - phase
    BY <2>1 DEF Balanced
  <2> QED BY <2>3, <2>4, <2>5, <2>6, <2>7, <2>8
<1>8. FrameAt((prev + k) % Samples, (prev + 1 + k) % Samples, e) = (Due + (l + i - 1) * InRate) % Places
  BY <1>2, <1>6, <1>7
<1> QED BY <1>4, <1>8 DEF Follows


LEMMA IsSequence ==
  ASSUME NEW S, NEW n \in Nat, NEW s \in [1..n -> S]
  PROVE  s \in Seq(S) /\ Len(s) = n
  OBVIOUS

LEMMA Joined ==
  ASSUME NEW S, NEW a \in Seq(S), NEW b \in Seq(S)
  PROVE  /\ Len(a \o b) = Len(a) + Len(b) /\ Len(a) \in Nat /\ Len(b) \in Nat
         /\ \A j \in 1..(Len(a) + Len(b)) : (a \o b)[j] = IF j <= Len(a) THEN a[j] ELSE b[j - Len(a)]
         /\ a \o b = [j \in 1..(Len(a) + Len(b)) |-> IF j <= Len(a) THEN a[j] ELSE b[j - Len(a)]]
<1>1. a \o b \in Seq(S) /\ Len(a \o b) = Len(a) + Len(b) /\ Len(a) \in Nat /\ Len(b) \in Nat
  OBVIOUS
<1>2. \A j \in 1..(Len(a) + Len(b)) : (a \o b)[j] = IF j <= Len(a) THEN a[j] ELSE b[j - Len(a)]
  OBVIOUS
<1>3. PICK s \in Seq(S) : s = a \o b
  BY <1>1
<1>4. s = [j \in 1..Len(s) |-> s[j]]
  OBVIOUS
<1>5. s = [j \in 1..(Len(a) + Len(b)) |-> s[j]]
  BY <1>1, <1>3, <1>4
<1>6. \A j \in 1..(Len(a) + Len(b)) : s[j] = IF j <= Len(a) THEN a[j] ELSE b[j - Len(a)]
  BY <1>2, <1>3
<1>7. s = [j \in 1..(Len(a) + Len(b)) |-> IF j <= Len(a) THEN a[j] ELSE b[j - Len(a)]]
  BY <1>5, <1>6, Zenon
<1> QED BY <1>1, <1>2, <1>3, <1>7, Zenon

LEMMA OneSample ==
  ASSUME phase \in 0..(InRate - 1), prev \in Sample, NEW k \in 0..(BufferSamples - 1),
         NEW acc, Made(acc, k), NEW this, this = (prev + 1 + k) % Samples
  PROVE  Made(Interpolate(acc, this), k + 1)
<1>1. /\ InRate \in Nat \ {0} /\ OutRate \in Nat \ {0} /\ Samples \in Nat \ {0}
      /\ k \in Nat /\ prev \in Nat /\ phase \in Nat
  BY Sizes DEF Sample
<1>2. PICK p \in 0..(InRate - 1) : p = acc.phase
  BY DEF Made
<1>3. PICK o : o = acc.out
  OBVIOUS
<1>4. PICK l \in Nat : l = Len(o)
  BY <1>3 DEF Made
<1>5. l * InRate = p + k * OutRate - phase
  BY <1>2, <1>3, <1>4 DEF Made
<1>6. o = [j \in 1..l |-> (Due + (j - 1) * InRate) % Places] /\ acc.prev = (prev + k) % Samples
  BY <1>3, <1>4 DEF Made
<1>7. PICK n : n = (OutRate - p + InRate - 1) \div InRate
  OBVIOUS
<1>8. /\ p < OutRate /\ n \in Nat /\ MaxOut \in Nat /\ n < MaxOut - l
      /\ p + n * InRate - OutRate \in 0..(InRate - 1)
      /\ (l + n) * InRate = (p + n * InRate - OutRate) + (k + 1) * OutRate - phase
  BY <1>5, <1>7, Counted
<1> DEFINE new == [i \in 1..n |-> FrameAt(acc.prev, this, p + (i - 1) * InRate)]
<1>9. Interpolate(acc, this) = [phase |-> p + n * InRate - OutRate, prev |-> this, out |-> o \o new]
  <2>1. (IF p < OutRate THEN (OutRate - p + InRate - 1) \div InRate ELSE 0) = n
    BY <1>7, <1>8
  <2>2. (IF n < MaxOut - l THEN n ELSE MaxOut - l) = n
    BY <1>8
  <2> QED BY <1>2, <1>3, <1>4, <2>1, <2>2, Zenon DEF Interpolate
<1>10. \A i \in 1..n : new[i] = (Due + (l + i - 1) * InRate) % Places
  <2> SUFFICES ASSUME NEW i \in 1..n PROVE new[i] = (Due + (l + i - 1) * InRate) % Places
    OBVIOUS
  <2>1. FrameAt((prev + k) % Samples, (prev + 1 + k) % Samples, p + (i - 1) * InRate)
          = (Due + (l + i - 1) * InRate) % Places
    <3>1. prev \in Nat /\ phase \in Nat /\ p \in Nat /\ k \in Nat /\ l \in Nat /\ i \in Nat
      BY <1>1, <1>8
    <3>2. Balanced(l, k, p)
      BY <1>5 DEF Balanced
    <3>3. Follows(l, k, p, i)
      BY <3>1, <3>2, NextFrame, Zenon
    <3> QED BY <3>3, Zenon DEF Follows
  <2>2. new[i] = FrameAt(acc.prev, this, p + (i - 1) * InRate)
    OBVIOUS
  <2> QED BY <1>6, <2>1, <2>2, Zenon DEF Due
<1> HIDE DEF new
<1>11. /\ Len(o \o new) = l + n
       /\ \A j \in 1..(l + n) : (o \o new)[j] = IF j <= l THEN o[j] ELSE new[j - l]
       /\ o \o new = [j \in 1..(l + n) |-> IF j <= l THEN o[j] ELSE new[j - l]]
  <2>1. PICK S : S = {o[j] : j \in 1..l} \cup {new[j] : j \in 1..n}
    OBVIOUS
  <2>2. o \in Seq(S) /\ Len(o) = l
    <3>1. o \in [1..l -> S]
      BY <1>6, <2>1
    <3> QED BY <1>4, <3>1, IsSequence
  <2>3. new \in Seq(S) /\ Len(new) = n
    <3>1. new \in [1..n -> S]
      BY <2>1 DEF new
    <3> QED BY <1>8, <3>1, IsSequence
  <2>4. PICK b \in Seq(S) : b = new
    BY <2>3
  <2>5. /\ Len(o \o b) = Len(o) + Len(b) /\ Len(o) \in Nat /\ Len(b) \in Nat
        /\ \A j \in 1..(Len(o) + Len(b)) : (o \o b)[j] = IF j <= Len(o) THEN o[j] ELSE b[j - Len(o)]
        /\ o \o b = [j \in 1..(Len(o) + Len(b)) |-> IF j <= Len(o) THEN o[j] ELSE b[j - Len(o)]]
    <3>1. o \in Seq(S)
      BY <2>2
    <3> QED BY <3>1, Joined, Zenon
  <2> QED BY <2>2, <2>3, <2>4, <2>5, Zenon
<1>12. o \o new = [j \in 1..(l + n) |-> (Due + (j - 1) * InRate) % Places]
  <2>1. ASSUME NEW j \in 1..(l + n)
        PROVE  (IF j <= l THEN o[j] ELSE new[j - l]) = (Due + (j - 1) * InRate) % Places
    <3>1. CASE j <= l
      <4>1. j \in 1..l
        BY <1>4, <1>8, <3>1
      <4>2. o[j] = (Due + (j - 1) * InRate) % Places
        BY <1>6, <4>1, Zenon
      <4> QED BY <3>1, <4>2
    <3>2. CASE ~(j <= l)
      <4>1. j - l \in 1..n /\ l + (j - l) - 1 = j - 1
        BY <1>4, <1>8, <3>2
      <4>2. PICK i \in 1..n : i = j - l
        BY <4>1
      <4>3. new[i] = (Due + (l + i - 1) * InRate) % Places
        BY <1>10
      <4>4. l + i - 1 = j - 1
        BY <4>1, <4>2
      <4>5. new[j - l] = (Due + (j - 1) * InRate) % Places
        BY <4>2, <4>3, <4>4
      <4> QED BY <3>2, <4>5, Zenon
    <3> QED BY <3>1, <3>2
  <2> QED BY <1>11, <2>1, Zenon
<1>13. this = (prev + (k + 1)) % Samples
  <2>1. prev + 1 + k = prev + (k + 1)
    BY <1>1
  <2> QED BY <2>1
<1>14. PICK f : f = o \o new
  OBVIOUS
<1>15. PICK q : q = p + n * InRate - OutRate
  OBVIOUS
<1>16. PICK r : r = Interpolate(acc, this) /\ r = [phase |-> q, prev |-> this, out |-> f]
  BY <1>9, <1>14, <1>15
<1>17. r.phase = q /\ r.prev = this /\ r.out = f
  BY <1>16
<1>18. Len(f) = l + n /\ l + n \in Nat /\ f = [j \in 1..(l + n) |-> (Due + (j - 1) * InRate) % Places]
  BY <1>8, <1>11, <1>12, <1>14
<1>19. q \in 0..(InRate - 1) /\ (l + n) * InRate = q + (k + 1) * OutRate - phase
  BY <1>8, <1>15
<1>20. Made(r, k + 1)
  BY <1>13, <1>17, <1>18, <1>19, Zenon DEF Made
<1> QED BY <1>16, <1>20

Less == {ss \in Nat \X Nat : ss[1] < ss[2]}

LEMMA LessIsWellFounded == IsWellFoundedOn(Less, Nat)
  BY NatLessThanWellFounded DEF OpToRel, Less

\* A set of numbers that is not empty has a least one.
LEMMA LeastOf ==
  ASSUME NEW S \in SUBSET Nat, S # {}
  PROVE  \E i \in S : \A j \in Nat : j < i => j \notin S
<1>1. PICK i \in S : \A j \in S : ~(<<j, i>> \in Less)
  BY LessIsWellFounded, WFMin
<1>2. ASSUME NEW j \in Nat, j < i PROVE j \notin S
  BY <1>1, <1>2 DEF Less
<1> QED BY <1>2

\* A function on the first samples that does with each what Resampled says.
Begins(f, m, start, slot) ==
  f = [k \in 0..m |-> IF k = 0 THEN start ELSE Interpolate(f[k - 1], (mem[slot] + k - 1) % Samples)]

LEMMA Begun ==
  ASSUME NEW start, NEW slot, NEW m \in Nat
  PROVE  \E f : Begins(f, m, start, slot)
<1> SUFFICES ASSUME ~(\E f : Begins(f, m, start, slot)) PROVE FALSE
  OBVIOUS
<1> DEFINE S == {i \in Nat : ~(\E f : Begins(f, i, start, slot))}
<1>1. S \in SUBSET Nat /\ S # {}
  OBVIOUS
<1>2. PICK i \in S : \A j \in Nat : j < i => j \notin S
  <2> HIDE DEF S
  <2> QED BY <1>1, LeastOf
<1>3. i \in Nat /\ ~(\E f : Begins(f, i, start, slot))
  OBVIOUS
<1>4. CASE i = 0
  <2>1. PICK f : f = [k \in 0..0 |-> start]
    OBVIOUS
  <2>2. f = [k \in 0..0 |-> IF k = 0 THEN start ELSE Interpolate(f[k - 1], (mem[slot] + k - 1) % Samples)]
    <3>1. \A k \in 0..0 : k = 0
      OBVIOUS
    <3> QED BY <2>1, <3>1, Zenon
  <2>3. Begins(f, 0, start, slot)
    BY <2>2, Zenon DEF Begins
  <2> QED BY <1>3, <1>4, <2>3
<1>5. CASE i # 0
  <2>1. i - 1 \in Nat /\ i - 1 < i
    BY <1>3, <1>5
  <2>2. PICK g : Begins(g, i - 1, start, slot)
    <3>1. i - 1 \notin S
      BY <1>2, <2>1
    <3> QED BY <2>1, <3>1
  <2> DEFINE f == [k \in 0..i |-> IF k = 0 THEN start ELSE Interpolate(g[k - 1], (mem[slot] + k - 1) % Samples)]
  <2>3. \A k \in 0..(i - 1) : f[k] = g[k]
    <3>1. 0..(i - 1) \subseteq 0..i
      BY <1>3
    <3>2. \A k \in 0..(i - 1) : g[k] = IF k = 0 THEN start ELSE Interpolate(g[k - 1], (mem[slot] + k - 1) % Samples)
      BY <2>2, Zenon DEF Begins
    <3>3. \A k \in 0..i : f[k] = IF k = 0 THEN start ELSE Interpolate(g[k - 1], (mem[slot] + k - 1) % Samples)
      BY Zenon
    <3> QED BY <3>1, <3>2, <3>3, Zenon
  <2>4. \A k \in 0..i : k # 0 => k - 1 \in 0..(i - 1)
    BY <1>3
  <2>5. \A k \in 0..i : k # 0 => f[k - 1] = g[k - 1]
    BY <2>3, <2>4, Zenon
  <2>6. f = [k \in 0..i |-> IF k = 0 THEN start ELSE Interpolate(f[k - 1], (mem[slot] + k - 1) % Samples)]
    <3>1. \A k \in 0..i : (IF k = 0 THEN start ELSE Interpolate(g[k - 1], (mem[slot] + k - 1) % Samples))
                            = IF k = 0 THEN start ELSE Interpolate(f[k - 1], (mem[slot] + k - 1) % Samples)
      <4> HIDE DEF f
      <4> QED BY <2>5, Zenon
    <3>2. PICK h : h = f
      OBVIOUS
    <3>3. h = [k \in 0..i |-> IF k = 0 THEN start ELSE Interpolate(g[k - 1], (mem[slot] + k - 1) % Samples)]
      BY <3>2
    <3>4. h = [k \in 0..i |-> IF k = 0 THEN start ELSE Interpolate(h[k - 1], (mem[slot] + k - 1) % Samples)]
      <4> HIDE DEF f
      <4> QED BY <3>1, <3>2, <3>3, Zenon
    <3> HIDE DEF f
    <3> QED BY <3>2, <3>4, Zenon
  <2> HIDE DEF f
  <2>7. Begins(f, i, start, slot)
    BY <2>6, Zenon DEF Begins
  <2> QED BY <1>3, <2>7
<1> QED BY <1>4, <1>5

LEMMA ResampledIs ==
  ASSUME NEW start, NEW slot
  PROVE  \E f : Begins(f, BufferSamples, start, slot) /\ Resampled(start, slot) = f[BufferSamples]
<1>1. BufferSamples \in Nat
  BY Sizes
<1>2. \E f : Begins(f, BufferSamples, start, slot)
  BY <1>1, Begun
<1>3. PICK g : g = CHOOSE f : Begins(f, BufferSamples, start, slot)
  OBVIOUS
<1>4. Begins(g, BufferSamples, start, slot)
  BY <1>2, <1>3, Zenon
<1>5. Resampled(start, slot) = g[BufferSamples]
  BY <1>3 DEF Resampled, Begins
<1> QED BY <1>4, <1>5

\* What convert makes of the buffer that the signal goes on with.
LEMMA Converted ==
  ASSUME phase \in 0..(InRate - 1), prev \in Sample, NEW slot, mem[slot] = (prev + 1) % Samples
  PROVE  Made(Convert(slot), BufferSamples)
<1>1. /\ BufferSamples \in Nat \ {0} /\ Samples \in Nat \ {0} /\ prev \in 0..(Samples - 1)
      /\ InRate \in Nat \ {0} /\ OutRate \in Nat \ {0}
  BY Sizes DEF Sample
<1>2. PICK start : start = [phase |-> phase, prev |-> prev, out |-> <<>>]
  OBVIOUS
<1>3. PICK f : Begins(f, BufferSamples, start, slot) /\ Resampled(start, slot) = f[BufferSamples]
  BY ResampledIs
<1>4. Convert(slot) = f[BufferSamples]
  BY <1>2, <1>3 DEF Convert
<1>5. \A k \in 0..BufferSamples :
        f[k] = IF k = 0 THEN start ELSE Interpolate(f[k - 1], (mem[slot] + k - 1) % Samples)
  BY <1>3, Zenon DEF Begins
<1>6. Made(f[0], 0)
  <2>1. 0 \in 0..BufferSamples
    BY <1>1
  <2>2. f[0] = start
    BY <1>5, <2>1
  <2>3. start.phase = phase /\ start.prev = prev /\ start.out = <<>>
    BY <1>2
  <2>4. prev = (prev + 0) % Samples
    <3>1. prev + 0 = prev /\ prev % Samples = prev
      BY <1>1, Around
    <3> QED BY <3>1
  <2>5. Len(<<>>) \in Nat /\ Len(<<>>) * InRate = phase + 0 * OutRate - phase
    <3>1. Len(<<>>) = 0 /\ phase \in Int /\ InRate \in Int /\ OutRate \in Int
      BY <1>1
    <3> QED BY <3>1
  <2>6. <<>> = [j \in 1..Len(<<>>) |-> (Due + (j - 1) * InRate) % Places]
    <3>1. 1..Len(<<>>) = {}
      OBVIOUS
    <3>2. <<>> = [j \in {} |-> (Due + (j - 1) * InRate) % Places]
      OBVIOUS
    <3> QED BY <3>1, <3>2
  <2>7. Made(start, 0)
    BY <2>3, <2>4, <2>5, <2>6, Zenon DEF Made
  <2> QED BY <2>2, <2>7
<1>7. ASSUME NEW k \in 0..(BufferSamples - 1), Made(f[k], k)
      PROVE  Made(f[k + 1], k + 1)
  <2>1. k + 1 \in 0..BufferSamples /\ k + 1 # 0 /\ (k + 1) - 1 = k
    BY <1>1
  <2>2. f[k + 1] = Interpolate(f[k], (mem[slot] + (k + 1) - 1) % Samples)
    BY <1>5, <2>1
  <2>3. (mem[slot] + (k + 1) - 1) % Samples = (prev + 1 + k) % Samples
    <3>1. PICK a \in Int : a = prev + 1
      BY <1>1
    <3>2. ((a % Samples) + k) % Samples = (a + k) % Samples
      <4>1. k \in Int /\ Samples \in Nat \ {0}
        BY <1>1
      <4> QED BY <4>1, PlusSame, Zenon
    <3>3. PICK b \in Int : b = a % Samples
      BY <1>1
    <3>4. mem[slot] = b
      BY <3>1, <3>3
    <3>5. mem[slot] + (k + 1) - 1 = b + k
      BY <3>4
    <3> QED BY <3>1, <3>2, <3>3, <3>5
  <2>4. PICK this : this = (prev + 1 + k) % Samples
    OBVIOUS
  <2>5. Made(Interpolate(f[k], this), k + 1)
    BY <1>7, <2>4, OneSample
  <2> QED BY <2>2, <2>3, <2>4, <2>5, Zenon
<1>8. Made(f[BufferSamples], BufferSamples)
  <2> SUFFICES ASSUME ~Made(f[BufferSamples], BufferSamples) PROVE FALSE
    OBVIOUS
  <2>1. PICK S : S = {k \in 0..BufferSamples : ~Made(f[k], k)}
    OBVIOUS
  <2>2. BufferSamples \in 0..BufferSamples
    BY <1>1
  <2>3. S \in SUBSET Nat /\ S # {}
    <3>1. 0..BufferSamples \subseteq Nat
      OBVIOUS
    <3> QED BY <2>1, <2>2, <3>1, Zenon
  <2>4. PICK i \in S : \A j \in Nat : j < i => j \notin S
    BY <2>3, LeastOf
  <2>5. i \in 0..BufferSamples /\ ~Made(f[i], i)
    BY <2>1, Zenon
  <2>6. i # 0
    BY <1>6, <2>5, Zenon
  <2>7. PICK k \in 0..(BufferSamples - 1) : i = k + 1 /\ k \in Nat /\ k < i /\ k \in 0..BufferSamples
    <3>1. i - 1 \in 0..(BufferSamples - 1) /\ i = (i - 1) + 1 /\ i - 1 \in Nat /\ i - 1 < i
          /\ i - 1 \in 0..BufferSamples
      BY <1>1, <2>5, <2>6
    <3> QED BY <3>1
  <2>8. Made(f[k], k)
    <3>1. k \notin S
      BY <2>4, <2>7
    <3> QED BY <2>1, <2>7, <3>1, Zenon
  <2>9. Made(f[k + 1], k + 1)
    BY <1>7, <2>8
  <2> QED BY <2>5, <2>7, <2>9, Zenon
<1> QED BY <1>4, <1>8

----------------------------------------------------------------------------
(* The ring.                                                               *)

\* There are u frames from t to h; g is n places on from h.
Between(h, t, u) == u = (h - t) % RingFrames
OnFrom(h, n, g) == g = (h + n) % RingFrames
Written(e, d, c, h, n) ==
  e = [i \in Index |-> IF (i - h) % RingFrames < n THEN c[((i - h) % RingFrames) + 1] ELSE d[i]]

\* In e the u frames from t on are followed by the first n of c; the frames from g
\* on are those that come m after t.
Longer(e, d, c, t, u, n) ==
  \A i \in 1..(u + n) : e[(t + i - 1) % RingFrames] = IF i <= u THEN d[(t + i - 1) % RingFrames] ELSE c[i - u]
Shorter(g, t, u, m) ==
  \A i \in 1..(u - m) : (g + i - 1) % RingFrames = (t + (m + i) - 1) % RingFrames

LEMMA PutIn ==
  ASSUME NEW h \in Index, NEW t \in Index, NEW u, Between(h, t, u),
         NEW n \in Nat, u + n <= RingFrames - 1,
         NEW c, NEW d, NEW e, Written(e, d, c, h, n), NEW g, OnFrom(h, n, g)
  PROVE  /\ u \in Nat /\ g \in Index /\ Between(g, t, u + n)
         /\ Longer(e, d, c, t, u, n)
<1>1. /\ RingFrames \in Nat \ {0} /\ h \in 0..(RingFrames - 1) /\ t \in 0..(RingFrames - 1)
      /\ Index = 0..(RingFrames - 1)
  BY Sizes DEF Index
<1>2. u \in 0..(RingFrames - 1) /\ \E q \in Int : u = (h - t) + RingFrames * q
  <2>1. h - t \in Int
    BY <1>1
  <2> QED BY <1>1, <2>1, Split DEF Between
<1>3. PICK q \in Int : u = (h - t) + RingFrames * q
  BY <1>2
<1>4. g \in 0..(RingFrames - 1) /\ \E k \in Int : g = (h + n) + RingFrames * k
  <2>1. h + n \in Int
    BY <1>1
  <2> QED BY <1>1, <2>1, Split DEF OnFrom
<1>5. PICK k \in Int : g = (h + n) + RingFrames * k
  BY <1>4
<1>6. (g - t) % RingFrames = u + n
  <2>1. g - t = (u + n) + RingFrames * (k - q)
    <3>1. RingFrames * (k - q) = RingFrames * k - RingFrames * q
      BY <1>1
    <3>2. PICK a, b \in Int : a = RingFrames * k /\ b = RingFrames * q
      BY <1>1
    <3> QED BY <1>1, <1>2, <1>3, <1>4, <1>5, <3>1, <3>2
  <2>2. u + n \in 0..(RingFrames - 1) /\ g - t \in Int /\ k - q \in Int
    BY <1>1, <1>2, <1>4
  <2>3. PICK a \in Int : a = g - t
    BY <2>2
  <2>4. PICK b \in 0..(RingFrames - 1) : b = u + n
    BY <2>2
  <2>7. PICK z \in Int : z = k - q
    OBVIOUS
  <2>8. a = b + RingFrames * z /\ b \in Int
    BY <2>1, <2>3, <2>4, <2>7
  <2>5. a % RingFrames = b % RingFrames
    BY <1>1, <2>8, SamePlace
  <2>6. b % RingFrames = b
    BY <1>1, Around
  <2> QED BY <2>3, <2>4, <2>5, <2>6
<1>7. ASSUME NEW i \in 1..(u + n)
      PROVE  e[(t + i - 1) % RingFrames] = IF i <= u THEN d[(t + i - 1) % RingFrames] ELSE c[i - u]
  <2>1. PICK x \in 0..(RingFrames - 1) : x = (t + i - 1) % RingFrames
    <3>1. t + i - 1 \in Int
      BY <1>1
    <3> QED BY <1>1, <3>1, Split
  <2>2. PICK j \in Int : x = (t + i - 1) + RingFrames * j
    <3>1. t + i - 1 \in Int
      BY <1>1
    <3> QED BY <1>1, <2>1, <3>1, Split
  <2>3. PICK y \in 0..(RingFrames - 1) : y = (x - h) % RingFrames
    <3>1. x - h \in Int
      BY <1>1
    <3> QED BY <1>1, <3>1, Split
  <2>4. e[x] = IF y < n THEN c[y + 1] ELSE d[x]
    BY <1>1, <2>3 DEF Written
  <2>5. x - h = (i - 1 - u) + RingFrames * (q + j)
    <3>1. RingFrames * (q + j) = RingFrames * q + RingFrames * j
      BY <1>1
    <3>2. PICK a, b \in Int : a = RingFrames * q /\ b = RingFrames * j
      BY <1>1
    <3>3. u = (h - t) + a /\ x = (t + i - 1) + b
      BY <1>3, <2>2, <3>2
    <3> QED BY <1>1, <1>2, <3>1, <3>2, <3>3
  <2>6. CASE i <= u
    <3>1. PICK b \in 0..(RingFrames - 1) : b = i - 1 - u + RingFrames /\ ~(b < n)
      BY <1>1, <1>2, <2>6
    <3>2. x - h = b + RingFrames * (q + j - 1)
      <4>1. RingFrames * (q + j - 1) = RingFrames * (q + j) - RingFrames
        BY <1>1
      <4>2. PICK a \in Int : a = RingFrames * (q + j)
        BY <1>1
      <4> QED BY <1>1, <1>2, <2>5, <3>1, <4>1, <4>2
    <3>3. PICK a \in Int : a = x - h
      BY <1>1
    <3>4. PICK z \in Int : z = q + j - 1
      OBVIOUS
    <3>5. a = b + RingFrames * z /\ b \in Int
      BY <3>2, <3>3, <3>4
    <3>6. a % RingFrames = b % RingFrames
      BY <1>1, <3>5, SamePlace
    <3>7. b % RingFrames = b
      BY <1>1, Around
    <3>8. ~(y < n)
      BY <2>3, <3>1, <3>3, <3>6, <3>7
    <3> QED BY <2>1, <2>4, <2>6, <3>8, Zenon
  <2>7. CASE ~(i <= u)
    <3>1. PICK b \in 0..(RingFrames - 1) : b = i - 1 - u /\ b < n /\ b + 1 = i - u
      BY <1>1, <1>2, <2>7
    <3>2. PICK a \in Int : a = x - h
      BY <1>1
    <3>3. PICK z \in Int : z = q + j
      OBVIOUS
    <3>4. a = b + RingFrames * z /\ b \in Int
      BY <2>5, <3>1, <3>2, <3>3
    <3>5. a % RingFrames = b % RingFrames
      BY <1>1, <3>4, SamePlace
    <3>6. b % RingFrames = b
      BY <1>1, Around
    <3>7. y < n /\ y + 1 = i - u
      BY <2>3, <3>1, <3>2, <3>5, <3>6
    <3>8. e[x] = c[i - u]
      BY <2>4, <3>7
    <3> QED BY <2>1, <2>7, <3>8, Zenon
  <2> QED BY <2>6, <2>7
<1>8. u \in Nat /\ g \in Index
  BY <1>1, <1>2, <1>4
<1> QED BY <1>6, <1>7, <1>8 DEF Between, Longer

LEMMA TakeOut ==
  ASSUME NEW h \in Index, NEW t \in Index, NEW u, Between(h, t, u),
         NEW m \in 0..u, NEW g, OnFrom(t, m, g)
  PROVE  /\ u \in Nat /\ g \in Index /\ Between(h, g, u - m)
         /\ Shorter(g, t, u, m)
<1>1. /\ RingFrames \in Nat \ {0} /\ h \in 0..(RingFrames - 1) /\ t \in 0..(RingFrames - 1)
      /\ Index = 0..(RingFrames - 1)
  BY Sizes DEF Index
<1>2. u \in 0..(RingFrames - 1) /\ \E q \in Int : u = (h - t) + RingFrames * q
  <2>1. h - t \in Int
    BY <1>1
  <2> QED BY <1>1, <2>1, Split DEF Between
<1>3. PICK q \in Int : u = (h - t) + RingFrames * q
  BY <1>2
<1>4. g \in 0..(RingFrames - 1) /\ \E k \in Int : g = (t + m) + RingFrames * k
  <2>1. t + m \in Int
    BY <1>1, <1>2
  <2> QED BY <1>1, <2>1, Split DEF OnFrom
<1>5. PICK k \in Int : g = (t + m) + RingFrames * k
  BY <1>4
<1>6. (h - g) % RingFrames = u - m
  <2>1. h - g = (u - m) + RingFrames * (-(k + q))
    <3>1. RingFrames * (-(k + q)) = -(RingFrames * k) - RingFrames * q
      BY <1>1
    <3>2. PICK a, b \in Int : a = RingFrames * k /\ b = RingFrames * q
      BY <1>1
    <3> QED BY <1>1, <1>2, <1>3, <1>4, <1>5, <3>1, <3>2
  <2>2. PICK a \in Int : a = h - g
    BY <1>1, <1>4
  <2>3. PICK b \in 0..(RingFrames - 1) : b = u - m
    BY <1>1, <1>2
  <2>4. PICK z \in Int : z = -(k + q)
    OBVIOUS
  <2>5. a = b + RingFrames * z /\ b \in Int
    BY <2>1, <2>2, <2>3, <2>4
  <2>6. a % RingFrames = b % RingFrames
    BY <1>1, <2>5, SamePlace
  <2>7. b % RingFrames = b
    BY <1>1, Around
  <2> QED BY <2>2, <2>3, <2>6, <2>7
<1>7. ASSUME NEW i \in 1..(u - m)
      PROVE  (g + i - 1) % RingFrames = (t + (m + i) - 1) % RingFrames
  <2>1. PICK a \in Int : a = g + i - 1
    BY <1>1, <1>2, <1>4
  <2>2. PICK b \in Int : b = t + (m + i) - 1
    BY <1>1, <1>2
  <2>3. a = b + RingFrames * k
    <3>1. PICK c \in Int : c = RingFrames * k
      BY <1>1
    <3> QED BY <1>1, <1>2, <1>4, <1>5, <2>1, <2>2, <3>1
  <2>4. a % RingFrames = b % RingFrames
    BY <1>1, <2>3, SamePlace
  <2> QED BY <2>1, <2>2, <2>4
<1>8. u \in Nat /\ g \in Index
  BY <1>1, <1>2, <1>4
<1> QED BY <1>6, <1>7, <1>8 DEF Between, Shorter

----------------------------------------------------------------------------
(* What is on its way to the sink.                                         *)

ResamplerRight == PhaseWithinASample /\ prev \in Sample
RingRight == head \in Index /\ tail \in Index

\* These frames are the signal from place at on.
Goes(s, at) == Len(s) \in Nat /\ s = [i \in 1..Len(s) |-> (at + (i - 1) * InRate) % Places]

\* What is in hand goes on with what was written, and convert goes on with that.
ChunkRight ==
  /\ written \in 0..(Places - 1)
  /\ Goes(chunk, written)
  /\ (written + Len(chunk) * InRate) % Places = Due % Places
  /\ feeder \notin {"write", "full"} => chunk = <<>>

\* The driver fills its buffers in turn.
SlotsRight ==
  \A i \in 1..Len(queue) : (queue[i] + (Len(queue) - i + 1)) % Slots = fill

\* Nothing is thrown away: there is a sink, or it is not known yet whether.
Heard == ready \/ feeder \in {"unborn", "ensure"}

\* The buffers in the queue go on with what convert made last.
BuffersRight ==
  /\ DOMAIN mem = Slot
  /\ Heard => /\ \A i \in 1..Len(queue) : mem[queue[i]] = (prev + 1 + (i - 1) * BufferSamples) % Samples
              /\ sampled = (prev + 1 + Len(queue) * BufferSamples) % Samples

SignalInv == ResamplerRight /\ RingRight /\ ChunkRight /\ SlotsRight /\ BuffersRight

LEMMA NoneGoes == ASSUME NEW at PROVE Goes(<<>>, at)
<1>1. Len(<<>>) = 0 /\ 1..0 = {}
  OBVIOUS
<1>2. <<>> = [i \in {} |-> (at + (i - 1) * InRate) % Places]
  OBVIOUS
<1>3. 0 \in Nat
  OBVIOUS
<1> QED BY <1>1, <1>2, <1>3 DEF Goes

LEMMA SignalInit == Init => SignalInv
<1> SUFFICES ASSUME Init PROVE SignalInv
  OBVIOUS
<1>1. /\ Samples \in Nat \ {0} /\ Places \in Nat \ {0} /\ RingFrames \in Nat \ {0}
      /\ OutRate \in Nat \ {0} /\ InRate \in Nat \ {0} /\ BufferSamples \in Nat \ {0}
  BY Sizes
<1>2. /\ phase = 0 /\ prev = Samples - 1 /\ head = 0 /\ tail = 0 /\ written = 0 /\ chunk = <<>>
      /\ queue = <<>> /\ sampled = 0 /\ mem = [s \in Slot |-> 0]
  BY DEF Init
<1>3. ResamplerRight /\ RingRight
  BY <1>1, <1>2 DEF ResamplerRight, PhaseWithinASample, Sample, RingRight, Index
<1>4. \A m \in Nat \ {0} : m % m = 0 % m /\ 0 % m = 0
  <2> SUFFICES ASSUME NEW m \in Nat \ {0} PROVE m % m = 0 % m /\ 0 % m = 0
    OBVIOUS
  <2>1. m = 0 + m * 1 /\ m \in Int /\ 0 \in Int /\ 1 \in Int /\ 0 \in 0..(m - 1)
    OBVIOUS
  <2>2. m % m = 0 % m
    BY <2>1, SamePlace, Zenon
  <2>3. 0 % m = 0
    BY <2>1, Around, Zenon
  <2> QED BY <2>2, <2>3
<1>5. Len(queue) = 0 /\ Len(chunk) = 0 /\ 1..0 = {}
  BY <1>2
<1>6. ChunkRight
  <2>1. written \in 0..(Places - 1) /\ Goes(chunk, written)
    BY <1>1, <1>2, NoneGoes
  <2>2. Due = OutRate * Samples
    <3>1. ((Samples - 1) + 1) * OutRate + 0 = OutRate * Samples
      BY <1>1
    <3> QED BY <1>2, <3>1 DEF Due
  <2>3. Due % Places = 0
    BY <1>1, <1>4, <2>2 DEF Places
  <2>4. written + Len(chunk) * InRate = 0
    BY <1>1, <1>2, <1>5
  <2>5. (written + Len(chunk) * InRate) % Places = 0
    BY <1>1, <1>4, <2>4
  <2> QED BY <1>2, <2>1, <2>3, <2>5 DEF ChunkRight
<1>7. SlotsRight
  BY <1>5 DEF SlotsRight
<1>8. BuffersRight
  <2>1. prev + 1 + 0 * BufferSamples = Samples
    BY <1>1, <1>2
  <2>2. sampled = (prev + 1 + 0 * BufferSamples) % Samples
    BY <1>1, <1>2, <1>4, <2>1
  <2>3. DOMAIN mem = Slot
    BY <1>2
  <2> QED BY <1>5, <2>2, <2>3 DEF BuffersRight
<1> QED BY <1>3, <1>6, <1>7, <1>8 DEF SignalInv

\* A step that moves no frame and no buffer.
LEMMA SignalKept ==
  ASSUME SignalInv, UNCHANGED <<queue, resampler, chunk, written, head, tail, driver>>,
         feeder' \notin {"write", "full"} => feeder \notin {"write", "full"},
         Heard' => Heard
  PROVE  SignalInv'
<1>1. /\ queue' = queue /\ phase' = phase /\ prev' = prev /\ chunk' = chunk /\ written' = written
      /\ head' = head /\ tail' = tail /\ mem' = mem /\ fill' = fill /\ sampled' = sampled
  BY DEF resampler, driver
<1>2. ResamplerRight' /\ RingRight'
  BY <1>1 DEF SignalInv, ResamplerRight, RingRight, PhaseWithinASample
<1>3. ChunkRight'
  BY <1>1 DEF SignalInv, ChunkRight, Goes, Due
<1>4. SlotsRight'
  BY <1>1 DEF SignalInv, SlotsRight
<1>5. BuffersRight'
  BY <1>1 DEF SignalInv, BuffersRight
<1> QED BY <1>2, <1>3, <1>4, <1>5 DEF SignalInv

\* The slot that is filled next is not in the queue.
LEMMA NotYet ==
  ASSUME NEW m \in Nat \ {0}, NEW a \in 0..(m - 1), NEW d \in 1..(m - 1)
  PROVE  (a + d) % m # a
<1> SUFFICES ASSUME (a + d) % m = a PROVE FALSE
  OBVIOUS
<1>1. a + d \in Int
  OBVIOUS
<1>2. PICK k \in Int : (a + d) % m = (a + d) + m * k
  BY <1>1, Split
<1>3. m * k = -d
  BY <1>2
<1>4. k = 0
  BY <1>3, NoMultiple
<1> QED BY <1>3, <1>4

\* The driver fills its next buffer and enqueues it.
LEMMA NextFilled ==
  ASSUME SlotsRight, BuffersRight, queue \in Seq(Slot), fill \in Slot, prev \in Sample,
         Len(queue) < Prefill, FillNext, queue' = Enqueued(queue, fill), prev' = prev,
         Heard' => Heard
  PROVE  SlotsRight' /\ BuffersRight'
<1>1. /\ Slots \in Nat \ {0} /\ Prefill \in Nat \ {0} /\ Prefill <= Slots /\ Prefill <= QueueCap
      /\ QueueCap \in Nat \ {0} /\ Samples \in Nat \ {0} /\ BufferSamples \in Nat \ {0}
      /\ Slot = 0..(Slots - 1) /\ prev \in Nat
  BY Sizes, Numbers DEF Slot, Sample
<1>2. PICK q \in Seq(Slot) : q = queue
  OBVIOUS
<1>3. PICK f \in 0..(Slots - 1) : f = fill
  BY <1>1
<1>4. PICK l \in Nat : l = Len(q) /\ l < Prefill /\ l < Slots
  <2>1. Len(q) \in Nat /\ Len(q) < Prefill
    BY <1>2
  <2> QED BY <1>1, <2>1
<1>5. PICK r : r = queue'
  OBVIOUS
<1>6. /\ Len(r) = l + 1 /\ \A i \in 1..l : r[i] = q[i]
      /\ r[l + 1] = f
  <2>1. f \in Slot /\ Len(q) < QueueCap
    BY <1>1, <1>3, <1>4
  <2>2. r = Append(q, f)
    BY <1>2, <1>3, <1>5, <2>1 DEF Enqueued
  <2> QED BY <1>4, <2>1, <2>2
<1>7. \A i \in 1..l : q[i] \in 0..(Slots - 1) /\ (q[i] + (l - i + 1)) % Slots = f
  <2>1. \A i \in 1..l : q[i] \in Slot
    BY <1>4
  <2> QED BY <1>1, <1>2, <1>3, <1>4, <2>1 DEF SlotsRight
<1>8. PICK g : g = fill' /\ g = (f + 1) % Slots
  BY <1>3 DEF FillNext
<1>9. \A i \in 1..(l + 1) : (r[i] + ((l + 1) - i + 1)) % Slots = g
  <2> SUFFICES ASSUME NEW i \in 1..(l + 1) PROVE (r[i] + ((l + 1) - i + 1)) % Slots = g
    OBVIOUS
  <2>1. CASE i \in 1..l
    <3>1. PICK a \in Int : a = q[i] + (l - i + 1)
      <4>1. q[i] \in 0..(Slots - 1) /\ l \in Int /\ i \in Int
        BY <1>7, <2>1
      <4> QED BY <4>1
    <3>2. a % Slots = f
      BY <1>7, <2>1, <3>1
    <3>3. ((a % Slots) + 1) % Slots = (a + 1) % Slots
      <4>1. Slots \in Nat \ {0} /\ 1 \in Int
        BY <1>1
      <4> QED BY <4>1, PlusSame, Zenon
    <3>4. (a + 1) % Slots = g
      BY <1>8, <3>2, <3>3, Zenon
    <3>5. r[i] = q[i] /\ q[i] \in Int
      BY <1>6, <1>7, <2>1
    <3>6. r[i] + ((l + 1) - i + 1) = a + 1
      BY <3>1, <3>5
    <3> QED BY <3>4, <3>6
  <2>2. CASE i = l + 1
    <3>1. r[i] = f
      BY <1>6, <2>2
    <3>2. r[i] + ((l + 1) - i + 1) = f + 1
      BY <2>2, <3>1
    <3> QED BY <1>8, <3>2
  <2>3. i \in 1..l \/ i = l + 1
    OBVIOUS
  <2> QED BY <2>1, <2>2, <2>3
<1>10. SlotsRight'
  BY <1>5, <1>6, <1>8, <1>9, Zenon DEF SlotsRight
<1>11. mem' = [mem EXCEPT ![fill] = sampled] /\ sampled' = (sampled + BufferSamples) % Samples
  BY DEF FillNext
<1>12. DOMAIN mem' = Slot /\ DOMAIN mem = Slot
  BY <1>11 DEF BuffersRight
<1>13. ASSUME Heard'
       PROVE  /\ \A i \in 1..(l + 1) : mem'[r[i]] = (prev + 1 + (i - 1) * BufferSamples) % Samples
              /\ sampled' = (prev + 1 + (l + 1) * BufferSamples) % Samples
  <2>1. /\ \A i \in 1..l : mem[q[i]] = (prev + 1 + (i - 1) * BufferSamples) % Samples
        /\ sampled = (prev + 1 + l * BufferSamples) % Samples
    BY <1>2, <1>4, <1>13 DEF BuffersRight
  <2>2. \A i \in 1..l : q[i] # f
    <3> SUFFICES ASSUME NEW i \in 1..l, q[i] = f PROVE FALSE
      OBVIOUS
    <3>1. PICK d \in 1..(Slots - 1) : d = l - i + 1
      <4>1. l \in Nat /\ l < Slots /\ Slots \in Nat
        BY <1>1, <1>4
      <4>2. l - i + 1 \in 1..(Slots - 1)
        BY <4>1
      <4> QED BY <4>2
    <3>2. (f + d) % Slots = f
      BY <1>7, <3>1
    <3>3. (f + d) % Slots # f
      BY <1>1, NotYet
    <3> QED BY <3>2, <3>3
  <2>3. ASSUME NEW i \in 1..(l + 1)
        PROVE  mem'[r[i]] = (prev + 1 + (i - 1) * BufferSamples) % Samples
    <3>1. CASE i \in 1..l
      <4>1. r[i] = q[i] /\ q[i] # f /\ q[i] \in Slot
        BY <1>1, <1>6, <1>7, <2>2, <3>1
      <4>2. mem'[q[i]] = mem[q[i]]
        BY <1>3, <1>11, <1>12, <4>1
      <4> QED BY <2>1, <3>1, <4>1, <4>2, Zenon
    <3>2. CASE i = l + 1
      <4>1. r[i] = f /\ f \in Slot /\ i - 1 = l
        BY <1>1, <1>3, <1>6, <3>2
      <4>2. mem'[f] = sampled
        BY <1>3, <1>11, <1>12, <4>1
      <4> QED BY <2>1, <4>1, <4>2, Zenon
    <3>3. i \in 1..l \/ i = l + 1
      OBVIOUS
    <3> QED BY <3>1, <3>2, <3>3
  <2>4. sampled' = (prev + 1 + (l + 1) * BufferSamples) % Samples
    <3>1. PICK a \in Int : a = prev + 1 + l * BufferSamples
      BY <1>1
    <3>2. ((a % Samples) + BufferSamples) % Samples = (a + BufferSamples) % Samples
      <4>1. Samples \in Nat \ {0} /\ BufferSamples \in Int
        BY <1>1
      <4> QED BY <4>1, PlusSame, Zenon
    <3>3. a + BufferSamples = prev + 1 + (l + 1) * BufferSamples
      <4>1. (l + 1) * BufferSamples = l * BufferSamples + BufferSamples
        BY <1>1
      <4>2. PICK b \in Int : b = l * BufferSamples
        BY <1>1
      <4> QED BY <1>1, <3>1, <4>1, <4>2
    <3>4. sampled = a % Samples
      BY <2>1, <3>1
    <3> QED BY <1>11, <3>2, <3>3, <3>4
  <2> QED BY <2>3, <2>4
<1>14. prev' = prev
  OBVIOUS
<1>15. BuffersRight'
  BY <1>5, <1>6, <1>12, <1>13, <1>14, Zenon DEF BuffersRight
<1> QED BY <1>10, <1>15

LEMMA Behind ==
  ASSUME NEW S, NEW s \in Seq(S), NEW n \in 0..Len(s)
  PROVE  /\ SubSeq(s, n + 1, Len(s)) \in Seq(S) /\ Len(SubSeq(s, n + 1, Len(s))) = Len(s) - n
         /\ \A i \in 1..(Len(s) - n) : SubSeq(s, n + 1, Len(s))[i] = s[n + i]
         /\ SubSeq(s, n + 1, Len(s)) = [i \in 1..(Len(s) - n) |-> s[n + i]]
<1>1. Len(s) \in Nat /\ n \in Nat /\ n <= Len(s)
  OBVIOUS
<1>2. PICK r : r = SubSeq(s, n + 1, Len(s))
  OBVIOUS
<1>3. r \in Seq(S) /\ Len(r) = Len(s) - n
  BY <1>1, <1>2
<1>4. \A i \in 1..(Len(s) - n) : r[i] = s[n + i]
  <2> SUFFICES ASSUME NEW i \in 1..(Len(s) - n) PROVE r[i] = s[n + i]
    OBVIOUS
  <2>1. i + (n + 1) - 1 = n + i /\ i \in 1..(1 + Len(s) - (n + 1))
    BY <1>1
  <2>2. r[i] = s[(n + 1) + i - 1]
    BY <1>1, <1>2, <2>1
  <2>3. (n + 1) + i - 1 = n + i
    BY <1>1
  <2> QED BY <2>2, <2>3
<1>5. r = [i \in 1..Len(r) |-> r[i]]
  BY <1>3
<1>6. r = [i \in 1..(Len(s) - n) |-> s[n + i]]
  <2>1. r = [i \in 1..(Len(s) - n) |-> r[i]]
    BY <1>3, <1>5
  <2> QED BY <1>4, <2>1, Zenon
<1> QED BY <1>2, <1>3, <1>4, <1>6

\* The player's thread takes a buffer, and converts it if it is to be heard.
LEMMA PopSignal == ASSUME QueueInv, SignalInv, Pop PROVE SignalInv'
<1>1. /\ feeder = "pop" /\ queue \in Seq(Slot) /\ queue # <<>> /\ queue' = Tail(queue)
      /\ head' = head /\ tail' = tail /\ written' = written /\ ready' = ready
      /\ mem' = mem /\ fill' = fill /\ sampled' = sampled
  BY DEF Pop, QueueInv, QueueTypes, ring, driver
<1>2. /\ InRate \in Nat \ {0} /\ OutRate \in Nat \ {0} /\ Samples \in Nat \ {0} /\ Places \in Nat \ {0}
      /\ BufferSamples \in Nat \ {0}
  BY Sizes
<1>3. chunk = <<>> /\ written \in 0..(Places - 1) /\ written % Places = Due % Places
  <2>1. chunk = <<>>
    BY <1>1 DEF SignalInv, ChunkRight
  <2>2. Len(chunk) = 0 /\ written \in 0..(Places - 1)
    BY <2>1 DEF SignalInv, ChunkRight
  <2>3. written + Len(chunk) * InRate = written
    BY <1>2, <2>2
  <2> QED BY <2>1, <2>2, <2>3 DEF SignalInv, ChunkRight
<1>4. phase \in 0..(InRate - 1) /\ prev \in Sample /\ prev \in 0..(Samples - 1)
  BY DEF SignalInv, ResamplerRight, PhaseWithinASample, Sample
<1>5. PICK q \in Seq(Slot) : q = queue
  BY <1>1
<1>6. PICK r : r = queue'
  OBVIOUS
<1>7. PICK l \in Nat \ {0} : l = Len(q)
  BY <1>1, <1>5
<1>8. Len(r) = l - 1 /\ Head(q) = q[1] /\ \A i \in 1..(l - 1) : r[i] = q[i + 1]
  BY <1>1, <1>5, <1>6, <1>7
<1>9. RingRight'
  BY <1>1 DEF SignalInv, RingRight
<1>10. SlotsRight'
  <2>1. ASSUME NEW i \in 1..(l - 1)
        PROVE  (r[i] + ((l - 1) - i + 1)) % Slots = fill
    <3>1. i + 1 \in 1..l /\ l - (i + 1) + 1 = (l - 1) - i + 1
      BY <1>7
    <3>2. (q[i + 1] + (l - (i + 1) + 1)) % Slots = fill
      BY <1>5, <1>7, <3>1 DEF SignalInv, SlotsRight
    <3> QED BY <1>8, <3>1, <3>2
  <2> QED BY <1>1, <1>6, <1>8, <2>1, Zenon DEF SlotsRight
<1>11. DOMAIN mem' = Slot
  BY <1>1 DEF SignalInv, BuffersRight
<1>12. CASE ready
  <2>1. PICK c : c = Convert(Head(queue))
    OBVIOUS
  <2>2. phase' = c.phase /\ prev' = c.prev /\ chunk' = c.out /\ feeder' = "write"
    BY <1>12, <2>1 DEF Pop
  <2>3. /\ \A i \in 1..l : mem[q[i]] = (prev + 1 + (i - 1) * BufferSamples) % Samples
        /\ sampled = (prev + 1 + l * BufferSamples) % Samples
    BY <1>5, <1>7, <1>12 DEF SignalInv, BuffersRight, Heard
  <2>4. mem[Head(queue)] = (prev + 1) % Samples
    <3>1. 1 \in 1..l /\ prev + 1 + (1 - 1) * BufferSamples = prev + 1
      BY <1>2, <1>4
    <3>2. mem[q[1]] = (prev + 1) % Samples
      BY <2>3, <3>1
    <3> QED BY <1>5, <1>8, <3>2
  <2>5. Made(c, BufferSamples)
    BY <1>4, <2>1, <2>4, Converted
  <2>6. PICK p2 \in 0..(InRate - 1) : p2 = c.phase
    BY <2>5 DEF Made
  <2>7. PICK v2 \in 0..(Samples - 1) : v2 = c.prev /\ v2 = (prev + BufferSamples) % Samples
    <3>1. prev + BufferSamples \in Int
      BY <1>2, <1>4
    <3>2. (prev + BufferSamples) % Samples \in 0..(Samples - 1)
      BY <1>2, <3>1, Split
    <3> QED BY <2>5, <3>2 DEF Made
  <2>8. PICK o : o = c.out
    OBVIOUS
  <2>9. PICK n \in Nat : n = Len(o) /\ n * InRate = p2 + BufferSamples * OutRate - phase
    BY <2>5, <2>6, <2>8 DEF Made
  <2>10. o = [j \in 1..n |-> (Due + (j - 1) * InRate) % Places]
    BY <2>5, <2>8, <2>9 DEF Made
  <2>11. ResamplerRight'
    BY <1>2, <2>2, <2>6, <2>7 DEF ResamplerRight, PhaseWithinASample, Sample
  <2>12. PICK d \in Int : d = Due
    BY <1>2, <1>4 DEF Due
  <2>13. PICK w \in 0..(Places - 1) : w = written /\ w % Places = d % Places
    BY <1>3, <2>12
  <2>14. \A x \in Int : (w + x) % Places = (d + x) % Places
    <3>1. w \in Int
      BY <1>2
    <3> QED BY <1>2, <2>13, <3>1, SameAhead, ZenonT(30)
  <2>15. Goes(o, w)
    <3>1. \A j \in 1..n : (j - 1) * InRate \in Int
      BY <1>2
    <3>2. \A j \in 1..n : (w + (j - 1) * InRate) % Places = (d + (j - 1) * InRate) % Places
      BY <2>14, <3>1, Zenon
    <3>3. o = [j \in 1..n |-> (d + (j - 1) * InRate) % Places]
      BY <2>10, <2>12
    <3>4. o = [j \in 1..n |-> (w + (j - 1) * InRate) % Places]
      BY <3>2, <3>3, Zenon
    <3> QED BY <2>9, <3>4, Zenon DEF Goes
  <2>16. PICK d2 \in Int : d2 = Due' /\ d2 = (v2 + 1) * OutRate + p2
    <3>1. (v2 + 1) * OutRate + p2 \in Int
      BY <1>2
    <3>2. Due' = (v2 + 1) * OutRate + p2
      BY <2>2, <2>6, <2>7 DEF Due
    <3> QED BY <3>1, <3>2
  <2>17. (d + n * InRate) % Places = d2 % Places
    <3>1. PICK a \in Int : a = prev + BufferSamples
      BY <1>2, <1>4
    <3>2. PICK e \in Int : e = OutRate + p2
      BY <1>2
    <3>3. ((a % Samples) * OutRate + e) % (OutRate * Samples) = (a * OutRate + e) % (OutRate * Samples)
      BY <1>2, Scaled
    <3>4. (v2 * OutRate + e) % Places = (a * OutRate + e) % Places
      BY <2>7, <3>1, <3>3 DEF Places
    <3>5. v2 * OutRate + e = d2
      <4>1. (v2 + 1) * OutRate = v2 * OutRate + OutRate
        BY <1>2
      <4>2. PICK x \in Int : x = v2 * OutRate
        BY <1>2
      <4> QED BY <1>2, <2>16, <3>2, <4>1, <4>2
    <3>6. a * OutRate + e = d + n * InRate
      <4>1. PICK x \in Int : x = prev * OutRate
        BY <1>2, <1>4
      <4>2. PICK y \in Int : y = BufferSamples * OutRate
        BY <1>2
      <4>3. a * OutRate = x + y
        <5>1. (prev + BufferSamples) * OutRate = prev * OutRate + BufferSamples * OutRate
          BY <1>2, <1>4
        <5> QED BY <3>1, <4>1, <4>2, <5>1
      <4>4. d = x + OutRate + phase
        <5>1. (prev + 1) * OutRate = prev * OutRate + OutRate
          BY <1>2, <1>4
        <5>2. d = (prev + 1) * OutRate + phase
          BY <2>12 DEF Due
        <5>3. (prev + 1) * OutRate = x + OutRate
          BY <4>1, <5>1
        <5> QED BY <5>2, <5>3
      <4>5. n * InRate = p2 + y - phase
        BY <2>9, <4>2
      <4>6. phase \in Int /\ OutRate \in Int
        BY <1>2, <1>4
      <4> QED BY <3>2, <4>3, <4>4, <4>5, <4>6
    <3> QED BY <3>4, <3>5, <3>6
  <2>18. (w + n * InRate) % Places = d2 % Places
    <3>1. n * InRate \in Int
      BY <1>2
    <3> QED BY <2>14, <2>17, <3>1
  <2>19. ChunkRight'
    <3>1. chunk' = o /\ written' = w
      BY <1>1, <2>2, <2>8, <2>13
    <3>2. Goes(chunk', written')
      BY <2>15, <3>1, Zenon
    <3>3. Goes(chunk, written)'
      BY <3>2 DEF Goes
    <3>4. (written' + Len(chunk') * InRate) % Places = Due' % Places
      BY <2>9, <2>16, <2>18, <3>1
    <3>5. feeder' = "write" /\ written' \in 0..(Places - 1)
      BY <2>2, <3>1
    <3> QED BY <3>3, <3>4, <3>5 DEF ChunkRight
  <2>20. ASSUME NEW i \in Int
         PROVE  (prev + 1 + (i + 1 - 1) * BufferSamples) % Samples = (v2 + 1 + (i - 1) * BufferSamples) % Samples
    <3>1. PICK a \in Int : a = prev + BufferSamples
      BY <1>2, <1>4
    <3>2. PICK y \in Int : y = (i - 1) * BufferSamples
      BY <1>2
    <3>3. i * BufferSamples = y + BufferSamples
      <4>1. i * BufferSamples = (i - 1) * BufferSamples + BufferSamples
        BY <1>2
      <4> QED BY <3>2, <4>1
    <3>4. PICK e \in Int : e = 1 + y
      OBVIOUS
    <3>5. ((a % Samples) + e) % Samples = (a + e) % Samples
      BY <1>2, PlusSame
    <3>6. v2 = a % Samples
      BY <2>7, <3>1
    <3>7. prev + 1 + (i + 1 - 1) * BufferSamples = a + e
      <4>1. i + 1 - 1 = i
        OBVIOUS
      <4>2. (i + 1 - 1) * BufferSamples = y + BufferSamples
        BY <3>3, <4>1
      <4> QED BY <1>2, <1>4, <3>1, <3>4, <4>2
    <3>8. v2 + 1 + (i - 1) * BufferSamples = v2 + e
      BY <3>2, <3>4
    <3> QED BY <3>5, <3>6, <3>7, <3>8
  <2>21. ASSUME NEW i \in 1..(l - 1)
         PROVE  mem[r[i]] = (v2 + 1 + (i - 1) * BufferSamples) % Samples
    <3>1. i + 1 \in 1..l /\ i \in Int
      BY <1>7
    <3>2. mem[q[i + 1]] = (prev + 1 + (i + 1 - 1) * BufferSamples) % Samples
      <4>1. PICK x \in 1..l : x = i + 1
        BY <3>1
      <4>2. mem[q[x]] = (prev + 1 + (x - 1) * BufferSamples) % Samples
        BY <2>3
      <4> QED BY <4>1, <4>2
    <3> QED BY <1>8, <2>20, <3>1, <3>2
  <2>22. sampled = (v2 + 1 + (l - 1) * BufferSamples) % Samples
    <3>1. l \in Int /\ l + 1 - 1 = l
      BY <1>7
    <3>2. (prev + 1 + (l + 1 - 1) * BufferSamples) % Samples = (v2 + 1 + (l - 1) * BufferSamples) % Samples
      BY <2>20, <3>1
    <3> QED BY <2>3, <3>1, <3>2
  <2>23. BuffersRight'
    <3>1. prev' = v2
      BY <2>2, <2>7
    <3> QED BY <1>1, <1>6, <1>8, <1>11, <2>21, <2>22, <3>1, Zenon DEF BuffersRight
  <2> QED BY <1>9, <1>10, <2>11, <2>19, <2>23 DEF SignalInv
<1>13. CASE ~ready
  <2>1. feeder' = "callback" /\ phase' = phase /\ prev' = prev /\ chunk' = chunk
    BY <1>13 DEF Pop, resampler
  <2>2. ResamplerRight'
    BY <2>1 DEF SignalInv, ResamplerRight, PhaseWithinASample
  <2>3. ChunkRight'
    BY <1>1, <1>3, <2>1 DEF SignalInv, ChunkRight, Goes, Due
  <2>4. ~Heard'
    BY <1>1, <1>13, <2>1 DEF Heard
  <2>5. BuffersRight'
    BY <1>11, <2>4, Zenon DEF BuffersRight
  <2> QED BY <1>9, <1>10, <2>2, <2>3, <2>5 DEF SignalInv
<1> QED BY <1>12, <1>13

\* What one turn of write_frames puts into the ring is the signal's next frames.
LEMMA WriteTurn ==
  ASSUME SignalInv, Write, chunk # <<>>, Free # 0
  PROVE  \E n \in 1..(RingFrames - 1) :
           /\ n <= Len(chunk) /\ n <= Free
           /\ Written(data', data, chunk, head, n) /\ OnFrom(head, n, head')
           /\ chunk' = SubSeq(chunk, n + 1, Len(chunk))
           /\ written' = (written + n * InRate) % Places
           /\ tail' = tail /\ feeder' = feeder
<1>1. PICK u \in 0..(RingFrames - 1) : u = Used
  <2>1. RingFrames \in Nat \ {0} /\ head - tail \in Int
    BY Sizes DEF SignalInv, RingRight, Index
  <2> QED BY <2>1, Split DEF Used
<1>2. PICK f \in 1..(RingFrames - 1) : f = Free
  <2>1. RingFrames \in Nat \ {0}
    BY Sizes
  <2> QED BY <1>1, <2>1 DEF Free
<1>3. PICK l \in Nat \ {0} : l = Len(chunk)
  <2>1. PICK c : c = chunk
    OBVIOUS
  <2>2. Len(c) \in Nat /\ c = [i \in 1..Len(c) |-> (written + (i - 1) * InRate) % Places] /\ c # <<>>
    BY <2>1 DEF SignalInv, ChunkRight, Goes
  <2>3. Len(c) # 0
    <3> SUFFICES ASSUME Len(c) = 0 PROVE FALSE
      OBVIOUS
    <3>1. c = [i \in {} |-> (written + (i - 1) * InRate) % Places]
      <4>1. 1..0 = {}
        OBVIOUS
      <4> QED BY <2>2, <4>1
    <3>2. c = <<>>
      BY <3>1
    <3> QED BY <2>2, <3>2
  <2> QED BY <2>1, <2>2, <2>3
<1>4. PICK n : n = IF l < f THEN l ELSE f
  OBVIOUS
<1>5. n \in 1..(RingFrames - 1) /\ n <= l /\ n <= f
  <2>1. RingFrames \in Nat \ {0}
    BY Sizes
  <2> QED BY <1>4, <2>1
<1>6. /\ data' = [i \in Index |-> LET k == (i - head) % RingFrames IN IF k < n THEN chunk[k + 1] ELSE data[i]]
      /\ head' = (head + n) % RingFrames
      /\ chunk' = SubSeq(chunk, n + 1, Len(chunk))
      /\ written' = (written + n * InRate) % Places
      /\ tail' = tail /\ feeder' = feeder
  BY <1>2, <1>3, <1>4, Zenon DEF Write
<1>7. Written(data', data, chunk, head, n) /\ OnFrom(head, n, head')
  BY <1>6 DEF Written, OnFrom
<1> QED BY <1>2, <1>3, <1>5, <1>6, <1>7

\* The rest of the chunk goes on with what was written of it.
LEMMA RestGoesOn ==
  ASSUME NEW w \in 0..(Places - 1), NEW c, Goes(c, w), NEW n \in 1..Len(c),
         NEW x, x = (w + n * InRate) % Places
  PROVE  /\ x \in 0..(Places - 1)
         /\ Goes(SubSeq(c, n + 1, Len(c)), x)
         /\ (x + Len(SubSeq(c, n + 1, Len(c))) * InRate) % Places = (w + Len(c) * InRate) % Places
<1>1. InRate \in Nat \ {0} /\ Places \in Nat \ {0}
  BY Sizes
<1>2. PICK l \in Nat : l = Len(c)
  BY DEF Goes
<1>3. c = [i \in 1..l |-> (w + (i - 1) * InRate) % Places]
  BY <1>2 DEF Goes
<1>4. PICK S : S = {c[i] : i \in 1..l}
  OBVIOUS
<1>5. c \in Seq(S)
  <2>1. c \in [1..l -> S]
    BY <1>3, <1>4
  <2> QED BY <2>1, IsSequence
<1>6. PICK r : r = SubSeq(c, n + 1, Len(c))
  OBVIOUS
<1>7. n \in 1..l /\ n \in Nat /\ l - n \in Nat
  BY <1>2
<1>8. Len(r) = l - n /\ r = [i \in 1..(l - n) |-> c[n + i]]
  <2>1. n \in 0..Len(c)
    BY <1>2, <1>7
  <2>2. /\ Len(SubSeq(c, n + 1, Len(c))) = Len(c) - n
        /\ SubSeq(c, n + 1, Len(c)) = [i \in 1..(Len(c) - n) |-> c[n + i]]
    BY <1>5, <2>1, Behind, ZenonT(30)
  <2> QED BY <1>2, <1>6, <2>2, Zenon
<1>9. PICK a \in Int : a = w + n * InRate /\ x = a % Places
  BY <1>1, <1>7
<1>10. x \in 0..(Places - 1) /\ \A e \in Int : (x + e) % Places = (a + e) % Places
  <2>1. x \in 0..(Places - 1)
    BY <1>1, <1>9, Split
  <2>2. \A e \in Int : ((a % Places) + e) % Places = (a + e) % Places
    BY <1>1, PlusSame
  <2> QED BY <1>9, <2>1, <2>2
<1>11. ASSUME NEW i \in 1..(l - n)
       PROVE  c[n + i] = (x + (i - 1) * InRate) % Places
  <2>1. n + i \in 1..l
    BY <1>7
  <2>2. c[n + i] = (w + (n + i - 1) * InRate) % Places
    BY <1>3, <2>1
  <2>3. PICK e \in Int : e = (i - 1) * InRate
    BY <1>1, <1>7
  <2>4. w + (n + i - 1) * InRate = a + e
    <3>1. (n + i - 1) * InRate = n * InRate + (i - 1) * InRate
      BY <1>1, <1>7
    <3>2. PICK y \in Int : y = n * InRate
      BY <1>1, <1>7
    <3> QED BY <1>1, <1>9, <2>3, <3>1, <3>2
  <2>5. (x + e) % Places = (a + e) % Places
    BY <1>10
  <2> QED BY <2>2, <2>3, <2>4, <2>5
<1>12. Goes(r, x)
  <2>1. r = [i \in 1..(l - n) |-> (x + (i - 1) * InRate) % Places]
    BY <1>8, <1>11, Zenon
  <2> QED BY <1>7, <1>8, <2>1, Zenon DEF Goes
<1>13. (x + (l - n) * InRate) % Places = (w + l * InRate) % Places
  <2>1. PICK e \in Int : e = (l - n) * InRate
    BY <1>1, <1>7
  <2>2. w + l * InRate = a + e
    <3>1. l * InRate = n * InRate + (l - n) * InRate
      BY <1>1, <1>7
    <3>2. PICK y \in Int : y = n * InRate
      BY <1>1, <1>7
    <3> QED BY <1>1, <1>9, <2>1, <3>1, <3>2
  <2>3. (x + e) % Places = (a + e) % Places
    BY <1>10
  <2> QED BY <2>1, <2>2, <2>3
<1> QED BY <1>2, <1>6, <1>8, <1>10, <1>12, <1>13

LEMMA WriteSignal == ASSUME SignalInv, Write PROVE SignalInv'
<1>1. /\ feeder = "write" /\ feeder' \in {"write", "callback", "full"}
      /\ UNCHANGED <<queue, ready, phase, prev, mem, fill, sampled>>
      /\ chunk = <<>> => feeder' = "callback" /\ UNCHANGED <<chunk, written, head, tail>>
      /\ chunk # <<>> /\ Free = 0 => feeder' = "full" /\ UNCHANGED <<chunk, written, head, tail>>
  BY DEF Write, player, resampler, driver, ring
<1>2. Heard' => Heard
  BY <1>1 DEF Heard
<1>3. CASE chunk = <<>> \/ Free = 0
  <2>1. UNCHANGED <<queue, resampler, chunk, written, head, tail, driver>>
    BY <1>1, <1>3 DEF resampler, driver
  <2>2. /\ queue' = queue /\ phase' = phase /\ prev' = prev /\ chunk' = chunk /\ written' = written
        /\ head' = head /\ tail' = tail /\ mem' = mem /\ fill' = fill /\ sampled' = sampled
    BY <2>1 DEF resampler, driver
  <2>3. ResamplerRight' /\ RingRight'
    BY <2>2 DEF SignalInv, ResamplerRight, RingRight, PhaseWithinASample
  <2>4. feeder' \notin {"write", "full"} => chunk' = <<>>
    BY <1>1, <1>3, <2>2
  <2>5. ChunkRight'
    BY <2>2, <2>4 DEF SignalInv, ChunkRight, Goes, Due
  <2>6. SlotsRight' /\ BuffersRight'
    BY <1>2, <2>2 DEF SignalInv, SlotsRight, BuffersRight
  <2> QED BY <2>3, <2>5, <2>6 DEF SignalInv
<1>4. CASE chunk # <<>> /\ Free # 0
  <2>1. PICK n \in 1..(RingFrames - 1) :
           /\ n <= Len(chunk) /\ n <= Free
           /\ Written(data', data, chunk, head, n) /\ OnFrom(head, n, head')
           /\ chunk' = SubSeq(chunk, n + 1, Len(chunk))
           /\ written' = (written + n * InRate) % Places
           /\ tail' = tail /\ feeder' = feeder
    BY <1>4, WriteTurn
  <2>2. RingRight'
    <3>1. RingFrames \in Nat \ {0} /\ head + n \in Int
      BY Sizes DEF SignalInv, RingRight, Index
    <3>2. head' \in Index
      BY <2>1, <3>1, Split DEF OnFrom, Index
    <3> QED BY <2>1, <3>2 DEF SignalInv, RingRight
  <2>3. ResamplerRight' /\ SlotsRight' /\ BuffersRight'
    BY <1>1, <1>2 DEF SignalInv, ResamplerRight, PhaseWithinASample, SlotsRight, BuffersRight
  <2>4. ChunkRight'
    <3>1. PICK c, w, x : c = chunk /\ w = written /\ x = written'
      OBVIOUS
    <3>2. Goes(c, w) /\ w \in 0..(Places - 1) /\ (w + Len(c) * InRate) % Places = Due % Places
      BY <3>1 DEF SignalInv, ChunkRight
    <3>3. n \in 1..Len(c)
      BY <2>1, <3>1, <3>2 DEF Goes
    <3>4. x = (w + n * InRate) % Places
      BY <2>1, <3>1
    <3>5. /\ x \in 0..(Places - 1)
          /\ Goes(SubSeq(c, n + 1, Len(c)), x)
          /\ (x + Len(SubSeq(c, n + 1, Len(c))) * InRate) % Places = (w + Len(c) * InRate) % Places
      BY <3>2, <3>3, <3>4, RestGoesOn, Zenon
    <3>6. chunk' = SubSeq(c, n + 1, Len(c)) /\ feeder' = "write" /\ Due' = Due
      BY <1>1, <2>1, <3>1 DEF Due
    <3>7. Goes(chunk, written)'
      BY <3>1, <3>5, <3>6 DEF Goes
    <3>8. (written' + Len(chunk') * InRate) % Places = Due' % Places
      BY <3>1, <3>2, <3>5, <3>6
    <3> QED BY <3>1, <3>5, <3>6, <3>7, <3>8 DEF ChunkRight
  <2> QED BY <2>2, <2>3, <2>4 DEF SignalInv
<1> QED BY <1>3, <1>4

LEMMA MixMoves ==
  ASSUME SignalInv, Mix
  PROVE  \E m \in 0..Used :
           /\ OnFrom(tail, m, tail') /\ m <= Used
           /\ UNCHANGED <<queue, ready, resampler, chunk, written, data, head, driver>>
           /\ feeder' = feeder \/ (feeder = "full" /\ feeder' = "write")
<1>1. PICK u \in Nat : u = Used
  <2>1. RingFrames \in Nat \ {0} /\ head - tail \in Int
    BY Sizes DEF SignalInv, RingRight, Index
  <2> QED BY <2>1, Split DEF Used
<1>2. PICK m : m = IF u < MixFrames THEN u ELSE MixFrames
  OBVIOUS
<1>3. m \in 0..u
  <2>1. MixFrames \in Nat \ {0}
    BY Sizes
  <2> QED BY <1>1, <1>2, <2>1
<1>4. tail' = (tail + m) % RingFrames
  BY <1>1, <1>2 DEF Mix
<1>5. /\ UNCHANGED <<queue, ready, resampler, chunk, written, data, head, driver>>
      /\ feeder' = feeder \/ (feeder = "full" /\ feeder' = "write")
  BY DEF Mix, player
<1> QED BY <1>1, <1>3, <1>4, <1>5 DEF OnFrom

LEMMA MixSignal == ASSUME SignalInv, Mix PROVE SignalInv'
<1>1. PICK m \in 0..Used :
           /\ OnFrom(tail, m, tail') /\ m <= Used
           /\ UNCHANGED <<queue, ready, resampler, chunk, written, data, head, driver>>
           /\ feeder' = feeder \/ (feeder = "full" /\ feeder' = "write")
  BY MixMoves
<1>2. /\ queue' = queue /\ phase' = phase /\ prev' = prev /\ chunk' = chunk /\ written' = written
      /\ head' = head /\ mem' = mem /\ fill' = fill /\ sampled' = sampled /\ ready' = ready
  BY <1>1 DEF resampler, driver
<1>3. ResamplerRight' /\ SlotsRight'
  BY <1>2 DEF SignalInv, ResamplerRight, PhaseWithinASample, SlotsRight
<1>4. RingRight'
  <2>1. RingFrames \in Nat \ {0} /\ Used \in Nat /\ tail \in Int /\ head - tail \in Int
    <3>1. RingFrames \in Nat \ {0} /\ tail \in Int /\ head - tail \in Int
      BY Sizes DEF SignalInv, RingRight, Index
    <3>2. (head - tail) % RingFrames \in 0..(RingFrames - 1)
      BY <3>1, Split, ZenonT(30)
    <3> QED BY <3>1, <3>2 DEF Used
  <2>2. tail + m \in Int
    BY <2>1
  <2>3. tail' \in Index
    BY <1>1, <2>1, <2>2, Split DEF OnFrom, Index
  <2> QED BY <1>2, <2>3 DEF SignalInv, RingRight
<1>5. ChunkRight'
  BY <1>1, <1>2 DEF SignalInv, ChunkRight, Goes, Due
<1>6. BuffersRight'
  <2>1. Heard' => Heard
    BY <1>1, <1>2 DEF Heard
  <2> QED BY <1>2, <2>1 DEF SignalInv, BuffersRight
<1> QED BY <1>3, <1>4, <1>5, <1>6 DEF SignalInv

LEMMA SignalStep == ASSUME QueueInv, SignalInv, [Next]_vars PROVE SignalInv'
<1>1. queue \in Seq(Slot) /\ fill \in Slot /\ prev \in Sample
  BY DEF QueueInv, QueueTypes, SignalInv, ResamplerRight
<1>2. CASE UNCHANGED vars
  <2>1. UNCHANGED <<queue, resampler, chunk, written, head, tail, driver, feeder, ready>>
    BY <1>2 DEF vars, player, ring
  <2>2. feeder' = feeder /\ ready' = ready
    BY <2>1
  <2> QED BY <2>1, <2>2, SignalKept DEF Heard
<1>3. CASE Realize
  <2>1. /\ UNCHANGED <<queue, resampler, chunk, written, head, tail, driver>>
        /\ feeder = "unborn" /\ feeder' = "ensure" /\ ready' = ready
    BY <1>3 DEF Realize, player, ring
  <2> QED BY <2>1, SignalKept DEF Heard
<1>4. CASE EnqueueFirst
  <2>1. /\ Len(queue) < Prefill /\ FillNext /\ queue' = Enqueued(queue, fill)
        /\ UNCHANGED <<resampler, chunk, written, head, tail, ready>>
        /\ feeder' = Wake(feeder, queue', state)
    BY <1>4 DEF EnqueueFirst, ring
  <2>2. /\ phase' = phase /\ prev' = prev /\ chunk' = chunk /\ written' = written
        /\ head' = head /\ tail' = tail /\ ready' = ready
    BY <2>1 DEF resampler
  <2>3. feeder' = feeder \/ (feeder = "idle" /\ feeder' = "check")
    BY <2>1 DEF Wake
  <2>4. Heard' => Heard
    BY <2>2, <2>3 DEF Heard
  <2>5. SlotsRight' /\ BuffersRight'
    BY <1>1, <2>1, <2>2, <2>4, NextFilled DEF SignalInv
  <2>6. ResamplerRight' /\ RingRight'
    BY <2>2 DEF SignalInv, ResamplerRight, PhaseWithinASample, RingRight
  <2>7. ChunkRight'
    BY <2>2, <2>3 DEF SignalInv, ChunkRight, Goes, Due
  <2> QED BY <2>5, <2>6, <2>7 DEF SignalInv
<1>5. CASE Ensure
  <2>1. /\ UNCHANGED <<queue, resampler, chunk, written, head, tail, driver>>
        /\ feeder = "ensure" /\ feeder' = "check"
    BY <1>5 DEF Ensure, player, ring
  <2> QED BY <2>1, SignalKept DEF Heard
<1>6. CASE Check
  <2>1. /\ UNCHANGED <<queue, resampler, chunk, written, head, tail, driver>>
        /\ feeder = "check" /\ feeder' \in {"pop", "idle"} /\ ready' = ready
    BY <1>6 DEF Check, player, ring
  <2> QED BY <2>1, SignalKept DEF Heard
<1>7. CASE Pop
  BY <1>7, PopSignal
<1>8. CASE Write
  BY <1>8, WriteSignal
<1>9. CASE Callback
  <2>1. /\ FillNext /\ queue' = Enqueued(queue, fill)
        /\ UNCHANGED <<resampler, chunk, written, head, tail, ready>>
        /\ feeder = "callback" /\ feeder' = "check"
    BY <1>9 DEF Callback, ring
  <2>2. /\ phase' = phase /\ prev' = prev /\ chunk' = chunk /\ written' = written
        /\ head' = head /\ tail' = tail /\ ready' = ready
    BY <2>1 DEF resampler
  <2>3. Len(queue) < Prefill
    <3>1. state # "stopped"
      BY <2>1 DEF QueueInv, BeforePlayback
    <3>2. Len(queue) + 1 = Prefill
      BY <2>1, <3>1 DEF QueueInv, NoBufferLost
    <3>3. Len(queue) \in Nat
      BY <1>1
    <3> QED BY <3>2, <3>3
  <2>4. Heard' => Heard
    BY <2>1, <2>2 DEF Heard
  <2>5. SlotsRight' /\ BuffersRight'
    BY <1>1, <2>1, <2>2, <2>3, <2>4, NextFilled DEF SignalInv
  <2>6. ResamplerRight' /\ RingRight'
    BY <2>2 DEF SignalInv, ResamplerRight, PhaseWithinASample, RingRight
  <2>7. ChunkRight'
    BY <2>1, <2>2 DEF SignalInv, ChunkRight, Goes, Due
  <2> QED BY <2>5, <2>6, <2>7 DEF SignalInv
<1>10. CASE Released
  <2>1. UNCHANGED <<queue, resampler, chunk, written, head, tail, driver>> /\ feeder' = feeder /\ ready' = ready
    BY <1>10 DEF Released, player, ring
  <2> QED BY <2>1, SignalKept DEF Heard
<1>11. CASE Mix
  BY <1>11, MixSignal
<1>12. ASSUME NEW s \in {"paused", "playing"}, SetPlayState(s) PROVE SignalInv'
  <2>1. /\ UNCHANGED <<queue, resampler, chunk, written, head, tail, driver>> /\ ready' = ready
        /\ feeder' = feeder \/ (feeder = "idle" /\ feeder' = "check")
    BY <1>12 DEF SetPlayState, ring, Wake
  <2> QED BY <2>1, SignalKept DEF Heard
<1>13. ASSUME NEW p \in BOOLEAN, SetPaused(p) PROVE SignalInv'
  <2>1. UNCHANGED <<queue, resampler, chunk, written, head, tail, driver>> /\ feeder' = feeder /\ ready' = ready
    BY <1>13 DEF SetPaused, player, ring
  <2> QED BY <2>1, SignalKept DEF Heard
<1> QED
  BY <1>2, <1>3, <1>4, <1>5, <1>6, <1>7, <1>8, <1>9, <1>10, <1>11, <1>12, <1>13
  DEF Next, Feeder, Sink

----------------------------------------------------------------------------
(* The line of frames that PcmStream speaks of.                            *)

LEMMA InRingIs ==
  ASSUME SignalInv
  PROVE  /\ Used \in 0..(RingFrames - 1) /\ Len(InRing) = Used
         /\ \E S : InRing \in [1..Used -> S]
<1>1. RingFrames \in Nat \ {0} /\ head - tail \in Int
  BY Sizes DEF SignalInv, RingRight, Index
<1>2. PICK u \in 0..(RingFrames - 1) : u = Used
  BY <1>1, Split DEF Used
<1>3. PICK r : r = InRing /\ r = [i \in 1..u |-> data[(tail + i - 1) % RingFrames]]
  BY <1>2 DEF InRing
<1>4. PICK S : S = {r[i] : i \in 1..u}
  OBVIOUS
<1>5. r \in [1..u -> S]
  BY <1>3, <1>4
<1>6. Len(r) = u
  BY <1>2, <1>5, IsSequence
<1> QED BY <1>2, <1>3, <1>5, <1>6

LEMMA WriteAccepts ==
  ASSUME SignalInv, SignalInv', Write, chunk # <<>>, Free # 0
  PROVE  \E n \in 1..(RingFrames - 1) : Stream!Accept(n)
<1>1. PICK n \in 1..(RingFrames - 1) :
           /\ n <= Len(chunk) /\ n <= Free
           /\ Written(data', data, chunk, head, n) /\ OnFrom(head, n, head')
           /\ chunk' = SubSeq(chunk, n + 1, Len(chunk))
           /\ written' = (written + n * InRate) % Places
           /\ tail' = tail /\ feeder' = feeder
  BY WriteTurn
<1>2. RingFrames \in Nat \ {0} /\ n \in Nat /\ n > 0
  BY Sizes
<1>3. PICK u \in 0..(RingFrames - 1) : u = Used /\ Len(InRing) = u
  BY InRingIs
<1>4. u + n <= RingFrames - 1
  BY <1>1, <1>2, <1>3 DEF Free
<1>5. PICK h, t, d, e, g, c : h = head /\ t = tail /\ d = data /\ e = data' /\ g = head' /\ c = chunk
  OBVIOUS
<1>6. h \in Index /\ t \in Index /\ Between(h, t, u) /\ Written(e, d, c, h, n) /\ OnFrom(h, n, g)
  BY <1>1, <1>3, <1>5 DEF SignalInv, RingRight, Between, Used
<1>7. /\ Between(g, t, u + n)
      /\ \A i \in 1..(u + n) : e[(t + i - 1) % RingFrames]
                                 = IF i <= u THEN d[(t + i - 1) % RingFrames] ELSE c[i - u]
  <2>1. Between(g, t, u + n) /\ Longer(e, d, c, t, u, n)
    BY <1>2, <1>4, <1>6, PutIn, Zenon
  <2> QED BY <2>1 DEF Longer
<1>8. PICK r : r = InRing
  OBVIOUS
<1>9. r = [i \in 1..u |-> d[(t + i - 1) % RingFrames]]
  BY <1>3, <1>5, <1>8 DEF InRing
<1>10. PICK r2 : r2 = InRing'
  OBVIOUS
<1>11. r2 = [i \in 1..(u + n) |-> e[(t + i - 1) % RingFrames]]
  <2>1. Used' = u + n
    BY <1>1, <1>5, <1>7 DEF Between, Used
  <2> QED BY <1>1, <1>5, <1>10, <2>1 DEF InRing
<1>12. PICK w : w = written
  OBVIOUS
<1>13. \A i \in 1..n : c[i] = (w + (i - 1) * InRate) % Places
  <2>1. n <= Len(c) /\ Len(c) \in Nat /\ c = [i \in 1..Len(c) |-> (w + (i - 1) * InRate) % Places]
    BY <1>1, <1>5, <1>12 DEF SignalInv, ChunkRight, Goes
  <2>2. \A i \in 1..n : i \in 1..Len(c)
    BY <1>2, <2>1
  <2> QED BY <2>1, <2>2, Zenon
<1>14. PICK b : b = [i \in 1..n |-> (w + (i - 1) * InRate) % Places]
  OBVIOUS
<1>15. r2 = r \o b
  <2>1. PICK S : S = {r[i] : i \in 1..u} \cup {b[i] : i \in 1..n}
    OBVIOUS
  <2>2. r \in [1..u -> S] /\ b \in [1..n -> S]
    BY <1>9, <1>14, <2>1
  <2>3. r \in Seq(S) /\ b \in Seq(S) /\ Len(r) = u /\ Len(b) = n
    BY <1>2, <1>3, <2>2, IsSequence
  <2>4. r \o b = [j \in 1..(Len(r) + Len(b)) |-> IF j <= Len(r) THEN r[j] ELSE b[j - Len(r)]]
    <3>1. r \in Seq(S) /\ b \in Seq(S)
      BY <2>3
    <3> QED BY <3>1, Joined, Zenon
  <2>5. r \o b = [j \in 1..(u + n) |-> IF j <= u THEN r[j] ELSE b[j - u]]
    BY <2>3, <2>4
  <2>6. ASSUME NEW j \in 1..(u + n)
        PROVE  (IF j <= u THEN r[j] ELSE b[j - u]) = e[(t + j - 1) % RingFrames]
    <3>1. CASE j <= u
      <4>1. j \in 1..u
        BY <1>3, <3>1
      <4>2. r[j] = d[(t + j - 1) % RingFrames]
        BY <1>9, <4>1, Zenon
      <4>3. e[(t + j - 1) % RingFrames] = d[(t + j - 1) % RingFrames]
        BY <1>7, <3>1, Zenon
      <4> QED BY <3>1, <4>2, <4>3, Zenon
    <3>2. CASE ~(j <= u)
      <4>1. PICK k \in 1..n : k = j - u
        BY <1>2, <1>3, <3>2
      <4>2. b[k] = c[k]
        BY <1>13, <1>14, Zenon
      <4>3. e[(t + j - 1) % RingFrames] = c[j - u]
        BY <1>7, <3>2, Zenon
      <4> QED BY <3>2, <4>1, <4>2, <4>3, Zenon
    <3> QED BY <3>1, <3>2
  <2> QED BY <1>11, <2>5, <2>6, Zenon
<1>16. Stream!Accept(n)
  <2>1. InRing' = InRing \o [i \in 1..n |-> (written + (i - 1) * InRate) % Places]
    BY <1>8, <1>10, <1>12, <1>14, <1>15
  <2>2. Len(InRing) + n <= RingFrames - 1
    BY <1>3, <1>4
  <2> QED BY <1>1, <1>2, <2>1, <2>2, Zenon DEF Stream!Accept
<1> QED BY <1>16

LEMMA MixPlays ==
  ASSUME SignalInv, SignalInv', Mix
  PROVE  (\E m \in 1..(RingFrames - 1) : Stream!Play(m)) \/ UNCHANGED <<written, InRing>>
<1>1. PICK m \in 0..Used :
           /\ OnFrom(tail, m, tail') /\ m <= Used
           /\ UNCHANGED <<queue, ready, resampler, chunk, written, data, head, driver>>
           /\ feeder' = feeder \/ (feeder = "full" /\ feeder' = "write")
  BY MixMoves
<1>2. RingFrames \in Nat \ {0}
  BY Sizes
<1>3. PICK u \in 0..(RingFrames - 1) : u = Used /\ Len(InRing) = u
  BY InRingIs
<1>4. m \in 0..u
  BY <1>1, <1>3
<1>5. PICK h, t, d, g : h = head /\ t = tail /\ d = data /\ g = tail'
  OBVIOUS
<1>6. h \in Index /\ t \in Index /\ Between(h, t, u) /\ OnFrom(t, m, g)
  BY <1>1, <1>3, <1>5 DEF SignalInv, RingRight, Between, Used
<1>7. /\ Between(h, g, u - m) /\ g \in Index
      /\ \A i \in 1..(u - m) : (g + i - 1) % RingFrames = (t + (m + i) - 1) % RingFrames
  <2>1. Between(h, g, u - m) /\ g \in Index /\ Shorter(g, t, u, m)
    BY <1>4, <1>6, TakeOut, Zenon
  <2> QED BY <2>1 DEF Shorter
<1>8. PICK r : r = InRing
  OBVIOUS
<1>9. r = [i \in 1..u |-> d[(t + i - 1) % RingFrames]]
  BY <1>3, <1>5, <1>8 DEF InRing
<1>10. PICK r2 : r2 = InRing'
  OBVIOUS
<1>11. r2 = [i \in 1..(u - m) |-> d[(g + i - 1) % RingFrames]]
  <2>1. Used' = u - m /\ data' = d /\ tail' = g
    BY <1>1, <1>5, <1>7 DEF Between, Used
  <2> QED BY <1>10, <2>1 DEF InRing
<1>12. r2 = [i \in 1..(u - m) |-> r[m + i]]
  <2>1. ASSUME NEW i \in 1..(u - m) PROVE d[(g + i - 1) % RingFrames] = r[m + i]
    <3>1. PICK k \in 1..u : k = m + i
      BY <1>4
    <3>2. r[k] = d[(t + k - 1) % RingFrames]
      BY <1>9, Zenon
    <3>3. (g + i - 1) % RingFrames = (t + (m + i) - 1) % RingFrames
      BY <1>7
    <3> QED BY <3>1, <3>2, <3>3, Zenon
  <2> QED BY <1>11, <2>1, Zenon
<1>13. r2 = SubSeq(r, m + 1, Len(r))
  <2>1. PICK S : S = {r[i] : i \in 1..u}
    OBVIOUS
  <2>2. r \in [1..u -> S]
    BY <1>9, <2>1
  <2>3. r \in Seq(S) /\ Len(r) = u
    BY <1>3, <2>2, IsSequence
  <2>4. m \in 0..Len(r)
    BY <1>4, <2>3
  <2>5. SubSeq(r, m + 1, Len(r)) = [i \in 1..(Len(r) - m) |-> r[m + i]]
    BY <2>3, <2>4, Behind, ZenonT(30)
  <2> QED BY <1>12, <2>3, <2>5
<1>14. written' = written
  BY <1>1
<1>15. CASE m = 0
  <2>1. r2 = r
    <3>1. u - m = u /\ \A i \in 1..u : m + i = i
      BY <1>15
    <3>2. r2 = [i \in 1..u |-> r[i]]
      BY <1>12, <3>1
    <3> QED BY <1>9, <3>2
  <2> QED BY <1>8, <1>10, <1>14, <2>1
<1>16. CASE m # 0
  <2>1. m \in 1..Len(InRing) /\ m \in 1..(RingFrames - 1)
    BY <1>2, <1>3, <1>4, <1>16
  <2>2. InRing' = SubSeq(InRing, m + 1, Len(InRing))
    BY <1>8, <1>10, <1>13
  <2>3. Stream!Play(m)
    BY <1>14, <2>1, <2>2, Zenon DEF Stream!Play
  <2> QED BY <2>1, <2>3
<1> QED BY <1>15, <1>16

LEMMA StreamStep ==
  ASSUME SignalInv, SignalInv', [Next]_vars
  PROVE  [Stream!Next]_(Stream!vars)
<1>1. CASE UNCHANGED <<data, head, tail, written>>
  <2>1. written' = written /\ InRing' = InRing
    BY <1>1 DEF InRing, Used
  <2> QED BY <2>1 DEF Stream!vars
<1>2. CASE Write
  <2>1. CASE chunk = <<>> \/ Free = 0
    <3>1. UNCHANGED <<data, head, tail, written>>
      BY <1>2, <2>1 DEF Write, ring
    <3> QED BY <1>1, <3>1
  <2>2. CASE chunk # <<>> /\ Free # 0
    <3>1. \E n \in 1..(RingFrames - 1) : Stream!Accept(n)
      BY <1>2, <2>2, WriteAccepts
    <3> QED BY <3>1 DEF Stream!Next
  <2> QED BY <2>1, <2>2
<1>3. CASE Mix
  <2>1. (\E m \in 1..(RingFrames - 1) : Stream!Play(m)) \/ UNCHANGED <<written, InRing>>
    BY <1>3, MixPlays
  <2>2. CASE \E m \in 1..(RingFrames - 1) : Stream!Play(m)
    BY <2>2 DEF Stream!Next
  <2>3. CASE UNCHANGED <<written, InRing>>
    BY <2>3 DEF Stream!vars
  <2> QED BY <2>1, <2>2, <2>3
<1> DEFINE Elsewhere ==
      \/ UNCHANGED vars \/ Realize \/ EnqueueFirst \/ Ensure \/ Check \/ Pop \/ Callback \/ Released
      \/ (\E s \in {"paused", "playing"} : SetPlayState(s)) \/ (\E p \in BOOLEAN : SetPaused(p))
<1>4. Elsewhere => UNCHANGED <<data, head, tail, written>>
  <2>1. UNCHANGED vars => UNCHANGED <<data, head, tail, written>>
    BY DEF vars, ring
  <2>2. Realize \/ EnqueueFirst \/ Ensure \/ Check => UNCHANGED <<data, head, tail, written>>
    BY DEF ring, Realize, EnqueueFirst, Ensure, Check
  <2>3. Pop \/ Callback \/ Released => UNCHANGED <<data, head, tail, written>>
    BY DEF ring, Pop, Callback, Released
  <2>4. (\E s \in {"paused", "playing"} : SetPlayState(s)) => UNCHANGED <<data, head, tail, written>>
    BY DEF ring, SetPlayState
  <2>5. (\E p \in BOOLEAN : SetPaused(p)) => UNCHANGED <<data, head, tail, written>>
    BY DEF ring, SetPaused
  <2> QED BY <2>1, <2>2, <2>3, <2>4, <2>5, Zenon
<1>5. Elsewhere \/ Write \/ Mix
  BY Zenon DEF Next, Feeder, Sink
<1> HIDE DEF Elsewhere
<1>6. UNCHANGED <<data, head, tail, written>> \/ Write \/ Mix
  BY <1>4, <1>5
<1> QED BY <1>1, <1>2, <1>3, <1>6

LEMMA StreamInit == Init => Stream!Init
<1> SUFFICES ASSUME Init PROVE Stream!Init
  OBVIOUS
<1>1. head = 0 /\ tail = 0 /\ written = 0 /\ RingFrames \in Nat \ {0}
  BY Sizes DEF Init
<1>2. Used = 0
  <2>1. 0 \in 0..(RingFrames - 1) /\ head - tail = 0
    BY <1>1
  <2>2. 0 % RingFrames = 0
    BY <1>1, <2>1, Around
  <2> QED BY <2>1, <2>2 DEF Used
<1>3. InRing = <<>>
  <2>1. 1..0 = {}
    OBVIOUS
  <2>2. InRing = [i \in {} |-> data[(tail + i - 1) % RingFrames]]
    BY <1>2, <2>1 DEF InRing
  <2> QED BY <2>2
<1> QED BY <1>1, <1>3 DEF Stream!Init

(* What the head of audio.c promises of the resampler and audio_sink.c of   *)
(* its ring: the frames that reach the device are the game's signal at even *)
(* steps, each once and in order, with no gap, repeat or click where one    *)
(* buffer ends and the next begins or where the ring wraps, for every pair  *)
(* of rates, size of buffer, of ring and of device buffer.                  *)
THEOREM SoundHasNoSeam == Spec => ImplementsStream
<1>1. Init => QueueInv /\ SignalInv /\ Stream!Init
  BY QueueInit, SignalInit, StreamInit
<1>2. QueueInv /\ SignalInv /\ [Next]_vars => QueueInv' /\ SignalInv'
  BY QueueStep, SignalStep
<1>3. SignalInv /\ SignalInv' /\ [Next]_vars => [Stream!Next]_(Stream!vars)
  BY StreamStep
<1> QED BY <1>1, <1>2, <1>3, PTL DEF Spec, ImplementsStream, Stream!Spec

(* The cap on convert's output (maxout) is never what ends a sample: the   *)
(* phase it leaves is always inside the next one.                          *)
THEOREM PhaseStaysWithin == Spec => []PhaseWithinASample
<1>1. Init => QueueInv /\ SignalInv
  BY QueueInit, SignalInit
<1>2. QueueInv /\ SignalInv /\ [Next]_vars => QueueInv' /\ SignalInv'
  BY QueueStep, SignalStep
<1>3. SignalInv => PhaseWithinASample
  BY DEF SignalInv, ResamplerRight
<1> QED BY <1>1, <1>2, <1>3, PTL DEF Spec
=============================================================================
