------------------------------ MODULE LogRing ------------------------------
(***************************************************************************)
(* The log (source/util.c): lines go into a ring that any thread may print *)
(* to, and the main thread moves them to the file on the card.  Engine     *)
(* lines that repeat are counted instead of kept, and so is what does not  *)
(* fit.  A thread that faults moves the lines itself, from wherever it is. *)
(* The statistics (source/main.c) have a queue of their own to their file. *)
(*                                                                         *)
(* A line is the number it was printed under; what is said twice in the    *)
(* engine's words is one text.  A count is the set of the lines it counts. *)
(* The ring lock is held for one step.                                     *)
(***************************************************************************)
EXTENDS Integers, Sequences

CONSTANTS Main, Others,    \* threads
          Ring, Chunk,     \* LOG_RING_SIZE, debugPump's buffer, in lines
          Keep,            \* LOG_KEEP_REPEATS
          MaxLines         \* bound

Printers == {Main} \cup Others

VARIABLES
  ring, dropped, seen, suppressed, reported,   \* s_ring to s_suppressed_reported
  eager,                                       \* s_eager_flush
  file,              \* the lines given to the FILE
  told,              \* the counts the file has: of dropped lines, of suppressed ones
  at, flush, hands,  \* each thread: where in debugPump, its argument, its chunk
  said,              \* how many lines there were
  printed,           \* those the log took, in order
  lost, skipped,     \* those it did not: dropped, suppressed
  earlier,           \* of a thread that faulted: the lines there were
  statsOpen, statsQ, statsAt, statsHands, statsFile,   \* s_stats, s_stats_q, stats_pump
  statsAsked, statsTaken       \* how many lines were emitted; those the queue took

log == <<ring, dropped, seen, suppressed, reported>>
past == <<said, printed, lost, skipped, earlier>>
stats == <<statsOpen, statsQ, statsAt, statsHands, statsFile, statsAsked, statsTaken>>
logVars == <<log, eager, file, told, at, flush, hands, past>>
vars == <<logVars, stats>>

Empty == [lines |-> <<>>, dropped |-> {}, suppressed |-> {}]
Lines(s) == {s[i] : i \in DOMAIN s}
Number == said + 1     \* of the next line

Init ==
  /\ ring = <<>> /\ dropped = {} /\ seen = 0 /\ suppressed = {} /\ reported = {}
  /\ eager = TRUE /\ file = <<>>
  /\ told = [dropped |-> {}, suppressed |-> {}]
  /\ at = [t \in Printers |-> "idle"] /\ flush = [t \in Printers |-> FALSE]
  /\ hands = [t \in Printers |-> Empty]
  /\ said = 0 /\ printed = <<>> /\ lost = {} /\ skipped = {}
  /\ earlier = [t \in Others |-> {}]
  /\ statsOpen \in BOOLEAN /\ statsAt = "idle" /\ statsQ = <<>> /\ statsHands = <<>> /\ statsFile = <<>>
  /\ statsAsked = 0 /\ statsTaken = <<>>

----------------------------------------------------------------------------
(* debugPrintf                                                             *)

\* log_suppress: an engine line that was kept often enough is only counted.
Suppress ==
  /\ seen >= Keep
  /\ suppressed' = suppressed \cup {Number} /\ skipped' = skipped \cup {Number}
  /\ UNCHANGED <<ring, dropped, printed, lost>>

\* log_put
Put ==
  /\ IF Len(ring) < Ring
     THEN ring' = Append(ring, Number) /\ printed' = Append(printed, Number)
          /\ UNCHANGED <<dropped, lost>>
     ELSE dropped' = dropped \cup {Number} /\ lost' = lost \cup {Number}
          /\ UNCHANGED <<ring, printed>>
  /\ UNCHANGED <<suppressed, skipped>>

\* While the boot lasts, the main thread writes each of its lines out at once.
PrintLine(t, engineLine) ==
  /\ at[t] = "idle" /\ said < MaxLines /\ said' = Number
  /\ IF engineLine
     THEN seen' = seen + 1 /\ (Suppress \/ (seen < Keep /\ Put))
     ELSE UNCHANGED seen /\ Put
  /\ IF eager /\ t = Main
     THEN at' = [at EXCEPT ![t] = "take"] /\ flush' = [flush EXCEPT ![t] = TRUE]
     ELSE UNCHANGED <<at, flush>>
  /\ UNCHANGED <<reported, eager, file, told, hands, earlier>>

\* debugSetEagerFlush, whose own line follows.
StopEager ==
  /\ eager /\ at[Main] = "idle"
  /\ eager' = FALSE
  /\ UNCHANGED <<log, file, told, at, flush, hands, past>>

----------------------------------------------------------------------------
(* debugPump, debugFlush                                                   *)

\* The main loop's, each turn, and once a second with a flush.
Pump(f) ==
  /\ at[Main] = "idle"
  /\ at' = [at EXCEPT ![Main] = "take"]
  /\ flush' = [flush EXCEPT ![Main] = f]
  /\ UNCHANGED <<log, eager, file, told, hands, past>>

\* A fault, on another thread; the lock is free in time.
Fault(t) ==
  /\ t \in Others /\ at[t] = "idle"
  /\ at' = [at EXCEPT ![t] = "take"]
  /\ flush' = [flush EXCEPT ![t] = TRUE]
  /\ earlier' = [earlier EXCEPT ![t] = Lines(printed)]
  /\ UNCHANGED <<log, eager, file, told, hands, said, printed, lost, skipped>>

Least(a, b) == IF a < b THEN a ELSE b

Taken(t) ==
  [lines |-> SubSeq(ring, 1, Least(Chunk, Len(ring))), dropped |-> dropped,
   suppressed |-> IF flush[t] THEN suppressed \ reported ELSE {}]

\* The count of what was dropped is read and kept.
TakeKeeping(t) ==
  /\ at[t] = "take"
  /\ hands' = [hands EXCEPT ![t] = Taken(t)]
  /\ ring' = SubSeq(ring, Least(Chunk, Len(ring)) + 1, Len(ring))
  /\ reported' = IF flush[t] THEN suppressed ELSE reported
  /\ at' = [at EXCEPT ![t] = "write"]
  /\ UNCHANGED <<dropped, seen, suppressed, eager, file, told, flush, past>>

\* log_take and the counts, under the lock.
Take(t) ==
  /\ at[t] = "take"
  /\ hands' = [hands EXCEPT ![t] = Taken(t)]
  /\ ring' = SubSeq(ring, Least(Chunk, Len(ring)) + 1, Len(ring))
  /\ dropped' = {}
  /\ reported' = IF flush[t] THEN suppressed ELSE reported
  /\ at' = [at EXCEPT ![t] = "write"]
  /\ UNCHANGED <<seen, suppressed, eager, file, told, flush, past>>

\* Without it: a chunk that was full is followed by another.
Write(t) ==
  /\ at[t] = "write"
  /\ file' = file \o hands[t].lines
  /\ told' = [dropped |-> told.dropped \cup hands[t].dropped,
              suppressed |-> told.suppressed \cup hands[t].suppressed]
  /\ hands' = [hands EXCEPT ![t] = Empty]
  /\ at' = [at EXCEPT ![t] = IF Len(hands[t].lines) = Chunk THEN "take"
                             ELSE IF flush[t] THEN "flush" ELSE "idle"]
  /\ UNCHANGED <<log, eager, flush, past>>

\* fflush; a thread that faulted stays where it is.
Flush(t) ==
  /\ at[t] = "flush"
  /\ at' = [at EXCEPT ![t] = IF t = Main THEN "idle" ELSE "over"]
  /\ UNCHANGED <<log, eager, file, told, flush, hands, past>>

----------------------------------------------------------------------------
(* boot_stats.txt                                                          *)

\* stats_emit: without a file nothing, and what does not fit is not missed.  The
\* main thread goes on to pump.
Emit(t) ==
  /\ statsOpen /\ statsAsked < MaxLines
  /\ statsAsked' = statsAsked + 1
  /\ IF Len(statsQ) < Ring
     THEN statsQ' = Append(statsQ, statsAsked') /\ statsTaken' = Append(statsTaken, statsAsked')
     ELSE UNCHANGED <<statsQ, statsTaken>>
  /\ IF t = Main THEN statsAt = "idle" /\ statsAt' = "take" ELSE UNCHANGED statsAt
  /\ UNCHANGED <<statsOpen, statsHands, statsFile>>

\* stats_pump, once a second; copied and emptied under the lock, then written.
PumpStats ==
  /\ statsOpen /\ statsAt = "idle" /\ statsAt' = "take"
  /\ UNCHANGED <<statsOpen, statsQ, statsHands, statsFile, statsAsked, statsTaken>>

TakeStats ==
  /\ statsAt = "take" /\ statsAt' = "write"
  /\ statsHands' = statsQ /\ statsQ' = <<>>
  /\ UNCHANGED <<statsOpen, statsFile, statsAsked, statsTaken>>

WriteStats ==
  /\ statsAt = "write" /\ statsAt' = "idle"
  /\ statsFile' = statsFile \o statsHands /\ statsHands' = <<>>
  /\ UNCHANGED <<statsOpen, statsQ, statsAsked, statsTaken>>

----------------------------------------------------------------------------

Statistics ==
  /\ (\E t \in Printers : Emit(t)) \/ PumpStats \/ TakeStats \/ WriteStats
  /\ UNCHANGED logVars

Logging ==
  /\ \/ StopEager \/ \E f \in BOOLEAN : Pump(f)
     \/ \E t \in Printers :
          \/ \E engineLine \in BOOLEAN : PrintLine(t, engineLine)
          \/ Fault(t) \/ Take(t) \/ Write(t) \/ Flush(t)
  /\ UNCHANGED stats

Next == Logging \/ Statistics
Spec == Init /\ [][Next]_vars

----------------------------------------------------------------------------
(* Properties                                                              *)

InHands == UNION {Lines(hands[t].lines) : t \in Printers}
NotTwice(s) == \A i, j \in DOMAIN s : s[i] = s[j] => i = j

\* All that was given to the ring or to a count is there, in one pump's hands or
\* in the file, and nothing is in two of these.
EachOnce(all, mine, waiting, written) ==
  /\ written \cup waiting \cup UNION {mine[t] : t \in Printers} = all
  /\ written \cap waiting = {}
  /\ \A t \in Printers : mine[t] \cap (written \cup waiting) = {}
  /\ \A t, u \in Printers : t # u => mine[t] \cap mine[u] = {}

LinesOnce ==
  /\ EachOnce(Lines(printed), [t \in Printers |-> Lines(hands[t].lines)], Lines(ring), Lines(file))
  /\ NotTwice(file) /\ NotTwice(ring) /\ \A t \in Printers : NotTwice(hands[t].lines)

\* Every line the log took is in the ring, in one pump's hands or in the file,
\* once, and in the order of printing as long as only the main thread moves
\* them; every line it did not take is in one count; and a thread that faulted
\* flushes all that was printed before, but what the main thread has in hands.
\* The statistics' lines keep their order, and a line is lost to a full queue only.
EveryLineOnce ==
  /\ LinesOnce
  /\ (\A t \in Others : at[t] = "idle") => file \o hands[Main].lines \o ring = printed
  /\ EachOnce(lost, [t \in Printers |-> hands[t].dropped], dropped, told.dropped)
  /\ EachOnce(skipped, [t \in Printers |-> hands[t].suppressed],
                 suppressed \ reported, told.suppressed)
  /\ Lines(printed) \cup lost \cup skipped = 1..said
  /\ \A t \in Others : at[t] = "flush" => earlier[t] \subseteq Lines(file) \cup InHands
  /\ statsFile \o statsHands \o statsQ = statsTaken
  /\ Len(statsTaken) < statsAsked => Len(statsTaken) >= Ring
=============================================================================
