------------------------------- MODULE Clocks -------------------------------
(***************************************************************************)
(* The CPU and GPU clocks (source/clocks.c) and the part of the main loop  *)
(* that drives them (source/main.c): the once-a-second tick, the changes   *)
(* of focus and the stall watchdog.  The main thread alone sets clocks;    *)
(* the game thread only counts frames and ends the loading phase.  The     *)
(* system resets the clocks behind the program's back.                     *)
(*                                                                         *)
(* Rates are in kHz.  The main loop's 16 ms passes are counted in Looks.   *)
(***************************************************************************)
EXTENDS Integers, FiniteSets, FiniteSetsExt, Sequences

CONSTANTS
  BootMhz, PlayMhz, GpuMhz,   \* config.boot_cpu_mhz, cpu_mhz (-1: automatic), gpu_mhz
  Ladder,                     \* k_gov_mhz
  MinFrames, UpMissed, UpSeconds, DownCalm,   \* GOV_...
  TickLooks,                  \* passes between two ticks (60)
  StallLooks,                 \* passes without a step until the stall (500 ms)
  MaxFrames                   \* bound: frames counted between two ticks

\* A rate of more MHz does not fit into the 32 bits that pick has for it in Hz.
MaxMhz == 4294

ASSUME ClocksAssumption ==
  /\ {BootMhz, GpuMhz, MinFrames, UpMissed, UpSeconds, DownCalm,
      TickLooks, StallLooks, MaxFrames} \subseteq Nat
  /\ PlayMhz \in Nat \cup {-1}
  /\ Len(Ladder) > 0 /\ \A i \in 1..Len(Ladder) : Ladder[i] \in 1..MaxMhz
  /\ {BootMhz, PlayMhz, GpuMhz} \subseteq -1..MaxMhz
  /\ UpSeconds > 0 /\ DownCalm > 0 /\ TickLooks > 0 /\ StallLooks > 0

VARIABLES
  mainPc,                    \* where the main loop is
  focused, changed,          \* s_focused, and whether this pass changed it
  ticks, quiet, progress,    \* s_clock_tick, stall_ms, s_frames_done # last_frames
  loading, stalled,          \* s_loading, s_stalled
  level, calm, hot, slow,    \* s_gov_level, s_gov_calm, s_gov_hot, s_gov_slow
  frames, missed,            \* s_frames, s_missed, since the last tick
  inStep,                    \* the game thread is inside GodotLib.step
  inFocus, docked,           \* external: the console
  rate, touched,             \* external: the clocks; s_cpu_touched, s_gpu_touched
  streak                     \* history: bad seconds since the last better one

loop     == <<mainPc, focused, changed, ticks, quiet, progress>>
governor == <<level, calm, hot, slow, streak>>
counters == <<frames, missed>>
console  == <<inFocus, docked>>
vars == <<loop, loading, stalled, governor, counters, inStep, console, rate, touched>>

Units    == {"cpu", "gpu"}
CpuRates == {612000, 714000, 816000, 918000, 1020000, 1122000, 1224000, 1326000,
             1428000, 1581000, 1683000, 1785000}
GpuRates == {307200, 384000, 460800, 537600, 614400, 691200, 768000}
CpuStock == 1020000
GpuStock(dock) == IF dock THEN 768000 ELSE 384000
Stock(unit, dock) == IF unit = "cpu" THEN CpuStock ELSE GpuStock(dock)
Levels   == 1..Len(Ladder)

TypeOK ==
  /\ mainPc \in {"look", "turn", "watch", "exited"}
  /\ {focused, changed, progress, loading, stalled, inStep, inFocus, docked}
       \subseteq BOOLEAN
  /\ ticks \in 0..(TickLooks - 1) /\ quiet \in 0..StallLooks
  /\ level \in Levels
  /\ calm \in 0..DownCalm /\ hot \in 0..UpSeconds /\ slow \in 0..UpSeconds
  /\ {frames, missed} \subseteq 0..MaxFrames
  /\ rate \in [Units -> CpuRates \cup GpuRates]
  /\ touched \in [Units -> BOOLEAN]
  /\ streak \in 0..UpSeconds

----------------------------------------------------------------------------
(* Which rate is wanted.                                                   *)

\* pick: the largest official rate not above what is asked or allowed, up to
\* MaxMhz, from where its product wraps around.
Pick(rates, mhz, cap) ==
  LET fit == {r \in rates : r <= 1000 * mhz /\ r <= cap}
  IN IF fit = {} THEN Min(rates) ELSE Max(fit)

\* cpu_target and gpu_target; 0 is no preference.
CpuTarget(load, stall, lev) ==
  LET mhz == CASE load \/ stall -> BootMhz
               [] PlayMhz >= 0 /\ ~(load \/ stall) -> PlayMhz
               [] OTHER -> Ladder[lev]
  IN IF mhz = 0 THEN 0 ELSE Pick(CpuRates, mhz, 1785000)

GpuTarget(dock) ==
  IF GpuMhz = 0 THEN 0 ELSE Pick(GpuRates, GpuMhz, IF dock THEN 768000 ELSE 460800)

\* clocks_apply: the target while focused; otherwise, or with no preference,
\* stock, if the program ever changed that clock.
Apply(infocus, target) ==
  LET want(u) == IF infocus THEN target[u] ELSE 0
  IN /\ touched' = [u \in Units |-> touched[u] \/ want(u) # 0]
     /\ rate' = [u \in Units |-> IF want(u) # 0 THEN want(u)
                                 ELSE IF touched[u] THEN Stock(u, docked) ELSE rate[u]]

Targets(load, stall, lev) ==
  [u \in Units |-> IF u = "cpu" THEN CpuTarget(load, stall, lev) ELSE GpuTarget(docked)]

\* clocks_init and main()'s clocks_apply(1), before the threads start.
Init ==
  /\ mainPc = "look" /\ focused = TRUE /\ changed = FALSE
  /\ ticks = 0 /\ quiet = 0 /\ progress = TRUE
  /\ loading = TRUE /\ stalled = FALSE
  /\ level = 1 /\ calm = 0 /\ hot = 0 /\ slow = 0
  /\ frames = 0 /\ missed = 0 /\ inStep = FALSE
  /\ inFocus = TRUE /\ docked = FALSE
  /\ touched = [u \in Units |-> Targets(TRUE, FALSE, 1)[u] # 0]
  /\ rate = [u \in Units |-> IF Targets(TRUE, FALSE, 1)[u] # 0
                             THEN Targets(TRUE, FALSE, 1)[u] ELSE Stock(u, FALSE)]
  /\ streak = 0

----------------------------------------------------------------------------
(* governor_step.  A counter that is only compared with its threshold      *)
(* stops there.                                                            *)

Bump(n, top) == IF n < top THEN n + 1 ELSE top

\* Far below the refresh rate: straight to the top.
SlowSecond ==
  IF frames = 0 \/ stalled
  THEN slow' = 0 /\ UNCHANGED <<level, calm, hot>>
  ELSE /\ calm' = 0 /\ hot' = 0
       /\ IF slow + 1 >= UpSeconds /\ level < Len(Ladder)
          THEN level' = Len(Ladder) /\ slow' = 0
          ELSE slow' = Bump(slow, UpSeconds) /\ UNCHANGED level

\* A bad second that steps up at once.
HotSecondAtOnce ==
  /\ calm' = 0
  /\ IF level < Len(Ladder)
     THEN level' = level + 1 /\ hot' = 0
     ELSE hot' = Bump(hot, UpSeconds) /\ UNCHANGED level

HotSecond ==
  /\ calm' = 0
  /\ IF hot + 1 >= UpSeconds /\ level < Len(Ladder)
     THEN level' = level + 1 /\ hot' = 0
     ELSE hot' = Bump(hot, UpSeconds) /\ UNCHANGED level

\* Clean seconds that never add up.
CalmSecondForgotten ==
  /\ hot' = 0
  /\ calm' = 0
  /\ UNCHANGED level

CalmSecond ==
  /\ hot' = 0
  /\ IF calm + 1 >= DownCalm /\ level > 1
     THEN level' = level - 1 /\ calm' = 0
     ELSE calm' = Bump(calm, DownCalm) /\ UNCHANGED level

\* What the second that ends is, for the history and the properties.
Decides     == ~loading /\ PlayMhz < 0 /\ (frames < MinFrames => frames > 0 /\ ~stalled)
BadSecond   == Decides /\ (frames < MinFrames \/ missed >= UpMissed)
CleanSecond == Decides /\ frames >= MinFrames /\ missed = 0 /\ UpMissed > 0

GovernorStep ==
  /\ IF loading \/ PlayMhz >= 0
     THEN UNCHANGED <<level, calm, hot, slow>>
     ELSE IF frames < MinFrames
     THEN SlowSecond
     ELSE /\ slow' = 0
          /\ CASE missed >= UpMissed                -> HotSecond
               [] missed = 0 /\ UpMissed > 0        -> CalmSecond
               [] missed > 0 /\ missed < UpMissed   ->
                    calm' = 0 /\ hot' = 0 /\ UNCHANGED level
  /\ streak' = CASE BadSecond            -> Bump(streak, UpSeconds)
                 [] Decides /\ ~BadSecond -> 0
                 [] OTHER                -> streak

----------------------------------------------------------------------------
(* The main loop                                                           *)

\* A tick that decides and leaves the clocks to the next change of focus.
TickGovernsOnly ==
  /\ GovernorStep
  /\ frames' = 0 /\ missed' = 0
  /\ UNCHANGED <<rate, touched>>

\* clocks_tick in focus.  The two counters are taken together: a miss that
\* clocks_frame counts between governor_step's two reads of them would only
\* fall into the second before its frame.
Tick ==
  /\ GovernorStep
  /\ frames' = 0 /\ missed' = 0
  /\ Apply(TRUE, Targets(loading, stalled, level'))

\* A pass begins: the focus is read, and every TickLooks passes the clocks
\* tick, which while away they do not.
Look ==
  /\ mainPc = "look"
  /\ focused' = inFocus
  /\ changed' = (inFocus # focused)
  /\ ticks' = (ticks + 1) % TickLooks
  /\ mainPc' = "turn"
  /\ IF ticks' = 0 /\ inFocus
     THEN Tick
     ELSE UNCHANGED <<governor, counters, rate, touched>>
  /\ UNCHANGED <<quiet, progress, loading, stalled, inStep, console>>

\* if (s_focused != was_focused) clocks_apply(s_focused)
Turn ==
  /\ mainPc = "turn"
  /\ IF changed THEN Apply(focused, Targets(loading, stalled, level))
                ELSE UNCHANGED <<rate, touched>>
  /\ changed' = FALSE
  /\ mainPc' = "watch"
  /\ UNCHANGED <<focused, ticks, quiet, progress, loading, stalled, governor, counters, inStep,
                 console>>

\* An applet has blocked the loop: the watchdog starts again.
AppletDone ==
  /\ mainPc = "watch"
  /\ focused
  /\ quiet' = 0 /\ progress' = FALSE
  /\ UNCHANGED <<mainPc, focused, changed, ticks, loading, stalled, governor, counters, inStep,
                 console, rate, touched>>

\* clocks_set_stalled: applied at once, wherever the focus is.
SetStalled(now) ==
  /\ stalled' = now
  /\ IF now # stalled THEN Apply(TRUE, Targets(loading, now, level))
                      ELSE UNCHANGED <<rate, touched>>

\* A watchdog that starts again at every look.
WatchImpatient ==
  /\ mainPc = "watch"
  /\ progress' = FALSE
  /\ quiet' = 0
  /\ SetStalled(~progress /\ StallLooks <= 1)
  /\ mainPc' = "look"
  /\ UNCHANGED <<focused, changed, ticks, loading, governor, counters, inStep, console>>

\* The stall watchdog.
Watch ==
  /\ mainPc = "watch"
  /\ IF progress
     THEN progress' = FALSE /\ quiet' = 0 /\ SetStalled(FALSE)
     ELSE /\ quiet' = Bump(quiet, StallLooks)
          /\ IF quiet' >= StallLooks THEN SetStalled(TRUE)
                                     ELSE UNCHANGED <<stalled, rate, touched>>
          /\ UNCHANGED progress
  /\ mainPc' = "look"
  /\ UNCHANGED <<focused, changed, ticks, loading, governor, counters, inStep, console>>

\* clocks_restore, once the game thread is joined.
Restore ==
  /\ mainPc = "look" /\ ~inStep
  /\ rate' = [u \in Units |-> IF touched[u] THEN Stock(u, docked) ELSE rate[u]]
  /\ mainPc' = "exited"
  /\ UNCHANGED <<focused, changed, ticks, quiet, progress, loading, stalled, governor, counters,
                 inStep, console, touched>>

MainLoop == Look \/ Turn \/ Watch

----------------------------------------------------------------------------
(* The game thread: a step begins in focus and ends wherever.              *)

StepBegins ==
  /\ mainPc # "exited"
  /\ ~inStep /\ focused
  /\ inStep' = TRUE
  /\ UNCHANGED <<loop, loading, stalled, governor, counters, console, rate, touched>>

\* s_frames_done, and clocks_frame when it presented and the last one did.
StepEnds(counted, miss) ==
  /\ mainPc # "exited"
  /\ inStep
  /\ inStep' = FALSE
  /\ progress' = TRUE
  /\ counted => frames < MaxFrames
  /\ frames' = IF counted THEN frames + 1 ELSE frames
  /\ missed' = IF counted /\ miss THEN missed + 1 ELSE missed
  /\ UNCHANGED <<mainPc, focused, changed, ticks, quiet, loading, stalled, governor, console, rate, touched>>

\* clocks_loading_done, after frame 180.
LoadingDone ==
  /\ mainPc # "exited"
  /\ loading
  /\ loading' = FALSE
  /\ UNCHANGED <<loop, stalled, governor, counters, inStep, console, rate, touched>>

----------------------------------------------------------------------------
(* The console (external).                                                 *)

FocusMoves ==
  /\ mainPc # "exited"
  /\ inFocus' = ~inFocus
  /\ UNCHANGED <<loop, loading, stalled, governor, counters, inStep, docked, rate, touched>>

\* Docking, undocking and sleep put every clock back to stock.
SystemResets ==
  /\ mainPc # "exited"
  /\ docked' \in BOOLEAN
  /\ rate' = [u \in Units |-> Stock(u, docked')]
  /\ UNCHANGED <<loop, loading, stalled, governor, counters, inStep, inFocus, touched>>

Exited == mainPc = "exited" /\ UNCHANGED vars

Next == \/ MainLoop \/ AppletDone \/ Restore
        \/ StepBegins \/ (\E counted, miss \in BOOLEAN : StepEnds(counted, miss)) \/ LoadingDone
        \/ FocusMoves \/ SystemResets \/ Exited

\* The main loop goes round.
Fairness == WF_vars(MainLoop)

Spec == Init /\ [][Next]_vars /\ Fairness

----------------------------------------------------------------------------
(* Properties                                                              *)

\* The governor steps up only when a bad second ends that followed others, with
\* no better second between them: one spike never raises the clock (comment in
\* governor_step).
NoStepUpOnASpike ==
  [][level' > level => BadSecond /\ streak >= UpSeconds - 1]_vars

\* While every second in focus stays clean, the clock comes back to stock.
CalmsDown ==
  <>[](inFocus /\ mainPc # "exited") /\ <>[][ticks' = 0 /\ ticks # 0 => CleanSecond]_vars
    => <>[](level = 1)

\* Whatever resets the clocks, in focus both keep coming back to the rate the
\* program wants (the comment on clocks_tick): the CPU's ladder and the GPU's
\* cap, which moves with the dock.
ClocksComeBack ==
  <>[]inFocus =>
    \A u \in Units :
      []<>(LET want == Targets(loading, stalled, level)[u]
           IN want = 0 \/ rate[u] = want \/ mainPc = "exited")

\* A frame that never ends gets the loading clock, although no completed frame
\* ever tells the governor (the comment above cpu_target), unless an applet
\* keeps restarting the watchdog.
LongFrameIsBoosted ==
  \/ ~<>[](inFocus /\ inStep)
  \/ []<><<AppletDone>>_vars
  \/ []<>(rate["cpu"] = CpuTarget(TRUE, TRUE, level) \/ mainPc = "exited")

\* clocks.c: "unfocused (HOME, sleep) and exit               stock"
StockWhileAway ==
  ~focused /\ mainPc \in {"watch", "look"} => rate["cpu"] = CpuStock \/ ~touched["cpu"]
=============================================================================
