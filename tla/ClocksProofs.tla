---------------------------- MODULE ClocksProofs ----------------------------
(***************************************************************************)
(* What the governor of Clocks guarantees for any ladder and thresholds:   *)
(* it stays on the ladder, and one bad second never raises the clock.      *)
(***************************************************************************)
EXTENDS Clocks, FiniteSetTheorems, WellFoundedInduction, TLAPS

\* The strengthening: neither of the governor's two counters of bad seconds is
\* ahead of the seconds that really were bad.
GovernorOK ==
  /\ level \in Levels
  /\ hot \in Nat /\ slow \in Nat /\ streak \in Nat
  /\ hot <= streak /\ slow <= streak
  /\ frames \in Nat /\ missed \in Nat

LEMMA Constants ==
  /\ Len(Ladder) \in Nat \ {0}
  /\ MinFrames \in Nat /\ UpMissed \in Nat /\ DownCalm \in Nat
  /\ UpSeconds \in Nat /\ UpSeconds > 0
  /\ PlayMhz \in Int
<1>1. MinFrames \in Nat /\ UpMissed \in Nat /\ DownCalm \in Nat /\ UpSeconds \in Nat
  BY ClocksAssumption
<1>2. Len(Ladder) \in Nat \ {0} /\ UpSeconds > 0 /\ PlayMhz \in Int
  BY ClocksAssumption
<1> QED
  BY <1>1, <1>2

LEMMA InitGovernor == Init => GovernorOK
  BY Constants DEF Init, GovernorOK, Levels

\* A counter that stops at its threshold stays behind one that does so too.
LEMMA BumpBelow ==
  ASSUME NEW a \in Nat, NEW b \in Nat, a <= b
  PROVE  /\ Bump(a, UpSeconds) \in Nat /\ Bump(b, UpSeconds) \in Nat
         /\ Bump(a, UpSeconds) <= Bump(b, UpSeconds)
  BY Constants DEF Bump

\* The tick of one second, in its three cases.
LEMMA SecondKept ==
  ASSUME GovernorOK, GovernorStep
  PROVE  /\ level' \in Levels
         /\ hot' \in Nat /\ slow' \in Nat /\ streak' \in Nat
         /\ hot' <= streak' /\ slow' <= streak'
         /\ level' > level => BadSecond /\ streak >= UpSeconds - 1
<1> USE Constants DEF GovernorOK
<1> DEFINE next == Bump(streak, UpSeconds)
<1>0. /\ next \in Nat
      /\ Bump(slow, UpSeconds) \in Nat /\ Bump(slow, UpSeconds) <= next
      /\ Bump(hot, UpSeconds) \in Nat /\ Bump(hot, UpSeconds) <= next
  BY BumpBelow
<1> HIDE DEF next
<1>1. CASE ~Decides
  <2>1. streak' = streak
    BY <1>1 DEF GovernorStep, BadSecond
  <2>2. CASE loading \/ PlayMhz >= 0
    <3>1. UNCHANGED <<level, hot, slow>>
      BY <2>2 DEF GovernorStep
    <3> QED
      BY <2>1, <3>1 DEF Levels
  <2>3. CASE ~(loading \/ PlayMhz >= 0)
    <3>1. frames < MinFrames /\ (frames = 0 \/ stalled)
      BY <1>1, <2>3 DEF Decides
    <3>2. slow' = 0 /\ UNCHANGED <<level, hot>>
      BY <2>3, <3>1 DEF GovernorStep, SlowSecond
    <3> QED
      BY <2>1, <3>2 DEF Levels
  <2> QED
    BY <2>2, <2>3
<1>2. CASE BadSecond
  <2>1. streak' = next
    BY <1>2 DEF GovernorStep, next
  <2>2. ~(loading \/ PlayMhz >= 0)
    BY <1>2 DEF BadSecond, Decides
  <2>3. CASE frames < MinFrames
    <3>1. SlowSecond
      BY <2>2, <2>3 DEF GovernorStep
    <3>2. ~(frames = 0 \/ stalled)
      BY <1>2, <2>3 DEF BadSecond, Decides
    <3>3. /\ hot' = 0
          /\ \/ slow + 1 >= UpSeconds /\ level' = Len(Ladder) /\ slow' = 0
             \/ slow' = Bump(slow, UpSeconds) /\ level' = level
      BY <3>1, <3>2 DEF SlowSecond
    <3>4. level' \in Levels /\ slow' \in Nat /\ slow' <= streak'
      BY <1>0, <2>1, <3>3 DEF Levels
    <3>5. level' > level => streak >= UpSeconds - 1
      BY <3>3 DEF Levels
    <3> QED
      BY <1>0, <1>2, <2>1, <3>3, <3>4, <3>5
  <2>4. CASE ~(frames < MinFrames)
    <3>1. missed >= UpMissed
      BY <1>2, <2>4 DEF BadSecond
    <3>2. slow' = 0 /\ HotSecond
      <4>1. ~(missed = 0 /\ UpMissed > 0) /\ ~(missed > 0 /\ missed < UpMissed)
        BY <3>1
      <4> QED
        BY <2>2, <2>4, <3>1, <4>1 DEF GovernorStep
    <3>3. \/ hot + 1 >= UpSeconds /\ level < Len(Ladder) /\ level' = level + 1 /\ hot' = 0
          \/ hot' = Bump(hot, UpSeconds) /\ level' = level
      BY <3>2 DEF HotSecond
    <3>4. level' \in Levels /\ hot' \in Nat /\ hot' <= streak'
      BY <1>0, <2>1, <3>3 DEF Levels
    <3>5. level' > level => streak >= UpSeconds - 1
      BY <3>3 DEF Levels
    <3> QED
      BY <1>0, <1>2, <2>1, <3>2, <3>4, <3>5
  <2> QED
    BY <2>3, <2>4
<1>3. CASE Decides /\ ~BadSecond
  <2>1. streak' = 0
    BY <1>3 DEF GovernorStep
  <2>2. ~(loading \/ PlayMhz >= 0) /\ ~(frames < MinFrames) /\ ~(missed >= UpMissed)
    BY <1>3 DEF Decides, BadSecond
  <2>3. slow' = 0 /\ (CalmSecond \/ (hot' = 0 /\ level' = level))
    <3>1. CASE missed = 0
      <4>1. UpMissed > 0 /\ ~(missed > 0)
        BY <2>2, <3>1
      <4> QED
        BY <2>2, <3>1, <4>1 DEF GovernorStep
    <3>2. CASE missed # 0
      <4>1. missed > 0 /\ missed < UpMissed
        BY <2>2, <3>2
      <4> QED
        BY <2>2, <3>2, <4>1 DEF GovernorStep
    <3> QED
      BY <3>1, <3>2
  <2>4. hot' = 0 /\ (level' = level \/ (level > 1 /\ level' = level - 1))
    BY <2>3 DEF CalmSecond
  <2> QED
    BY <2>1, <2>3, <2>4 DEF Levels
<1> QED
  BY <1>1, <1>2, <1>3 DEF BadSecond

LEMMA NextGovernor ==
  ASSUME GovernorOK, [Next]_vars
  PROVE  /\ GovernorOK'
         /\ level' > level => BadSecond /\ streak >= UpSeconds - 1
<1> USE DEF GovernorOK
<1>a. level' = level => ~(level' > level)
  BY DEF Levels
<1>1. CASE UNCHANGED vars
  BY <1>1, <1>a DEF vars, governor, counters
<1>2. CASE Look
  <2>1. CASE Tick
    BY <2>1, SecondKept DEF Tick
  <2>2. CASE UNCHANGED <<governor, counters>>
    BY <2>2, <1>a DEF governor, counters
  <2> QED
    BY <1>2, <2>1, <2>2 DEF Look
<1>3. CASE Turn \/ Watch \/ AppletDone \/ Restore
  BY <1>3, <1>a DEF Turn, Watch, AppletDone, Restore, governor, counters
<1>4. CASE \E counted, miss \in BOOLEAN : StepEnds(counted, miss)
  BY <1>4, <1>a DEF StepEnds, governor
<1>5. CASE StepBegins \/ LoadingDone \/ FocusMoves \/ SystemResets
  BY <1>5, <1>a DEF StepBegins, LoadingDone, FocusMoves, SystemResets, governor, counters
<1>6. CASE Exited
  BY <1>1, <1>6 DEF Exited
<1> QED
  BY <1>1, <1>2, <1>3, <1>4, <1>5, <1>6 DEF Next, MainLoop

\* For any thresholds the governor steps up only when UpSeconds bad seconds
\* have ended with no better one between them: k_gov_mhz is never climbed on
\* one spike, although two different counters lead up it.
THEOREM NoSpike == Spec => NoStepUpOnASpike
<1>1. GovernorOK /\ [Next]_vars
        => [level' > level => BadSecond /\ streak >= UpSeconds - 1]_vars
  BY NextGovernor
<1>2. GovernorOK /\ [Next]_vars => GovernorOK'
  BY NextGovernor
<1>3. QED
  BY <1>1, <1>2, InitGovernor, PTL DEF Spec, NoStepUpOnASpike

\* The governor never indexes k_gov_mhz outside its bounds, whatever order
\* slow, bad and clean seconds come in.
THEOREM OnTheLadder == Spec => [](level \in Levels)
<1>1. GovernorOK => level \in Levels
  BY DEF GovernorOK
<1>2. GovernorOK /\ [Next]_vars => GovernorOK'
  BY NextGovernor
<1>3. QED
  BY <1>1, <1>2, InitGovernor, PTL DEF Spec

----------------------------------------------------------------------------
(* Types.  A clock is only ever set to a rate that the console has.        *)

\* In a set of a few positive numbers there is a largest one.
LEMMA LargestIsThere ==
  ASSUME NEW top \in Nat, NEW S \in SUBSET (1..top), S # {}
  PROVE  Max(S) \in S
<1> DEFINE Less == {ss \in Nat \X Nat : ss[1] < ss[2]}
           T == {top - r : r \in S}
<1>1. IsWellFoundedOn(Less, Nat)
  BY NatLessThanWellFounded DEF OpToRel
<1>2. T \subseteq Nat /\ T # {}
  <2>1. \A r \in S : r \in 1..top /\ top - r \in Nat
    OBVIOUS
  <2> QED
    BY <2>1
<1>3. PICK t \in T : \A u \in T : ~(<<u, t>> \in Less)
  <2> HIDE DEF T, Less
  <2> QED
    BY <1>1, <1>2, WFMin
<1>4. PICK r \in S : t = top - r
  OBVIOUS
<1>5. \A q \in S : q <= r
  <2> SUFFICES ASSUME NEW q \in S PROVE q <= r
    OBVIOUS
  <2>1. top - q \in T /\ top - q \in Nat /\ top - r \in Nat
    OBVIOUS
  <2>2. ~(top - q < top - r)
    BY <1>3, <1>4, <2>1
  <2> QED
    BY <2>2
<1> QED
  BY <1>5 DEF Max

\* pick answers with a rate of the list it is given.
LEMMA PickIsOfficial ==
  ASSUME NEW mhz, NEW cap
  PROVE  Pick(CpuRates, mhz, cap) \in CpuRates /\ Pick(GpuRates, mhz, cap) \in GpuRates
<1>1. ASSUME NEW rates, rates \in {CpuRates, GpuRates}
      PROVE  Pick(rates, mhz, cap) \in rates
  <2> DEFINE fit == {r \in rates : r <= 1000 * mhz /\ r <= cap}
  <2>1. PICK top \in Nat : rates \in SUBSET (1..top)
    <3>1. \A r \in CpuRates \cup GpuRates : r \in Nat /\ 1 <= r /\ r <= 1785000
      BY SMT DEF CpuRates, GpuRates
    <3>2. PICK top \in Nat : top = 1785000
      BY SMT
    <3>3. \A r \in rates : r \in CpuRates \cup GpuRates
      BY <1>1
    <3>4. \A r \in rates : r \in Nat /\ 1 <= r /\ r <= top
      BY <3>1, <3>2, <3>3, SMT
    <3>5. \A r \in rates : r \in 1..top
      BY <3>4, SMT
    <3> QED
      BY <3>5
  <2>2. Min(rates) \in rates
    <3>1. PICK low \in rates : \A r \in rates : low <= r
      <4>1. CASE rates = CpuRates
        <5>1. 612000 \in rates /\ \A r \in rates : 612000 <= r
          BY <4>1, SMT DEF CpuRates
        <5> QED
          BY <5>1, SMT
      <4>2. CASE rates = GpuRates
        <5>1. 307200 \in rates /\ \A r \in rates : 307200 <= r
          BY <4>2, SMT DEF GpuRates
        <5> QED
          BY <5>1, SMT
      <4> QED
        BY <1>1, <4>1, <4>2
    <3> QED
      BY <3>1 DEF Min
  <2>3. fit # {} => Max(fit) \in fit
    <3>1. fit \in SUBSET (1..top)
      BY <2>1
    <3> HIDE DEF fit
    <3> QED
      BY <2>1, <3>1, LargestIsThere
  <2> QED
    BY <2>2, <2>3 DEF Pick
<1> QED
  BY <1>1

Rates == CpuRates \cup GpuRates

LEMMA TargetsAreOfficial ==
  ASSUME NEW load, NEW stall, NEW lev, NEW u \in Units
  PROVE  Targets(load, stall, lev)[u] \in Rates \cup {0}
<1>1. CpuTarget(load, stall, lev) \in CpuRates \cup {0}
  BY PickIsOfficial, SMT DEF CpuTarget
<1>2. GpuTarget(docked) \in GpuRates \cup {0}
  BY PickIsOfficial, SMT DEF GpuTarget
<1> QED
  BY <1>1, <1>2 DEF Targets, Rates

LEMMA StockIsOfficial == \A u \in Units, dock \in BOOLEAN : Stock(u, dock) \in Rates
  BY SMT DEF Stock, CpuStock, GpuStock, CpuRates, GpuRates, Rates

LEMMA ApplyKeepsRates ==
  ASSUME TypeOK, NEW infocus, NEW target, \A u \in Units : target[u] \in Rates \cup {0},
         Apply(infocus, target)
  PROVE  rate' \in [Units -> Rates] /\ touched' \in [Units -> BOOLEAN]
<1>1. docked \in BOOLEAN /\ rate \in [Units -> Rates]
  BY DEF TypeOK, Rates
<1>2. \A u \in Units : rate[u] \in Rates /\ Stock(u, docked) \in Rates
  BY <1>1, StockIsOfficial
<1>3. touched' = [u \in Units |-> touched[u] \/ (IF infocus THEN target[u] ELSE 0) # 0]
  BY DEF Apply
<1>4. rate' = [u \in Units |-> IF (IF infocus THEN target[u] ELSE 0) # 0
                               THEN (IF infocus THEN target[u] ELSE 0)
                               ELSE IF touched[u] THEN Stock(u, docked) ELSE rate[u]]
  BY DEF Apply
<1>5. rate' \in [Units -> Rates]
  BY <1>2, <1>4
<1>6. touched' \in [Units -> BOOLEAN]
  <2>1. touched \in [Units -> BOOLEAN]
    BY DEF TypeOK
  <2> QED
    BY <1>3, <2>1
<1> QED
  BY <1>5, <1>6

----------------------------------------------------------------------------
(* The type invariant, and that a second never has more misses than frames. *)
ClocksInv == TypeOK /\ missed <= frames

LEMMA ConstantTypes ==
  /\ TickLooks \in Nat /\ TickLooks > 0 /\ StallLooks \in Nat /\ StallLooks > 0
  /\ MaxFrames \in Nat
<1>1. {BootMhz, GpuMhz, MinFrames, UpMissed, UpSeconds, DownCalm,
       TickLooks, StallLooks, MaxFrames} \subseteq Nat
  BY ClocksAssumption, Zenon
<1>2. TickLooks > 0 /\ StallLooks > 0
  BY ClocksAssumption, Zenon
<1> QED
  BY <1>1, <1>2, Zenon

LEMMA ClocksInit == Init => ClocksInv
<1> SUFFICES ASSUME Init PROVE ClocksInv
  OBVIOUS
<1>1. /\ mainPc \in {"look", "turn", "watch", "exited"}
      /\ {focused, changed, progress, loading, stalled, inStep, inFocus, docked}
           \subseteq BOOLEAN
  BY DEF Init
<1>2. ticks \in 0..(TickLooks - 1) /\ quiet \in 0..StallLooks
  BY ConstantTypes DEF Init
<1>3. /\ level \in Levels /\ calm \in 0..DownCalm /\ hot \in 0..UpSeconds
      /\ slow \in 0..UpSeconds /\ streak \in 0..UpSeconds
  BY Constants DEF Init, Levels
<1>4. {frames, missed} \subseteq 0..MaxFrames /\ missed <= frames
  BY ConstantTypes DEF Init
<1>5. rate \in [Units -> Rates] /\ touched \in [Units -> BOOLEAN]
  <2>1. \A u \in Units : Stock(u, FALSE) \in Rates
    BY StockIsOfficial
  <2>2. \A u \in Units : Targets(TRUE, FALSE, 1)[u] \in Rates \cup {0}
    BY TargetsAreOfficial
  <2>3. rate = [u \in Units |-> IF Targets(TRUE, FALSE, 1)[u] # 0
                                THEN Targets(TRUE, FALSE, 1)[u] ELSE Stock(u, FALSE)]
    BY DEF Init
  <2>4. touched = [u \in Units |-> Targets(TRUE, FALSE, 1)[u] # 0]
    BY DEF Init
  <2>5. rate \in [Units -> Rates]
    BY <2>1, <2>2, <2>3
  <2> QED
    BY <2>4, <2>5
<1> QED
  BY <1>1, <1>2, <1>3, <1>4, <1>5 DEF ClocksInv, TypeOK, Rates

\* A counter that stops at its threshold.
LEMMA BumpStops ==
  ASSUME NEW top \in Nat, NEW n \in 0..top
  PROVE  Bump(n, top) \in 0..top
  BY DEF Bump

\* The decision of one second.
LEMMA GovernorTypes ==
  ASSUME TypeOK, GovernorStep
  PROVE  /\ level' \in Levels /\ calm' \in 0..DownCalm
         /\ hot' \in 0..UpSeconds /\ slow' \in 0..UpSeconds /\ streak' \in 0..UpSeconds
<1>1. /\ level \in Levels /\ calm \in 0..DownCalm
      /\ hot \in 0..UpSeconds /\ slow \in 0..UpSeconds /\ streak \in 0..UpSeconds
      /\ missed \in Nat
  <2>1. missed \in 0..MaxFrames
    BY DEF TypeOK
  <2> QED
    BY <2>1, ConstantTypes DEF TypeOK
<1>2. /\ Bump(calm, DownCalm) \in 0..DownCalm /\ Bump(hot, UpSeconds) \in 0..UpSeconds
      /\ Bump(slow, UpSeconds) \in 0..UpSeconds /\ Bump(streak, UpSeconds) \in 0..UpSeconds
      /\ 0 \in 0..UpSeconds /\ 0 \in 0..DownCalm
  <2>1. DownCalm \in Nat /\ UpSeconds \in Nat
    BY Constants
  <2>2. 0 \in 0..UpSeconds /\ 0 \in 0..DownCalm
    BY <2>1
  <2> QED
    BY <1>1, <2>1, <2>2, BumpStops, Zenon
<1>3. streak' \in 0..UpSeconds
  <2>1. streak' \in {Bump(streak, UpSeconds), 0, streak}
    <3>1. CASE BadSecond
      BY <3>1 DEF GovernorStep
    <3>2. CASE Decides /\ ~BadSecond
      BY <3>2 DEF GovernorStep
    <3>3. CASE ~Decides
      BY <3>3 DEF GovernorStep, BadSecond
    <3> QED
      BY <3>1, <3>2, <3>3 DEF BadSecond
  <2> QED
    BY <1>1, <1>2, <2>1
<1>4. SlowSecond => /\ level' \in Levels /\ calm' \in 0..DownCalm
                    /\ hot' \in 0..UpSeconds /\ slow' \in 0..UpSeconds
  <2>1. Len(Ladder) \in Levels
    BY Constants DEF Levels
  <2> QED
    BY <1>1, <1>2, <2>1 DEF SlowSecond
<1>5. HotSecond => level' \in Levels /\ calm' \in 0..DownCalm /\ hot' \in 0..UpSeconds
  <2>1. level < Len(Ladder) => level + 1 \in Levels
    BY <1>1, Constants DEF Levels
  <2> QED
    BY <1>1, <1>2, <2>1 DEF HotSecond
<1>6. CalmSecond => level' \in Levels /\ calm' \in 0..DownCalm /\ hot' \in 0..UpSeconds
  <2>1. level > 1 => level - 1 \in Levels
    BY <1>1, Constants DEF Levels
  <2> QED
    BY <1>1, <1>2, <2>1 DEF CalmSecond
<1>7. \/ UNCHANGED <<level, calm, hot, slow>>
      \/ SlowSecond
      \/ slow' = 0 /\ (HotSecond \/ CalmSecond \/ (calm' = 0 /\ hot' = 0 /\ UNCHANGED level))
  <2>1. CASE loading \/ PlayMhz >= 0
    BY <2>1 DEF GovernorStep
  <2>2. CASE ~(loading \/ PlayMhz >= 0) /\ frames < MinFrames
    BY <2>2 DEF GovernorStep
  <2>3. CASE ~(loading \/ PlayMhz >= 0) /\ ~(frames < MinFrames)
    <3>1. CASE missed >= UpMissed
      <4>1. ~(missed = 0 /\ UpMissed > 0) /\ ~(missed > 0 /\ missed < UpMissed)
        BY <1>1, <3>1, Constants
      <4> QED
        BY <2>3, <3>1, <4>1 DEF GovernorStep
    <3>2. CASE missed = 0 /\ UpMissed > 0
      <4>1. ~(missed >= UpMissed) /\ ~(missed > 0 /\ missed < UpMissed)
        BY <1>1, <3>2, Constants
      <4> QED
        BY <2>3, <3>2, <4>1 DEF GovernorStep
    <3>3. CASE missed > 0 /\ missed < UpMissed
      <4>1. ~(missed >= UpMissed) /\ ~(missed = 0 /\ UpMissed > 0)
        BY <1>1, <3>3, Constants
      <4> QED
        BY <2>3, <3>3, <4>1 DEF GovernorStep
    <3> QED
      BY <1>1, <3>1, <3>2, <3>3, Constants
  <2> QED
    BY <2>1, <2>2, <2>3
<1> QED
  BY <1>1, <1>2, <1>3, <1>4, <1>5, <1>6, <1>7

\* The tick: the second is decided, counted anew, and the clocks applied.
LEMMA TickTypes ==
  ASSUME TypeOK, Tick
  PROVE  /\ level' \in Levels /\ calm' \in 0..DownCalm
         /\ hot' \in 0..UpSeconds /\ slow' \in 0..UpSeconds /\ streak' \in 0..UpSeconds
         /\ {frames', missed'} \subseteq 0..MaxFrames /\ missed' <= frames'
         /\ rate' \in [Units -> Rates] /\ touched' \in [Units -> BOOLEAN]
<1>1. GovernorStep /\ frames' = 0 /\ missed' = 0
      /\ Apply(TRUE, Targets(loading, stalled, level'))
  BY DEF Tick
<1>2. \A u \in Units : Targets(loading, stalled, level')[u] \in Rates \cup {0}
  BY TargetsAreOfficial
<1>3. rate' \in [Units -> Rates] /\ touched' \in [Units -> BOOLEAN]
  BY <1>1, <1>2, ApplyKeepsRates
<1>4. {frames', missed'} \subseteq 0..MaxFrames /\ missed' <= frames'
  BY <1>1, ConstantTypes
<1> QED
  BY <1>1, <1>3, <1>4, GovernorTypes

\* A change of focus or of the stall flag applies the clocks.
LEMMA AppliedTypes ==
  ASSUME TypeOK, NEW infocus, NEW load, NEW stall, NEW lev,
         Apply(infocus, Targets(load, stall, lev))
  PROVE  rate' \in [Units -> Rates] /\ touched' \in [Units -> BOOLEAN]
<1>1. \A u \in Units : Targets(load, stall, lev)[u] \in Rates \cup {0}
  BY TargetsAreOfficial
<1> QED
  BY <1>1, ApplyKeepsRates

LEMMA SetStalledTypes ==
  ASSUME TypeOK, NEW now \in BOOLEAN, SetStalled(now)
  PROVE  stalled' \in BOOLEAN /\ rate' \in [Units -> Rates] /\ touched' \in [Units -> BOOLEAN]
<1>1. CASE now # stalled
  BY <1>1, AppliedTypes DEF SetStalled
<1>2. CASE now = stalled
  BY <1>2 DEF SetStalled, TypeOK, Rates
<1> QED
  BY <1>1, <1>2 DEF SetStalled

LEMMA ClocksStep == ClocksInv /\ [Next]_vars => ClocksInv'
<1> SUFFICES ASSUME ClocksInv, [Next]_vars PROVE ClocksInv'
  OBVIOUS
<1>1. /\ TypeOK /\ missed <= frames
      /\ mainPc \in {"look", "turn", "watch", "exited"}
      /\ {focused, changed, progress, loading, stalled, inStep, inFocus, docked}
           \subseteq BOOLEAN
      /\ ticks \in 0..(TickLooks - 1) /\ quiet \in 0..StallLooks
      /\ level \in Levels /\ calm \in 0..DownCalm /\ hot \in 0..UpSeconds
      /\ slow \in 0..UpSeconds /\ streak \in 0..UpSeconds
      /\ frames \in 0..MaxFrames /\ missed \in 0..MaxFrames
      /\ rate \in [Units -> Rates] /\ touched \in [Units -> BOOLEAN]
  BY DEF ClocksInv, TypeOK, Rates
<1> DEFINE Goal == /\ mainPc' \in {"look", "turn", "watch", "exited"}
                   /\ {focused', changed', progress', loading', stalled', inStep', inFocus', docked'}
                        \subseteq BOOLEAN
                   /\ ticks' \in 0..(TickLooks - 1) /\ quiet' \in 0..StallLooks
                   /\ level' \in Levels /\ calm' \in 0..DownCalm /\ hot' \in 0..UpSeconds
                   /\ slow' \in 0..UpSeconds /\ streak' \in 0..UpSeconds
                   /\ {frames', missed'} \subseteq 0..MaxFrames /\ missed' <= frames'
                   /\ rate' \in [Units -> Rates] /\ touched' \in [Units -> BOOLEAN]
<1>2. SUFFICES Goal
  BY DEF ClocksInv, TypeOK, Rates
<1>3. CASE UNCHANGED vars
  BY <1>1, <1>3 DEF vars, loop, governor, counters, console
<1>4. CASE Look
  <2>1. /\ focused' = inFocus /\ changed' = (inFocus # focused)
        /\ ticks' = (ticks + 1) % TickLooks /\ mainPc' = "turn"
        /\ UNCHANGED <<quiet, progress, loading, stalled, inStep, inFocus, docked>>
    BY <1>4 DEF Look, console
  <2>2. ticks' \in 0..(TickLooks - 1)
    BY <1>1, <2>1, ConstantTypes
  <2>3. /\ mainPc' \in {"look", "turn", "watch", "exited"}
        /\ {focused', changed', progress', loading', stalled', inStep', inFocus', docked'}
             \subseteq BOOLEAN
        /\ quiet' \in 0..StallLooks
    BY <1>1, <2>1
  <2>4. CASE Tick
    BY <1>1, <2>2, <2>3, <2>4, TickTypes
  <2>5. CASE UNCHANGED <<governor, counters, rate, touched>>
    BY <1>1, <2>2, <2>3, <2>5 DEF governor, counters
  <2> QED
    BY <1>4, <2>4, <2>5 DEF Look
<1>5. CASE Turn
  <2>1. rate' \in [Units -> Rates] /\ touched' \in [Units -> BOOLEAN]
    <3>1. CASE changed
      BY <1>1, <1>5, <3>1, AppliedTypes DEF Turn
    <3>2. CASE ~changed
      BY <1>1, <1>5, <3>2 DEF Turn
    <3> QED
      BY <3>1, <3>2
  <2> QED
    BY <1>1, <1>5, <2>1 DEF Turn, governor, counters, console
<1>6. CASE AppletDone
  <2>1. 0 \in 0..StallLooks
    BY ConstantTypes
  <2> QED
    BY <1>1, <1>6, <2>1 DEF AppletDone, governor, counters, console
<1>7. CASE Watch
  <2>1. 0 \in 0..StallLooks /\ Bump(quiet, StallLooks) \in 0..StallLooks
    BY <1>1, ConstantTypes, BumpStops
  <2>2. /\ quiet' \in 0..StallLooks /\ progress' \in BOOLEAN /\ stalled' \in BOOLEAN
        /\ rate' \in [Units -> Rates] /\ touched' \in [Units -> BOOLEAN]
    <3>1. CASE progress
      BY <1>1, <1>7, <2>1, <3>1, SetStalledTypes DEF Watch
    <3>2. CASE ~progress /\ quiet' >= StallLooks
      BY <1>1, <1>7, <2>1, <3>2, SetStalledTypes DEF Watch
    <3>3. CASE ~progress /\ ~(quiet' >= StallLooks)
      BY <1>1, <1>7, <2>1, <3>3 DEF Watch
    <3> QED
      BY <3>1, <3>2, <3>3
  <2> QED
    BY <1>1, <1>7, <2>2 DEF Watch, governor, counters, console
<1>8. CASE Restore
  <2>1. \A u \in Units : rate[u] \in Rates /\ Stock(u, docked) \in Rates
    BY <1>1, StockIsOfficial
  <2>2. rate' = [u \in Units |-> IF touched[u] THEN Stock(u, docked) ELSE rate[u]]
    BY <1>8 DEF Restore
  <2>3. rate' \in [Units -> Rates]
    BY <2>1, <2>2
  <2> QED
    BY <1>1, <1>8, <2>3 DEF Restore, governor, counters, console
<1>9. ASSUME NEW counted \in BOOLEAN, NEW miss \in BOOLEAN, StepEnds(counted, miss) PROVE Goal
  <2>1. /\ counted => frames < MaxFrames
        /\ frames' = IF counted THEN frames + 1 ELSE frames
        /\ missed' = IF counted /\ miss THEN missed + 1 ELSE missed
    BY <1>9 DEF StepEnds
  <2>2. {frames', missed'} \subseteq 0..MaxFrames /\ missed' <= frames'
    BY <1>1, <2>1, ConstantTypes
  <2> QED
    BY <1>1, <1>9, <2>2 DEF StepEnds, governor, console
<1>10. CASE StepBegins \/ LoadingDone \/ FocusMoves
  BY <1>1, <1>10 DEF StepBegins, LoadingDone, FocusMoves, loop, governor, counters, console
<1>11. CASE SystemResets
  <2>1. docked' \in BOOLEAN /\ rate' = [u \in Units |-> Stock(u, docked')]
    BY <1>11 DEF SystemResets
  <2>2. rate' \in [Units -> Rates]
    BY <2>1, StockIsOfficial
  <2> QED
    BY <1>1, <1>11, <2>1, <2>2 DEF SystemResets, loop, governor, counters
<1>12. CASE Exited
  BY <1>3, <1>12 DEF Exited
<1> QED
  BY <1>3, <1>4, <1>5, <1>6, <1>7, <1>8, <1>9, <1>10, <1>11, <1>12 DEF Next, MainLoop

\* Whatever is configured and in whatever order the seconds, the dock and the
\* applets come: the counters keep within their bounds, and no clock is ever set
\* to a rate that the console does not have.
THEOREM TypeCorrect == Spec => []TypeOK
<1>1. ClocksInv => TypeOK
  BY DEF ClocksInv
<1> QED
  BY <1>1, ClocksInit, ClocksStep, PTL DEF Spec

=============================================================================
