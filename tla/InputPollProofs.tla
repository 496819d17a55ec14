-------------------------- MODULE InputPollProofs --------------------------
(***************************************************************************)
(* What InputPoll guarantees for any buttons, fingers, places, room and    *)
(* number of applets: its types, that the engine holds what the wrapper    *)
(* thinks it does, that it holds nothing under an applet, and that neither *)
(* a button nor a finger kept down through an applet reaches the game when *)
(* the applet has closed.                                                  *)
(***************************************************************************)
EXTENDS InputPoll, FiniteSetTheorems, TLAPS

Touches == UNION {[F -> Places] : F \in SUBSET Fingers}

LEMMA TouchesType == ASSUME NEW t PROVE IsTouches(t) <=> t \in Touches
  BY DEF Touches, IsTouches

LEMMA WithoutType ==
  ASSUME NEW t \in Touches, NEW F
  PROVE  Without(t, F) \in Touches /\ DOMAIN Without(t, F) = DOMAIN t \ F
<1>1. PICK D \in SUBSET Fingers : t \in [D -> Places]
  BY DEF Touches
<1>2. Without(t, F) \in [D \ F -> Places] /\ D \ F \in SUBSET Fingers
  BY <1>1 DEF Without
<1> QED
  BY <1>1, <1>2 DEF Touches

LEMMA WithType ==
  ASSUME NEW t \in Touches, NEW u \in Touches
  PROVE  With(t, u) \in Touches /\ DOMAIN With(t, u) = DOMAIN t \cup DOMAIN u
<1>1. PICK D \in SUBSET Fingers : t \in [D -> Places]
  BY DEF Touches
<1>2. PICK E \in SUBSET Fingers : u \in [E -> Places]
  BY DEF Touches
<1>3. With(t, u) \in [D \cup E -> Places] /\ D \cup E \in SUBSET Fingers
  BY <1>1, <1>2 DEF With
<1> QED
  BY <1>1, <1>2, <1>3 DEF Touches

LEMMA NoTouchType ==
  /\ NoTouch \in Touches /\ DOMAIN NoTouch = {}
  /\ \A t \in Touches : DOMAIN t = {} => t = NoTouch
  BY DEF Touches, NoTouch

----------------------------------------------------------------------------
(* One event after the other.                                              *)

\* LiftAll is the loop of nx_input_update, and of nx_input_suspend: no event
\* for no finger, and the event of any finger still held followed by the rest
\* of them.
LEMMA LiftsOneByOne ==
  ASSUME NEW mine \in Touches, NEW theirs \in Touches,
         NEW f \in DOMAIN mine, NEW F \in SUBSET (DOMAIN mine \ {f})
  PROVE  LET t == [mine |-> mine, theirs |-> theirs]
         IN LiftAll({}, t) = t /\ LiftAll(F \cup {f}, t) = LiftAll(F, Lift(t, f))
<1> DEFINE t == [mine |-> mine, theirs |-> theirs]
<1>1. LiftAll({}, t) = t
  <2>1. Without(mine, {}) = mine /\ Without(theirs, {}) = theirs
    BY DEF Touches, Without
  <2> QED
    BY <2>1 DEF LiftAll
<1>2. /\ Without(mine, F \cup {f}) = Without(Without(mine, {f}), F)
      /\ Without(theirs, F \cup {f}) = Without(Without(theirs, {f}), F)
      /\ Without(NoTouch, F) = NoTouch
  BY DEF Touches, Without, NoTouch
<1>3. DOMAIN Without(mine, {f}) = DOMAIN mine \ {f}
  BY WithoutType
<1>4. CASE DOMAIN mine = {f}
  BY <1>1, <1>2, <1>3, <1>4 DEF LiftAll, Lift
<1>5. CASE DOMAIN mine # {f}
  <2>1. F \cup {f} = DOMAIN mine <=> F # {} /\ F = DOMAIN mine \ {f}
    BY <1>5
  <2> QED
    BY <1>1, <1>2, <1>3, <1>5, <2>1 DEF LiftAll, Lift
<1> QED
  BY <1>4, <1>5

\* PressAll is the loop of nx_input_update over the new fingers, each of which
\* joins s_active before its event is sent.
LEMMA PressesOneByOne ==
  ASSUME NEW mine \in Touches, NEW theirs \in Touches, NEW new \in Touches,
         NEW f \in Fingers \ (DOMAIN mine \cup DOMAIN new),
         NEW finger \in Touches, DOMAIN finger = {f}
  PROVE  LET t == [mine |-> mine, theirs |-> theirs]
         IN /\ PressAll(NoTouch, t) = t
            /\ PressAll(With(new, finger), t) = PressAll(new, Press(t, finger))
<1> DEFINE t       == [mine |-> mine, theirs |-> theirs]
           pressed == Press(t, finger)
<1>1. finger # NoTouch /\ With(new, finger) # NoTouch /\ With(mine, finger) # NoTouch
  <2>1. DOMAIN With(new, finger) = DOMAIN new \cup {f}
    BY WithType, ZenonT(40)
  <2>2. DOMAIN With(mine, finger) = DOMAIN mine \cup {f}
    BY WithType, ZenonT(40)
  <2> QED
    BY <2>1, <2>2, NoTouchType
<1>2. PressAll(NoTouch, t) = t
  <2>1. With(mine, NoTouch) = mine /\ With(theirs, NoTouch) = theirs
    BY DEF Touches, With, NoTouch
  <2> QED
    BY <2>1 DEF PressAll
<1>3. /\ With(mine, With(new, finger)) = With(With(mine, finger), new)
      /\ With(theirs, With(new, finger)) = With(With(theirs, finger), new)
  BY DEF Touches, With
<1>4. CASE mine = NoTouch
  <2>1. With(mine, finger) = finger
    BY <1>4 DEF With, NoTouch, Touches
  <2>2. pressed = [mine |-> finger, theirs |-> finger]
    BY <2>1 DEF Press
  <2>3. With(NoTouch, With(new, finger)) = With(finger, new)
    BY <1>3, <1>4, <2>1
  <2> QED
    BY <1>1, <1>2, <1>3, <1>4, <2>1, <2>2, <2>3 DEF PressAll
<1>5. CASE mine # NoTouch
  <2>1. With(mine, finger) # finger
    <3>1. PICK g \in DOMAIN mine : g # f
      BY <1>5, NoTouchType
    <3>2. g \in DOMAIN With(mine, finger)
      BY WithType
    <3> QED
      BY <3>1, <3>2
  <2>2. pressed = [mine |-> With(mine, finger), theirs |-> With(theirs, finger)]
    BY <2>1 DEF Press
  <2> QED
    BY <1>1, <1>2, <1>3, <1>5, <2>2 DEF PressAll
<1> QED
  BY <1>4, <1>5

\* The same for a whole update, as seen by the two lists it keeps alike.
LEMMA LiftsAlike ==
  ASSUME NEW t \in Touches, NEW F \in SUBSET DOMAIN t
  PROVE  LiftAll(F, [mine |-> t, theirs |-> t]) =
           [mine |-> Without(t, F), theirs |-> Without(t, F)]
<1>1. F = DOMAIN t => Without(t, F) = NoTouch
  BY WithoutType, NoTouchType
<1> QED
  BY <1>1 DEF LiftAll

LEMMA MovesAlike ==
  ASSUME NEW t \in Touches, NEW cur \in Touches, DOMAIN t \subseteq DOMAIN cur
  PROVE  \E m \in Touches : /\ DOMAIN m = DOMAIN t
                            /\ Move([mine |-> t, theirs |-> t], cur) =
                                 [mine |-> m, theirs |-> m]
<1> DEFINE m == [g \in DOMAIN t |-> cur[g]]
<1>1. m \in Touches
  <2>1. PICK D \in SUBSET Fingers : cur \in [D -> Places]
    BY DEF Touches
  <2>2. m \in [DOMAIN t -> Places] /\ DOMAIN t \in SUBSET Fingers
    BY <2>1
  <2> QED
    BY <2>2 DEF Touches
<1>2. Move([mine |-> t, theirs |-> t], cur) = [mine |-> m, theirs |-> m]
  BY DEF Move
<1> QED
  BY <1>1, <1>2

LEMMA PressesAlike ==
  ASSUME NEW t \in Touches, NEW new \in Touches
  PROVE  PressAll(new, [mine |-> t, theirs |-> t]) =
           [mine |-> With(t, new), theirs |-> With(t, new)]
  BY DEF PressAll

\* An update leaves the two lists alike, with the fingers it was given.
LEMMA TrackAlike ==
  ASSUME active \in Touches, engineTouches = active, NEW cur \in Touches, Track(cur)
  PROVE  /\ active' \in Touches /\ engineTouches' = active'
         /\ DOMAIN active' = DOMAIN cur
<1> DEFINE gone  == DOMAIN active \ DOMAIN cur
           lifted == Without(active, gone)
           new   == Without(cur, DOMAIN active)
<1>1. LiftAll(gone, Now) = [mine |-> lifted, theirs |-> lifted]
  BY LiftsAlike DEF Now
<1>2. /\ lifted \in Touches /\ DOMAIN lifted = DOMAIN active \cap DOMAIN cur
      /\ new \in Touches /\ DOMAIN new = DOMAIN cur \ DOMAIN active
  BY WithoutType, ZenonT(40)
<1>3. LET after == PressAll(new, Move(LiftAll(gone, Now), cur))
      IN active' = after.mine /\ engineTouches' = after.theirs
  BY DEF Track
<1> HIDE DEF gone, lifted, new
<1>4. PICK m \in Touches : /\ DOMAIN m = DOMAIN lifted
                           /\ Move(LiftAll(gone, Now), cur) = [mine |-> m, theirs |-> m]
  <2>1. DOMAIN lifted \subseteq DOMAIN cur
    BY <1>2
  <2>2. \E m \in Touches : /\ DOMAIN m = DOMAIN lifted
                            /\ Move([mine |-> lifted, theirs |-> lifted], cur) =
                                 [mine |-> m, theirs |-> m]
    BY <1>2, <2>1, MovesAlike
  <2> QED
    BY <1>1, <2>2
<1>5. active' = With(m, new) /\ engineTouches' = With(m, new)
  <2>1. PressAll(new, [mine |-> m, theirs |-> m]) = [mine |-> With(m, new), theirs |-> With(m, new)]
    BY <1>2, PressesAlike
  <2> QED
    BY <1>3, <1>4, <2>1
<1>6. With(m, new) \in Touches /\ DOMAIN With(m, new) = DOMAIN m \cup DOMAIN new
  BY <1>2, WithType
<1> QED
  BY <1>2, <1>4, <1>5, <1>6

\* What suspending the touch screen does to the two lists.
LEMMA SuspendAlike ==
  ASSUME active \in Touches, engineTouches = active, NEW on \in BOOLEAN, Suspend(on)
  PROVE  /\ active' \in Touches /\ engineTouches' = active'
         /\ active' = IF on THEN NoTouch ELSE active
         /\ suspended' = on /\ waitClear' = (waitClear \/ ~on)
<1>1. Without(active, DOMAIN active) = NoTouch
  <2>1. /\ Without(active, DOMAIN active) \in Touches
        /\ DOMAIN Without(active, DOMAIN active) = DOMAIN active \ DOMAIN active
    BY WithoutType
  <2> QED
    BY <2>1, NoTouchType
<1>2. LiftAll(DOMAIN active, Now) = [mine |-> NoTouch, theirs |-> NoTouch]
  BY <1>1, LiftsAlike DEF Now
<1> QED
  BY <1>2, NoTouchType DEF Suspend, Now

\* A poll looks at as many fingers as there is room for.
LEMMA ReportedType ==
  ASSUME panel \in Touches, NEW cur \in Reported
  PROVE  /\ cur \in Touches /\ DOMAIN cur \subseteq DOMAIN panel
         /\ Cardinality(DOMAIN cur) <= MaxFingers
<1>1. PICK D \in SUBSET Fingers : panel \in [D -> Places]
  BY DEF Touches
<1>2. IsFiniteSet(D) /\ Cardinality(D) \in Nat
  BY InputAssumption, FS_Subset, FS_CardinalityType
<1>3. PICK F \in SUBSET D : /\ cur = [f \in F |-> panel[f]]
                            /\ Cardinality(F) = Min({MaxFingers, Cardinality(D)})
  BY <1>1 DEF Reported
<1>4. Min({MaxFingers, Cardinality(D)}) <= MaxFingers
  BY <1>2, InputAssumption DEF Min
<1>5. cur \in [F -> Places] /\ F \in SUBSET Fingers
  BY <1>1, <1>3
<1>6. DOMAIN cur = F
  BY <1>3
<1>7. cur \in Touches
  BY <1>5, Zenon DEF Touches
<1> QED
  BY <1>1, <1>3, <1>4, <1>6, <1>7

----------------------------------------------------------------------------
(* The inductive invariant.                                                *)

\* Not only between two polls: a step of a poll sends what it notes down.
Mirrored == engineHeld = prev /\ engineTouches = active

\* What the applet noticed last has left: while it is up no poll is under way
\* and nothing is held; the touch screen is suspended exactly then.
UnderApplet ==
  /\ suspended = Odd(seen)
  /\ Odd(seen) => poll = "idle" /\ prev = {} /\ axis # "pushed" /\ active = NoTouch

\* A button carried over from an applet is still down, and once a poll has
\* noticed the end of the applet it is among the buttons held back.
ButtonsCarried ==
  /\ carried \subseteq held
  /\ Odd(gen) => carried = {} /\ carriedFingers = {}
  /\ seen = gen => carried \subseteq heldBack \ prev

\* A finger carried over is still on the screen, and the poll that notices the
\* end of the applet makes the next ones wait for it to lift.
FingersCarried ==
  /\ carriedFingers \subseteq DOMAIN panel
  /\ seen = gen /\ carriedFingers # {} => waitClear

IInv == TypeOK /\ Mirrored /\ UnderApplet /\ ButtonsCarried /\ FingersCarried

LEMMA OddNext == ASSUME NEW n \in Nat PROVE Odd(n + 1) <=> ~Odd(n)
  BY DEF Odd

LEMMA InitIInv == Init => IInv
<1> SUFFICES ASSUME Init PROVE IInv
  OBVIOUS
<1>1. TypeOK
  <2>1. IsTouches(NoTouch) /\ Cardinality(DOMAIN NoTouch) = 0
    BY NoTouchType, TouchesType, FS_EmptySet
  <2>2. IsTouches(active) /\ IsTouches(panel) /\ IsTouches(engineTouches)
    BY <2>1 DEF Init
  <2>3. Cardinality(DOMAIN active) <= MaxFingers
    BY <2>1, InputAssumption DEF Init
  <2>4. gen \in 0..MaxGen /\ seen \in 0..gen
    BY InputAssumption DEF Init
  <2>5. {prev, heldBack, held, carried, engineHeld} \subseteq SUBSET Buttons
    BY DEF Init
  <2> QED
    BY <2>2, <2>3, <2>4, <2>5 DEF Init, TypeOK
<1>2. Mirrored /\ UnderApplet
  <2>1. Odd(0) = FALSE
    BY DEF Odd
  <2> QED
    BY <2>1 DEF Init, Mirrored, UnderApplet
<1>3. ButtonsCarried /\ FingersCarried
  BY NoTouchType DEF Init, ButtonsCarried, FingersCarried
<1> QED
  BY <1>1, <1>2, <1>3 DEF IInv

\* The steps of a poll, whose touches the lemmas above have dealt with.
LEMMA StartStep == ASSUME IInv, PollStart PROVE IInv'
<1> USE DEF IInv, PollStart, generation, pad, touch, hardware, engine, vars
<1>1. CASE gen = seen
  <2>1. TypeOK'
    BY <1>1 DEF TypeOK, IsTouches, UnderApplet
  <2>2. Mirrored' /\ UnderApplet'
    BY <1>1 DEF Mirrored, UnderApplet, TypeOK
  <2>3. ButtonsCarried' /\ FingersCarried'
    BY <1>1 DEF ButtonsCarried, FingersCarried
  <2> QED
    BY <2>1, <2>2, <2>3
<1>2. CASE gen # seen
  <2>1. active \in Touches /\ Odd(gen) \in BOOLEAN
    BY TouchesType DEF TypeOK, Odd
  <2>2. /\ active' \in Touches /\ engineTouches' = active'
        /\ active' = IF Odd(gen) THEN NoTouch ELSE active
        /\ suspended' = Odd(gen) /\ waitClear' = (waitClear \/ ~Odd(gen))
    BY <1>2, <2>1, SuspendAlike DEF Mirrored
  <2>3. ReleaseAll
    BY <1>2
  <2>4. TypeOK'
    <3>1. IsTouches(active') /\ IsTouches(engineTouches')
      BY <2>2, TouchesType
    <3>2. Cardinality(DOMAIN active') <= MaxFingers
      BY <2>2, InputAssumption, NoTouchType, FS_EmptySet DEF TypeOK
    <3>3. gen' \in 0..MaxGen /\ seen' \in 0..gen' /\ poll' \in {"idle", "pad", "touch"}
      BY DEF TypeOK
    <3>4. {suspended', waitClear'} \subseteq BOOLEAN
      BY <2>1, <2>2 DEF TypeOK
    <3>5. {prev', heldBack', held', carried', engineHeld'} \subseteq SUBSET Buttons
      BY <2>3 DEF TypeOK, ReleaseAll
    <3>6. axis' \in {"unsent", "rest", "pushed"} /\ carriedFingers' \subseteq Fingers
      BY <2>3 DEF TypeOK, ReleaseAll
    <3>7. IsTouches(panel')
      BY DEF TypeOK, IsTouches
    <3> QED
      BY <3>1, <3>2, <3>3, <3>4, <3>5, <3>6, <3>7 DEF TypeOK
  <2>5. Mirrored'
    BY <2>2, <2>3 DEF Mirrored, ReleaseAll
  <2>6. UnderApplet'
    BY <2>2, <2>3 DEF UnderApplet, ReleaseAll
  <2>7. ButtonsCarried'
    BY <2>3 DEF ButtonsCarried, ReleaseAll, TypeOK
  <2>8. FingersCarried'
    BY <2>2 DEF FingersCarried, ButtonsCarried
  <2> QED
    BY <2>4, <2>5, <2>6, <2>7, <2>8
<1> QED
  BY <1>1, <1>2

LEMMA PadStep == ASSUME IInv, PollPad PROVE IInv'
<1> USE DEF IInv, PollPad, generation, pad, touch, hardware, engine
<1>1. TypeOK'
  BY DEF TypeOK, IsTouches
<1>2. Mirrored' /\ UnderApplet'
  BY DEF Mirrored, UnderApplet
<1>3. ButtonsCarried'
  BY DEF ButtonsCarried
<1>4. FingersCarried'
  BY DEF FingersCarried
<1> QED
  BY <1>1, <1>2, <1>3, <1>4

LEMMA TouchStep == ASSUME IInv, PollTouch PROVE IInv'
<1> USE DEF IInv, PollTouch, generation, pad, hardware
<1>1. ~suspended /\ ~Odd(seen)
  BY DEF UnderApplet
<1>2. CASE waitClear /\ panel # NoTouch
  <2>1. UNCHANGED <<active, waitClear, engineTouches>>
    BY <1>2 DEF Update, NoUpdate
  <2>2. TypeOK'
    BY <2>1 DEF TypeOK, IsTouches
  <2>3. Mirrored' /\ UnderApplet' /\ ButtonsCarried' /\ FingersCarried'
    BY <1>1, <2>1 DEF Mirrored, UnderApplet, ButtonsCarried, FingersCarried
  <2> QED
    BY <2>2, <2>3
<1>3. CASE ~(waitClear /\ panel # NoTouch)
  <2>1. PICK cur \in Reported : Track(cur) /\ waitClear' = FALSE
    BY <1>1, <1>3 DEF Update
  <2>2. active \in Touches /\ panel \in Touches
    BY TouchesType DEF TypeOK
  <2>3. cur \in Touches /\ Cardinality(DOMAIN cur) <= MaxFingers
    BY <2>2, ReportedType
  <2>4. active' \in Touches /\ engineTouches' = active' /\ DOMAIN active' = DOMAIN cur
    BY <2>1, <2>2, <2>3, TrackAlike DEF Mirrored
  <2>5. IsTouches(active') /\ IsTouches(engineTouches')
    BY <2>4, TouchesType
  <2>6. TypeOK'
    BY <2>1, <2>3, <2>4, <2>5 DEF TypeOK, IsTouches
  <2>7. Mirrored' /\ UnderApplet' /\ ButtonsCarried'
    BY <1>1, <2>4 DEF Mirrored, UnderApplet, ButtonsCarried
  <2>8. seen = gen => carriedFingers = {}
    BY <1>3, NoTouchType DEF FingersCarried
  <2>9. FingersCarried'
    BY <2>8 DEF FingersCarried
  <2> QED
    BY <2>6, <2>7, <2>9
<1> QED
  BY <1>2, <1>3

LEMMA AppletStep == ASSUME IInv, Applet PROVE IInv'
<1> USE DEF IInv, pad, touch, engine
<1>1. CASE AppletOpens
  <2>1. TypeOK'
    BY <1>1, InputAssumption DEF TypeOK, AppletOpens, IsTouches
  <2>2. Mirrored' /\ UnderApplet'
    BY <1>1 DEF Mirrored, UnderApplet, AppletOpens
  <2>3. ButtonsCarried' /\ FingersCarried'
    BY <1>1 DEF ButtonsCarried, FingersCarried, AppletOpens
  <2> QED
    BY <2>1, <2>2, <2>3
<1>2. CASE AppletCloses
  <2>1. TypeOK'
    BY <1>2, InputAssumption DEF TypeOK, AppletCloses, IsTouches
  <2>2. Mirrored' /\ UnderApplet'
    BY <1>2 DEF Mirrored, UnderApplet, AppletCloses
  <2>3. seen' # gen' /\ ~Odd(gen')
    BY <1>2, OddNext DEF TypeOK, AppletCloses
  <2>4. ButtonsCarried' /\ FingersCarried'
    BY <1>2, <2>3 DEF ButtonsCarried, FingersCarried, AppletCloses
  <2> QED
    BY <2>1, <2>2, <2>4
<1> QED
  BY <1>1, <1>2 DEF Applet

LEMMA PlayerStep == ASSUME IInv, Player PROVE IInv'
<1> USE DEF IInv, generation, pad, touch, engine
<1>1. ASSUME NEW b \in Buttons, ButtonMoves(b) PROVE IInv'
  <2>1. TypeOK'
    BY <1>1 DEF TypeOK, ButtonMoves, IsTouches
  <2>2. Mirrored' /\ UnderApplet'
    BY <1>1 DEF Mirrored, UnderApplet, ButtonMoves
  <2>3. ButtonsCarried' /\ FingersCarried'
    BY <1>1 DEF ButtonsCarried, FingersCarried, ButtonMoves
  <2> QED
    BY <2>1, <2>2, <2>3
<1>2. ASSUME NEW f \in Fingers, NEW place \in Places, FingerMoves(f, place) PROVE IInv'
  <2>1. [g \in {f} |-> place] \in Touches
    <3>1. [g \in {f} |-> place] \in [{f} -> Places] /\ {f} \in SUBSET Fingers
      OBVIOUS
    <3> QED
      BY <3>1, Zenon DEF Touches
  <2>2. panel' \in Touches /\ DOMAIN panel \subseteq DOMAIN panel'
    <3> DEFINE finger == [g \in {f} |-> place]
    <3>1. panel \in Touches /\ finger \in Touches /\ panel' = With(panel, finger)
      BY <1>2, <2>1, TouchesType DEF TypeOK, FingerMoves
    <3> HIDE DEF finger
    <3> QED
      BY <3>1, WithType
  <2>3. TypeOK'
    BY <1>2, <2>2, TouchesType DEF TypeOK, FingerMoves, IsTouches
  <2>4. Mirrored' /\ UnderApplet'
    BY <1>2 DEF Mirrored, UnderApplet, FingerMoves
  <2>5. ButtonsCarried' /\ FingersCarried'
    BY <1>2, <2>2 DEF ButtonsCarried, FingersCarried, FingerMoves
  <2> QED
    BY <2>3, <2>4, <2>5
<1>3. ASSUME NEW f \in Fingers, FingerLifts(f) PROVE IInv'
  <2>1. panel' \in Touches /\ DOMAIN panel' = DOMAIN panel \ {f}
    BY <1>3, WithoutType, TouchesType DEF TypeOK, FingerLifts
  <2>2. TypeOK'
    BY <1>3, <2>1, TouchesType DEF TypeOK, FingerLifts, IsTouches
  <2>3. Mirrored' /\ UnderApplet'
    BY <1>3 DEF Mirrored, UnderApplet, FingerLifts
  <2>4. ButtonsCarried' /\ FingersCarried'
    BY <1>3, <2>1 DEF ButtonsCarried, FingersCarried, FingerLifts
  <2> QED
    BY <2>2, <2>3, <2>4
<1> QED
  BY <1>1, <1>2, <1>3 DEF Player

LEMMA StepIInv == IInv /\ [Next]_vars => IInv'
<1> SUFFICES ASSUME IInv, [Next]_vars PROVE IInv'
  OBVIOUS
<1>1. CASE UNCHANGED vars
  BY <1>1 DEF IInv, TypeOK, IsTouches, Mirrored, UnderApplet, ButtonsCarried,
       FingersCarried, vars, generation, pad, touch, hardware, engine
<1> QED
  BY <1>1, StartStep, PadStep, TouchStep, AppletStep, PlayerStep DEF Next, Poll

LEMMA InvariantIInv == Spec => []IInv
  BY InitIInv, StepIInv, PTL DEF Spec

----------------------------------------------------------------------------
(* The theorems.                                                           *)

\* The type invariant of the poll: among others s_active never holds more
\* fingers than there is room for.
THEOREM TypeSafety == Spec => []TypeOK
  BY InvariantIInv, PTL DEF IInv

\* Between two polls the engine holds exactly the buttons and fingers that
\* s_prev_buttons and s_active say it does.
THEOREM EngineIsMirrored == Spec => []EngineMirrored
<1>1. IInv => EngineMirrored
  BY DEF IInv, Mirrored, EngineMirrored
<1> QED
  BY <1>1, InvariantIInv, PTL

\* Once a poll has noticed an applet, no button, axis or finger is held in the
\* game until the applet has closed.
THEOREM NothingIsHeldUnderApplet == Spec => []NothingHeldUnderApplet
<1>1. IInv => NothingHeldUnderApplet
  BY DEF IInv, Mirrored, UnderApplet, NothingHeldUnderApplet
<1> QED
  BY <1>1, InvariantIInv, PTL

\* A button kept down through an applet stays away from the game until it has
\* been let go.
THEOREM HeldThroughStaysBack == Spec => []HeldThroughIsHeldBack
<1>1. IInv => HeldThroughIsHeldBack
  BY DEF IInv, Mirrored, ButtonsCarried, HeldThroughIsHeldBack
<1> QED
  BY <1>1, InvariantIInv, PTL

\* A finger kept on the screen through an applet never lands as a new touch
\* once the end of the applet has been noticed.
THEOREM FingerThroughNeverLands == Spec => FingerThroughIsNotNew
<1>1. ASSUME IInv, [Next]_vars, seen = gen
      PROVE  (DOMAIN engineTouches' \ DOMAIN engineTouches) \cap carriedFingers = {}
  <2>1. CASE UNCHANGED engineTouches
    BY <2>1
  <2>2. CASE PollStart
    BY <1>1, <2>2 DEF PollStart, engine
  <2>3. CASE PollTouch
    <3>1. CASE carriedFingers = {}
      BY <3>1
    <3>2. CASE carriedFingers # {}
      <4>1. waitClear /\ panel # NoTouch
        BY <1>1, <3>2, NoTouchType DEF IInv, FingersCarried
      <4> QED
        BY <2>3, <4>1 DEF PollTouch, Update, NoUpdate
    <3> QED
      BY <3>1, <3>2
  <2> QED
    BY <1>1, <2>1, <2>2, <2>3 DEF Next, Poll, PollPad, Applet, AppletOpens, AppletCloses,
         Player, ButtonMoves, FingerMoves, FingerLifts, vars, engine
<1>2. IInv /\ [Next]_vars =>
        [seen = gen =>
           (DOMAIN engineTouches' \ DOMAIN engineTouches) \cap carriedFingers = {}]_vars
  BY <1>1
<1> QED
  BY <1>2, InvariantIInv, PTL DEF Spec, FingerThroughIsNotNew

=============================================================================
