----------------------------- MODULE InputPoll -----------------------------
(***************************************************************************)
(* How the pad and the touch screen reach the game: poll_input in          *)
(* source/main.c, once per frame on the game thread, and nx_input.c, which *)
(* it calls.  A system applet is drawn over the game while the game keeps  *)
(* running; the main thread bumps s_applet_gen before and after each one,  *)
(* so it is odd while one is up, and the game thread reads it once per     *)
(* poll, before it reads the hardware.                                     *)
(*                                                                         *)
(* One axis stands for the eight, which are handled alike, and the engine  *)
(* has what was sent last on it.  The engine... variables are what the     *)
(* engine makes of the other calls (external: Godot 3.6's joybutton and    *)
(* dispatchTouchEvent).                                                    *)
(***************************************************************************)
EXTENDS Integers, FiniteSets, FiniteSetsExt

CONSTANTS Buttons, Fingers, Places,   \* of the hardware
          MaxFingers,                 \* MAX_FINGERS
          MaxGen                      \* bound: applets, counted as s_applet_gen

ASSUME InputAssumption == /\ IsFiniteSet(Fingers)
                          /\ MaxFingers \in Nat \ {0}
                          /\ MaxGen \in Nat

VARIABLES
  gen,          \* s_applet_gen
  seen,         \* s_applet_seen
  poll,         \* where poll_input is: "idle", "pad" or "touch"
  prev,         \* s_prev_buttons
  heldBack,     \* s_held_back
  axis,         \* s_prev_axis: "unsent" (99), "rest" or "pushed"
  active,       \* s_active, as a function from the finger's id to its place
  suspended,    \* s_suspended
  waitClear,    \* s_wait_clear
  held, panel,                            \* the hardware
  carried, carriedFingers,                \* held down since an applet closed
  engineHeld, engineTouches               \* what the engine holds

generation == <<gen, seen>>
pad        == <<prev, heldBack, axis>>
touch      == <<active, suspended, waitClear>>
hardware   == <<held, panel, carried, carriedFingers>>
engine     == <<engineHeld, engineTouches>>
vars       == <<generation, poll, pad, touch, hardware, engine>>

IsTouches(t) == DOMAIN t \subseteq Fingers /\ t \in [DOMAIN t -> Places]
NoTouch      == [f \in {} |-> 0]
Odd(n)       == n % 2 = 1

TypeOK ==
  /\ gen \in 0..MaxGen /\ seen \in 0..gen
  /\ poll \in {"idle", "pad", "touch"}
  /\ {prev, heldBack, held, carried, engineHeld} \subseteq SUBSET Buttons
  /\ axis \in {"unsent", "rest", "pushed"}
  /\ IsTouches(active) /\ Cardinality(DOMAIN active) <= MaxFingers
  /\ IsTouches(panel) /\ IsTouches(engineTouches)
  /\ carriedFingers \subseteq Fingers
  /\ {suspended, waitClear} \subseteq BOOLEAN

Init ==
  /\ gen = 0 /\ seen = 0
  /\ poll = "idle"
  /\ prev = {} /\ heldBack = {} /\ axis = "unsent"
  /\ active = NoTouch /\ suspended = FALSE /\ waitClear = FALSE
  /\ held = {} /\ panel = NoTouch
  /\ carried = {} /\ carriedFingers = {}
  /\ engineHeld = {} /\ engineTouches = NoTouch

----------------------------------------------------------------------------
(* nx_input.c: touches.  A step works on the pair of s_active and what the *)
(* engine has made of the events sent so far.                              *)

Without(touches, F) == [g \in DOMAIN touches \ F |-> touches[g]]
With(touches, new)  == [g \in DOMAIN touches \cup DOMAIN new |->
                          IF g \in DOMAIN new THEN new[g] ELSE touches[g]]

\* The engine on ACTION_UP lets go of every touch, on ACTION_POINTER_UP of
\* the one named; on ACTION_DOWN it takes the list it is given, on
\* ACTION_POINTER_DOWN it adds the one named.
Lift(t, f) ==
  [mine   |-> Without(t.mine, {f}),
   theirs |-> IF DOMAIN t.mine = {f} THEN NoTouch ELSE Without(t.theirs, {f})]

Press(t, finger) ==
  LET mine == With(t.mine, finger)
  IN [mine   |-> mine,
      theirs |-> IF mine = finger THEN mine ELSE With(t.theirs, finger)]

\* Every lift sent as the last one.
LiftAllAsLast(F, t) ==
  [mine   |-> Without(t.mine, F), theirs |-> IF F = {} THEN t.theirs ELSE NoTouch]

\* The loops around Lift and Press in one expression: one event for each
\* finger, in whatever order (LiftsOneByOne and PressesOneByOne in
\* InputPollProofs).
LiftAll(F, t) ==
  [mine   |-> Without(t.mine, F),
   theirs |-> IF F # {} /\ F = DOMAIN t.mine THEN NoTouch ELSE Without(t.theirs, F)]

PressAll(new, t) ==
  [mine   |-> With(t.mine, new),
   theirs |-> With(IF new # NoTouch /\ t.mine = NoTouch THEN NoTouch ELSE t.theirs, new)]

\* One ACTION_MOVE with the whole active set, if any finger has moved.
Move(t, cur) ==
  LET moved == [g \in DOMAIN t.mine |-> cur[g]]
  IN [mine |-> moved, theirs |-> [g \in DOMAIN t.theirs |->
                                    IF g \in DOMAIN moved THEN moved[g] ELSE t.theirs[g]]]

Now == [mine |-> active, theirs |-> engineTouches]

\* nx_input_suspend(0) that forgets the fingers still on the screen.
SuspendForgetful(on) ==
  /\ suspended' = on
  /\ UNCHANGED waitClear
  /\ LET after == IF on THEN LiftAll(DOMAIN active, Now) ELSE Now
     IN active' = after.mine /\ engineTouches' = after.theirs

\* nx_input_suspend
Suspend(on) ==
  /\ suspended' = on
  /\ waitClear' = (waitClear \/ ~on)
  /\ LET after == IF on THEN LiftAll(DOMAIN active, Now) ELSE Now
     IN active' = after.mine /\ engineTouches' = after.theirs

\* nx_input_update on the fingers cur it has room for: lifts, then one move,
\* then the new ones.
Track(cur) ==
  LET lifted == LiftAll(DOMAIN active \ DOMAIN cur, Now)
      moved  == Move(lifted, cur)
      after  == PressAll(Without(cur, DOMAIN active), moved)
  IN active' = after.mine /\ engineTouches' = after.theirs

\* Every finger of the panel, however many.
ReportedAll == {panel}

\* The fingers nx_input_update looks at: at most MAX_FINGERS of the panel's.
Reported ==
  {[f \in F |-> panel[f]] :
     F \in {G \in SUBSET DOMAIN panel :
              Cardinality(G) = Min({MaxFingers, Cardinality(DOMAIN panel)})}}

NoUpdate == UNCHANGED <<active, waitClear, engineTouches>>

Update ==
  IF suspended \/ (waitClear /\ panel # NoTouch)
  THEN NoUpdate
  ELSE /\ waitClear' = FALSE
       /\ \E cur \in Reported : Track(cur)

----------------------------------------------------------------------------
(* main.c: poll_input                                                      *)

\* The release that leaves what is still held to be pressed again.
ReleaseOnly ==
  /\ engineHeld' = engineHeld \ prev
  /\ prev' = {}
  /\ UNCHANGED heldBack
  /\ axis' = IF axis = "unsent" THEN axis ELSE "rest"

\* An applet opened or closed since the last poll: release everything.
ReleaseAll ==
  /\ engineHeld' = engineHeld \ prev
  /\ prev' = {}
  /\ heldBack' = Buttons
  /\ axis' = IF axis = "unsent" THEN axis ELSE "rest"

\* The release that never reaches the engine.
PollStartDropping ==
  /\ poll = "idle"
  /\ seen' = gen
  /\ poll' = IF Odd(gen) THEN "idle" ELSE "pad"
  /\ IF gen # seen
     THEN /\ prev' = {} /\ heldBack' = Buttons
          /\ Suspend(Odd(gen))
          /\ UNCHANGED <<axis, engineHeld>>
     ELSE UNCHANGED <<pad, touch, engine>>
  /\ UNCHANGED <<gen, hardware>>

\* The one look at s_applet_gen, and the end of the poll while one is up.
PollStart ==
  /\ poll = "idle"
  /\ seen' = gen
  /\ poll' = IF Odd(gen) THEN "idle" ELSE "pad"
  /\ IF gen # seen
     THEN ReleaseAll /\ Suspend(Odd(gen))
     ELSE UNCHANGED <<pad, touch, engine>>
  /\ UNCHANGED <<gen, hardware>>

\* Buttons held back for good.
PollPadUnforgiving ==
  /\ poll = "pad"
  /\ LET masked == held \ heldBack
     IN /\ engineHeld' = (engineHeld \cup (masked \ prev)) \ (prev \ masked)
        /\ prev' = masked
  /\ axis' \in {"rest", "pushed"}
  /\ poll' = "touch"
  /\ UNCHANGED <<heldBack, generation, touch, hardware, engineTouches>>

\* padUpdate: the edges against the last poll, then the axes.
PollPad ==
  /\ poll = "pad"
  /\ LET back   == heldBack \cap held
         masked == held \ back
     IN /\ heldBack' = back
        /\ engineHeld' = (engineHeld \cup (masked \ prev)) \ (prev \ masked)
        /\ prev' = masked
  /\ axis' \in {"rest", "pushed"}
  /\ poll' = "touch"
  /\ UNCHANGED <<generation, touch, hardware, engineTouches>>

PollTouch ==
  /\ poll = "touch"
  /\ Update
  /\ poll' = "idle"
  /\ UNCHANGED <<generation, pad, suspended, hardware, engineHeld>>

Poll == PollStart \/ PollPad \/ PollTouch

----------------------------------------------------------------------------
(* The main thread around swkbd_pump and web_pump, and the player.         *)

AppletOpens ==
  /\ ~Odd(gen) /\ gen < MaxGen
  /\ gen' = gen + 1
  /\ carried' = {} /\ carriedFingers' = {}
  /\ UNCHANGED <<seen, poll, pad, touch, held, panel, engine>>

AppletCloses ==
  /\ Odd(gen) /\ gen < MaxGen
  /\ gen' = gen + 1
  /\ carried' = held /\ carriedFingers' = DOMAIN panel
  /\ UNCHANGED <<seen, poll, pad, touch, held, panel, engine>>

ButtonMoves(b) ==
  /\ held' = IF b \in held THEN held \ {b} ELSE held \cup {b}
  /\ carried' = carried \ {b}
  /\ UNCHANGED <<generation, poll, pad, touch, panel, carriedFingers, engine>>

FingerMoves(f, place) ==
  /\ panel' = With(panel, [g \in {f} |-> place])
  /\ UNCHANGED <<generation, poll, pad, touch, held, carried, carriedFingers, engine>>

FingerLifts(f) ==
  /\ f \in DOMAIN panel
  /\ panel' = Without(panel, {f})
  /\ carriedFingers' = carriedFingers \ {f}
  /\ UNCHANGED <<generation, poll, pad, touch, held, carried, engine>>

Applet == AppletOpens \/ AppletCloses
Player == \/ \E b \in Buttons : ButtonMoves(b)
          \/ \E f \in Fingers : FingerLifts(f) \/ \E p \in Places : FingerMoves(f, p)

Next == Poll \/ Applet \/ Player

\* The frame loop comes back to poll_input.
Fairness == WF_vars(Poll)

Spec == Init /\ [][Next]_vars /\ Fairness

----------------------------------------------------------------------------
(* Properties                                                              *)

\* Between two polls the engine holds exactly what the wrapper thinks it does:
\* every button that went down comes up, also across applets, and s_active
\* mirrors the engine's touch list (the comment on s_active).
EngineMirrored ==
  poll = "idle" => engineHeld = prev /\ engineTouches = active

\* Once a poll has noticed the applet, the game holds nothing until it closes.
NothingHeldUnderApplet ==
  poll = "idle" /\ seen = gen /\ Odd(gen) =>
    engineHeld = {} /\ axis # "pushed" /\ engineTouches = NoTouch

\* A button still held when an applet closes (the A that pressed OK) does not
\* reach the game until it has been let go.
HeldThroughIsHeldBack ==
  poll = "idle" /\ seen = gen => engineHeld \cap carried = {}

\* The finger that tapped OK does not land as a new touch.
FingerThroughIsNotNew ==
  [][seen = gen =>
       (DOMAIN engineTouches' \ DOMAIN engineTouches) \cap carriedFingers = {}]_vars

\* No press is lost for good: with no applet coming between, a button that is
\* not down does not stay held back for ever, and one that is down and not held
\* back does not stay away from the game for ever.
PressArrives ==
  LET noticed == seen = gen /\ ~Odd(gen)
  IN \A b \in Buttons :
       /\ []<>(noticed => b \in held \/ b \notin heldBack)
       /\ []<>(noticed /\ b \in held \ heldBack => b \in engineHeld)
=============================================================================
