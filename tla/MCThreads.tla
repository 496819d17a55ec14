----------------------------- MODULE MCThreads -----------------------------
(* What the programs' threads wait on: the engine's locks, the futex,        *)
(* one-time initialisation.  They share no state; a behaviour of this module *)
(* is a behaviour of one of them, which `component' names.                   *)
EXTENDS BionicLocks, Once

VARIABLES
  component,
  lock, seq, ready, rustPc, after, seen, due, bed              \* Futex

futexVars == <<lock, seq, ready, rustPc, after, seen, due, bed>>

MCSetters == {"s"}
MCPatient == {"p"}
MCTimed == {"t"}
Parking == INSTANCE Futex WITH
  Setters <- MCSetters, Patient <- MCPatient, Timed <- MCTimed, pc <- rustPc

\* Of Once: the initialiser of one control runs the other.
MCNests == [c \in Controls |-> IF c = "a" THEN {"b"} ELSE {}]

----------------------------------------------------------------------------
MCInit ==
  /\ component \in {"locks", "futex", "once"}
  /\ Init /\ (component # "locks" => declared = "plain")
  /\ Parking!Init /\ OnceInit

MCNext ==
  /\ UNCHANGED component
  /\ \/ component = "locks" /\ Next /\ UNCHANGED <<futexVars, onceVars>>
     \/ component = "futex" /\ Parking!Next /\ UNCHANGED <<vars, onceVars>>
     \/ component = "once" /\ OnceNext /\ UNCHANGED <<vars, futexVars>>

\* The fairness of BionicLocks and of Futex, for the one that runs.
MCFairness ==
  /\ \A t \in Threads :
       /\ WF_vars(component = "locks" /\ (Shim(t) \/ Engine(t)))
       /\ SF_vars(component = "locks" /\ HandedOver(t))
  /\ \A t \in MCSetters \cup MCPatient \cup MCTimed :
       /\ WF_futexVars(component = "futex" /\ Parking!Step(t))
       /\ WF_futexVars(component = "futex" /\ Parking!Pass(t))

MCSpec ==
  /\ MCInit
  /\ [][MCNext]_<<component, vars, futexVars, onceVars>>
  /\ MCFairness

NobodyParkedForEver == Parking!NobodyParkedForEver

\* BionicLocks' AllGetThrough, for the behaviours that are of it: no wake-up is
\* lost, and every thread is done with the locks in the end.
EverybodyGetsThrough ==
  <>[](component = "locks" => \A t \in Threads : pc[t] = At("done"))
=============================================================================
