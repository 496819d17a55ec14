-------------------------------- MODULE Once --------------------------------
(***************************************************************************)
(* One-time initialisation: pthread_once of the engine (source/imports.c), *)
(* whose control word is in the caller's memory, and call_once of the      *)
(* graphics driver (source/call_once_shim.c, built with SHIM_CALL_ONCE),   *)
(* which keeps a table of the flags it has seen under one lock.  The       *)
(* initialisers are external; one of the engine's runs another of its own. *)
(***************************************************************************)
EXTENDS Integers, Sequences, FiniteSets

CONSTANTS Callers,
          Controls, Flags,   \* the engine's controls, the driver's flags
          Nests,             \* control -> the controls its initialiser runs
          MaxFlags           \* CALL_ONCE_SLOTS

NoHolder == "nobody"

ASSUME OnceAssumption ==
  /\ Controls \cap Flags = {} /\ NoHolder \notin Callers
  /\ Nests \in [Controls -> SUBSET Controls] /\ MaxFlags \in Nat

VARIABLES
  control,     \* 0, 1 running, 2 done
  done,        \* g_done
  holder,      \* g_once_lock
  stack,       \* the calls each thread is in, innermost last
  started, finished,   \* how often each initialiser began and ended
  back         \* what each thread has come back from

onceVars == <<control, done, holder, stack, started, finished, back>>

OnceCalls == [once : Controls \cup Flags, at : {"call", "spin", "init", "publish"}]

OnceTypeOK ==
  /\ control \in [Controls -> 0..2]
  /\ done \subseteq Flags /\ IsFiniteSet(done)
  /\ holder \in Callers \cup {NoHolder}
  /\ stack \in [Callers -> Seq(OnceCalls)]
  /\ started \in [Controls \cup Flags -> Nat]
  /\ finished \in [Controls \cup Flags -> Nat]
  /\ back \in [Callers -> SUBSET (Controls \cup Flags)]

OnceInit ==
  /\ control = [c \in Controls |-> 0]
  /\ done = {} /\ holder = NoHolder
  /\ stack = [t \in Callers |-> <<>>]
  /\ started = [c \in Controls \cup Flags |-> 0]
  /\ finished = started
  /\ back = [t \in Callers |-> {}]

Top(t) == stack[t][Len(stack[t])]
TopAt(t, place) == stack[t] # <<>> /\ Top(t).at = place
Push(t, c) == [stack EXCEPT ![t] = Append(@, [once |-> c, at |-> "call"])]
Move(t, place) == [stack EXCEPT ![t] = [@ EXCEPT ![Len(@)].at = place]]
Pop(t) == [stack EXCEPT ![t] = SubSeq(@, 1, Len(@) - 1)]

\* The call returns to who made it.
Return(t) ==
  /\ stack' = Pop(t)
  /\ back' = [back EXCEPT ![t] = @ \cup {Top(t).once}]

CallOnce(t) ==
  /\ \/ /\ stack[t] = <<>>
        /\ \E c \in (Controls \cup Flags) \ back[t] : stack' = Push(t, c)
     \/ /\ TopAt(t, "init") /\ Top(t).once \in Controls
        /\ \E c \in Nests[Top(t).once] \ back[t] : stack' = Push(t, c)
  /\ UNCHANGED <<control, done, holder, started, finished, back>>

Begin(t, c) ==
  /\ stack' = Move(t, "init")
  /\ started' = [started EXCEPT ![c] = @ + 1]
  /\ UNCHANGED <<finished, back>>

\* The initialiser ends when it has run what it needs.
End(t) ==
  LET c == Top(t).once
  IN /\ TopAt(t, "init")
     /\ c \in Controls => Nests[c] \subseteq back[t]
     /\ finished' = [finished EXCEPT ![c] = @ + 1]
     /\ IF c \in Controls
        THEN stack' = Move(t, "publish") /\ UNCHANGED <<holder, back>>
        ELSE holder' = NoHolder /\ Return(t)
     /\ UNCHANGED <<control, done, started>>

----------------------------------------------------------------------------
(* pthread_once_fake                                                       *)

\* The compare-and-swap from 0 to 1; whoever does not win it waits.
SwapControl(t) ==
  /\ TopAt(t, "call") /\ Top(t).once \in Controls
  /\ LET c == Top(t).once
     IN IF control[c] = 0
        THEN control' = [control EXCEPT ![c] = 1] /\ Begin(t, c)
        ELSE /\ stack' = Move(t, "spin")
             /\ UNCHANGED <<control, started, finished, back>>
  /\ UNCHANGED <<done, holder>>

Publish(t) ==
  /\ TopAt(t, "publish")
  /\ control' = [control EXCEPT ![Top(t).once] = 2]
  /\ Return(t)
  /\ UNCHANGED <<done, holder, started, finished>>

\* The old version: past the winner while it was still running.
SpinPast(t) ==
  /\ TopAt(t, "spin") /\ control[Top(t).once] # 0
  /\ Return(t)
  /\ UNCHANGED <<control, done, holder, started, finished>>

Spin(t) ==
  /\ TopAt(t, "spin") /\ control[Top(t).once] = 2
  /\ Return(t)
  /\ UNCHANGED <<control, done, holder, started, finished>>

----------------------------------------------------------------------------
(* call_once                                                               *)

\* Under the lock from here to the end: a flag in the table has run, or is
\* running above; another one goes into the table if there is room, and runs.
EnterTable(t) ==
  /\ TopAt(t, "call") /\ Top(t).once \in Flags
  /\ holder = NoHolder
  /\ LET f == Top(t).once
     IN IF f \in done
        THEN Return(t) /\ UNCHANGED <<done, holder, started, finished>>
        ELSE /\ done' = IF Cardinality(done) < MaxFlags THEN done \cup {f} ELSE done
             /\ holder' = t
             /\ Begin(t, f)
  /\ UNCHANGED control

----------------------------------------------------------------------------

OnceNext == \E t \in Callers :
  CallOnce(t) \/ SwapControl(t) \/ Publish(t) \/ Spin(t) \/ EnterTable(t) \/ End(t)

OnceSpec == OnceInit /\ [][OnceNext]_onceVars

----------------------------------------------------------------------------
(* Properties                                                              *)

\* Who comes back finds an initialiser that has run to its end, and but for the
\* flags that found the table full it never begins twice.
InitialisedOnce ==
  /\ \A t \in Callers : \A c \in back[t] : finished[c] > 0
  /\ \A c \in Controls \cup done : started[c] <= 1
=============================================================================
