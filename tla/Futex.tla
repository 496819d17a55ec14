------------------------------- MODULE Futex -------------------------------
(***************************************************************************)
(* The futex system call (source/libc_shim.c, syscall_fake and futex_shim) *)
(* under the locks of Rust's standard library, which the shader compiler   *)
(* uses: a mutex whose word is 0, 1 or, with waiters, 2, and a condition   *)
(* variable that counts its notifications.  One thread sets a flag and     *)
(* notifies all; the others wait for it, some until a deadline.  The words *)
(* and what Rust does with them are external; the shim is what parks a     *)
(* thread and wakes it, on Horizon's address arbiter.                      *)
(***************************************************************************)
EXTENDS Integers

CONSTANTS Setters,         \* set the flag, if they come to it
          Patient, Timed   \* wait for it; wait for it until their deadline

Threads == Setters \cup Patient \cup Timed

VARIABLES
  lock, seq,     \* the words of the mutex and of the condition variable
  ready,         \* the flag
  pc,            \* where each thread is, see TypeOK
  after,         \* where it goes when it has left the mutex
  seen,          \* the count it read before it left
  due,           \* its deadline has passed
  bed            \* how it sleeps: on which word, and whether for ever

vars == <<lock, seq, ready, pc, after, seen, due, bed>>

Awake == [word |-> "none", forever |-> FALSE]

TypeOK ==
  /\ lock \in 0..2 /\ seq \in 0..1 /\ ready \in BOOLEAN
  /\ pc \in [Threads -> {"out", "lock", "contend", "park", "in", "wake",
                         "wait", "notify", "asleep", "done"}]
  /\ after \in [Threads -> {"wait", "notify", "done"}]
  /\ seen \in [Threads -> 0..1] /\ due \in [Threads -> BOOLEAN]
  /\ bed \in [Threads -> [word : {"none", "lock", "seq"}, forever : BOOLEAN]]

Init ==
  /\ lock = 0 /\ seq = 0 /\ ready = FALSE
  /\ pc = [t \in Threads |-> "out"]
  /\ after = [t \in Threads |-> "done"]
  /\ seen = [t \in Threads |-> 0]
  /\ due = [t \in Threads |-> FALSE]
  /\ bed = [t \in Threads |-> Awake]

----------------------------------------------------------------------------
(* futex_shim                                                              *)

\* futex_timeout_ns: a wait has a timeout if its caller named a deadline.  One
\* that has passed is answered here: the kernel may read the 0 as no timeout.
HasTimeout(t, name) == name = "seq" /\ t \in Timed
AnsweredByTheKernel(t, name) == FALSE
AnsweredHere(t, name) == HasTimeout(t, name) /\ due[t]

\* FUTEX_WAIT and FUTEX_WAIT_BITSET: the kernel compares the word and puts the
\* thread to sleep in one step.  After EAGAIN as after ETIMEDOUT Rust goes on at
\* `back'.
FutexWait(t, name, word, val, back) ==
  IF word # val \/ AnsweredHere(t, name)
  THEN pc' = [pc EXCEPT ![t] = back] /\ UNCHANGED bed
  ELSE /\ pc' = [pc EXCEPT ![t] = "asleep"]
       /\ bed' = [bed EXCEPT ![t] =
                    [word |-> name, forever |-> ~HasTimeout(t, name) \/ due[t]]]

\* Who is let go goes back to the mutex, from a sleep in it as one that knows
\* of others.
Back(t) == IF bed[t].word = "lock" THEN "contend" ELSE "lock"

\* FUTEX_WAKE and FUTEX_WAKE_BITSET: svcSignalToAddress wakes as many as are
\* asleep there, at most `count', -1 for all of them.
FutexWake(t, name, count, next) ==
  LET asleep == {u \in Threads : bed[u].word = name}
  IN \E S \in {asleep} \cup {{u} : u \in asleep} :
       /\ count = -1 => S = asleep
       /\ count = 1 /\ asleep # {} => \E u \in asleep : S = {u}
       /\ bed' = [u \in Threads |-> IF u \in S THEN Awake ELSE bed[u]]
       /\ pc' = [u \in Threads |-> IF u \in S THEN Back(u)
                                   ELSE IF u = t THEN next ELSE pc[u]]

\* The kernel's own timeout, for a sleep that has one.
TimeOut(t) ==
  /\ pc[t] = "asleep" /\ due[t] /\ ~bed[t].forever
  /\ bed' = [bed EXCEPT ![t] = Awake]
  /\ pc' = [pc EXCEPT ![t] = "lock"]
  /\ UNCHANGED <<lock, seq, ready, after, seen, due>>

----------------------------------------------------------------------------
(* Rust                                                                    *)

Start(t) ==
  /\ pc[t] = "out"
  /\ pc' = [pc EXCEPT ![t] = "lock"]
  /\ UNCHANGED <<lock, seq, ready, after, seen, due, bed>>

\* Mutex::lock, lock_contended
Lock(t) ==
  /\ pc[t] \in {"lock", "contend"}
  /\ lock' = IF pc[t] = "contend" THEN 2 ELSE IF lock = 0 THEN 1 ELSE lock
  /\ pc' = [pc EXCEPT ![t] = IF lock = 0 THEN "in"
                             ELSE IF pc[t] = "contend" THEN "park" ELSE "contend"]
  /\ UNCHANGED <<seq, ready, after, seen, due, bed>>

Park(t) ==
  /\ pc[t] = "park"
  /\ FutexWait(t, "lock", lock, 2, "contend")
  /\ UNCHANGED <<lock, seq, ready, after, seen, due>>

\* In the mutex: the flag is set; or it is found; or the wait is over, or begins
\* with the count of now.  Then Mutex::unlock.
Use(t) ==
  /\ pc[t] = "in"
  /\ ready' = (ready \/ t \in Setters)
  /\ after' = [after EXCEPT ![t] = IF t \in Setters THEN "notify"
                                   ELSE IF ready \/ due[t] THEN "done"
                                   ELSE "wait"]
  /\ seen' = [seen EXCEPT ![t] = seq]
  /\ pc' = [pc EXCEPT ![t] = IF lock = 2 THEN "wake" ELSE after'[t]]
  /\ lock' = 0
  /\ UNCHANGED <<seq, due, bed>>

WakeOne(t) ==
  /\ pc[t] = "wake"
  /\ FutexWake(t, "lock", 1, after[t])
  /\ UNCHANGED <<lock, seq, ready, after, seen, due>>

\* Condvar::wait_timeout and wait, after the mutex.
WaitFor(t) ==
  /\ pc[t] = "wait"
  /\ FutexWait(t, "seq", seq, seen[t], "lock")
  /\ UNCHANGED <<lock, seq, ready, after, seen, due>>

\* Condvar::notify_all: the count, then the call.
Count(t) ==
  /\ pc[t] = "notify" /\ seq = 0
  /\ seq' = 1
  /\ UNCHANGED <<lock, ready, pc, after, seen, due, bed>>

NotifyAll(t) ==
  /\ pc[t] = "notify" /\ seq = 1
  /\ FutexWake(t, "seq", -1, "done")
  /\ UNCHANGED <<lock, seq, ready, after, seen, due>>

Pass(t) ==
  /\ t \in Timed /\ ~due[t]
  /\ due' = [due EXCEPT ![t] = TRUE]
  /\ UNCHANGED <<lock, seq, ready, pc, after, seen, bed>>

----------------------------------------------------------------------------

Step(t) == \/ Lock(t) \/ Park(t) \/ Use(t) \/ WakeOne(t)
           \/ WaitFor(t) \/ Count(t) \/ NotifyAll(t) \/ TimeOut(t)

Next == \E t \in Threads : Start(t) \/ Step(t) \/ Pass(t)

\* A thread that is awake runs on, and time passes.  Nothing makes a thread
\* begin.
Fairness == \A t \in Threads : WF_vars(Step(t)) /\ WF_vars(Pass(t))

Spec == Init /\ [][Next]_vars /\ Fairness

----------------------------------------------------------------------------
(* Properties                                                              *)

\* Nobody is parked for ever: who began and has a deadline gets through whatever
\* the others do, and all who began do once the flag is set.
NobodyParkedForEver ==
  <>[](\A t \in Threads :
         pc[t] # "out" /\ (t \in Patient => ready) => pc[t] = "done")
=============================================================================
