---------------------------- MODULE BionicLocks ----------------------------
(***************************************************************************)
(* The engine's mutex and condition variable (source/imports.c, the        *)
(* pthread_mutex and pthread_cond shims): a bionic lock is eight bytes the *)
(* engine initialises statically or not at all, and the shim puts a        *)
(* pointer to an object of its own there when the lock is first used.      *)
(*                                                                         *)
(* The engine is a monitor with one mutex and one condition: producers     *)
(* post items, consumers wait for one, which is how Godot's Semaphore uses *)
(* them.  In the end one thread destroys both, and the storage, whatever   *)
(* it then holds, is used as locks again.                                  *)
(***************************************************************************)
EXTENDS Integers, FiniteSets

CONSTANTS Producers, Consumers,
          MaxObjects,     \* bound: objects alive at once
          MaxItems,       \* bound: items posted in each life of the locks
          Lives           \* bound: how often the storage is used as locks

Threads == Producers \cup Consumers
Slots == {"mutex", "cond"}
Objects == 1..MaxObjects
Nobody == "nobody"

\* The bounds leave room for a mutex and a condition, and no thread is nobody.
ASSUME LocksAssumption ==
  /\ MaxObjects \in Nat /\ MaxObjects >= 2
  /\ MaxItems \in Nat /\ Lives \in Nat \ {0}
  /\ Nobody \notin Threads

\* What a slot holds that is not a pointer of ours: the mark of a static
\* initialiser, or zero, for which any other value that looks_like_our_heap_ptr
\* turns down stands.
Zero == 0
RecursiveMark == -1
Empty == {Zero, RecursiveMark}

VARIABLES
  slot,      \* the 8 bytes of each lock
  declared,  \* the kind the engine gave its mutex: "recursive" or not
  object,    \* the objects that are allocated: what they are
  owner, depth, waiters,   \* of mutexes; the threads asleep in a condition
  pc,        \* the shim call each thread is in, see Calls
  read,      \* `cur': what ensure_mutex or ensure_cond read
  made,      \* `m' or `c': the object it made
  held,      \* the mutex object the thread has locked, 0 for none
  items, posted, life

lockVars == <<slot, declared, object, owner, depth, waiters>>
threadVars == <<pc, read, made, held>>
engineVars == <<items, posted, life>>
vars == <<lockVars, threadVars, engineVars>>

\* Where a thread is: outside; in ensure_* for a call; in the call with the
\* object it found; inside the monitor; asleep; or done with the locks.
Calls == {"lock", "timedlock", "unlock", "wait", "waitMutex", "signal", "broadcast"}
SlotFor(call) == IF call \in {"wait", "signal", "broadcast"} THEN "cond" ELSE "mutex"

TypeOK ==
  /\ slot \in [Slots -> Empty \cup Objects]
  /\ declared \in {"plain", "recursive"}
  /\ object \in [Objects -> {"free", "plain", "recursive", "cond"}]
  /\ owner \in [Objects -> Threads \cup {Nobody}]
  /\ depth \in [Objects -> Nat]
  /\ waiters \in [Objects -> SUBSET Threads]
  /\ read \in [Threads -> Empty \cup Objects]
  /\ made \in [Threads -> {0} \cup Objects] /\ held \in [Threads -> {0} \cup Objects]
  /\ pc \in [Threads -> [at : {"out", "in", "posted", "asleep", "woken", "done"}, call : {""}]
                    \cup [at : {"make", "swap", "call"}, call : Calls]]
  /\ items \in 0..MaxItems /\ posted \in 0..MaxItems /\ life \in 1..Lives

At(place) == [at |-> place, call |-> ""]

Init ==
  /\ slot \in [Slots -> Empty]
  /\ slot["cond"] # RecursiveMark
  /\ declared = IF slot["mutex"] = RecursiveMark THEN "recursive" ELSE "plain"
  /\ object = [o \in Objects |-> "free"]
  /\ owner = [o \in Objects |-> Nobody]
  /\ depth = [o \in Objects |-> 0]
  /\ waiters = [o \in Objects |-> {}]
  /\ pc = [t \in Threads |-> At("out")]
  /\ read = [t \in Threads |-> Zero]
  /\ made = [t \in Threads |-> 0]
  /\ held = [t \in Threads |-> 0]
  /\ items = 0 /\ posted = 0 /\ life = 1

In(t, place, call) == pc[t] = [at |-> place, call |-> call]
Go(t, place, call) == pc' = [pc EXCEPT ![t] = [at |-> place, call |-> call]]
Goto(t, p) == pc' = [pc EXCEPT ![t] = p]

----------------------------------------------------------------------------
(* ensure_mutex, ensure_cond_clocked                                       *)

\* looks_like_our_heap_ptr
Ours(v) == v \in Objects

\* A call of the shim begins with the load of the slot, which nothing comes
\* before; read[t] is in the end the object that the call goes on with.
Call(t, call) ==
  LET v == slot[SlotFor(call)]
  IN /\ read' = [read EXCEPT ![t] = v]
     /\ pc' = [pc EXCEPT ![t] = [at |-> IF Ours(v) THEN "call" ELSE "make", call |-> call]]

\* make_mutex reads the type mark only now; make_cond.  calloc gives any free
\* block, one that was a lock before too.
Make(t, call) ==
  /\ In(t, "make", call)
  /\ \E o \in Objects :
       /\ object[o] = "free" /\ \A p \in Objects : p < o => object[p] # "free"
       /\ object' = [object EXCEPT ![o] =
            CASE SlotFor(call) = "cond" -> "cond"
              [] SlotFor(call) = "mutex" /\ slot["mutex"] = RecursiveMark -> "recursive"
              [] OTHER -> "plain"]
       /\ owner' = [owner EXCEPT ![o] = Nobody]
       /\ depth' = [depth EXCEPT ![o] = 0]
       /\ waiters' = [waiters EXCEPT ![o] = {}]
       /\ made' = [made EXCEPT ![t] = o]
  /\ Go(t, "swap", call)
  /\ UNCHANGED <<slot, declared, read, held, engineVars>>

\* The first version: the pointer is stored, whoever else has stored one.
StoreBlindly(t, call) ==
  /\ In(t, "swap", call)
  /\ slot' = [slot EXCEPT ![SlotFor(call)] = made[t]]
  /\ read' = [read EXCEPT ![t] = made[t]]
  /\ made' = [made EXCEPT ![t] = 0]
  /\ Go(t, "call", call)
  /\ UNCHANGED <<declared, object, owner, depth, waiters, held, engineVars>>

\* The compare-and-swap; the loser frees its object and takes the winner's.
Swap(t, call) ==
  /\ In(t, "swap", call)
  /\ LET s == SlotFor(call)
         won == slot[s] = read[t]
     IN /\ slot' = [slot EXCEPT ![s] = IF won THEN made[t] ELSE @]
        /\ object' = [object EXCEPT ![made[t]] = IF won THEN @ ELSE "free"]
        /\ read' = [read EXCEPT ![t] = IF won THEN made[t] ELSE slot[s]]
        /\ made' = [made EXCEPT ![t] = 0]
  /\ Go(t, "call", call)
  /\ UNCHANGED <<declared, owner, depth, waiters, held, engineVars>>

----------------------------------------------------------------------------
(* The calls, on the object that ensure_* returned                         *)

Free(t, o) == owner[o] = Nobody \/ (owner[o] = t /\ object[o] = "recursive")

Take(t, o) ==
  /\ owner' = [owner EXCEPT ![o] = t]
  /\ depth' = [depth EXCEPT ![o] = @ + 1]
  /\ held' = [held EXCEPT ![t] = o]

\* The call returns, and what it had read is gone.
Forget(t) == read' = [read EXCEPT ![t] = Zero]

Release(t, o) ==
  /\ depth' = [depth EXCEPT ![o] = @ - 1]
  /\ owner' = [owner EXCEPT ![o] = IF depth[o] = 1 THEN Nobody ELSE @]

\* pthread_mutex_lock_fake, and a timedlock that finds the mutex free.
Lock(t) ==
  /\ \E call \in {"lock", "timedlock"} : In(t, "call", call)
  /\ Free(t, read[t])
  /\ Take(t, read[t])
  /\ Goto(t, At("in"))
  /\ Forget(t)
  /\ UNCHANGED <<slot, declared, object, waiters, made, engineVars>>

\* pthread_mutex_timedlock_fake polls; at the deadline it gives up.
LockTimesOut(t) ==
  /\ In(t, "call", "timedlock")
  /\ ~Free(t, read[t])
  /\ Goto(t, At("out"))
  /\ Forget(t)
  /\ UNCHANGED <<lockVars, made, held, engineVars>>

Unlock(t) ==
  /\ In(t, "call", "unlock")
  /\ owner[read[t]] = t
  /\ Release(t, read[t])
  /\ held' = [held EXCEPT ![t] = IF depth[read[t]] = 1 THEN 0 ELSE @]
  /\ Goto(t, IF depth[read[t]] > 1 THEN At("in")
             ELSE IF t \in Producers THEN At("posted") ELSE At("out"))
  /\ Forget(t)
  /\ UNCHANGED <<slot, declared, object, waiters, made, engineVars>>

\* pthread_cond_wait_fake: ensure_cond, ensure_mutex, and the wait on both.
\* made[t] keeps the condition while the mutex is looked up.
WaitFindsCond(t) ==
  /\ In(t, "call", "wait")
  /\ made' = [made EXCEPT ![t] = read[t]]
  /\ Call(t, "waitMutex")
  /\ UNCHANGED <<lockVars, held, engineVars>>

Wait(t) ==
  /\ In(t, "call", "waitMutex")
  /\ waiters' = [waiters EXCEPT ![made[t]] = @ \cup {t}]
  /\ owner' = [owner EXCEPT ![read[t]] = Nobody]
  /\ depth' = [depth EXCEPT ![read[t]] = 0]
  /\ held' = [held EXCEPT ![t] = 0]
  /\ Goto(t, At("asleep"))
  /\ UNCHANGED <<slot, declared, object, read, made, engineVars>>

\* pthread_cond_timedwait_fake: the deadline passes.
WaitTimesOut(t) ==
  /\ pc[t] = At("asleep")
  /\ waiters' = [waiters EXCEPT ![made[t]] = @ \ {t}]
  /\ Goto(t, At("woken"))
  /\ UNCHANGED <<slot, declared, object, owner, depth, read, made, held, engineVars>>

\* The wait takes the mutex again.
Relock(t) ==
  /\ pc[t] = At("woken")
  /\ Free(t, read[t])
  /\ Take(t, read[t])
  /\ made' = [made EXCEPT ![t] = 0]
  /\ Goto(t, At("in"))
  /\ Forget(t)
  /\ UNCHANGED <<slot, declared, object, waiters, engineVars>>

\* pthread_cond_signal_fake, pthread_cond_broadcast_fake
WakeUp(t, S) ==
  /\ waiters' = [waiters EXCEPT ![read[t]] = @ \ S]
  /\ pc' = [u \in Threads |-> IF u \in S THEN At("woken")
                              ELSE IF u = t THEN At("out") ELSE pc[u]]
  /\ Forget(t)
  /\ UNCHANGED <<slot, declared, object, owner, depth, made, held, engineVars>>

Signal(t) ==
  /\ In(t, "call", "signal")
  /\ IF waiters[read[t]] = {} THEN WakeUp(t, {})
     ELSE \E u \in waiters[read[t]] : WakeUp(t, {u})

Broadcast(t) ==
  /\ In(t, "call", "broadcast")
  /\ WakeUp(t, waiters[read[t]])

----------------------------------------------------------------------------
(* The engine                                                              *)

Enter(t) ==
  /\ pc[t] = At("out")
  /\ IF t \in Producers THEN posted < MaxItems ELSE posted < MaxItems \/ items > 0
  /\ \E call \in IF t \in Producers THEN {"lock"} ELSE {"lock", "timedlock"} :
       Call(t, call)
  /\ UNCHANGED <<lockVars, made, held, engineVars>>

\* A function that locks the mutex calls another that does.
Again(t) ==
  /\ pc[t] = At("in")
  /\ declared = "recursive" /\ depth[held[t]] = 1
  /\ t \in Producers /\ posted < MaxItems
  /\ Call(t, "lock")
  /\ UNCHANGED <<lockVars, made, held, engineVars>>

Post(t) ==
  /\ pc[t] = At("in") /\ t \in Producers
  /\ posted < MaxItems
  /\ items' = items + 1 /\ posted' = posted + 1
  /\ Call(t, "unlock")
  /\ UNCHANGED <<lockVars, made, held, life>>

NothingToPost(t) ==
  /\ pc[t] = At("in") /\ t \in Producers
  /\ posted = MaxItems
  /\ Call(t, "unlock")
  /\ UNCHANGED <<lockVars, made, held, engineVars>>

Posted(t) ==
  /\ pc[t] = At("posted")
  /\ Call(t, IF posted < MaxItems THEN "signal" ELSE "broadcast")
  /\ UNCHANGED <<lockVars, made, held, engineVars>>

Consume(t) ==
  /\ pc[t] = At("in") /\ t \in Consumers
  /\ items > 0
  /\ items' = items - 1
  /\ Call(t, "unlock")
  /\ UNCHANGED <<lockVars, made, held, posted, life>>

Await(t) ==
  /\ pc[t] = At("in") /\ t \in Consumers
  /\ items = 0 /\ posted < MaxItems
  /\ Call(t, "wait")
  /\ UNCHANGED <<lockVars, made, held, engineVars>>

Leave(t) ==
  /\ pc[t] = At("in") /\ t \in Consumers
  /\ items = 0 /\ posted = MaxItems
  /\ Call(t, "unlock")
  /\ UNCHANGED <<lockVars, made, held, engineVars>>

\* Everybody is through, and only then are the locks destroyed.
Finish(t) ==
  /\ pc[t] = At("out")
  /\ posted = MaxItems /\ items = 0
  /\ Goto(t, At("done"))
  /\ UNCHANGED <<lockVars, read, made, held, engineVars>>

\* pthread_mutex_destroy_fake, pthread_cond_destroy_fake: the slot is emptied
\* and the object freed.
Destroy ==
  /\ \A t \in Threads : pc[t] = At("done")
  /\ life < Lives
  /\ \A s \in Slots : Ours(slot[s])
  /\ object' = [o \in Objects |->
                  IF \E s \in Slots : slot[s] = o THEN "free" ELSE object[o]]
  /\ slot' = [s \in Slots |-> Zero]
  /\ UNCHANGED <<declared, owner, depth, waiters, threadVars, engineVars>>

\* pthread_mutex_init_fake, pthread_cond_init_fake: the storage serves again.
InitAgain ==
  /\ \A t \in Threads : pc[t] = At("done")
  /\ life < Lives
  /\ \A s \in Slots : slot[s] = Zero
  /\ declared' \in {"plain", "recursive"}
  /\ object' = [object EXCEPT ![1] = declared', ![2] = "cond"]
  /\ slot' = [mutex |-> 1, cond |-> 2]
  /\ pc' = [t \in Threads |-> At("out")]
  /\ posted' = 0 /\ life' = life + 1
  /\ UNCHANGED <<owner, depth, waiters, read, made, held, items>>

----------------------------------------------------------------------------

Shim(t) ==
  \/ \E call \in Calls : Make(t, call) \/ Swap(t, call)
  \/ Lock(t) \/ LockTimesOut(t) \/ Unlock(t)
  \/ WaitFindsCond(t) \/ Wait(t) \/ Relock(t)
  \/ Signal(t) \/ Broadcast(t)

Engine(t) ==
  \/ Enter(t) \/ Post(t) \/ NothingToPost(t) \/ Posted(t)
  \/ Consume(t) \/ Await(t) \/ Leave(t) \/ Finish(t)

Next == \/ \E t \in Threads : Shim(t) \/ Engine(t) \/ Again(t) \/ WaitTimesOut(t)
        \/ Destroy \/ InitAgain

\* A thread that is not asleep goes on.  A thread blocked in a mutex gets it:
\* the kernel hands it over (svcArbitrateUnlock), which a polling timedlock
\* cannot count on.
HandedOver(t) == (In(t, "call", "lock") /\ Lock(t)) \/ Relock(t)
Fairness == \A t \in Threads : WF_vars(Shim(t) \/ Engine(t)) /\ SF_vars(HandedOver(t))

Spec == Init /\ [][Next]_vars /\ Fairness

----------------------------------------------------------------------------
(* Properties                                                              *)

\* However many threads meet an uninitialised lock at once, they end up with
\* one object, of the kind the engine declared: no two are inside, nobody waits
\* on another condition than is signalled, and no loser's object is left.
OneLock ==
  /\ \A t, u \in Threads : held[t] # 0 /\ held[u] # 0 => t = u
  /\ \A t \in Threads : held[t] # 0 => /\ slot["mutex"] = held[t]
                                       /\ object[held[t]] = declared
  /\ \A t \in Threads : pc[t].at = "asleep" => t \in waiters[slot["cond"]]
  /\ (\A t \in Threads : pc[t].at = "done") =>
       {o \in Objects : object[o] # "free"} \subseteq {slot[s] : s \in Slots}

\* No wake-up is lost: the consumers get every item and all threads are done
\* with the locks in the end.
AllGetThrough == <>[](\A t \in Threads : pc[t] = At("done"))
=============================================================================
