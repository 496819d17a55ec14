------------------------------ MODULE C11Pool ------------------------------
(***************************************************************************)
(* The C11 mutexes and condition variables of the graphics driver          *)
(* (source/nx_c11.c).  The driver's mtx_t and cnd_t hold only the number   *)
(* of a slot; the slots are in a pool that grows in chunks, and a slot     *)
(* serves one object after the other.  The recursive mutex is made of a    *)
(* plain one, its owner and a depth, which are read and written around it. *)
(*                                                                         *)
(* The driver makes and destroys objects, nests locks in one order, and    *)
(* waits for a condition with a mutex that is not recursive.               *)
(***************************************************************************)
EXTENDS Integers, Sequences, FiniteSets

CONSTANTS Threads,
          Recursive, Plain, Conds,   \* the driver's objects
          Order,                     \* its mutexes, in the order it nests them
          Chunk, Chunks,             \* NXC11_CHUNK, NXC11_CHUNKS
          MaxDepth                   \* bound: how deep a thread locks

Mutexes == Recursive \cup Plain
Handles == Mutexes \cup Conds
AllSlots == 0..Chunk * Chunks - 1
Nobody == "nobody"

VARIABLES
  handle,            \* what each mtx_t and cnd_t holds, slot + 1 or 0
  chunks, next, high,          \* g_chunk, g_next, g_high
  used, type,        \* of a slot: in_use, type
  owner, depth,      \* of a recursive mutex
  locked,            \* of a slot's libnx Mutex: who has it
  waiters,           \* of a slot's CondVar
  pc,                \* the call each thread is in, and the slot it works on
  holds              \* how often each thread has locked each mutex

poolVars == <<handle, chunks, next, high, used, type>>
mutexVars == <<owner, depth, locked, waiters>>
vars == <<poolVars, mutexVars, pc, holds>>

Idle == [call |-> "", mtx |-> "", slot |-> 0, cnd |-> 0]
In(call, m, s) == [call |-> call, mtx |-> m, slot |-> s, cnd |-> 0]
Calls == {"", "lock", "try", "timed", "own", "unlock", "wait", "timedwait"}

TypeOK ==
  /\ handle \in [Handles -> 0..Chunk * Chunks]
  /\ chunks \subseteq 0..Chunks - 1 /\ next \in 0..Chunk * Chunks /\ high \in 0..Chunks - 1
  /\ used \in [AllSlots -> BOOLEAN] /\ type \in [AllSlots -> {"plain", "recursive"}]
  /\ depth \in [AllSlots -> Nat]
  /\ owner \in [AllSlots -> Threads \cup {Nobody}]
  /\ locked \in [AllSlots -> Threads \cup {Nobody}]
  /\ waiters \in [AllSlots -> SUBSET Threads]
  /\ pc \in [Threads -> [call : Calls, mtx : Mutexes \cup {""}, slot : AllSlots,
                         cnd : 0..Chunk * Chunks]]
  /\ holds \in [Threads -> [Mutexes -> 0..MaxDepth]]

Init ==
  /\ handle = [h \in Handles |-> 0]
  /\ chunks = {} /\ next = 0 /\ high = 0
  /\ used = [s \in AllSlots |-> FALSE]
  /\ type = [s \in AllSlots |-> "plain"]
  /\ owner = [s \in AllSlots |-> Nobody]
  /\ depth = [s \in AllSlots |-> 0]
  /\ locked = [s \in AllSlots |-> Nobody]
  /\ waiters = [s \in AllSlots |-> {}]
  /\ pc = [t \in Threads |-> Idle]
  /\ holds = [t \in Threads |-> [m \in Mutexes |-> 0]]

\* slot_of: the slot a handle names, none for one that holds 0.
SlotOf(h) == {s \in AllSlots : s + 1 = handle[h] /\ s \div Chunk \in chunks}

----------------------------------------------------------------------------
(* slot_new, and the destroy functions                                     *)

\* The next free slot of the chunks there are, from g_next on and around.
Reusable ==
  LET live == (high + 1) * Chunk
      Nth(k) == (next + k) % live
      Fits(k) == Nth(k) \div Chunk \in chunks /\ ~used[Nth(k)]
  IN {Nth(k) : k \in {j \in 0..live - 1 : Fits(j) /\ \A i \in 0..j - 1 : ~Fits(i)}}

Missing == {c \in 0..Chunks - 1 : c \notin chunks}

\* The slot is zeroed and given out.
Reuse(s, h, kind) ==
  /\ used' = [used EXCEPT ![s] = TRUE]
  /\ type' = [type EXCEPT ![s] = kind]
  /\ owner' = [owner EXCEPT ![s] = Nobody]
  /\ depth' = [depth EXCEPT ![s] = 0]
  /\ locked' = [locked EXCEPT ![s] = Nobody]
  /\ waiters' = [waiters EXCEPT ![s] = {}]
  /\ next' = (s + 1) % ((high + 1) * Chunk)
  /\ handle' = [handle EXCEPT ![h] = s + 1]
  /\ UNCHANGED <<chunks, high>>

\* The first slot of the new chunk is not marked as taken.
GrowUnmarked(h, kind) ==
  \E c \in Missing :
    /\ \A d \in Missing : c <= d
    /\ chunks' = chunks \cup {c}
    /\ high' = IF c > high THEN c ELSE high
    /\ type' = [type EXCEPT ![c * Chunk] = kind]
    /\ next' = c * Chunk + 1
    /\ handle' = [handle EXCEPT ![h] = c * Chunk + 1]
    /\ UNCHANGED <<used, mutexVars>>

\* A chunk more; the memory for it is there.
Grow(h, kind) ==
  \E c \in Missing :
    /\ \A d \in Missing : c <= d
    /\ chunks' = chunks \cup {c}
    /\ high' = IF c > high THEN c ELSE high
    /\ used' = [used EXCEPT ![c * Chunk] = TRUE]
    /\ type' = [type EXCEPT ![c * Chunk] = kind]
    /\ next' = c * Chunk + 1
    /\ handle' = [handle EXCEPT ![h] = c * Chunk + 1]
    /\ UNCHANGED mutexVars

\* mtx_init, cnd_init: one critical section of g_pool_lk.  Without a slot the
\* call fails and the handle stays as it was.
New(h) ==
  LET kind == IF h \in Recursive THEN "recursive" ELSE "plain"
  IN /\ handle[h] = 0
     /\ \/ \E s \in Reusable : Reuse(s, h, kind)
        \/ Reusable = {} /\ Grow(h, kind)
     /\ UNCHANGED <<pc, holds>>

InUse(h) ==
  \/ \E t \in Threads : h \in Mutexes /\ (holds[t][h] > 0 \/ pc[t].mtx = h)
  \/ h \in Conds /\ \E t \in Threads : pc[t].call # "" /\ pc[t].cnd = handle[h]

\* mtx_destroy, cnd_destroy
Destroy(h) ==
  /\ handle[h] # 0 /\ ~InUse(h)
  /\ used' = [s \in AllSlots |-> used[s] /\ s \notin SlotOf(h)]
  /\ handle' = [handle EXCEPT ![h] = 0]
  /\ UNCHANGED <<chunks, next, high, type, mutexVars, pc, holds>>

----------------------------------------------------------------------------
(* mtx_lock, mtx_trylock, mtx_timedlock                                    *)

MayLock(t, m) ==
  /\ holds[t][m] < (IF m \in Recursive THEN MaxDepth ELSE 1)
  /\ \A i, j \in DOMAIN Order : Order[i] = m /\ holds[t][Order[j]] > 0 => j <= i

\* The call; a recursive mutex that names the caller is only counted.
CallLock(t, m, call) ==
  /\ pc[t] = Idle /\ MayLock(t, m)
  /\ \E s \in SlotOf(m) :
       IF type[s] = "recursive" /\ owner[s] = t
       THEN /\ depth' = [depth EXCEPT ![s] = @ + 1]
            /\ holds' = [holds EXCEPT ![t][m] = @ + 1]
            /\ UNCHANGED pc
       ELSE /\ pc' = [pc EXCEPT ![t] = In(call, m, s)]
            /\ UNCHANGED <<depth, holds>>
  /\ UNCHANGED <<poolVars, owner, locked, waiters>>

\* The plain mutex below.
Acquire(t) ==
  LET s == pc[t].slot
  IN /\ pc[t].call \in {"lock", "try", "timed"} /\ locked[s] = Nobody
     /\ locked' = [locked EXCEPT ![s] = t]
     /\ IF type[s] = "recursive"
        THEN pc' = [pc EXCEPT ![t].call = "own"] /\ UNCHANGED holds
        ELSE pc' = [pc EXCEPT ![t] = Idle] /\ holds' = [holds EXCEPT ![t][pc[t].mtx] = 1]
     /\ UNCHANGED <<poolVars, owner, depth, waiters>>

\* s->owner = me, s->depth = 1
Own(t) ==
  /\ pc[t].call = "own"
  /\ owner' = [owner EXCEPT ![pc[t].slot] = t]
  /\ depth' = [depth EXCEPT ![pc[t].slot] = 1]
  /\ holds' = [holds EXCEPT ![t][pc[t].mtx] = 1]
  /\ pc' = [pc EXCEPT ![t] = Idle]
  /\ UNCHANGED <<poolVars, locked, waiters>>

\* mtx_trylock is refused; mtx_timedlock polls until its deadline.
GiveUp(t) ==
  /\ pc[t].call \in {"try", "timed"} /\ locked[pc[t].slot] # Nobody
  /\ pc' = [pc EXCEPT ![t] = Idle]
  /\ UNCHANGED <<poolVars, mutexVars, holds>>

\* mtx_unlock: all but the innermost one count; that one gives owner and depth
\* up, and then, in a step of its own, the mutex.
Disown(t, m) ==
  /\ pc[t] = Idle /\ holds[t][m] > 0
  /\ \E s \in SlotOf(m) :
       IF type[s] = "recursive" /\ depth[s] > 1
       THEN /\ depth' = [depth EXCEPT ![s] = @ - 1]
            /\ UNCHANGED <<owner, pc>>
       ELSE /\ depth' = [depth EXCEPT ![s] = 0]
            /\ owner' = [owner EXCEPT ![s] = Nobody]
            /\ pc' = [pc EXCEPT ![t] = In("unlock", m, s)]
  /\ holds' = [holds EXCEPT ![t][m] = @ - 1]
  /\ UNCHANGED <<poolVars, locked, waiters>>

Release(t) ==
  /\ pc[t].call = "unlock"
  /\ locked' = [locked EXCEPT ![pc[t].slot] = Nobody]
  /\ pc' = [pc EXCEPT ![t] = Idle]
  /\ UNCHANGED <<poolVars, owner, depth, waiters, holds>>

----------------------------------------------------------------------------
(* cnd_wait, cnd_timedwait, cnd_signal, cnd_broadcast                      *)

\* condvarWait enters the waiter and gives the mutex up in one step.  The mutex
\* has one lock on it; its owner and depth stay as they are.
Wait(t, c, m, call) ==
  /\ pc[t] = Idle /\ m \in Plain /\ holds[t][m] = 1
  /\ \E s \in SlotOf(c), k \in SlotOf(m) :
       /\ waiters' = [waiters EXCEPT ![s] = @ \cup {t}]
       /\ locked' = [locked EXCEPT ![k] = Nobody]
       /\ pc' = [pc EXCEPT ![t] = [call |-> call, mtx |-> m, slot |-> k, cnd |-> s + 1]]
  /\ holds' = [holds EXCEPT ![t][m] = 0]
  /\ UNCHANGED <<poolVars, owner, depth>>

\* The deadline of cnd_timedwait.
Expire(t) ==
  /\ pc[t].call = "timedwait"
  /\ waiters' = [waiters EXCEPT ![pc[t].cnd - 1] = @ \ {t}]
  /\ pc' = [pc EXCEPT ![t].call = "lock"]
  /\ UNCHANGED <<poolVars, owner, depth, locked, holds>>

\* A waiter that is woken takes the mutex again, as Acquire does.
Wake(t, c) ==
  /\ pc[t] = Idle
  /\ \E s \in SlotOf(c) : \E S \in {waiters[s]} \cup {{u} : u \in waiters[s]} :
       /\ waiters[s] # {}
       /\ waiters' = [waiters EXCEPT ![s] = @ \ S]
       /\ pc' = [u \in Threads |-> IF u \in S THEN [pc[u] EXCEPT !.call = "lock"] ELSE pc[u]]
  /\ UNCHANGED <<poolVars, owner, depth, locked, holds>>

----------------------------------------------------------------------------

Thread(t) ==
  \/ \E m \in Mutexes :
       \/ \E call \in {"lock", "try", "timed"} : CallLock(t, m, call)
       \/ Disown(t, m)
       \/ \E c \in Conds, call \in {"wait", "timedwait"} : Wait(t, c, m, call)
  \/ \E c \in Conds : Wake(t, c)
  \/ Acquire(t) \/ Own(t) \/ GiveUp(t) \/ Release(t) \/ Expire(t)

Next == \/ \E t \in Threads : Thread(t)
        \/ \E h \in Handles : New(h) \/ Destroy(h)

Spec == Init /\ [][Next]_vars

----------------------------------------------------------------------------
(* Properties                                                              *)

\* Whatever was made and destroyed before: a mutex is one thread's at a time,
\* and that thread's as often as its depth says; and two objects of the driver
\* never meet in one slot.
Exclusive ==
  /\ \A t, u \in Threads, m \in Mutexes :
       holds[t][m] > 0 /\ holds[u][m] > 0 => t = u
  /\ \A t \in Threads, m \in Recursive :
       holds[t][m] > 0 => \E s \in SlotOf(m) : locked[s] = t /\ depth[s] = holds[t][m]
  /\ \A h, k \in Handles : handle[h] # 0 /\ handle[h] = handle[k] => h = k
  /\ \A h \in Handles : handle[h] # 0 => SlotOf(h) # {}
=============================================================================
