---------------------------- MODULE ThreadTable ----------------------------
(***************************************************************************)
(* The engine's threads (source/imports.c, pthread_create, pthread_detach  *)
(* and what a thread does before and after the engine's own function): the *)
(* list the watchdog reads, and the table of detachable threads from which *)
(* a reaper joins the detached ones, because the platform cannot detach.   *)
(*                                                                         *)
(* Two engine threads create, detach and join others.  A pthread_t is the  *)
(* address of a block that pthread_join frees, so an id can come back: the *)
(* table, which keeps an entry until a later thread takes its place, then  *)
(* names two threads with one id.                                          *)
(***************************************************************************)
EXTENDS Integers, Sequences, FiniteSets

CONSTANTS Callers,
          MaxThreads,      \* bound: threads created in a run
          MaxDetachable,   \* MAX_DETACHABLE
          MaxGame,         \* MAX_GAME_THREADS
          IdsReused        \* a joined thread's id is given out again

Instances == 1..MaxThreads
None == 0
NoEntry == [used |-> FALSE, t |-> None, finished |-> FALSE, detached |-> FALSE]
Entry(t) == [used |-> TRUE, t |-> t, finished |-> FALSE, detached |-> FALSE]

VARIABLES
  stage,    \* how far each thread is, see Stages
  id,       \* its pthread_t
  fate,     \* what the engine did about it: joins or detaches it, once
  freed,    \* joined: its stack and its id are free
  dt,       \* s_dt
  game,     \* s_game_threads
  at,       \* each caller: idle, in dt_reap, joining, about to create
  then,     \* where dt_reap returns to
  victim    \* the id it joins

vars == <<stage, id, fate, freed, dt, game, at, then, victim>>

Stages == {"unborn", "created", "running", "returned", "finished"}

TypeOK ==
  /\ stage \in [Instances -> Stages]
  /\ id \in [Instances -> Instances \cup {None}]
  /\ fate \in [Instances -> {"open", "joining", "detached", "unknown"}]
  /\ freed \in [Instances -> BOOLEAN]
  /\ dt \in [1..MaxDetachable -> [used : BOOLEAN, t : Instances \cup {None},
                                  finished : BOOLEAN, detached : BOOLEAN]]
  /\ game \in [1..MaxGame -> Instances \cup {None}]
  /\ at \in [Callers -> {"idle", "reap", "join", "create", "wait"}]
  /\ then \in [Callers -> {"idle", "create"}]
  /\ victim \in [Callers -> Instances \cup {None}]

Init ==
  /\ stage = [k \in Instances |-> "unborn"]
  /\ id = [k \in Instances |-> None]
  /\ fate = [k \in Instances |-> "open"]
  /\ freed = [k \in Instances |-> FALSE]
  /\ dt = [i \in 1..MaxDetachable |-> NoEntry]
  /\ game = [i \in 1..MaxGame |-> None]
  /\ at = [c \in Callers |-> "idle"]
  /\ then = [c \in Callers |-> "idle"]
  /\ victim = [c \in Callers |-> None]

\* The first of the slots that a loop looks for, if there is one.
First(slots) == {i \in slots : \A j \in slots : i <= j}

Alive(k) == stage[k] # "unborn" /\ ~freed[k]

----------------------------------------------------------------------------
(* The thread: thread_trampoline                                           *)

\* dt_register: a free slot, else that of a finished thread nobody detached,
\* which the engine joins itself; else the thread stays unknown.  Then the
\* thread enters itself for the watchdog, in a table of its own.
Start(k) ==
  LET unused == {i \in DOMAIN dt : ~dt[i].used}
      spent == {i \in DOMAIN dt : dt[i].finished /\ ~dt[i].detached}
      slot == First(IF unused # {} THEN unused ELSE spent)
      empty == First({i \in DOMAIN game : game[i] = None})
  IN /\ stage[k] = "created"
     /\ stage' = [stage EXCEPT ![k] = "running"]
     /\ dt' = [i \in DOMAIN dt |->
                 IF i \in slot THEN Entry(id[k]) ELSE dt[i]]
     /\ game' = [i \in DOMAIN game |-> IF i \in empty THEN k ELSE game[i]]
     /\ UNCHANGED <<id, fate, freed, at, then, victim>>

\* The engine's function returns, and the thread leaves the watchdog's list.
Return(k) ==
  /\ stage[k] = "running"
  /\ stage' = [stage EXCEPT ![k] = "returned"]
  /\ game' = [i \in DOMAIN game |-> IF game[i] = k THEN None ELSE game[i]]
  /\ UNCHANGED <<id, fate, freed, dt, at, then, victim>>

\* dt_finished, the last act: from here on a join returns at once.
Finished(k) ==
  LET own == First({i \in DOMAIN dt : dt[i].used /\ dt[i].t = id[k]})
  IN /\ stage[k] = "returned"
     /\ stage' = [stage EXCEPT ![k] = "finished"]
     /\ dt' = [i \in DOMAIN dt |->
                 IF i \in own THEN [dt[i] EXCEPT !.finished = TRUE] ELSE dt[i]]
     /\ UNCHANGED <<id, fate, freed, game, at, then, victim>>

----------------------------------------------------------------------------
(* dt_reap                                                                 *)

\* Whatever has finished, detached or not.
ReapAny(c) ==
  LET found == First({i \in DOMAIN dt : dt[i].used /\ dt[i].finished})
  IN /\ at[c] = "reap"
     /\ at' = [at EXCEPT ![c] = IF found = {} THEN then[c] ELSE "join"]
     /\ victim' = [victim EXCEPT ![c] = IF found = {} THEN None ELSE dt[CHOOSE i \in found : TRUE].t]
     /\ dt' = [i \in DOMAIN dt |-> IF i \in found THEN NoEntry ELSE dt[i]]
     /\ UNCHANGED <<stage, id, fate, freed, game, then>>

\* One turn of the loop: a detached thread that has finished is taken from the
\* table under the lock, and joined without it.
Reap(c) ==
  LET found == First({i \in DOMAIN dt : dt[i].used /\ dt[i].detached /\ dt[i].finished})
  IN /\ at[c] = "reap"
     /\ at' = [at EXCEPT ![c] = IF found = {} THEN then[c] ELSE "join"]
     /\ victim' = [victim EXCEPT ![c] = IF found = {} THEN None ELSE dt[CHOOSE i \in found : TRUE].t]
     /\ dt' = [i \in DOMAIN dt |-> IF i \in found THEN NoEntry ELSE dt[i]]
     /\ UNCHANGED <<stage, id, fate, freed, game, then>>

\* pthread_join, the reaper's and the engine's: it waits for the thread that
\* has the id now.
Joined(c) ==
  /\ at[c] \in {"join", "wait"}
  /\ \E k \in Instances :
       /\ Alive(k) /\ id[k] = victim[c] /\ stage[k] = "finished"
       /\ freed' = [freed EXCEPT ![k] = TRUE]
  /\ at' = [at EXCEPT ![c] = IF at[c] = "join" THEN "reap" ELSE "idle"]
  /\ victim' = [victim EXCEPT ![c] = None]
  /\ UNCHANGED <<stage, id, fate, dt, game, then>>

----------------------------------------------------------------------------
(* The engine's calls                                                      *)

\* pthread_create_fake reaps first.
CallCreate(c) ==
  /\ at[c] = "idle"
  /\ \E k \in Instances : stage[k] = "unborn"
  /\ at' = [at EXCEPT ![c] = "reap"]
  /\ then' = [then EXCEPT ![c] = "create"]
  /\ UNCHANGED <<stage, id, fate, freed, dt, game, victim>>

\* A refused stack is asked for again at the default size: the thread starts
\* with the one or the other.
Create(c) ==
  /\ at[c] = "create"
  /\ \E k, new \in Instances :
       /\ stage[k] = "unborn" /\ \A j \in Instances : j < k => stage[j] # "unborn"
       /\ IF IdsReused THEN \A j \in Instances : Alive(j) => id[j] # new ELSE new = k
       /\ stage' = [stage EXCEPT ![k] = "created"]
       /\ id' = [id EXCEPT ![k] = new]
  /\ at' = [at EXCEPT ![c] = "idle"]
  /\ then' = [then EXCEPT ![c] = "idle"]
  /\ UNCHANGED <<fate, freed, dt, game, victim>>

\* Both are refused.
CreateFails(c) ==
  /\ at[c] = "create"
  /\ at' = [at EXCEPT ![c] = "idle"]
  /\ then' = [then EXCEPT ![c] = "idle"]
  /\ UNCHANGED <<stage, id, fate, freed, dt, game, victim>>

\* pthread_detach_fake; a thread that is not in the table, because it has not
\* run yet or was crowded out, is left alone.
Detach(c, k) ==
  LET found == First({i \in DOMAIN dt : dt[i].used /\ dt[i].t = id[k]})
      done == \E i \in found : dt[i].finished
  IN /\ at[c] = "idle"
     /\ Alive(k) /\ fate[k] = "open"
     /\ fate' = [fate EXCEPT ![k] = IF found = {} THEN "unknown" ELSE "detached"]
     /\ dt' = [i \in DOMAIN dt |->
                 IF i \in found THEN [dt[i] EXCEPT !.detached = TRUE] ELSE dt[i]]
     /\ at' = [at EXCEPT ![c] = IF done THEN "reap" ELSE "idle"]
     /\ UNCHANGED <<stage, id, freed, game, then, victim>>

\* The engine joins a thread of its own.
Join(c, k) ==
  /\ at[c] = "idle"
  /\ Alive(k) /\ fate[k] = "open"
  /\ fate' = [fate EXCEPT ![k] = "joining"]
  /\ at' = [at EXCEPT ![c] = "wait"]
  /\ victim' = [victim EXCEPT ![c] = id[k]]
  /\ UNCHANGED <<stage, id, freed, dt, game, then>>

----------------------------------------------------------------------------

Thread(k) == Start(k) \/ Return(k) \/ Finished(k)
Caller(c) ==
  \/ CallCreate(c) \/ Reap(c) \/ Joined(c) \/ Create(c) \/ CreateFails(c)
  \/ \E k \in Instances : Detach(c, k) \/ Join(c, k)

Next == \/ \E k \in Instances : Thread(k)
        \/ \E c \in Callers : Caller(c)

Spec == Init /\ [][Next]_vars

----------------------------------------------------------------------------
(* Properties                                                              *)

\* The thread that has an id now.
Holder(t) == {k \in Instances : Alive(k) /\ id[k] = t}

\* The reaper joins a thread the engine detached, and nobody else joins it;
\* no detached thread's stack is lost: once it has finished an entry says so,
\* or somebody is already joining it.
ReapedRight ==
  /\ \A c, d \in Callers : at[c] = "join" =>
       /\ \E k \in Holder(victim[c]) : fate[k] = "detached"
       /\ c # d /\ at[d] \in {"join", "wait"} => victim[c] # victim[d]
  /\ \A k \in Instances :
       Alive(k) /\ fate[k] = "detached" /\ stage[k] = "finished" =>
         \/ \E i \in DOMAIN dt : dt[i].t = id[k] /\ dt[i].detached /\ dt[i].finished
         \/ \E c \in Callers : at[c] = "join" /\ victim[c] = id[k]

\* "pthread_join on an exited thread returns at once, so nothing ever blocks":
\* what the reaper joins has done its last act.
NeverBlocks ==
  \A c \in Callers : at[c] = "join" =>
    \A k \in Holder(victim[c]) : stage[k] = "finished"
=============================================================================
