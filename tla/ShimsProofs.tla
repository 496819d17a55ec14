---------------------------- MODULE ShimsProofs ----------------------------
(***************************************************************************)
(* What the shims that the running engine calls guarantee for any size of  *)
(* their tables and any number of threads.                                 *)
(***************************************************************************)
EXTENDS Shims, SequenceTheorems, WellFoundedInduction, TLAPS

----------------------------------------------------------------------------
(* ThreadTable, on a platform that gives no id out twice.                  *)

Instances == Table!Instances
Entries0 == 1..MaxDetachable

IdsRight ==
  \A k \in Instances : id[k] = IF stage[k] = "unborn" THEN 0 ELSE k

\* An entry in use names a thread that has started, no two the same one; it
\* says that the thread has finished or is detached exactly when it is.
EntryRight(i) ==
  LET k == dt[i].t
  IN dt[i].used => /\ k \in Instances /\ stage[k] \notin {"unborn", "created"}
                   /\ dt[i].finished <=> stage[k] = "finished"
                   /\ dt[i].detached <=> fate[k] = "detached"
                   /\ dt[i].detached => ~freed[k]

EntriesRight ==
  /\ \A i \in Entries0 : EntryRight(i)
  /\ \A i, j \in Entries0 : dt[i].used /\ dt[j].used /\ dt[i].t = dt[j].t => i = j
  /\ \A i \in Entries0 : ~dt[i].used => ~dt[i].finished /\ ~dt[i].detached

\* A caller joins a thread whose entry is gone, and none that another joins.
JoinsRight ==
  /\ \A c \in Threads : tableAt[c] = "join" =>
       LET k == victim[c]
       IN /\ k \in Instances /\ stage[k] = "finished" /\ ~freed[k]
          /\ fate[k] = "detached"
          /\ \A i \in Entries0 : dt[i].used => dt[i].t # k
  /\ \A c \in Threads : tableAt[c] = "wait" =>
       victim[c] \in Instances /\ fate[victim[c]] = "joining"
  /\ \A c, d \in Threads :
       tableAt[c] = "join" /\ tableAt[d] = "join" /\ victim[c] = victim[d] => c = d

\* A detached thread that is alive has an entry, or somebody joins it.
DetachedKept ==
  \A k \in Instances : fate[k] = "detached" /\ ~freed[k] =>
    \/ \E i \in Entries0 : dt[i].used /\ dt[i].t = k
    \/ \E c \in Threads : tableAt[c] = "join" /\ victim[c] = k

Born == \A k \in Instances : stage[k] \in {"unborn", "created"} => ~freed[k]

TableInv == /\ Table!TypeOK /\ IdsRight /\ EntriesRight
            /\ JoinsRight /\ DetachedKept /\ Born

EntryType == [used : BOOLEAN, t : Instances \cup {0}, finished : BOOLEAN, detached : BOOLEAN]

LEMMA TableTypes ==
  ASSUME Table!TypeOK
  PROVE  /\ stage \in [Instances -> Table!Stages] /\ id \in [Instances -> Instances \cup {0}]
         /\ fate \in [Instances -> {"open", "joining", "detached", "unknown"}]
         /\ freed \in [Instances -> BOOLEAN]
         /\ dt \in [Entries0 -> EntryType] /\ DOMAIN dt = Entries0
         /\ game \in [1..MaxGame -> Instances \cup {0}]
         /\ tableAt \in [Threads -> {"idle", "reap", "join", "create", "wait"}]
         /\ then \in [Threads -> {"idle", "create"}]
         /\ victim \in [Threads -> Instances \cup {0}]
  BY DEF Table!TypeOK, Instances, Entries0, EntryType, Table!None, Table!Instances

LEMMA TypesTable ==
  ASSUME stage' \in [Instances -> Table!Stages], id' \in [Instances -> Instances \cup {0}],
         fate' \in [Instances -> {"open", "joining", "detached", "unknown"}],
         freed' \in [Instances -> BOOLEAN],
         dt' \in [Entries0 -> EntryType],
         game' \in [1..MaxGame -> Instances \cup {0}],
         tableAt' \in [Threads -> {"idle", "reap", "join", "create", "wait"}],
         then' \in [Threads -> {"idle", "create"}],
         victim' \in [Threads -> Instances \cup {0}]
  PROVE  Table!TypeOK'
  BY DEF Table!TypeOK, Instances, Entries0, EntryType, Table!None, Table!Instances, Table!Stages

LEMMA InstancesAreNumbers == Instances \subseteq Nat \ {0}
  BY TableAssumption DEF Instances, Table!Instances

\* A loop finds at most one entry, and the only one there is.
LEMMA FirstIsOne ==
  ASSUME NEW S, S \subseteq Entries0
  PROVE  /\ Table!First(S) \subseteq S
         /\ \A i, j \in Table!First(S) : i = j
         /\ \A i \in S : (\A j \in S : j = i) => i \in Table!First(S)
  BY TableAssumption DEF Table!First, Entries0

LEMMA StartStep == ASSUME TableInv, NEW k \in Instances, Table!Start(k) PROVE TableInv'
<1> DEFINE unused == {i \in Entries0 : ~dt[i].used}
           spent == {i \in Entries0 : dt[i].finished /\ ~dt[i].detached}
           slot == Table!First(IF unused # {} THEN unused ELSE spent)
           entry == [used |-> TRUE, t |-> k, finished |-> FALSE, detached |-> FALSE]
<1>1. Table!TypeOK /\ IdsRight /\ EntriesRight /\ JoinsRight /\ DetachedKept /\ Born
  BY DEF TableInv
<1>2. stage[k] = "created" /\ id[k] = k
  BY <1>1, InstancesAreNumbers DEF Table!Start, IdsRight
<1>3. slot \subseteq Entries0 /\ \A i, j \in slot : i = j
  <2>1. unused \subseteq Entries0 /\ spent \subseteq Entries0
    OBVIOUS
  <2> HIDE DEF unused, spent
  <2> QED
    BY <2>1, FirstIsOne
<1>4. \A i \in slot : ~dt[i].detached
  <2>1. unused \subseteq Entries0 /\ spent \subseteq Entries0
    OBVIOUS
  <2>2. \A i \in unused \cup spent : ~dt[i].detached
    BY <1>1 DEF EntriesRight
  <2> HIDE DEF unused, spent
  <2> QED
    BY <2>1, <2>2, FirstIsOne
<1>5. /\ stage' = [stage EXCEPT ![k] = "running"]
      /\ dt' = [i \in Entries0 |-> IF i \in slot THEN entry ELSE dt[i]]
      /\ UNCHANGED <<id, fate, freed, tableAt, then, victim>>
  <2>1. DOMAIN dt = Entries0
    BY <1>1, TableTypes
  <2>2. Table!Entry(id[k]) = entry
    BY <1>2 DEF Table!Entry
  <2> HIDE DEF entry
  <2> QED
    BY <2>1, <2>2 DEF Table!Start
<1>6. game' \in [1..MaxGame -> Instances \cup {0}]
  BY <1>1, TableTypes DEF Table!Start
<1> HIDE DEF slot
<1>7. /\ stage'[k] = "running" /\ \A j \in Instances \ {k} : stage'[j] = stage[j]
      /\ stage' \in [Instances -> Table!Stages]
  BY <1>1, <1>5, TableTypes DEF Table!Stages
<1>8. /\ dt' \in [Entries0 -> EntryType]
      /\ \A i \in Entries0 : IF i \in slot THEN dt'[i] = entry ELSE dt'[i] = dt[i]
  BY <1>1, <1>5, TableTypes DEF EntryType
<1>9. entry.used /\ entry.t = k /\ ~entry.finished /\ ~entry.detached
  OBVIOUS
<1> HIDE DEF entry
<1>10. Table!TypeOK'
  BY <1>1, <1>5, <1>6, <1>7, <1>8, TableTypes, TypesTable
<1>11. fate[k] # "detached"
  BY <1>1, <1>2 DEF DetachedKept, Born, EntriesRight, EntryRight, JoinsRight
<1>12. \A i \in Entries0 : dt[i].used => dt[i].t # k
  BY <1>1, <1>2 DEF EntriesRight, EntryRight
<1>13. IdsRight'
  BY <1>1, <1>2, <1>5, <1>7 DEF IdsRight, Instances
<1>14. EntriesRight'
  <2>1. ASSUME NEW i \in Entries0 PROVE EntryRight(i)'
    <3>1. CASE i \in slot
      BY <1>7, <1>8, <1>9, <1>11, <1>5, <3>1 DEF EntryRight, Instances
    <3>2. CASE i \notin slot
      BY <1>1, <1>5, <1>7, <1>8, <1>12, <3>2 DEF EntryRight, EntriesRight, Instances
    <3> QED
      BY <3>1, <3>2
  <2> QED
    BY <1>1, <1>3, <1>8, <1>9, <1>12, <2>1 DEF EntriesRight
<1>15. JoinsRight'
  BY <1>1, <1>2, <1>5, <1>7, <1>8, <1>9 DEF JoinsRight, Instances
<1>16. DetachedKept'
  BY <1>1, <1>4, <1>5, <1>8, <1>9, <1>11 DEF DetachedKept, EntriesRight, EntryRight, Instances
<1>17. Born'
  BY <1>1, <1>5, <1>7 DEF Born, Instances
<1> QED
  BY <1>10, <1>13, <1>14, <1>15, <1>16, <1>17 DEF TableInv

\* One field of an entry is set.
LEMMA SetFinished ==
  ASSUME NEW e \in EntryType
  PROVE  LET f == [e EXCEPT !.finished = TRUE]
         IN /\ f \in EntryType /\ f.t = e.t /\ f.finished
            /\ (f.used <=> e.used) /\ (f.detached <=> e.detached)
<1> DEFINE f == [e EXCEPT !.finished = TRUE]
<1>1. f \in EntryType
  BY DEF EntryType
<1>2. f.t = e.t
  BY DEF EntryType
<1>3. f.finished
  BY DEF EntryType
<1>4. f.used <=> e.used
  BY DEF EntryType
<1>5. f.detached <=> e.detached
  BY DEF EntryType
<1> HIDE DEF f
<1> QED
  BY <1>1, <1>2, <1>3, <1>4, <1>5 DEF f

LEMMA SetDetached ==
  ASSUME NEW e \in EntryType
  PROVE  LET f == [e EXCEPT !.detached = TRUE]
         IN /\ f \in EntryType /\ f.t = e.t /\ f.detached
            /\ (f.used <=> e.used) /\ (f.finished <=> e.finished)
<1> DEFINE f == [e EXCEPT !.detached = TRUE]
<1>1. f \in EntryType
  BY DEF EntryType
<1>2. f.t = e.t
  BY DEF EntryType
<1>3. f.detached
  BY DEF EntryType
<1>4. f.used <=> e.used
  BY DEF EntryType
<1>5. f.finished <=> e.finished
  BY DEF EntryType
<1> HIDE DEF f
<1> QED
  BY <1>1, <1>2, <1>3, <1>4, <1>5 DEF f

LEMMA NoEntryType ==
  /\ Table!NoEntry \in EntryType /\ ~Table!NoEntry.used
  /\ ~Table!NoEntry.finished /\ ~Table!NoEntry.detached
  BY DEF Table!NoEntry, EntryType, Table!None

LEMMA ReturnStep == ASSUME TableInv, NEW k \in Instances, Table!Return(k) PROVE TableInv'
<1>1. Table!TypeOK /\ IdsRight /\ EntriesRight /\ JoinsRight /\ DetachedKept /\ Born
  BY DEF TableInv
<1>2. /\ stage[k] = "running" /\ stage' = [stage EXCEPT ![k] = "returned"]
      /\ UNCHANGED <<id, fate, freed, dt, tableAt, then, victim>>
  BY DEF Table!Return
<1>3. /\ stage'[k] = "returned" /\ \A j \in Instances \ {k} : stage'[j] = stage[j]
      /\ stage' \in [Instances -> Table!Stages]
  BY <1>1, <1>2, TableTypes DEF Table!Stages
<1>4. game' \in [1..MaxGame -> Instances \cup {0}]
  BY <1>1, TableTypes DEF Table!Return, Table!None
<1>5. Table!TypeOK'
  BY <1>1, <1>2, <1>3, <1>4, TableTypes, TypesTable
<1>6. IdsRight' /\ Born'
  BY <1>1, <1>2, <1>3 DEF IdsRight, Born, Instances
<1>7. EntriesRight'
  BY <1>1, <1>2, <1>3 DEF EntriesRight, EntryRight, Instances
<1>8. JoinsRight' /\ DetachedKept'
  BY <1>1, <1>2, <1>3 DEF JoinsRight, DetachedKept, Instances
<1> QED
  BY <1>5, <1>6, <1>7, <1>8 DEF TableInv

\* What the last act of a thread and a detach do: a field of the entry that
\* names the thread is set, if there is one.
LEMMA OwnEntry ==
  ASSUME TableInv, NEW k \in Instances, stage[k] # "unborn",
         NEW own, own = Table!First({i \in Entries0 : dt[i].used /\ dt[i].t = id[k]})
  PROVE  \A i \in Entries0 : i \in own <=> dt[i].used /\ dt[i].t = k
<1> DEFINE S == {i \in Entries0 : dt[i].used /\ dt[i].t = id[k]}
<1>1. id[k] = k /\ S \subseteq Entries0
  BY DEF TableInv, IdsRight
<1>2. \A i, j \in S : i = j
  BY DEF TableInv, EntriesRight
<1>3. \A i \in Entries0 : i \in S <=> dt[i].used /\ dt[i].t = k
  BY <1>1
<1> HIDE DEF S
<1>4. Table!First(S) \subseteq S /\ \A i \in S : i \in Table!First(S)
  BY <1>1, <1>2, FirstIsOne
<1> QED
  BY <1>3, <1>4 DEF S

LEMMA FinishedStep == ASSUME TableInv, NEW k \in Instances, Table!Finished(k) PROVE TableInv'
<1> DEFINE own == Table!First({i \in Entries0 : dt[i].used /\ dt[i].t = id[k]})
<1>1. Table!TypeOK /\ IdsRight /\ EntriesRight /\ JoinsRight /\ DetachedKept /\ Born
  BY DEF TableInv
<1>2. DOMAIN dt = Entries0 /\ \A i \in Entries0 : dt[i] \in EntryType
  BY <1>1, TableTypes
<1>3. /\ stage[k] = "returned" /\ stage' = [stage EXCEPT ![k] = "finished"]
      /\ dt' = [i \in Entries0 |->
                  IF i \in own THEN [dt[i] EXCEPT !.finished = TRUE] ELSE dt[i]]
      /\ UNCHANGED <<id, fate, freed, game, tableAt, then, victim>>
  BY <1>2 DEF Table!Finished
<1>4. \A i \in Entries0 : i \in own <=> dt[i].used /\ dt[i].t = k
  BY <1>3, OwnEntry
<1> HIDE DEF own
<1>5. /\ stage'[k] = "finished" /\ \A j \in Instances \ {k} : stage'[j] = stage[j]
      /\ stage' \in [Instances -> Table!Stages]
  BY <1>1, <1>3, TableTypes DEF Table!Stages
<1>6. \A i \in Entries0 :
        /\ dt'[i] \in EntryType /\ dt'[i].t = dt[i].t
        /\ (dt'[i].used <=> dt[i].used) /\ (dt'[i].detached <=> dt[i].detached)
        /\ (dt'[i].finished <=> dt[i].finished \/ (dt[i].used /\ dt[i].t = k))
  <2> SUFFICES ASSUME NEW i \in Entries0
               PROVE  /\ dt'[i] \in EntryType /\ dt'[i].t = dt[i].t
                      /\ (dt'[i].used <=> dt[i].used) /\ (dt'[i].detached <=> dt[i].detached)
                      /\ (dt'[i].finished <=> dt[i].finished \/ (dt[i].used /\ dt[i].t = k))
    OBVIOUS
  <2>1. CASE i \in own
    <3>1. dt'[i] = [dt[i] EXCEPT !.finished = TRUE]
      BY <1>3, <2>1
    <3> QED
      BY <1>2, <1>4, <2>1, <3>1, SetFinished
  <2>2. CASE i \notin own
    <3>1. dt'[i] = dt[i]
      BY <1>3, <2>2
    <3> QED
      BY <1>2, <1>4, <2>2, <3>1
  <2> QED
    BY <2>1, <2>2
<1>7. dt' \in [Entries0 -> EntryType]
  BY <1>3, <1>6
<1>8. Table!TypeOK'
  BY <1>1, <1>3, <1>5, <1>7, TableTypes, TypesTable
<1>9. IdsRight' /\ Born'
  BY <1>1, <1>3, <1>5 DEF IdsRight, Born, Instances
<1>10. EntriesRight'
  <2>1. ASSUME NEW i \in Entries0 PROVE EntryRight(i)'
    <3>1. EntryRight(i)
      BY <1>1 DEF EntriesRight
    <3> QED
      BY <1>3, <1>5, <1>6, <3>1, ZenonT(40) DEF EntryRight, Instances
  <2>2. \A i, j \in Entries0 : dt'[i].used /\ dt'[j].used /\ dt'[i].t = dt'[j].t => i = j
    BY <1>1, <1>6 DEF EntriesRight
  <2>3. \A i \in Entries0 : ~dt'[i].used => ~dt'[i].finished /\ ~dt'[i].detached
    BY <1>1, <1>6 DEF EntriesRight
  <2> QED
    BY <2>1, <2>2, <2>3 DEF EntriesRight
<1>11. JoinsRight'
  BY <1>1, <1>3, <1>5, <1>6 DEF JoinsRight, Instances
<1>12. DetachedKept'
  BY <1>1, <1>3, <1>5, <1>6 DEF DetachedKept, Instances
<1> QED
  BY <1>8, <1>9, <1>10, <1>11, <1>12 DEF TableInv

LEMMA ReapStep == ASSUME TableInv, NEW c \in Threads, Table!Reap(c) PROVE TableInv'
<1> DEFINE S == {i \in Entries0 : dt[i].used /\ dt[i].detached /\ dt[i].finished}
           found == Table!First(S)
<1>1. Table!TypeOK /\ IdsRight /\ EntriesRight /\ JoinsRight /\ DetachedKept /\ Born
  BY DEF TableInv
<1>2. /\ tableAt[c] = "reap"
      /\ tableAt' = [tableAt EXCEPT ![c] = IF found = {} THEN then[c] ELSE "join"]
      /\ victim' = [victim EXCEPT ![c] =
                      IF found = {} THEN 0 ELSE dt[CHOOSE i \in found : TRUE].t]
      /\ dt' = [i \in Entries0 |-> IF i \in found THEN Table!NoEntry ELSE dt[i]]
      /\ UNCHANGED <<stage, id, fate, freed, game, then>>
  <2>1. DOMAIN dt = Entries0
    BY <1>1, TableTypes
  <2> QED
    BY <2>1 DEF Table!Reap, Table!None
<1>3. /\ found \subseteq S /\ \A i, j \in found : i = j
  <2>1. S \subseteq Entries0
    OBVIOUS
  <2> HIDE DEF S
  <2> QED
    BY <2>1, FirstIsOne
<1>4. \A d \in Threads \ {c} : tableAt'[d] = tableAt[d] /\ victim'[d] = victim[d]
  BY <1>1, <1>2, TableTypes
<1> HIDE DEF found
<1>5. CASE found = {}
  <2>1. tableAt'[c] \in {"idle", "create"} /\ victim'[c] = 0 /\ dt' = dt
    BY <1>1, <1>2, <1>5, TableTypes
  <2>2. Table!TypeOK'
    BY <1>1, <1>2, <1>4, <2>1, TableTypes, TypesTable
  <2>3. IdsRight' /\ EntriesRight' /\ Born'
    BY <1>1, <1>2, <2>1 DEF IdsRight, EntriesRight, EntryRight, Born, Instances
  <2>4. JoinsRight' /\ DetachedKept'
    BY <1>1, <1>2, <1>4, <2>1 DEF JoinsRight, DetachedKept, Instances
  <2> QED
    BY <2>2, <2>3, <2>4 DEF TableInv
<1>6. CASE found # {}
  <2> DEFINE e == CHOOSE i \in found : TRUE
             k == dt[e].t
  <2>1. e \in found /\ e \in Entries0 /\ dt[e].used /\ dt[e].detached /\ dt[e].finished
        /\ \A i \in found : i = e
    BY <1>3, <1>6
  <2>2. tableAt'[c] = "join" /\ victim'[c] = k
    BY <1>1, <1>2, <1>6, TableTypes
  <2> HIDE DEF e
  <2>3. /\ k \in Instances /\ stage[k] = "finished" /\ ~freed[k] /\ fate[k] = "detached"
    BY <1>1, <2>1 DEF EntriesRight, EntryRight
  <2>4. \A i \in Entries0 : dt'[i] = IF i = e THEN Table!NoEntry ELSE dt[i]
    BY <1>2, <2>1
  <2>5. \A i \in Entries0 : dt[i].used /\ dt[i].t = k => i = e
    BY <1>1, <2>1 DEF EntriesRight
  <2> HIDE DEF k
  <2>6. Table!TypeOK'
    <3>1. dt' \in [Entries0 -> EntryType]
      BY <1>1, <1>2, TableTypes, NoEntryType
    <3>2. /\ tableAt' \in [Threads -> {"idle", "reap", "join", "create", "wait"}]
          /\ victim' \in [Threads -> Instances \cup {0}]
      BY <1>1, <1>2, <2>2, <2>3, TableTypes
    <3> QED
      BY <1>1, <1>2, <3>1, <3>2, TableTypes, TypesTable
  <2>7. IdsRight' /\ Born'
    BY <1>1, <1>2 DEF IdsRight, Born, Instances
  <2>8. EntriesRight'
    BY <1>1, <1>2, <2>4, NoEntryType DEF EntriesRight, EntryRight, Instances
  <2>9. JoinsRight'
    <3>1. \A i \in Entries0 : dt'[i].used => dt[i].used /\ dt'[i] = dt[i] /\ dt[i].t # k
      BY <2>4, <2>5, NoEntryType
    <3>2. \A d \in Threads : tableAt[d] = "join" => victim[d] # k
      BY <1>1, <2>1, <2>5 DEF JoinsRight, k
    <3>3. \A d \in Threads : tableAt'[d] = "join" =>
            /\ victim'[d] \in Instances /\ stage'[victim'[d]] = "finished"
            /\ ~freed'[victim'[d]] /\ fate'[victim'[d]] = "detached"
            /\ \A i \in Entries0 : dt'[i].used => dt'[i].t # victim'[d]
      <4> SUFFICES ASSUME NEW d \in Threads, tableAt'[d] = "join"
                   PROVE  /\ victim'[d] \in Instances /\ stage'[victim'[d]] = "finished"
                          /\ ~freed'[victim'[d]] /\ fate'[victim'[d]] = "detached"
                          /\ \A i \in Entries0 : dt'[i].used => dt'[i].t # victim'[d]
        OBVIOUS
      <4>1. CASE d = c
        BY <1>2, <2>2, <2>3, <3>1, <4>1
      <4>2. CASE d # c
        BY <1>1, <1>2, <1>4, <3>1, <4>2 DEF JoinsRight
      <4> QED
        BY <4>1, <4>2
    <3>4. \A d \in Threads : tableAt'[d] = "wait" =>
            victim'[d] \in Instances /\ fate'[victim'[d]] = "joining"
      BY <1>1, <1>2, <1>4, <2>2 DEF JoinsRight
    <3>5. \A d, u \in Threads :
            tableAt'[d] = "join" /\ tableAt'[u] = "join" /\ victim'[d] = victim'[u] => d = u
      BY <1>1, <1>4, <2>2, <3>2 DEF JoinsRight
    <3> QED
      BY <3>3, <3>4, <3>5 DEF JoinsRight, Instances
  <2>10. DetachedKept'
    <3> SUFFICES ASSUME NEW j \in Instances, fate[j] = "detached", ~freed[j]
                 PROVE  \/ \E i \in Entries0 : dt'[i].used /\ dt'[i].t = j
                        \/ \E d \in Threads : tableAt'[d] = "join" /\ victim'[d] = j
      BY <1>2 DEF DetachedKept, Instances
    <3>1. CASE j = k
      BY <2>2, <3>1
    <3>2. CASE j # k /\ \E i \in Entries0 : dt[i].used /\ dt[i].t = j
      BY <2>1, <2>4, <3>2 DEF k
    <3>3. CASE \E d \in Threads : tableAt[d] = "join" /\ victim[d] = j
      BY <1>2, <1>4, <3>3
    <3> QED
      BY <1>1, <3>1, <3>2, <3>3 DEF DetachedKept
  <2> QED
    BY <2>6, <2>7, <2>8, <2>9, <2>10 DEF TableInv
<1> QED
  BY <1>5, <1>6

LEMMA JoinedStep == ASSUME TableInv, NEW c \in Threads, Table!Joined(c) PROVE TableInv'
<1>1. Table!TypeOK /\ IdsRight /\ EntriesRight /\ JoinsRight /\ DetachedKept /\ Born
  BY DEF TableInv
<1>2. /\ tableAt[c] \in {"join", "wait"}
      /\ tableAt' = [tableAt EXCEPT ![c] = IF tableAt[c] = "join" THEN "reap" ELSE "idle"]
      /\ victim' = [victim EXCEPT ![c] = 0]
      /\ UNCHANGED <<stage, id, fate, dt, game, then>>
  BY DEF Table!Joined, Table!None
<1>3. PICK k \in Instances : /\ stage[k] = "finished" /\ id[k] = victim[c]
                             /\ freed' = [freed EXCEPT ![k] = TRUE]
  BY DEF Table!Joined, Instances
<1>4. victim[c] = k
  BY <1>1, <1>3 DEF IdsRight
<1>5. /\ freed'[k] /\ \A j \in Instances \ {k} : freed'[j] = freed[j]
      /\ freed' \in [Instances -> BOOLEAN]
  BY <1>1, <1>3, TableTypes
<1>6. /\ \A d \in Threads \ {c} : tableAt'[d] = tableAt[d] /\ victim'[d] = victim[d]
      /\ tableAt'[c] \in {"reap", "idle"}
      /\ tableAt' \in [Threads -> {"idle", "reap", "join", "create", "wait"}]
      /\ victim' \in [Threads -> Instances \cup {0}]
  BY <1>1, <1>2, TableTypes
<1>7. Table!TypeOK'
  BY <1>1, <1>2, <1>5, <1>6, TableTypes, TypesTable
<1>8. IdsRight' /\ Born'
  BY <1>1, <1>2, <1>3, <1>5 DEF IdsRight, Born, Instances
<1>9. \A i \in Entries0 : dt[i].used /\ dt[i].t = k => ~dt[i].detached
  BY <1>1, <1>2, <1>4 DEF JoinsRight, EntriesRight, EntryRight
<1>10. EntriesRight'
  <2>1. ASSUME NEW i \in Entries0 PROVE EntryRight(i)'
    <3>1. EntryRight(i)
      BY <1>1 DEF EntriesRight
    <3> QED
      BY <1>2, <1>5, <1>9, <3>1 DEF EntryRight, Instances
  <2> QED
    BY <1>1, <1>2, <2>1 DEF EntriesRight
<1>11. \A d \in Threads \ {c} : tableAt[d] = "join" => victim[d] # k
  BY <1>1, <1>2, <1>4 DEF JoinsRight
<1>12. JoinsRight'
  BY <1>1, <1>2, <1>5, <1>6, <1>11 DEF JoinsRight, Instances
<1>13. DetachedKept'
  BY <1>1, <1>2, <1>4, <1>5, <1>6 DEF DetachedKept, Instances
<1> QED
  BY <1>7, <1>8, <1>10, <1>12, <1>13 DEF TableInv

\* A call that touches neither the threads nor the table.
LEMMA CallCreateStep ==
  ASSUME TableInv, NEW c \in Threads, Table!CallCreate(c) \/ Table!CreateFails(c)
  PROVE  TableInv'
<1>1. Table!TypeOK /\ IdsRight /\ EntriesRight /\ JoinsRight /\ DetachedKept /\ Born
  BY DEF TableInv
<1>2. /\ tableAt[c] \in {"idle", "create"}
      /\ \E p \in {"idle", "reap"} : tableAt' = [tableAt EXCEPT ![c] = p]
      /\ \E p \in {"idle", "create"} : then' = [then EXCEPT ![c] = p]
      /\ UNCHANGED <<stage, id, fate, freed, dt, game, victim>>
  BY DEF Table!CallCreate, Table!CreateFails
<1>3. /\ \A d \in Threads \ {c} : tableAt'[d] = tableAt[d]
      /\ tableAt'[c] \in {"idle", "reap"}
      /\ tableAt' \in [Threads -> {"idle", "reap", "join", "create", "wait"}]
      /\ then' \in [Threads -> {"idle", "create"}]
  BY <1>1, <1>2, TableTypes
<1>4. Table!TypeOK'
  BY <1>1, <1>2, <1>3, TableTypes, TypesTable
<1>5. IdsRight' /\ EntriesRight' /\ Born'
  BY <1>1, <1>2 DEF IdsRight, EntriesRight, EntryRight, Born, Instances
<1>6. JoinsRight' /\ DetachedKept'
  BY <1>1, <1>2, <1>3 DEF JoinsRight, DetachedKept, Instances
<1> QED
  BY <1>4, <1>5, <1>6 DEF TableInv

LEMMA CreateStep == ASSUME TableInv, NEW c \in Threads, Table!Create(c) PROVE TableInv'
<1>1. Table!TypeOK /\ IdsRight /\ EntriesRight /\ JoinsRight /\ DetachedKept /\ Born
  BY DEF TableInv
<1>2. /\ tableAt[c] = "create"
      /\ tableAt' = [tableAt EXCEPT ![c] = "idle"]
      /\ then' = [then EXCEPT ![c] = "idle"]
      /\ UNCHANGED <<fate, freed, dt, game, victim>>
  BY DEF Table!Create
<1>3. PICK k \in Instances : /\ stage[k] = "unborn"
                             /\ stage' = [stage EXCEPT ![k] = "created"]
                             /\ id' = [id EXCEPT ![k] = k]
  BY DEF Table!Create, Instances
<1>4. /\ \A d \in Threads \ {c} : tableAt'[d] = tableAt[d]
      /\ tableAt'[c] = "idle"
      /\ tableAt' \in [Threads -> {"idle", "reap", "join", "create", "wait"}]
      /\ then' \in [Threads -> {"idle", "create"}]
  BY <1>1, <1>2, TableTypes
<1>5. /\ stage'[k] = "created" /\ \A j \in Instances \ {k} : stage'[j] = stage[j]
      /\ stage' \in [Instances -> Table!Stages]
      /\ id'[k] = k /\ \A j \in Instances \ {k} : id'[j] = id[j]
      /\ id' \in [Instances -> Instances \cup {0}]
  BY <1>1, <1>3, TableTypes DEF Table!Stages
<1>6. Table!TypeOK'
  BY <1>1, <1>2, <1>4, <1>5, TableTypes, TypesTable
<1>7. IdsRight' /\ Born'
  BY <1>1, <1>2, <1>3, <1>5 DEF IdsRight, Born, Instances
<1>8. EntriesRight'
  BY <1>1, <1>2, <1>3, <1>5 DEF EntriesRight, EntryRight, Instances
<1>9. JoinsRight' /\ DetachedKept'
  BY <1>1, <1>2, <1>3, <1>4, <1>5 DEF JoinsRight, DetachedKept, Instances
<1> QED
  BY <1>6, <1>7, <1>8, <1>9 DEF TableInv

LEMMA JoinStep ==
  ASSUME TableInv, NEW c \in Threads, NEW k \in Instances, Table!Join(c, k)
  PROVE  TableInv'
<1>1. Table!TypeOK /\ IdsRight /\ EntriesRight /\ JoinsRight /\ DetachedKept /\ Born
  BY DEF TableInv
<1>2. /\ tableAt[c] = "idle" /\ Table!Alive(k) /\ fate[k] = "open"
      /\ fate' = [fate EXCEPT ![k] = "joining"]
      /\ tableAt' = [tableAt EXCEPT ![c] = "wait"]
      /\ victim' = [victim EXCEPT ![c] = id[k]]
      /\ UNCHANGED <<stage, id, freed, dt, game, then>>
  BY DEF Table!Join
<1>3. id[k] = k
  BY <1>1, <1>2 DEF IdsRight, Table!Alive
<1>4. /\ fate'[k] = "joining" /\ \A j \in Instances \ {k} : fate'[j] = fate[j]
      /\ fate' \in [Instances -> {"open", "joining", "detached", "unknown"}]
      /\ \A d \in Threads \ {c} : tableAt'[d] = tableAt[d] /\ victim'[d] = victim[d]
      /\ tableAt'[c] = "wait" /\ victim'[c] = k
      /\ tableAt' \in [Threads -> {"idle", "reap", "join", "create", "wait"}]
      /\ victim' \in [Threads -> Instances \cup {0}]
  BY <1>1, <1>2, <1>3, TableTypes
<1>5. Table!TypeOK'
  BY <1>1, <1>2, <1>4, TableTypes, TypesTable
<1>6. IdsRight' /\ Born'
  BY <1>1, <1>2 DEF IdsRight, Born, Instances
<1>7. EntriesRight'
  BY <1>1, <1>2, <1>4 DEF EntriesRight, EntryRight, Instances
<1>8. JoinsRight'
  BY <1>1, <1>2, <1>4 DEF JoinsRight, Instances
<1>9. DetachedKept'
  BY <1>1, <1>2, <1>4 DEF DetachedKept, Instances
<1> QED
  BY <1>5, <1>6, <1>7, <1>8, <1>9 DEF TableInv

LEMMA DetachStep ==
  ASSUME TableInv, NEW c \in Threads, NEW k \in Instances, Table!Detach(c, k)
  PROVE  TableInv'
<1> DEFINE found == Table!First({i \in Entries0 : dt[i].used /\ dt[i].t = id[k]})
           done == \E i \in found : dt[i].finished
<1>1. Table!TypeOK /\ IdsRight /\ EntriesRight /\ JoinsRight /\ DetachedKept /\ Born
  BY DEF TableInv
<1>2. DOMAIN dt = Entries0 /\ \A i \in Entries0 : dt[i] \in EntryType
  BY <1>1, TableTypes
<1>3. /\ tableAt[c] = "idle" /\ stage[k] # "unborn" /\ ~freed[k] /\ fate[k] = "open"
      /\ fate' = [fate EXCEPT ![k] = IF found = {} THEN "unknown" ELSE "detached"]
      /\ dt' = [i \in Entries0 |->
                  IF i \in found THEN [dt[i] EXCEPT !.detached = TRUE] ELSE dt[i]]
      /\ tableAt' = [tableAt EXCEPT ![c] = IF done THEN "reap" ELSE "idle"]
      /\ UNCHANGED <<stage, id, freed, game, then, victim>>
  BY <1>2 DEF Table!Detach, Table!Alive
<1>4. \A i \in Entries0 : i \in found <=> dt[i].used /\ dt[i].t = k
  BY <1>3, OwnEntry
<1>5. found \subseteq Entries0
  BY FirstIsOne
<1> HIDE DEF found, done
<1>6. /\ \A j \in Instances \ {k} : fate'[j] = fate[j]
      /\ fate'[k] = IF found = {} THEN "unknown" ELSE "detached"
      /\ fate' \in [Instances -> {"open", "joining", "detached", "unknown"}]
      /\ \A d \in Threads \ {c} : tableAt'[d] = tableAt[d]
      /\ tableAt'[c] \in {"reap", "idle"}
      /\ tableAt' \in [Threads -> {"idle", "reap", "join", "create", "wait"}]
  BY <1>1, <1>3, TableTypes
<1>7. \A i \in Entries0 :
        /\ dt'[i] \in EntryType /\ dt'[i].t = dt[i].t
        /\ (dt'[i].used <=> dt[i].used) /\ (dt'[i].finished <=> dt[i].finished)
        /\ (dt'[i].detached <=> dt[i].detached \/ (dt[i].used /\ dt[i].t = k))
  <2> SUFFICES ASSUME NEW i \in Entries0
               PROVE  /\ dt'[i] \in EntryType /\ dt'[i].t = dt[i].t
                      /\ (dt'[i].used <=> dt[i].used) /\ (dt'[i].finished <=> dt[i].finished)
                      /\ (dt'[i].detached <=> dt[i].detached \/ (dt[i].used /\ dt[i].t = k))
    OBVIOUS
  <2>1. CASE i \in found
    <3>1. dt'[i] = [dt[i] EXCEPT !.detached = TRUE]
      BY <1>3, <2>1
    <3> QED
      BY <1>2, <1>4, <2>1, <3>1, SetDetached
  <2>2. CASE i \notin found
    <3>1. dt'[i] = dt[i]
      BY <1>3, <2>2
    <3> QED
      BY <1>2, <1>4, <2>2, <3>1
  <2> QED
    BY <2>1, <2>2
<1>8. Table!TypeOK'
  <2>1. dt' \in [Entries0 -> EntryType]
    BY <1>3, <1>7
  <2> QED
    BY <1>1, <1>3, <1>6, <2>1, TableTypes, TypesTable
<1>9. IdsRight' /\ Born'
  BY <1>1, <1>3 DEF IdsRight, Born, Instances
<1>10. EntriesRight'
  <2>1. ASSUME NEW i \in Entries0 PROVE EntryRight(i)'
    <3>1. EntryRight(i)
      BY <1>1 DEF EntriesRight
    <3>2. dt[i].used /\ dt[i].t = k => fate'[k] = "detached"
      BY <1>4, <1>6
    <3>3. CASE dt[i].t = k
      BY <1>3, <1>7, <3>1, <3>2, <3>3 DEF EntryRight, Instances
    <3>4. CASE dt[i].t # k
      BY <1>3, <1>6, <1>7, <3>1, <3>4 DEF EntryRight, Instances
    <3> QED
      BY <3>3, <3>4
  <2>2. \A i, j \in Entries0 : dt'[i].used /\ dt'[j].used /\ dt'[i].t = dt'[j].t => i = j
    BY <1>1, <1>7 DEF EntriesRight
  <2>3. \A i \in Entries0 : ~dt'[i].used => ~dt'[i].finished /\ ~dt'[i].detached
    BY <1>1, <1>7 DEF EntriesRight
  <2> QED
    BY <2>1, <2>2, <2>3 DEF EntriesRight
<1>11. JoinsRight'
  BY <1>1, <1>3, <1>6, <1>7 DEF JoinsRight, Instances
<1>12. DetachedKept'
  BY <1>1, <1>3, <1>4, <1>5, <1>6, <1>7 DEF DetachedKept, Instances
<1> QED
  BY <1>8, <1>9, <1>10, <1>11, <1>12 DEF TableInv

LEMMA TableInit == Table!Init => TableInv
<1> SUFFICES ASSUME Table!Init PROVE TableInv
  OBVIOUS
<1>1. Table!TypeOK
  BY DEF Table!Init, Table!TypeOK, Table!NoEntry, Table!None, Table!Stages
<1>2. IdsRight /\ Born /\ JoinsRight /\ DetachedKept
  BY DEF Table!Init, IdsRight, Born, JoinsRight, DetachedKept, Instances, Table!None
<1>3. EntriesRight
  BY NoEntryType DEF Table!Init, EntriesRight, EntryRight, Entries0
<1> QED
  BY <1>1, <1>2, <1>3 DEF TableInv

LEMMA TableStep == ASSUME TableInv, [Table!Next]_(Table!vars) PROVE TableInv'
<1>1. CASE UNCHANGED Table!vars
  <2>1. Table!TypeOK' /\ IdsRight' /\ Born'
    BY <1>1 DEF Table!vars, TableInv, Table!TypeOK, IdsRight, Born, Table!Stages
  <2>2. EntriesRight' /\ JoinsRight' /\ DetachedKept'
    BY <1>1 DEF Table!vars, TableInv, EntriesRight, EntryRight, JoinsRight, DetachedKept
  <2> QED
    BY <2>1, <2>2 DEF TableInv
<1>2. ASSUME NEW k \in Instances, Table!Thread(k) PROVE TableInv'
  BY <1>2, StartStep, ReturnStep, FinishedStep DEF Table!Thread
<1>3. ASSUME NEW c \in Threads, Table!Caller(c) PROVE TableInv'
  BY <1>3, CallCreateStep, ReapStep, JoinedStep, CreateStep, DetachStep, JoinStep
  DEF Table!Caller, Instances
<1> QED
  BY <1>1, <1>2, <1>3 DEF Table!Next, Instances

LEMMA TableInvariant == Table!Spec => []TableInv
  BY TableInit, TableStep, PTL DEF Table!Spec

\* The reaper joins a thread that the engine detached and nobody else joins, and
\* no detached thread's stack is lost (dt_reap, pthread_detach_fake).
THEOREM ThreadsAreReapedRight == Table!Spec => []ReapedRight
<1>1. TableInv => ReapedRight
  <2> SUFFICES ASSUME TableInv PROVE ReapedRight
    OBVIOUS
  <2>1. /\ IdsRight /\ EntriesRight /\ JoinsRight /\ DetachedKept
        /\ DOMAIN dt = Entries0
    BY TableTypes DEF TableInv
  <2>2. ASSUME NEW c \in Threads, tableAt[c] = "join"
        PROVE  \E k \in Table!Holder(victim[c]) : fate[k] = "detached"
    BY <2>1, <2>2 DEF JoinsRight, IdsRight, Table!Holder, Table!Alive, Instances
  <2>3. ASSUME NEW c \in Threads, NEW d \in Threads, tableAt[c] = "join",
               c # d, tableAt[d] \in {"join", "wait"}
        PROVE  victim[c] # victim[d]
    BY <2>1, <2>3 DEF JoinsRight
  <2>4. ASSUME NEW k \in Instances, Table!Alive(k), fate[k] = "detached",
               stage[k] = "finished"
        PROVE  \/ \E i \in Entries0 : dt[i].t = id[k] /\ dt[i].detached /\ dt[i].finished
               \/ \E c \in Threads : tableAt[c] = "join" /\ victim[c] = id[k]
    <3>1. id[k] = k /\ ~freed[k]
      BY <2>1, <2>4 DEF IdsRight, Table!Alive
    <3>2. CASE \E i \in Entries0 : dt[i].used /\ dt[i].t = k
      BY <2>1, <2>4, <3>1, <3>2 DEF EntriesRight, EntryRight
    <3>3. CASE \E c \in Threads : tableAt[c] = "join" /\ victim[c] = k
      BY <3>1, <3>3
    <3> QED
      BY <2>1, <2>4, <3>1, <3>2, <3>3 DEF DetachedKept
  <2> QED
    BY <2>1, <2>2, <2>3, <2>4 DEF ReapedRight, Table!ReapedRight, Instances
<1> QED
  BY <1>1, TableInvariant, PTL

\* "pthread_join on an exited thread returns at once, so nothing ever blocks":
\* what the reaper joins has done its last act (dt_reap's comment).
THEOREM ReaperNeverBlocks == Table!Spec => []NeverBlocks
<1>1. TableInv => NeverBlocks
  BY DEF TableInv, JoinsRight, IdsRight, NeverBlocks, Table!NeverBlocks,
         Table!Holder, Table!Alive, Instances
<1> QED
  BY <1>1, TableInvariant, PTL
----------------------------------------------------------------------------
(* Sockets.                                                                *)

\* Where the engine is says what its socket has been through, and what it has
\* read and what waits for it is what was sent, until a reset throws it away.
NetInv ==
  /\ Net!TypeOK
  /\ phase \in {"connected", "polled", "reading"} => host \in {"up", "reset"}
  /\ phase \in {"start", "resolved"} => host = "none"
  /\ phase \in {"opened", "connecting"} => host # "none"
  /\ phase \in {"connecting", "connected", "polled", "reading"} => nonblocking
  /\ got + inbox <= sent /\ (host # "reset" => got + inbox = sent)
  /\ phase \in {"polled", "reading"} => inbox > 0 \/ fin \/ host = "reset"
  /\ GivenUpRightly

ErrorNames == {"EAGAIN", "EPIPE", "ECONNRESET", "ECONNREFUSED", "ETIMEDOUT",
          "EINPROGRESS", "EALREADY", "EISCONN"}

\* An error number of the console's is read by the engine as the same error.
LEMMA ReadsWhatWasMeant == \A error \in ErrorNames : Net!Reads(error) = error
<1>1. DOMAIN Net!NewlibNo = ErrorNames /\ DOMAIN Net!BionicNo = ErrorNames
  BY DEF Net!NewlibNo, Net!BionicNo, ErrorNames
<1>2. \A a, b \in ErrorNames : Net!NewlibNo[a] = Net!NewlibNo[b] => a = b
  BY DEF Net!NewlibNo, ErrorNames
<1>3. \A a, b \in ErrorNames : Net!BionicNo[a] = Net!BionicNo[b] => a = b
  BY DEF Net!BionicNo, ErrorNames
<1> SUFFICES ASSUME NEW error \in ErrorNames PROVE Net!Reads(error) = error
  OBVIOUS
<1>4. (CHOOSE k \in ErrorNames : Net!NewlibNo[k] = Net!NewlibNo[error]) = error
  BY <1>2
<1>5. Net!ToBionic(Net!NewlibNo[error]) = Net!BionicNo[error]
  BY <1>1, <1>4 DEF Net!ToBionic
<1>6. (CHOOSE k \in ErrorNames : Net!BionicNo[k] = Net!BionicNo[error]) = error
  BY <1>3
<1> QED
  BY <1>1, <1>5, <1>6 DEF Net!Reads

LEMMA NetInit == Net!Init => NetInv
<1> SUFFICES ASSUME Net!Init PROVE NetInv
  OBVIOUS
<1>1. /\ addresses \subseteq {"v4", "v6"} /\ counts \in BOOLEAN
      /\ host = "none" /\ nonblocking \in BOOLEAN /\ fin \in BOOLEAN
      /\ phase = "start"
  BY DEF Net!Init
<1>2. inbox = 0 /\ sent = 0 /\ got = 0 /\ room = MaxBytes /\ put = MaxBytes
  BY DEF Net!Init
<1>3. got + inbox <= sent /\ got + inbox = sent
  BY <1>2
<1>4. Net!TypeOK
  BY <1>1, <1>2, NetAssumption DEF Net!TypeOK, Net!Phases
<1>5. GivenUpRightly
  BY <1>1 DEF GivenUpRightly, Net!GivenUpRightly
<1> QED
  BY <1>1, <1>3, <1>4, <1>5 DEF NetInv

LEMMA NetStep == ASSUME NetInv, [Net!Next]_(Net!vars) PROVE NetInv'
<1> USE NetAssumption DEF NetInv, Net!TypeOK, GivenUpRightly, Net!GivenUpRightly,
          Net!Phases, Net!Down, Net!GiveUp, Net!Goes, Net!Frozen
<1>1. CASE UNCHANGED Net!vars
  BY <1>1 DEF Net!vars, Net!stack, Net!engine
<1>2. CASE Net!Resolve
  <2>1. \/ phase' = "resolved" /\ UNCHANGED <<why, got, put>>
        \/ phase' = "gone" /\ why' = "unresolved" /\ "v4" \notin addresses
           /\ UNCHANGED <<got, put>>
    BY <1>2 DEF Net!Resolve, Net!Answers
  <2>2. /\ UNCHANGED <<host, nonblocking, inbox, fin, sent, room, addresses, counts>>
        /\ phase = "start"
    BY <1>2 DEF Net!Resolve, Net!stack
  <2> QED
    BY <2>1, <2>2
<1>3. CASE Net!Socket
  <2>1. /\ host' = "fresh" /\ nonblocking' = FALSE
        /\ phase = "resolved" /\ phase' = "opened"
        /\ UNCHANGED <<inbox, fin, sent, room, why, got, put, addresses, counts>>
    BY <1>3 DEF Net!Socket
  <2>2. Net!TypeOK'
    BY <2>1
  <2> QED
    BY <2>1, <2>2
<1>4. CASE Net!SetNonblocking
  BY <1>4 DEF Net!SetNonblocking
<1>5. CASE Net!Connect
  <2>1. Net!ConnectError \in ErrorNames
    BY <1>5 DEF Net!Connect, Net!ConnectError, ErrorNames
  <2>2. Net!Reads(Net!ConnectError) = Net!ConnectError
    BY <2>1, ReadsWhatWasMeant
  <2>3. \/ phase' = phase /\ UNCHANGED <<why, got, put>>
        \/ phase' = "connected" /\ host = "up" /\ UNCHANGED <<why, got, put>>
        \/ phase' = "gone" /\ why' = "connect" /\ UNCHANGED <<got, put>>
           /\ host \in {"reset", "refused", "timedout"}
    BY <1>5, <2>2 DEF Net!Connect, Net!ConnectError, Net!engine
  <2> QED
    BY <1>5, <2>3 DEF Net!Connect
<1>6. CASE Net!Poll
  BY <1>6 DEF Net!Poll, Net!stack, Net!engine
<1>7. CASE Net!Available
  BY <1>7 DEF Net!Available, Net!Count, Net!stack
<1>8. CASE Net!Receive
  <2>1. Net!Reads("EAGAIN") = "EAGAIN"
    BY ReadsWhatWasMeant DEF ErrorNames
  <2> QED
    BY <1>8, <2>1 DEF Net!Receive
<1>9. CASE Net!Send
  BY <1>9 DEF Net!Send, Net!engine
<1>10. CASE Net!Network
  <2>1. UNCHANGED <<addresses, counts, nonblocking, phase, why, got, put>>
    BY <1>10 DEF Net!Network, Net!engine
  <2>2. CASE host = "trying" /\ host' \in {"up", "refused", "timedout"}
             /\ UNCHANGED <<inbox, fin, sent, room>>
    BY <2>1, <2>2
  <2>3. CASE host = "up" /\ ~fin /\ sent < MaxBytes /\ sent' = sent + 1 /\ inbox' = inbox + 1
             /\ UNCHANGED <<host, fin, room>>
    BY <2>1, <2>3
  <2>4. CASE host = "up" /\ ~fin /\ fin' = TRUE /\ UNCHANGED <<host, inbox, sent, room>>
    BY <2>1, <2>4
  <2>5. CASE host = "up" /\ host' = "reset" /\ inbox' = 0 /\ UNCHANGED <<fin, sent, room>>
    BY <2>1, <2>5
  <2>6. CASE host = "up" /\ room < MaxBytes /\ room' = room + 1
             /\ UNCHANGED <<host, inbox, fin, sent>>
    BY <2>1, <2>6
  <2> QED
    BY <1>10, <2>2, <2>3, <2>4, <2>5, <2>6 DEF Net!Network
<1> QED
  BY <1>1, <1>2, <1>3, <1>4, <1>5, <1>6, <1>7, <1>8, <1>9, <1>10 DEF Net!Next

\* The engine gives a server up only for what the server or the network did, and
\* no call holds it up (sm127_connect, sm127_ioctl, sm127_recv, bionic_errno.c).
THEOREM ServersAreGivenUpRightly == Net!Spec => []GivenUpRightly
<1>1. NetInv => GivenUpRightly
  BY DEF NetInv
<1> QED
  BY <1>1, NetInit, NetStep, PTL DEF Net!Spec
----------------------------------------------------------------------------
(* C11Pool.                                                                *)

Slots == C11!AllSlots
Mutexes == C11!Mutexes
Handles == C11!Handles
Chunked(s) == s \div Chunk \in chunks

\* A handle names a slot in use, of its kind, in a chunk there is, and no two
\* name the same one; the slots of the chunks to come are as they were zeroed.
HandlesRight ==
  \A h \in Handles, s \in Slots : handle[h] = s + 1 =>
    Chunked(s) /\ used[s] /\ (type[s] = "recursive" <=> h \in Recursive)

OneSlotEach == \A h, k \in Handles : handle[h] # 0 /\ handle[h] = handle[k] => h = k

Untouched ==
  \A s \in Slots : ~Chunked(s) =>
    /\ ~used[s] /\ owner[s] = "nobody" /\ locked[s] = "nobody"

\* A call works on the slot of its mutex, which its thread does not hold.
InCall(t) ==
  /\ c11Pc[t].call = "" => c11Pc[t] = C11!Idle
  /\ c11Pc[t].call # "" =>
       /\ c11Pc[t].mtx \in Mutexes /\ handle[c11Pc[t].mtx] = c11Pc[t].slot + 1
       /\ holds[t][c11Pc[t].mtx] = 0
  /\ c11Pc[t].call = "own" => c11Pc[t].mtx \in Recursive

\* Who has the libnx mutex of a slot: who has locked the mutex, and who is about
\* to write down that it has, or to let go.
Has(t, m) == holds[t][m] > 0 \/ (c11Pc[t].mtx = m /\ c11Pc[t].call \in {"own", "unlock"})

HoldersHave ==
  \A t \in Threads, m \in Mutexes : Has(t, m) =>
    \E s \in Slots : handle[m] = s + 1 /\ locked[s] = t

\* Owner and depth, which are no part of the lock, say what it says.
OwnersHold ==
  \A t \in Threads, m \in Recursive, s \in Slots : handle[m] = s + 1 =>
    /\ holds[t][m] > 0 => owner[s] = t /\ depth[s] = holds[t][m]
    /\ owner[s] = t => holds[t][m] > 0

PlainOnce == \A t \in Threads, m \in PlainMutexes : holds[t][m] <= 1

WaitersWait ==
  \A s \in Slots, t \in Threads : t \in waiters[s] =>
    c11Pc[t].call \in {"wait", "timedwait"} /\ c11Pc[t].cnd = s + 1

PoolInv ==
  /\ C11!TypeOK /\ HandlesRight /\ OneSlotEach /\ Untouched
  /\ \A t \in Threads : InCall(t)
  /\ HoldersHave /\ OwnersHold /\ PlainOnce /\ WaitersWait

Place == [call : C11!Calls, mtx : Mutexes \cup {""}, slot : Slots, cnd : 0..Chunk * Chunks]

LEMMA PoolTypes ==
  ASSUME C11!TypeOK
  PROVE  /\ handle \in [Handles -> 0..Chunk * Chunks] /\ chunks \subseteq 0..Chunks - 1
         /\ next \in 0..Chunk * Chunks /\ high \in 0..Chunks - 1
         /\ used \in [Slots -> BOOLEAN] /\ type \in [Slots -> {"plain", "recursive"}]
         /\ depth \in [Slots -> Nat]
         /\ owner \in [Slots -> Threads \cup {"nobody"}]
         /\ locked \in [Slots -> Threads \cup {"nobody"}]
         /\ waiters \in [Slots -> SUBSET Threads]
         /\ c11Pc \in [Threads -> Place]
         /\ holds \in [Threads -> [Mutexes -> 0..MaxDepth]]
  BY DEF C11!TypeOK, Slots, Mutexes, Handles, Place, C11!Nobody

LEMMA TypesPool ==
  ASSUME handle' \in [Handles -> 0..Chunk * Chunks], chunks' \subseteq 0..Chunks - 1,
         next' \in 0..Chunk * Chunks, high' \in 0..Chunks - 1,
         used' \in [Slots -> BOOLEAN], type' \in [Slots -> {"plain", "recursive"}],
         depth' \in [Slots -> Nat],
         owner' \in [Slots -> Threads \cup {"nobody"}],
         locked' \in [Slots -> Threads \cup {"nobody"}],
         waiters' \in [Slots -> SUBSET Threads],
         c11Pc' \in [Threads -> Place],
         holds' \in [Threads -> [Mutexes -> 0..MaxDepth]]
  PROVE  C11!TypeOK'
  BY DEF C11!TypeOK, Slots, Mutexes, Handles, Place, C11!Nobody, C11!Mutexes, C11!Handles,
         C11!AllSlots, C11!Calls

LEMMA PoolNumbers == Chunk \in Nat \ {0} /\ Chunks \in Nat \ {0} /\ MaxDepth \in Nat \ {0}
  BY PoolAssumption, Zenon

LEMMA SlotsAreNumbers == Slots \subseteq Nat /\ 0 \in Slots /\ Mutexes \subseteq Handles
<1>1. Chunk * Chunks \in Nat \ {0}
  <2>1. (Chunk - 1) * Chunks \in Nat
    BY PoolNumbers
  <2>2. Chunk * Chunks = (Chunk - 1) * Chunks + Chunks
    BY PoolNumbers
  <2> QED
    BY <2>1, <2>2, PoolNumbers
<1> QED
  BY <1>1 DEF Slots, C11!AllSlots, Mutexes, Handles, C11!Handles

LEMMA SlotsCounted ==
  \A r, s \in Slots :
    s + 1 # 0 /\ (r + 1 = s + 1 => r = s) /\ \A d : d = s + 1 => d - 1 = s
  BY SlotsAreNumbers

LEMMA DepthsCounted ==
  /\ ~(0 > 0) /\ 1 > 0 /\ 0 <= 1
  /\ \A n \in 1..MaxDepth :
       /\ ~(n > 1) => n = 1
       /\ n <= 1 => n = 1 /\ n - 1 <= 1
       /\ n > 1 => n - 1 > 0 /\ n - 1 \in Nat
  BY PoolNumbers

LEMMA NoneIsANumber == 0 \in 0..Chunk * Chunks /\ 0 \in 0..Chunks - 1 /\ 0 \in 0..MaxDepth
<1>1. Chunk * Chunks \in Nat
  BY PoolNumbers
<1> QED
  BY <1>1, PoolNumbers

\* The first slot of a chunk.
LEMMA FirstOfChunk ==
  ASSUME NEW c \in 0..Chunks - 1
  PROVE  c * Chunk \in Slots /\ (c * Chunk) \div Chunk = c /\ c * Chunk + 1 \in 0..Chunk * Chunks
<1>1. Chunk \in Nat \ {0} /\ Chunks \in Nat \ {0} /\ c \in Nat /\ Chunks - 1 - c \in Nat
  BY PoolNumbers
<1>2. (Chunks - 1 - c) * Chunk \in Nat
  BY <1>1
<1>3. (Chunks - 1 - c) * Chunk = Chunk * Chunks - Chunk - c * Chunk
  BY <1>1
<1>4. c * Chunk \in Nat /\ Chunk * Chunks \in Nat
  BY <1>1
<1>5. (c * Chunk) \div Chunk = c
  BY <1>1
<1> QED
  BY <1>1, <1>2, <1>3, <1>4, <1>5 DEF Slots, C11!AllSlots

\* A slot counted around in the chunks there are.
LEMMA AroundIsASlot ==
  ASSUME NEW c \in 0..Chunks - 1, NEW n \in Nat
  PROVE  n % ((c + 1) * Chunk) \in Slots
<1>1. Chunk \in Nat \ {0} /\ Chunks \in Nat \ {0} /\ c \in Nat /\ Chunks - 1 - c \in Nat
  BY PoolNumbers
<1>2. (Chunks - 1 - c) * Chunk \in Nat /\ (c + 1) * Chunk \in Nat \ {0}
  BY <1>1
<1>3. (c + 1) * Chunk = Chunk * Chunks - (Chunks - 1 - c) * Chunk
  BY <1>1
<1>4. Chunk * Chunks \in Nat
  BY <1>1
<1> DEFINE live == (c + 1) * Chunk
<1>5. live \in Nat \ {0} /\ live <= Chunk * Chunks
  BY <1>2, <1>3, <1>4
<1> HIDE DEF live
<1>6. n % live \in 0..live - 1
  BY <1>5
<1> QED
  BY <1>4, <1>5, <1>6 DEF Slots, C11!AllSlots, live

LEMMA SlotFound ==
  ASSUME C11!TypeOK, NEW h \in Handles, NEW s \in C11!SlotOf(h)
  PROVE  s \in Slots /\ handle[h] = s + 1 /\ Chunked(s)
  BY DEF C11!SlotOf, Slots, Chunked

LEMMA SetCall ==
  ASSUME NEW p \in Place, NEW c \in C11!Calls
  PROVE  LET q == [p EXCEPT !.call = c]
         IN /\ q \in Place /\ q.call = c
            /\ q.mtx = p.mtx /\ q.slot = p.slot /\ q.cnd = p.cnd
  BY DEF Place

LEMMA IdlePlace == C11!Idle \in Place /\ C11!Idle.call = "" /\ C11!Idle.mtx \notin Mutexes
<1>1. "" \notin Mutexes
  BY PoolAssumption, Zenon DEF Mutexes, C11!Mutexes
<1>2. 0 \in 0..Chunk * Chunks /\ 0 \in Slots
  BY SlotsAreNumbers, PoolNumbers
<1> QED
  BY <1>1, <1>2 DEF C11!Idle, Place, C11!Calls

LEMMA SetHolds ==
  ASSUME C11!TypeOK, NEW t \in Threads, NEW m \in Mutexes, NEW n \in 0..MaxDepth,
         holds' = [holds EXCEPT ![t][m] = n]
  PROVE  /\ holds' \in [Threads -> [Mutexes -> 0..MaxDepth]]
         /\ holds'[t][m] = n
         /\ \A u \in Threads, k \in Mutexes : u # t \/ k # m => holds'[u][k] = holds[u][k]
  BY PoolTypes

LEMMA HoldsOnce ==
  ASSUME C11!TypeOK, NEW t \in Threads, NEW m \in Mutexes, holds' = [holds EXCEPT ![t][m] = 1]
  PROVE  /\ holds' \in [Threads -> [Mutexes -> 0..MaxDepth]]
         /\ holds'[t][m] = 1
         /\ \A u \in Threads, k \in Mutexes : u # t \/ k # m => holds'[u][k] = holds[u][k]
<1>1. 1 \in 0..MaxDepth
  BY PoolNumbers
<1> QED
  BY <1>1, PoolTypes

LEMMA HoldsNone ==
  ASSUME C11!TypeOK, NEW t \in Threads, NEW m \in Mutexes, holds' = [holds EXCEPT ![t][m] = 0]
  PROVE  /\ holds' \in [Threads -> [Mutexes -> 0..MaxDepth]]
         /\ holds'[t][m] = 0
         /\ \A u \in Threads, k \in Mutexes : u # t \/ k # m => holds'[u][k] = holds[u][k]
<1>1. 0 \in 0..MaxDepth
  BY PoolNumbers
<1> QED
  BY <1>1, PoolTypes

\* The pool is left alone, and a slot that is touched is of a chunk there is.
LEMMA PoolKept ==
  ASSUME HandlesRight, OneSlotEach, Untouched, UNCHANGED <<handle, chunks, used, type>>,
         \A s \in Slots : ~Chunked(s) => owner'[s] = owner[s] /\ locked'[s] = locked[s]
  PROVE  HandlesRight' /\ OneSlotEach' /\ Untouched'
<1>1. HandlesRight'
  BY DEF HandlesRight, Slots, Handles, Chunked
<1>2. OneSlotEach'
  BY DEF OneSlotEach, Handles
<1>3. Untouched'
  BY DEF Untouched, Slots, Chunked
<1> QED
  BY <1>1, <1>2, <1>3

LEMMA CallLockStep ==
  ASSUME PoolInv, NEW t \in Threads, NEW m \in Mutexes, NEW call \in {"lock", "try", "timed"},
         C11!CallLock(t, m, call)
  PROVE  PoolInv'
<1>1. /\ C11!TypeOK /\ HandlesRight /\ OneSlotEach /\ Untouched
      /\ \A u \in Threads : InCall(u)
      /\ HoldersHave /\ OwnersHold /\ PlainOnce /\ WaitersWait
  BY DEF PoolInv
<1>2. PICK s \in C11!SlotOf(m) :
        IF type[s] = "recursive" /\ owner[s] = t
        THEN /\ depth' = [depth EXCEPT ![s] = @ + 1]
             /\ holds' = [holds EXCEPT ![t][m] = @ + 1]
             /\ UNCHANGED c11Pc
        ELSE /\ c11Pc' = [c11Pc EXCEPT ![t] = C11!In(call, m, s)]
             /\ UNCHANGED <<depth, holds>>
  BY DEF C11!CallLock
<1>3. /\ c11Pc[t] = C11!Idle
      /\ holds[t][m] < (IF m \in Recursive THEN MaxDepth ELSE 1)
      /\ UNCHANGED <<handle, chunks, next, high, used, type, owner, locked, waiters>>
  BY DEF C11!CallLock, C11!MayLock, C11!poolVars
<1>4. m \in Handles /\ s \in Slots /\ handle[m] = s + 1 /\ Chunked(s) /\ s + 1 # 0
  <2>1. m \in Handles
    BY SlotsAreNumbers
  <2>2. s \in Slots /\ handle[m] = s + 1 /\ Chunked(s)
    BY <1>1, <2>1, SlotFound
  <2> QED
    BY <2>1, <2>2, SlotsAreNumbers
<1>5. HandlesRight' /\ OneSlotEach' /\ Untouched'
  BY <1>1, <1>3, PoolKept
<1>6. c11Pc[t].call = ""
  BY <1>3, IdlePlace
<1>7. CASE type[s] = "recursive" /\ owner[s] = t
  <2>1. m \in Recursive /\ m \notin PlainMutexes
    BY <1>1, <1>4, <1>7, PoolAssumption DEF HandlesRight
  <2>2. holds[t][m] > 0 /\ depth[s] = holds[t][m] /\ holds[t][m] \in Nat
    BY <1>1, <1>4, <1>7, <2>1, PoolTypes DEF OwnersHold
  <2>3. holds[t][m] + 1 \in 0..MaxDepth
    BY <1>3, <2>1, <2>2, PoolNumbers
  <2>4. /\ holds' \in [Threads -> [Mutexes -> 0..MaxDepth]]
        /\ holds'[t][m] = holds[t][m] + 1
        /\ \A u \in Threads, k \in Mutexes : u # t \/ k # m => holds'[u][k] = holds[u][k]
    BY <1>1, <1>2, <1>7, <2>3, SetHolds
  <2>5. /\ depth' \in [Slots -> Nat] /\ depth'[s] = depth[s] + 1 /\ c11Pc' = c11Pc
        /\ \A r \in Slots \ {s} : depth'[r] = depth[r]
    BY <1>1, <1>2, <1>4, <1>7, PoolTypes
  <2>6. C11!TypeOK'
    BY <1>1, <1>3, <2>4, <2>5, PoolTypes, TypesPool
  <2>7. \A u \in Threads : InCall(u)'
    BY <1>1, <1>3, <1>6, <2>4, <2>5 DEF InCall, Mutexes
  <2>8. HoldersHave'
    BY <1>1, <1>3, <2>2, <2>4, <2>5 DEF HoldersHave, Has, Mutexes, Slots
  <2>9. OwnersHold'
    <3> SUFFICES ASSUME NEW u \in Threads, NEW k \in Recursive, NEW r \in Slots, handle[k] = r + 1
                 PROVE  /\ holds'[u][k] > 0 => owner[r] = u /\ depth'[r] = holds'[u][k]
                        /\ owner[r] = u => holds'[u][k] > 0
      BY <1>3 DEF OwnersHold, Slots
    <3>1. k \in Mutexes /\ k \in Handles
      BY DEF Mutexes, C11!Mutexes, Handles, C11!Handles
    <3>2. CASE k = m
      <4>1. r = s
        BY <1>4, <3>2, SlotsAreNumbers
      <4> QED
        BY <1>1, <1>4, <1>7, <2>1, <2>2, <2>4, <2>5, <3>2, <4>1 DEF OwnersHold
    <3>3. CASE k # m
      <4>1. r # s
        BY <1>1, <1>4, <3>1, <3>3 DEF OneSlotEach
      <4> QED
        BY <1>1, <2>4, <2>5, <3>1, <3>3, <4>1 DEF OwnersHold
    <3> QED
      BY <3>2, <3>3
  <2>10. PlainOnce' /\ WaitersWait'
    BY <1>1, <1>3, <2>1, <2>4, <2>5 DEF PlainOnce, WaitersWait, Slots, Mutexes, C11!Mutexes
  <2> QED
    BY <1>5, <2>6, <2>7, <2>8, <2>9, <2>10 DEF PoolInv
<1>8. CASE ~(type[s] = "recursive" /\ owner[s] = t)
  <2> DEFINE q == C11!In(call, m, s)
  <2>1. q \in Place /\ q.call = call /\ q.mtx = m /\ q.slot = s /\ q.call \notin {"", "own", "unlock"}
    BY <1>4, IdlePlace DEF C11!In, Place, C11!Calls, C11!Idle
  <2>2. c11Pc' = [c11Pc EXCEPT ![t] = q] /\ UNCHANGED <<depth, holds>>
    BY <1>2, <1>8
  <2> HIDE DEF q
  <2>3. /\ c11Pc' \in [Threads -> Place] /\ c11Pc'[t] = q
        /\ \A u \in Threads \ {t} : c11Pc'[u] = c11Pc[u]
    BY <1>1, <2>1, <2>2, PoolTypes
  <2>4. holds[t][m] = 0
    <3>1. holds[t][m] \in Nat
      BY <1>1, PoolTypes
    <3>2. CASE m \in Recursive
      BY <1>1, <1>4, <1>8, <3>1, <3>2 DEF OwnersHold, HandlesRight
    <3>3. CASE m \notin Recursive
      BY <1>3, <3>1, <3>3
    <3> QED
      BY <3>2, <3>3
  <2>5. C11!TypeOK'
    BY <1>1, <1>3, <2>2, <2>3, PoolTypes, TypesPool
  <2>6. \A u \in Threads : InCall(u)'
    BY <1>1, <1>3, <1>4, <2>1, <2>2, <2>3, <2>4 DEF InCall, Mutexes
  <2>7. HoldersHave'
    <3>1. \A u \in Threads, k \in Mutexes : Has(u, k)' => Has(u, k)
      BY <2>1, <2>2, <2>3 DEF Has
    <3> QED
      BY <1>1, <1>3, <3>1 DEF HoldersHave, Mutexes, Slots
  <2>8. OwnersHold' /\ PlainOnce'
    BY <1>1, <1>3, <2>2 DEF OwnersHold, PlainOnce, Slots
  <2>9. WaitersWait'
    BY <1>1, <1>3, <1>6, <2>2, <2>3 DEF WaitersWait, Slots
  <2> QED
    BY <1>5, <2>5, <2>6, <2>7, <2>8, <2>9 DEF PoolInv
<1> QED
  BY <1>7, <1>8

\* What a call works on.
WorksOn(t, m, s) ==
  /\ m \in Mutexes /\ m \in Handles /\ s \in Slots
  /\ handle[m] = s + 1 /\ s + 1 # 0 /\ Chunked(s) /\ holds[t][m] = 0
  /\ type[s] = "recursive" <=> m \in Recursive
  /\ \A k \in Mutexes, r \in Slots : handle[k] = r + 1 => ((k = m) <=> (r = s))

LEMMA Called ==
  ASSUME PoolInv, NEW t \in Threads, c11Pc[t].call # "",
         NEW m, NEW s, m = c11Pc[t].mtx, s = c11Pc[t].slot
  PROVE  WorksOn(t, m, s)
<1>1. C11!TypeOK /\ HandlesRight /\ OneSlotEach /\ InCall(t)
  BY DEF PoolInv
<1>2. c11Pc[t] \in Place
  BY <1>1, PoolTypes
<1>3. m \in Mutexes /\ handle[m] = s + 1 /\ holds[t][m] = 0
  BY <1>1 DEF InCall
<1>4. s \in Slots
  BY <1>2 DEF Place
<1>5. m \in Handles /\ s + 1 # 0
  <2>1. m \in Handles
    BY <1>3, SlotsAreNumbers
  <2>2. s + 1 # 0
    BY <1>4, SlotsCounted, Zenon
  <2> QED
    BY <2>1, <2>2
<1>6. Chunked(s) /\ (type[s] = "recursive" <=> m \in Recursive)
  BY <1>1, <1>3, <1>4, <1>5 DEF HandlesRight
<1>7. ASSUME NEW k \in Mutexes, NEW r \in Slots, handle[k] = r + 1
      PROVE  (k = m) <=> (r = s)
  <2>1. k \in Handles
    BY SlotsAreNumbers
  <2>2. k = m => r = s
    <3>1. k = m => r + 1 = s + 1
      BY <1>3, <1>7
    <3> QED
      BY <1>4, <3>1, SlotsCounted, Zenon
  <2>3. r = s => k = m
    BY <1>1, <1>3, <1>5, <1>7, <2>1 DEF OneSlotEach
  <2> QED
    BY <2>2, <2>3
<1> QED
  BY <1>3, <1>4, <1>5, <1>6, <1>7 DEF WorksOn

LEMMA Idled ==
  ASSUME C11!TypeOK, NEW t \in Threads, c11Pc' = [c11Pc EXCEPT ![t] = C11!Idle]
  PROVE  /\ c11Pc' \in [Threads -> Place] /\ c11Pc'[t] = C11!Idle
         /\ c11Pc'[t].call = "" /\ c11Pc'[t].mtx \notin Mutexes
         /\ \A u \in Threads \ {t} : c11Pc'[u] = c11Pc[u]
<1> DEFINE idle == C11!Idle
<1>1. idle \in Place /\ idle.call = "" /\ idle.mtx \notin Mutexes
  BY IdlePlace
<1> HIDE DEF idle
<1> QED
  BY <1>1, PoolTypes DEF idle

LEMMA Moves ==
  ASSUME C11!TypeOK, NEW t \in Threads, NEW c \in C11!Calls,
         c11Pc' = [c11Pc EXCEPT ![t].call = c]
  PROVE  /\ c11Pc' \in [Threads -> Place] /\ c11Pc'[t].call = c
         /\ c11Pc'[t].mtx = c11Pc[t].mtx /\ c11Pc'[t].slot = c11Pc[t].slot
         /\ c11Pc'[t].cnd = c11Pc[t].cnd
         /\ \A u \in Threads \ {t} : c11Pc'[u] = c11Pc[u]
<1> DEFINE q == [c11Pc[t] EXCEPT !.call = c]
<1>1. c11Pc \in [Threads -> Place]
  BY PoolTypes
<1>2. /\ q \in Place /\ q.call = c
      /\ q.mtx = c11Pc[t].mtx /\ q.slot = c11Pc[t].slot /\ q.cnd = c11Pc[t].cnd
  BY <1>1, SetCall
<1>3. c11Pc' = [c11Pc EXCEPT ![t] = q]
  OBVIOUS
<1> HIDE DEF q
<1> QED
  BY <1>1, <1>2, <1>3

LEMMA AcquireStep == ASSUME PoolInv, NEW t \in Threads, C11!Acquire(t) PROVE PoolInv'
<1>0. PICK m, s : m = c11Pc[t].mtx /\ s = c11Pc[t].slot
  OBVIOUS
<1>1. /\ C11!TypeOK /\ HandlesRight /\ OneSlotEach /\ Untouched
      /\ \A u \in Threads : InCall(u)
      /\ HoldersHave /\ OwnersHold /\ PlainOnce /\ WaitersWait
  BY DEF PoolInv
<1>2. /\ c11Pc[t].call \in {"lock", "try", "timed"} /\ locked[s] = "nobody"
      /\ locked' = [locked EXCEPT ![s] = t]
      /\ UNCHANGED <<handle, chunks, next, high, used, type, owner, depth, waiters>>
  BY <1>0 DEF C11!Acquire, C11!poolVars, C11!Nobody
<1>3. IF type[s] = "recursive"
      THEN c11Pc' = [c11Pc EXCEPT ![t].call = "own"] /\ UNCHANGED holds
      ELSE c11Pc' = [c11Pc EXCEPT ![t] = C11!Idle] /\ holds' = [holds EXCEPT ![t][m] = 1]
  BY <1>0 DEF C11!Acquire
<1>4. /\ m \in Mutexes /\ m \in Handles /\ s \in Slots
      /\ handle[m] = s + 1 /\ s + 1 # 0 /\ Chunked(s) /\ holds[t][m] = 0
      /\ type[s] = "recursive" <=> m \in Recursive
      /\ \A k \in Mutexes, r \in Slots : handle[k] = r + 1 => ((k = m) <=> (r = s))
  <2>1. c11Pc[t].call # ""
    BY <1>2
  <2>2. WorksOn(t, m, s)
    BY <1>0, <2>1, Called
  <2> QED
    BY <2>2 DEF WorksOn
<1>5. /\ locked' \in [Slots -> Threads \cup {"nobody"}] /\ locked'[s] = t
      /\ \A r \in Slots \ {s} : locked'[r] = locked[r]
  BY <1>1, <1>2, <1>4, PoolTypes
<1>6. HandlesRight' /\ OneSlotEach' /\ Untouched'
  BY <1>1, <1>2, <1>4, <1>5, PoolKept
<1>7. \A u \in Threads, k \in Mutexes : Has(u, k) =>
        \E r \in Slots : handle'[k] = r + 1 /\ locked'[r] = u
  <2>1. \A u \in Threads : u # "nobody"
    BY PoolAssumption
  <2> QED
    BY <1>1, <1>2, <1>4, <1>5, <2>1 DEF HoldersHave
<1>8. CASE type[s] = "recursive"
  <2>1. c11Pc' = [c11Pc EXCEPT ![t].call = "own"] /\ holds' = holds /\ m \in Recursive
    BY <1>3, <1>4, <1>8
  <2>2. /\ c11Pc' \in [Threads -> Place] /\ c11Pc'[t].call = "own"
        /\ c11Pc'[t].mtx = m /\ c11Pc'[t].slot = s
        /\ \A u \in Threads \ {t} : c11Pc'[u] = c11Pc[u]
    <3>1. "own" \in C11!Calls
      BY DEF C11!Calls
    <3> QED
      BY <1>0, <1>1, <2>1, <3>1, Moves
  <2>3. C11!TypeOK'
    BY <1>1, <1>2, <1>5, <2>1, <2>2, PoolTypes, TypesPool
  <2>4. \A u \in Threads : InCall(u)'
    BY <1>1, <1>2, <1>4, <2>1, <2>2 DEF InCall, Mutexes
  <2>5. HoldersHave'
    <3>1. \A u \in Threads, k \in Mutexes : Has(u, k)' => Has(u, k) \/ (u = t /\ k = m)
      BY <2>1, <2>2 DEF Has
    <3> QED
      BY <1>2, <1>4, <1>5, <1>7, <3>1 DEF HoldersHave, Mutexes, Slots
  <2>6. OwnersHold' /\ PlainOnce'
    BY <1>1, <1>2, <2>1 DEF OwnersHold, PlainOnce, Slots
  <2>7. WaitersWait'
    BY <1>1, <1>2, <2>2 DEF WaitersWait, Slots
  <2> QED
    BY <1>6, <2>3, <2>4, <2>5, <2>6, <2>7 DEF PoolInv
<1>9. CASE type[s] # "recursive"
  <2>1. /\ c11Pc' = [c11Pc EXCEPT ![t] = C11!Idle] /\ holds' = [holds EXCEPT ![t][m] = 1]
        /\ m \notin Recursive
    BY <1>3, <1>4, <1>9
  <2>2. /\ c11Pc' \in [Threads -> Place] /\ c11Pc'[t] = C11!Idle
        /\ c11Pc'[t].call = "" /\ c11Pc'[t].mtx \notin Mutexes
        /\ \A u \in Threads \ {t} : c11Pc'[u] = c11Pc[u]
    BY <1>1, <2>1, Idled
  <2>3. /\ holds' \in [Threads -> [Mutexes -> 0..MaxDepth]] /\ holds'[t][m] = 1
        /\ \A u \in Threads, k \in Mutexes : u # t \/ k # m => holds'[u][k] = holds[u][k]
    <3>1. C11!TypeOK /\ m \in Mutexes /\ holds' = [holds EXCEPT ![t][m] = 1]
      BY <1>1, <1>4, <2>1
    <3> QED
      BY <3>1, HoldsOnce, ZenonT(40)
  <2>4. C11!TypeOK'
    BY <1>1, <1>2, <1>5, <2>2, <2>3, PoolTypes, TypesPool
  <2>5. ASSUME NEW u \in Threads PROVE InCall(u)'
    <3>1. CASE u = t
      BY <2>2, <3>1 DEF InCall
    <3>2. CASE u # t
      BY <1>1, <1>2, <2>2, <2>3, <3>2, ZenonT(40) DEF InCall, Mutexes
    <3> QED
      BY <3>1, <3>2
  <2>6. HoldersHave'
    <3>1. \A u \in Threads, k \in Mutexes : Has(u, k)' => Has(u, k) \/ (u = t /\ k = m)
      BY <2>2, <2>3 DEF Has
    <3> QED
      BY <1>2, <1>4, <1>5, <1>7, <3>1 DEF HoldersHave, Mutexes, Slots
  <2>7. OwnersHold'
    <3>1. \A k \in Recursive : k \in Mutexes /\ k # m
      BY <2>1 DEF Mutexes, C11!Mutexes
    <3> QED
      BY <1>1, <1>2, <2>3, <3>1 DEF OwnersHold, Slots
  <2>8. PlainOnce'
    <3>1. \A k \in PlainMutexes : k \in Mutexes
      BY DEF Mutexes, C11!Mutexes
    <3> QED
      BY <1>1, <2>3, <3>1 DEF PlainOnce
  <2>9. WaitersWait'
    BY <1>1, <1>2, <2>2 DEF WaitersWait, Slots
  <2> QED
    BY <1>6, <2>4, <2>5, <2>6, <2>7, <2>8, <2>9 DEF PoolInv
<1> QED
  BY <1>8, <1>9

LEMMA OwnStep == ASSUME PoolInv, NEW t \in Threads, C11!Own(t) PROVE PoolInv'
<1>0. PICK m, s : m = c11Pc[t].mtx /\ s = c11Pc[t].slot
  OBVIOUS
<1>1. /\ C11!TypeOK /\ HandlesRight /\ OneSlotEach /\ Untouched
      /\ \A u \in Threads : InCall(u)
      /\ HoldersHave /\ OwnersHold /\ PlainOnce /\ WaitersWait
  BY DEF PoolInv
<1>2. /\ c11Pc[t].call = "own"
      /\ owner' = [owner EXCEPT ![s] = t] /\ depth' = [depth EXCEPT ![s] = 1]
      /\ holds' = [holds EXCEPT ![t][m] = 1]
      /\ c11Pc' = [c11Pc EXCEPT ![t] = C11!Idle]
      /\ UNCHANGED <<handle, chunks, next, high, used, type, locked, waiters>>
  BY <1>0 DEF C11!Own, C11!poolVars
<1>3. /\ m \in Mutexes /\ m \in Handles /\ s \in Slots
      /\ handle[m] = s + 1 /\ s + 1 # 0 /\ Chunked(s) /\ holds[t][m] = 0
      /\ \A k \in Mutexes, r \in Slots : handle[k] = r + 1 => ((k = m) <=> (r = s))
  <2>1. c11Pc[t].call # ""
    BY <1>2
  <2>2. WorksOn(t, m, s)
    BY <1>0, <2>1, Called
  <2> QED
    BY <2>2 DEF WorksOn
<1>4. m \in Recursive /\ Has(t, m)
  BY <1>0, <1>1, <1>2 DEF InCall, Has
<1>5. \A u \in Threads : Has(u, m) => u = t
  BY <1>1, <1>3, <1>4 DEF HoldersHave
<1>6. /\ c11Pc' \in [Threads -> Place] /\ c11Pc'[t] = C11!Idle
      /\ c11Pc'[t].call = "" /\ c11Pc'[t].mtx \notin Mutexes
      /\ \A u \in Threads \ {t} : c11Pc'[u] = c11Pc[u]
  BY <1>1, <1>2, Idled
<1>7. /\ holds' \in [Threads -> [Mutexes -> 0..MaxDepth]] /\ holds'[t][m] = 1
      /\ \A u \in Threads, k \in Mutexes : u # t \/ k # m => holds'[u][k] = holds[u][k]
  <2>1. C11!TypeOK /\ m \in Mutexes /\ holds' = [holds EXCEPT ![t][m] = 1]
    BY <1>1, <1>2, <1>3
  <2> QED
    BY <2>1, HoldsOnce, ZenonT(40)
<1>8. /\ owner' \in [Slots -> Threads \cup {"nobody"}] /\ depth' \in [Slots -> Nat]
      /\ owner'[s] = t /\ depth'[s] = 1
      /\ \A r \in Slots \ {s} : owner'[r] = owner[r] /\ depth'[r] = depth[r]
  BY <1>1, <1>2, <1>3, PoolTypes
<1>9. HandlesRight' /\ OneSlotEach' /\ Untouched'
  BY <1>1, <1>2, <1>3, <1>8, PoolKept
<1>10. C11!TypeOK'
  BY <1>1, <1>2, <1>6, <1>7, <1>8, PoolTypes, TypesPool
<1>11. \A u \in Threads : InCall(u)'
  BY <1>1, <1>2, <1>6, <1>7 DEF InCall, Mutexes
<1>12. HoldersHave'
  <2>1. \A u \in Threads, k \in Mutexes : Has(u, k)' => Has(u, k)
    BY <1>4, <1>6, <1>7 DEF Has
  <2> QED
    BY <1>1, <1>2, <2>1 DEF HoldersHave, Mutexes, Slots
<1>13. OwnersHold'
  <2> SUFFICES ASSUME NEW u \in Threads, NEW k \in Recursive, NEW r \in Slots, handle[k] = r + 1
               PROVE  /\ holds'[u][k] > 0 => owner'[r] = u /\ depth'[r] = holds'[u][k]
                      /\ owner'[r] = u => holds'[u][k] > 0
    BY <1>2 DEF OwnersHold, Slots
  <2>1. k \in Mutexes
    BY DEF Mutexes, C11!Mutexes
  <2>2. CASE k = m /\ u = t
    BY <1>3, <1>7, <1>8, <2>1, <2>2
  <2>3. CASE k = m /\ u # t
    <3>1. r = s /\ ~(holds[u][m] > 0)
      BY <1>3, <1>5, <2>1, <2>3 DEF Has
    <3> QED
      BY <1>7, <1>8, <2>1, <2>3, <3>1
  <2>4. CASE k # m
    BY <1>1, <1>3, <1>7, <1>8, <2>1, <2>4 DEF OwnersHold
  <2> QED
    BY <2>2, <2>3, <2>4
<1>14. PlainOnce'
  <2>1. \A k \in PlainMutexes : k \in Mutexes
    BY DEF Mutexes, C11!Mutexes
  <2>2. 1 <= 1
    OBVIOUS
  <2> QED
    BY <1>1, <1>7, <2>1, <2>2 DEF PlainOnce
<1>15. WaitersWait'
  BY <1>1, <1>2, <1>6 DEF WaitersWait, Slots
<1> QED
  BY <1>9, <1>10, <1>11, <1>12, <1>13, <1>14, <1>15 DEF PoolInv

LEMMA GiveUpStep == ASSUME PoolInv, NEW t \in Threads, C11!GiveUp(t) PROVE PoolInv'
<1>1. /\ C11!TypeOK /\ HandlesRight /\ OneSlotEach /\ Untouched
      /\ \A u \in Threads : InCall(u)
      /\ HoldersHave /\ OwnersHold /\ PlainOnce /\ WaitersWait
  BY DEF PoolInv
<1>2. /\ c11Pc[t].call \in {"try", "timed"} /\ c11Pc' = [c11Pc EXCEPT ![t] = C11!Idle]
      /\ UNCHANGED <<handle, chunks, next, high, used, type, owner, depth, locked, waiters, holds>>
  BY DEF C11!GiveUp, C11!poolVars, C11!mutexVars
<1>3. /\ c11Pc' \in [Threads -> Place] /\ c11Pc'[t] = C11!Idle
      /\ c11Pc'[t].call = "" /\ c11Pc'[t].mtx \notin Mutexes
      /\ \A u \in Threads \ {t} : c11Pc'[u] = c11Pc[u]
  BY <1>1, <1>2, Idled
<1>4. HandlesRight' /\ OneSlotEach' /\ Untouched'
  BY <1>1, <1>2, PoolKept
<1>5. C11!TypeOK'
  BY <1>1, <1>2, <1>3, PoolTypes, TypesPool
<1>6. \A u \in Threads : InCall(u)'
  BY <1>1, <1>2, <1>3 DEF InCall, Mutexes
<1>7. HoldersHave'
  <2>1. \A u \in Threads, k \in Mutexes : Has(u, k)' => Has(u, k)
    BY <1>2, <1>3 DEF Has
  <2> QED
    BY <1>1, <1>2, <2>1 DEF HoldersHave, Mutexes, Slots
<1>8. OwnersHold' /\ PlainOnce'
  BY <1>1, <1>2 DEF OwnersHold, PlainOnce, Slots
<1>9. WaitersWait'
  BY <1>1, <1>2, <1>3 DEF WaitersWait, Slots
<1> QED
  BY <1>4, <1>5, <1>6, <1>7, <1>8, <1>9 DEF PoolInv

LEMMA DisownStep ==
  ASSUME PoolInv, NEW t \in Threads, NEW m \in Mutexes, C11!Disown(t, m)
  PROVE  PoolInv'
<1>1. /\ C11!TypeOK /\ HandlesRight /\ OneSlotEach /\ Untouched
      /\ \A u \in Threads : InCall(u)
      /\ HoldersHave /\ OwnersHold /\ PlainOnce /\ WaitersWait
  BY DEF PoolInv
<1>2. PICK s \in C11!SlotOf(m) :
        IF type[s] = "recursive" /\ depth[s] > 1
        THEN /\ depth' = [depth EXCEPT ![s] = @ - 1]
             /\ UNCHANGED <<owner, c11Pc>>
        ELSE /\ depth' = [depth EXCEPT ![s] = 0]
             /\ owner' = [owner EXCEPT ![s] = "nobody"]
             /\ c11Pc' = [c11Pc EXCEPT ![t] = C11!In("unlock", m, s)]
  BY DEF C11!Disown, C11!Nobody
<1>3. /\ c11Pc[t] = C11!Idle /\ holds[t][m] > 0
      /\ holds' = [holds EXCEPT ![t][m] = @ - 1]
      /\ UNCHANGED <<handle, chunks, next, high, used, type, locked, waiters>>
  BY DEF C11!Disown, C11!poolVars
<1>4. m \in Handles /\ s \in Slots /\ handle[m] = s + 1 /\ Chunked(s) /\ s + 1 # 0
  <2>1. m \in Handles
    BY SlotsAreNumbers
  <2>2. s \in Slots /\ handle[m] = s + 1 /\ Chunked(s)
    BY <1>1, <2>1, SlotFound
  <2> QED
    BY <2>1, <2>2, SlotsCounted
<1>5. \A k \in Mutexes, r \in Slots : handle[k] = r + 1 => ((k = m) <=> (r = s))
  <2> SUFFICES ASSUME NEW k \in Mutexes, NEW r \in Slots, handle[k] = r + 1
               PROVE  (k = m) <=> (r = s)
    OBVIOUS
  <2>1. k = m => r = s
    BY <1>4, SlotsCounted
  <2>2. k \in Handles
    BY SlotsAreNumbers
  <2>3. r = s => k = m
    BY <1>1, <1>4, <2>2 DEF OneSlotEach
  <2> QED
    BY <2>1, <2>3
<1>6. /\ c11Pc[t].call = "" /\ holds[t][m] \in 1..MaxDepth /\ holds[t][m] - 1 \in 0..MaxDepth
      /\ depth[s] \in Nat
  <2>1. holds[t][m] \in 0..MaxDepth /\ depth[s] \in Nat
    BY <1>1, <1>4, PoolTypes
  <2>2. holds[t][m] \in 1..MaxDepth /\ holds[t][m] - 1 \in 0..MaxDepth
    BY <1>3, <2>1, PoolNumbers
  <2> QED
    BY <1>3, <2>1, <2>2, IdlePlace
<1>7. /\ holds' \in [Threads -> [Mutexes -> 0..MaxDepth]]
      /\ holds'[t][m] = holds[t][m] - 1
      /\ \A u \in Threads, k \in Mutexes : u # t \/ k # m => holds'[u][k] = holds[u][k]
  BY <1>1, <1>3, <1>6, SetHolds, ZenonT(40)
<1>8. locked[s] = t
  <2>1. Has(t, m)
    BY <1>3 DEF Has
  <2> QED
    BY <1>1, <1>5, <2>1 DEF HoldersHave
<1>9. /\ m \in Recursive => depth[s] = holds[t][m] /\ m \notin PlainMutexes
      /\ m \notin Recursive => holds[t][m] = 1
      /\ type[s] = "recursive" <=> m \in Recursive
  <2>1. type[s] = "recursive" <=> m \in Recursive
    BY <1>1, <1>4 DEF HandlesRight
  <2>2. m \in Recursive => depth[s] = holds[t][m] /\ m \notin PlainMutexes
    <3>1. m \in Recursive => depth[s] = holds[t][m]
      BY <1>1, <1>3, <1>4 DEF OwnersHold
    <3>2. m \in Recursive => m \notin PlainMutexes
      BY PoolAssumption
    <3> QED
      BY <3>1, <3>2
  <2>3. ASSUME m \notin Recursive PROVE holds[t][m] = 1
    <3>1. m \in PlainMutexes
      BY <2>3 DEF Mutexes, C11!Mutexes
    <3>2. holds[t][m] <= 1
      BY <1>1, <3>1 DEF PlainOnce
    <3> QED
      BY <1>6, <3>2, DepthsCounted, Zenon
  <2> QED
    BY <2>1, <2>2, <2>3
<1>10. PlainOnce'
  <2>1. \A k \in PlainMutexes : k \in Mutexes
    BY DEF Mutexes, C11!Mutexes
  <2>2. ASSUME NEW u \in Threads, NEW k \in PlainMutexes PROVE holds'[u][k] <= 1
    <3>1. CASE u = t /\ k = m
      <4>1. holds[t][m] <= 1
        BY <1>1, <3>1 DEF PlainOnce
      <4>2. holds[t][m] - 1 <= 1
        BY <1>6, <4>1, DepthsCounted, Zenon
      <4> QED
        BY <1>7, <3>1, <4>2
    <3>2. CASE ~(u = t /\ k = m)
      BY <1>1, <1>7, <2>1, <3>2 DEF PlainOnce
    <3> QED
      BY <3>1, <3>2
  <2> QED
    BY <2>2 DEF PlainOnce
<1>11. CASE type[s] = "recursive" /\ depth[s] > 1
  <2>1. /\ depth' \in [Slots -> Nat] /\ depth'[s] = depth[s] - 1
        /\ \A r \in Slots \ {s} : depth'[r] = depth[r]
    <3>1. depth[s] - 1 \in Nat
      BY <1>6, <1>9, <1>11, DepthsCounted, Zenon
    <3> QED
      BY <1>1, <1>2, <1>4, <1>11, <3>1, PoolTypes
  <2>2. UNCHANGED <<owner, c11Pc>>
    BY <1>2, <1>11
  <2>3. HandlesRight' /\ OneSlotEach' /\ Untouched'
    BY <1>1, <1>3, <2>2, PoolKept
  <2>4. C11!TypeOK'
    BY <1>1, <1>3, <1>7, <2>1, <2>2, PoolTypes, TypesPool
  <2>5. ASSUME NEW u \in Threads PROVE InCall(u)'
    <3>1. CASE u = t
      <4>1. c11Pc'[t].call = "" /\ c11Pc'[t] = C11!Idle
        BY <1>3, <1>6, <2>2
      <4> QED
        BY <3>1, <4>1 DEF InCall
    <3>2. CASE u # t
      BY <1>1, <1>3, <1>7, <2>2, <3>2 DEF InCall, Mutexes
    <3> QED
      BY <3>1, <3>2
  <2>6. HoldersHave'
    <3>1. ASSUME NEW u \in Threads, NEW k \in Mutexes, Has(u, k)' PROVE Has(u, k)
      <4>1. CASE u = t /\ k = m
        BY <1>3, <4>1 DEF Has
      <4>2. CASE ~(u = t /\ k = m)
        BY <1>7, <2>2, <3>1, <4>2 DEF Has
      <4> QED
        BY <4>1, <4>2
    <3> QED
      BY <1>1, <1>3, <3>1 DEF HoldersHave, Mutexes, Slots
  <2>7. OwnersHold'
    <3> SUFFICES ASSUME NEW u \in Threads, NEW k \in Recursive, NEW r \in Slots, handle[k] = r + 1
                 PROVE  /\ holds'[u][k] > 0 => owner[r] = u /\ depth'[r] = holds'[u][k]
                        /\ owner[r] = u => holds'[u][k] > 0
      BY <1>3, <2>2 DEF OwnersHold, Slots
    <3>1. k \in Mutexes
      BY DEF Mutexes, C11!Mutexes
    <3>2. CASE k = m /\ u = t
      <4>1. r = s
        BY <1>5, <3>1, <3>2
      <4>2. owner[s] = t
        BY <1>1, <1>3, <3>2, <4>1 DEF OwnersHold
      <4>3. holds'[t][m] > 0 /\ depth'[s] = holds'[t][m]
        <5>1. holds[t][m] - 1 > 0 /\ depth[s] = holds[t][m]
          BY <1>6, <1>9, <1>11, DepthsCounted, Zenon
        <5> QED
          BY <1>7, <2>1, <5>1, Zenon
      <4> QED
        BY <3>2, <4>1, <4>2, <4>3
    <3>3. CASE k = m /\ u # t
      <4>1. r = s
        BY <1>5, <3>1, <3>3
      <4>2. ~(holds[u][k] > 0)
        BY <1>1, <1>3, <1>4, <3>3, <4>1 DEF OwnersHold
      <4>3. holds'[u][k] = holds[u][k]
        BY <1>7, <3>1, <3>3
      <4> QED
        BY <1>1, <4>2, <4>3 DEF OwnersHold
    <3>4. CASE k # m
      <4>1. r # s
        BY <1>5, <3>1, <3>4
      <4>2. holds'[u][k] = holds[u][k] /\ depth'[r] = depth[r]
        BY <1>7, <2>1, <3>1, <3>4, <4>1
      <4> QED
        BY <1>1, <4>2 DEF OwnersHold
    <3> QED
      BY <3>2, <3>3, <3>4
  <2>8. WaitersWait'
    BY <1>1, <1>3, <2>2 DEF WaitersWait, Slots
  <2> QED
    BY <1>10, <2>3, <2>4, <2>5, <2>6, <2>7, <2>8 DEF PoolInv
<1>12. CASE ~(type[s] = "recursive" /\ depth[s] > 1)
  <2>1. holds'[t][m] = 0
    <3>1. holds[t][m] = 1
      <4>1. CASE m \in Recursive
        <5>1. ~(holds[t][m] > 1)
          BY <1>9, <1>12, <4>1
        <5> QED
          BY <1>6, <5>1, DepthsCounted, Zenon
      <4>2. CASE m \notin Recursive
        BY <1>9, <4>2
      <4> QED
        BY <4>1, <4>2
    <3> QED
      BY <1>7, <3>1
  <2> DEFINE q == C11!In("unlock", m, s)
  <2>2. q \in Place /\ q.call = "unlock" /\ q.mtx = m /\ q.slot = s
    BY <1>4, IdlePlace DEF C11!In, Place, C11!Calls, C11!Idle
  <2>3. /\ c11Pc' = [c11Pc EXCEPT ![t] = q]
        /\ depth' = [depth EXCEPT ![s] = 0] /\ owner' = [owner EXCEPT ![s] = "nobody"]
    BY <1>2, <1>12
  <2> HIDE DEF q
  <2>4. /\ c11Pc' \in [Threads -> Place] /\ c11Pc'[t] = q
        /\ \A u \in Threads \ {t} : c11Pc'[u] = c11Pc[u]
    BY <1>1, <2>2, <2>3, PoolTypes
  <2>5. /\ depth' \in [Slots -> Nat] /\ owner' \in [Slots -> Threads \cup {"nobody"}]
        /\ owner'[s] = "nobody"
        /\ \A r \in Slots \ {s} : depth'[r] = depth[r] /\ owner'[r] = owner[r]
    BY <1>1, <1>4, <2>3, PoolTypes
  <2>6. HandlesRight' /\ OneSlotEach' /\ Untouched'
    BY <1>1, <1>3, <1>4, <2>5, PoolKept
  <2>7. C11!TypeOK'
    BY <1>1, <1>3, <1>7, <2>4, <2>5, PoolTypes, TypesPool
  <2>8. ASSUME NEW u \in Threads PROVE InCall(u)'
    <3>1. CASE u = t
      BY <1>3, <1>4, <2>1, <2>2, <2>4, <3>1 DEF InCall, Mutexes
    <3>2. CASE u # t
      BY <1>1, <1>3, <1>7, <2>4, <3>2, ZenonT(40) DEF InCall, Mutexes
    <3> QED
      BY <3>1, <3>2
  <2>9. HoldersHave'
    <3>1. ASSUME NEW u \in Threads, NEW k \in Mutexes, Has(u, k)' PROVE Has(u, k)
      <4>1. CASE u = t /\ k = m
        BY <1>3, <4>1 DEF Has
      <4>2. CASE u = t /\ k # m
        BY <1>7, <2>2, <2>4, <3>1, <4>2 DEF Has
      <4>3. CASE u # t
        BY <1>7, <2>4, <3>1, <4>3 DEF Has
      <4> QED
        BY <4>1, <4>2, <4>3
    <3> QED
      BY <1>1, <1>3, <3>1 DEF HoldersHave, Mutexes, Slots
  <2>10. OwnersHold'
    <3> SUFFICES ASSUME NEW u \in Threads, NEW k \in Recursive, NEW r \in Slots, handle[k] = r + 1
                 PROVE  /\ holds'[u][k] > 0 => owner'[r] = u /\ depth'[r] = holds'[u][k]
                        /\ owner'[r] = u => holds'[u][k] > 0
      BY <1>3 DEF OwnersHold, Slots
    <3>1. k \in Mutexes
      BY DEF Mutexes, C11!Mutexes
    <3>2. CASE k = m
      <4>1. r = s
        BY <1>5, <3>1, <3>2
      <4>2. owner'[r] # u
        BY <2>5, <4>1, PoolAssumption
      <4>3. ~(holds'[u][k] > 0)
        <5>1. CASE u = t
          BY <2>1, <3>2, <5>1
        <5>2. CASE u # t
          <6>1. ~Has(u, m)
            BY <1>1, <1>5, <1>8, <5>2 DEF HoldersHave
          <6> QED
            BY <1>7, <3>2, <5>2, <6>1 DEF Has
        <5> QED
          BY <5>1, <5>2
      <4> QED
        BY <4>2, <4>3
    <3>3. CASE k # m
      <4>1. r # s
        BY <1>5, <3>1, <3>3
      <4>2. holds'[u][k] = holds[u][k] /\ depth'[r] = depth[r] /\ owner'[r] = owner[r]
        BY <1>7, <2>5, <3>1, <3>3, <4>1
      <4> QED
        BY <1>1, <4>2 DEF OwnersHold
    <3> QED
      BY <3>2, <3>3
  <2>11. WaitersWait'
    BY <1>1, <1>3, <1>6, <2>4 DEF WaitersWait, Slots
  <2> QED
    BY <1>10, <2>6, <2>7, <2>8, <2>9, <2>10, <2>11 DEF PoolInv
<1> QED
  BY <1>11, <1>12

LEMMA ReleaseStep == ASSUME PoolInv, NEW t \in Threads, C11!Release(t) PROVE PoolInv'
<1>0. PICK m, s : m = c11Pc[t].mtx /\ s = c11Pc[t].slot
  OBVIOUS
<1>1. /\ C11!TypeOK /\ HandlesRight /\ OneSlotEach /\ Untouched
      /\ \A u \in Threads : InCall(u)
      /\ HoldersHave /\ OwnersHold /\ PlainOnce /\ WaitersWait
  BY DEF PoolInv
<1>2. /\ c11Pc[t].call = "unlock" /\ locked' = [locked EXCEPT ![s] = "nobody"]
      /\ c11Pc' = [c11Pc EXCEPT ![t] = C11!Idle]
      /\ UNCHANGED <<handle, chunks, next, high, used, type, owner, depth, waiters, holds>>
  BY <1>0 DEF C11!Release, C11!poolVars, C11!Nobody
<1>3. /\ m \in Mutexes /\ m \in Handles /\ s \in Slots
      /\ handle[m] = s + 1 /\ s + 1 # 0 /\ Chunked(s) /\ holds[t][m] = 0
      /\ \A k \in Mutexes, r \in Slots : handle[k] = r + 1 => ((k = m) <=> (r = s))
  <2>1. c11Pc[t].call # ""
    BY <1>2
  <2>2. WorksOn(t, m, s)
    BY <1>0, <2>1, Called
  <2> QED
    BY <2>2 DEF WorksOn
<1>4. /\ c11Pc' \in [Threads -> Place] /\ c11Pc'[t] = C11!Idle
      /\ c11Pc'[t].call = "" /\ c11Pc'[t].mtx \notin Mutexes
      /\ \A u \in Threads \ {t} : c11Pc'[u] = c11Pc[u]
  BY <1>1, <1>2, Idled
<1>5. /\ locked' \in [Slots -> Threads \cup {"nobody"}]
      /\ \A r \in Slots \ {s} : locked'[r] = locked[r]
  BY <1>1, <1>2, <1>3, PoolTypes
<1>6. HandlesRight' /\ OneSlotEach' /\ Untouched'
  BY <1>1, <1>2, <1>3, <1>5, PoolKept
<1>7. C11!TypeOK'
  BY <1>1, <1>2, <1>4, <1>5, PoolTypes, TypesPool
<1>8. \A u \in Threads : InCall(u)'
  BY <1>1, <1>2, <1>4 DEF InCall, Mutexes
<1>9. HoldersHave'
  <2> SUFFICES ASSUME NEW u \in Threads, NEW k \in Mutexes, Has(u, k)'
               PROVE  \E r \in Slots : handle[k] = r + 1 /\ locked'[r] = u
    BY <1>2 DEF HoldersHave, Mutexes, Slots
  <2>1. Has(u, k)
    BY <1>2, <1>4 DEF Has
  <2>2. PICK r \in Slots : handle[k] = r + 1 /\ locked[r] = u
    BY <1>1, <2>1 DEF HoldersHave
  <2>3. k # m
    <3>1. Has(t, m)
      BY <1>0, <1>2 DEF Has
    <3>2. locked[s] = t
      BY <1>1, <1>3, <3>1 DEF HoldersHave
    <3>3. k = m => u = t
      BY <1>3, <2>2, <3>2
    <3>4. holds'[t][m] = 0
      BY <1>2, <1>3
    <3>5. ~(holds'[t][m] > 0)
      BY <3>4, DepthsCounted, Zenon
    <3>6. ~Has(t, m)'
      BY <1>3, <1>4, <3>5 DEF Has
    <3> QED
      BY <3>3, <3>6
  <2> QED
    BY <1>3, <1>5, <2>2, <2>3
<1>10. OwnersHold' /\ PlainOnce'
  BY <1>1, <1>2 DEF OwnersHold, PlainOnce, Slots
<1>11. WaitersWait'
  BY <1>1, <1>2, <1>4 DEF WaitersWait, Slots
<1> QED
  BY <1>6, <1>7, <1>8, <1>9, <1>10, <1>11 DEF PoolInv

LEMMA WaitStep ==
  ASSUME PoolInv, NEW t \in Threads, NEW c \in Conds, NEW m \in Mutexes,
         NEW call \in {"wait", "timedwait"}, C11!Wait(t, c, m, call)
  PROVE  PoolInv'
<1>1. /\ C11!TypeOK /\ HandlesRight /\ OneSlotEach /\ Untouched
      /\ \A u \in Threads : InCall(u)
      /\ HoldersHave /\ OwnersHold /\ PlainOnce /\ WaitersWait
  BY DEF PoolInv
<1>2. PICK s \in C11!SlotOf(c), k \in C11!SlotOf(m) :
        /\ waiters' = [waiters EXCEPT ![s] = @ \cup {t}]
        /\ locked' = [locked EXCEPT ![k] = "nobody"]
        /\ c11Pc' = [c11Pc EXCEPT ![t] = [call |-> call, mtx |-> m, slot |-> k, cnd |-> s + 1]]
  BY DEF C11!Wait, C11!Nobody
<1>3. /\ c11Pc[t] = C11!Idle /\ m \in PlainMutexes /\ m \notin Recursive /\ holds[t][m] = 1
      /\ holds' = [holds EXCEPT ![t][m] = 0]
      /\ UNCHANGED <<handle, chunks, next, high, used, type, owner, depth>>
  BY PoolAssumption DEF C11!Wait, C11!poolVars
<1>4. m \in Handles /\ k \in Slots /\ handle[m] = k + 1 /\ Chunked(k) /\ k + 1 # 0
  <2>1. m \in Handles
    BY SlotsAreNumbers
  <2>2. k \in Slots /\ handle[m] = k + 1 /\ Chunked(k)
    BY <1>1, <2>1, SlotFound
  <2> QED
    BY <2>1, <2>2, SlotsCounted
<1>5. s \in Slots /\ s + 1 \in 0..Chunk * Chunks
  <2>1. c \in Handles
    BY DEF Handles, C11!Handles
  <2>2. s \in Slots /\ handle[c] = s + 1
    BY <1>1, <2>1, SlotFound
  <2> QED
    BY <1>1, <2>1, <2>2, PoolTypes
<1>6. \A j \in Mutexes, r \in Slots : handle[j] = r + 1 => (r = k => j = m)
  <2>1. \A j \in Mutexes : j \in Handles
    BY SlotsAreNumbers
  <2> QED
    BY <1>1, <1>4, <2>1 DEF OneSlotEach
<1> DEFINE q == [call |-> call, mtx |-> m, slot |-> k, cnd |-> s + 1]
<1>7. /\ q \in Place /\ q.call = call /\ q.mtx = m /\ q.slot = k /\ q.cnd = s + 1
      /\ q.call \notin {"", "own", "unlock"}
  BY <1>4, <1>5 DEF Place, C11!Calls
<1>8. c11Pc' = [c11Pc EXCEPT ![t] = q]
  BY <1>2
<1> HIDE DEF q
<1>9. /\ c11Pc' \in [Threads -> Place] /\ c11Pc'[t] = q
      /\ \A u \in Threads \ {t} : c11Pc'[u] = c11Pc[u]
  BY <1>1, <1>7, <1>8, PoolTypes
<1>10. /\ holds' \in [Threads -> [Mutexes -> 0..MaxDepth]] /\ holds'[t][m] = 0
       /\ \A u \in Threads, j \in Mutexes : u # t \/ j # m => holds'[u][j] = holds[u][j]
  <2>1. C11!TypeOK /\ m \in Mutexes /\ holds' = [holds EXCEPT ![t][m] = 0]
    BY <1>1, <1>3
  <2> QED
    BY <2>1, HoldsNone, ZenonT(40)
<1>11. /\ locked' \in [Slots -> Threads \cup {"nobody"}]
       /\ \A r \in Slots \ {k} : locked'[r] = locked[r]
  BY <1>1, <1>2, <1>4, PoolTypes
<1>12. /\ waiters' \in [Slots -> SUBSET Threads]
       /\ \A r \in Slots, u \in Threads : u \in waiters'[r] =>
            u \in waiters[r] \/ (u = t /\ r = s)
  BY <1>1, <1>2, <1>5, PoolTypes
<1>13. HandlesRight' /\ OneSlotEach' /\ Untouched'
  BY <1>1, <1>3, <1>4, <1>11, PoolKept
<1>14. C11!TypeOK'
  BY <1>1, <1>3, <1>9, <1>10, <1>11, <1>12, PoolTypes, TypesPool
<1>15. ASSUME NEW u \in Threads PROVE InCall(u)'
  <2>1. CASE u = t
    <3>1. c11Pc'[t].mtx = m /\ c11Pc'[t].slot = k /\ c11Pc'[t].call \notin {"", "own"}
      BY <1>7, <1>9
    <3>2. handle'[m] = k + 1 /\ holds'[t][m] = 0 /\ m \in Mutexes'
      BY <1>3, <1>4, <1>10 DEF Mutexes
    <3>3. InCall(t)'
      BY <3>1, <3>2, Zenon DEF InCall
    <3> QED
      BY <2>1, <3>3
  <2>2. CASE u # t
    <3>1. c11Pc'[u] = c11Pc[u] /\ \A j \in Mutexes : holds'[u][j] = holds[u][j]
      BY <1>9, <1>10, <2>2
    <3>2. InCall(u) /\ handle' = handle /\ Mutexes' = Mutexes
      BY <1>1, <1>3 DEF Mutexes
    <3> QED
      BY <3>1, <3>2 DEF InCall
  <2> QED
    BY <2>1, <2>2
<1>16. HoldersHave'
  <2> SUFFICES ASSUME NEW u \in Threads, NEW j \in Mutexes, Has(u, j)'
               PROVE  \E r \in Slots : handle[j] = r + 1 /\ locked'[r] = u
    BY <1>3 DEF HoldersHave, Mutexes, Slots
  <2>1. ~Has(t, m)'
    <3>1. ~(holds'[t][m] > 0)
      BY <1>10, DepthsCounted, Zenon
    <3> QED
      BY <1>7, <1>9, <3>1 DEF Has
  <2>2. Has(u, j)
    <3>1. CASE u # t
      BY <1>9, <1>10, <3>1 DEF Has
    <3>2. CASE u = t
      <4>1. j # m
        BY <2>1, <3>2
      <4> QED
        BY <1>7, <1>9, <1>10, <3>2, <4>1 DEF Has
    <3> QED
      BY <3>1, <3>2
  <2>3. PICK r \in Slots : handle[j] = r + 1 /\ locked[r] = u
    BY <1>1, <2>2 DEF HoldersHave
  <2>4. r # k
    <3>1. Has(t, m)
      <4>1. holds[t][m] > 0
        BY <1>3, DepthsCounted
      <4> QED
        BY <4>1 DEF Has
    <3>2. PICK x \in Slots : handle[m] = x + 1 /\ locked[x] = t
      BY <1>1, <3>1 DEF HoldersHave
    <3>3. x = k
      BY <1>4, <3>2, SlotsCounted, Zenon
    <3>4. r = k => u = t /\ j = m
      BY <1>6, <2>3, <3>2, <3>3
    <3> QED
      BY <2>1, <3>4
  <2> QED
    BY <1>11, <2>3, <2>4
<1>17. \A j \in Recursive : j \in Mutexes /\ j # m
  BY <1>3 DEF Mutexes, C11!Mutexes
<1>18. OwnersHold'
  BY <1>1, <1>3, <1>10, <1>17 DEF OwnersHold, Slots
<1>19. PlainOnce'
  <2>1. ASSUME NEW u \in Threads, NEW j \in PlainMutexes PROVE holds'[u][j] <= 1
    <3>1. j \in Mutexes
      BY DEF Mutexes, C11!Mutexes
    <3>2. CASE u = t /\ j = m
      BY <1>10, <3>2, DepthsCounted
    <3>3. CASE ~(u = t /\ j = m)
      BY <1>1, <1>10, <3>1, <3>3 DEF PlainOnce
    <3> QED
      BY <3>2, <3>3
  <2> QED
    BY <2>1 DEF PlainOnce
<1>20. WaitersWait'
  <2> SUFFICES ASSUME NEW r \in Slots, NEW u \in Threads, u \in waiters'[r]
               PROVE  c11Pc'[u].call \in {"wait", "timedwait"} /\ c11Pc'[u].cnd = r + 1
    BY DEF WaitersWait, Slots
  <2>1. CASE u = t /\ r = s
    BY <1>7, <1>9, <2>1
  <2>2. CASE u \in waiters[r]
    <3>1. c11Pc[u].call \in {"wait", "timedwait"} /\ c11Pc[u].cnd = r + 1
      BY <1>1, <2>2 DEF WaitersWait
    <3>2. u # t
      BY <1>3, <3>1, IdlePlace
    <3> QED
      BY <1>9, <3>1, <3>2
  <2> QED
    BY <1>12, <2>1, <2>2
<1> QED
  BY <1>13, <1>14, <1>15, <1>16, <1>18, <1>19, <1>20 DEF PoolInv

\* Whoever has the lock of a mutex keeps it: the calls it is in change to "lock".
LEMMA ToLock ==
  ASSUME PoolInv, NEW S \in SUBSET Threads,
         \A u \in S : c11Pc[u].call \in {"wait", "timedwait"},
         c11Pc' \in [Threads -> Place],
         \A u \in Threads \ S : c11Pc'[u] = c11Pc[u],
         \A u \in S : /\ c11Pc'[u].call = "lock" /\ c11Pc'[u].mtx = c11Pc[u].mtx
                      /\ c11Pc'[u].slot = c11Pc[u].slot,
         waiters' \in [Slots -> SUBSET Threads], WaitersWait',
         UNCHANGED <<handle, chunks, next, high, used, type, owner, depth, locked, holds>>
  PROVE  PoolInv'
<1>1. /\ C11!TypeOK /\ HandlesRight /\ OneSlotEach /\ Untouched
      /\ \A u \in Threads : InCall(u)
      /\ HoldersHave /\ OwnersHold /\ PlainOnce
  BY DEF PoolInv
<1>2. HandlesRight' /\ OneSlotEach' /\ Untouched'
  BY <1>1, PoolKept
<1>3. C11!TypeOK'
  BY <1>1, PoolTypes, TypesPool
<1>4. ASSUME NEW u \in Threads PROVE InCall(u)'
  <2>1. CASE u \in S
    BY <1>1, <2>1 DEF InCall, Mutexes
  <2>2. CASE u \notin S
    BY <1>1, <2>2 DEF InCall, Mutexes
  <2> QED
    BY <2>1, <2>2
<1>5. HoldersHave'
  <2>1. ASSUME NEW u \in Threads, NEW k \in Mutexes, Has(u, k)' PROVE Has(u, k)
    <3>1. CASE u \in S
      BY <2>1, <3>1 DEF Has
    <3>2. CASE u \notin S
      BY <2>1, <3>2 DEF Has
    <3> QED
      BY <3>1, <3>2
  <2> QED
    BY <1>1, <2>1 DEF HoldersHave, Mutexes, Slots
<1>6. OwnersHold' /\ PlainOnce'
  BY <1>1 DEF OwnersHold, PlainOnce, Slots
<1> QED
  BY <1>2, <1>3, <1>4, <1>5, <1>6 DEF PoolInv

LEMMA ExpireStep == ASSUME PoolInv, NEW t \in Threads, C11!Expire(t) PROVE PoolInv'
<1>1. C11!TypeOK /\ WaitersWait
  BY DEF PoolInv
<1>2. /\ c11Pc[t].call = "timedwait" /\ c11Pc' = [c11Pc EXCEPT ![t].call = "lock"]
      /\ waiters' = [waiters EXCEPT ![c11Pc[t].cnd - 1] = @ \ {t}]
      /\ UNCHANGED <<handle, chunks, next, high, used, type, owner, depth, locked, holds>>
  BY DEF C11!Expire, C11!poolVars
<1>3. /\ c11Pc' \in [Threads -> Place] /\ c11Pc'[t].call = "lock"
      /\ c11Pc'[t].mtx = c11Pc[t].mtx /\ c11Pc'[t].slot = c11Pc[t].slot
      /\ c11Pc'[t].cnd = c11Pc[t].cnd
      /\ \A u \in Threads \ {t} : c11Pc'[u] = c11Pc[u]
  <2>1. "lock" \in C11!Calls
    BY DEF C11!Calls
  <2> QED
    BY <1>1, <1>2, <2>1, Moves
<1>4. /\ waiters' \in [Slots -> SUBSET Threads]
      /\ \A r \in Slots : waiters'[r] \subseteq waiters[r]
      /\ \A r \in Slots : r = c11Pc[t].cnd - 1 => t \notin waiters'[r]
  <2>1. waiters \in [Slots -> SUBSET Threads]
    BY <1>1, PoolTypes
  <2>2. PICK d : d = c11Pc[t].cnd - 1
    OBVIOUS
  <2>3. waiters' = [waiters EXCEPT ![d] = @ \ {t}]
    BY <1>2, <2>2
  <2>4. /\ waiters' \in [Slots -> SUBSET Threads]
        /\ \A r \in Slots : waiters'[r] \subseteq waiters[r]
        /\ \A r \in Slots : r = d => t \notin waiters'[r]
    BY <2>1, <2>3
  <2> QED
    BY <2>2, <2>4
<1>5. WaitersWait'
  <2> SUFFICES ASSUME NEW r \in Slots, NEW u \in Threads, u \in waiters'[r]
               PROVE  c11Pc'[u].call \in {"wait", "timedwait"} /\ c11Pc'[u].cnd = r + 1
    BY DEF WaitersWait, Slots
  <2>1. c11Pc[u].call \in {"wait", "timedwait"} /\ c11Pc[u].cnd = r + 1
    BY <1>1, <1>4 DEF WaitersWait
  <2>2. u # t
    <3>1. \A d : d = r + 1 => d - 1 = r
      BY SlotsCounted, Zenon
    <3>2. u = t => r = c11Pc[t].cnd - 1
      <4>1. u = t => c11Pc[t].cnd = r + 1
        BY <2>1
      <4> QED
        BY <3>1, <4>1, Zenon
    <3> QED
      BY <1>4, <3>2
  <2> QED
    BY <1>3, <2>1, <2>2
<1> QED
  <2> DEFINE S == {t}
  <2>1. /\ S \in SUBSET Threads /\ \A u \in S : c11Pc[u].call \in {"wait", "timedwait"}
        /\ \A u \in Threads \ S : c11Pc'[u] = c11Pc[u]
        /\ \A u \in S : /\ c11Pc'[u].call = "lock" /\ c11Pc'[u].mtx = c11Pc[u].mtx
                        /\ c11Pc'[u].slot = c11Pc[u].slot
    BY <1>2, <1>3
  <2> HIDE DEF S
  <2> QED
    BY <1>2, <1>3, <1>4, <1>5, <2>1, ToLock

LEMMA WakeStep ==
  ASSUME PoolInv, NEW t \in Threads, NEW c \in Conds, C11!Wake(t, c)
  PROVE  PoolInv'
<1>1. C11!TypeOK /\ WaitersWait
  BY DEF PoolInv
<1>2. PICK s \in C11!SlotOf(c) : \E S \in {waiters[s]} \cup {{u} : u \in waiters[s]} :
        /\ waiters' = [waiters EXCEPT ![s] = @ \ S]
        /\ c11Pc' = [u \in Threads |-> IF u \in S THEN [c11Pc[u] EXCEPT !.call = "lock"]
                                       ELSE c11Pc[u]]
  BY DEF C11!Wake
<1>3. PICK S \in {waiters[s]} \cup {{u} : u \in waiters[s]} :
        /\ waiters' = [waiters EXCEPT ![s] = @ \ S]
        /\ c11Pc' = [u \in Threads |-> IF u \in S THEN [c11Pc[u] EXCEPT !.call = "lock"]
                                       ELSE c11Pc[u]]
  BY <1>2
<1>4. UNCHANGED <<handle, chunks, next, high, used, type, owner, depth, locked, holds>>
  BY DEF C11!Wake, C11!poolVars
<1>5. s \in Slots
  <2>1. c \in Handles
    BY DEF Handles, C11!Handles
  <2> QED
    BY <1>1, <2>1, SlotFound
<1>6. waiters \in [Slots -> SUBSET Threads] /\ c11Pc \in [Threads -> Place]
  BY <1>1, PoolTypes
<1>7. S \subseteq waiters[s] /\ S \in SUBSET Threads
  BY <1>5, <1>6
<1>8. \A u \in S : c11Pc[u].call \in {"wait", "timedwait"} /\ c11Pc[u].cnd = s + 1
  BY <1>1, <1>5, <1>7 DEF WaitersWait
<1>9. \A u \in Threads \ S : c11Pc'[u] = c11Pc[u]
  BY <1>3
<1>10. ASSUME NEW u \in S
       PROVE  /\ c11Pc'[u] \in Place /\ c11Pc'[u].call = "lock"
              /\ c11Pc'[u].mtx = c11Pc[u].mtx /\ c11Pc'[u].slot = c11Pc[u].slot
  <2>1. c11Pc[u] \in Place /\ "lock" \in C11!Calls
    BY <1>6, <1>7 DEF C11!Calls
  <2>2. c11Pc'[u] = [c11Pc[u] EXCEPT !.call = "lock"]
    BY <1>3, <1>7
  <2> QED
    BY <2>1, <2>2, SetCall
<1>11. c11Pc' \in [Threads -> Place]
  <2>1. \A u \in Threads : c11Pc'[u] \in Place
    BY <1>6, <1>9, <1>10
  <2>2. c11Pc' = [u \in Threads |-> c11Pc'[u]]
    BY <1>3
  <2> QED
    BY <2>1, <2>2
<1>12. /\ waiters' \in [Slots -> SUBSET Threads]
       /\ \A r \in Slots : waiters'[r] \subseteq waiters[r]
       /\ waiters'[s] = waiters[s] \ S
  BY <1>3, <1>5, <1>6
<1>13. WaitersWait'
  <2> SUFFICES ASSUME NEW r \in Slots, NEW u \in Threads, u \in waiters'[r]
               PROVE  c11Pc'[u].call \in {"wait", "timedwait"} /\ c11Pc'[u].cnd = r + 1
    BY DEF WaitersWait, Slots
  <2>1. c11Pc[u].call \in {"wait", "timedwait"} /\ c11Pc[u].cnd = r + 1
    BY <1>1, <1>12 DEF WaitersWait
  <2>2. u \notin S
    <3>1. u \in S => s + 1 = r + 1
      BY <1>8, <2>1
    <3>2. u \in S => r = s
      BY <1>5, <3>1, SlotsCounted, Zenon
    <3> QED
      BY <1>12, <3>2
  <2> QED
    BY <1>9, <2>1, <2>2
<1> QED
  BY <1>4, <1>7, <1>8, <1>9, <1>10, <1>11, <1>12, <1>13, ToLock

----------------------------------------------------------------------------
(* Objects come and go.                                                    *)

\* No thread is at work on an object that is not there.
LEMMA NotThere ==
  ASSUME PoolInv, NEW h \in Handles, handle[h] = 0
  PROVE  /\ \A t \in Threads, m \in Mutexes : Has(t, m) => m # h
         /\ \A t \in Threads : c11Pc[t].call # "" => c11Pc[t].mtx # h
<1>1. C11!TypeOK /\ HoldersHave /\ \A t \in Threads : InCall(t)
  BY DEF PoolInv
<1>2. ASSUME NEW t \in Threads, NEW m \in Mutexes, Has(t, m) PROVE m # h
  <2>1. PICK s \in Slots : handle[m] = s + 1
    BY <1>1, <1>2 DEF HoldersHave
  <2>2. s + 1 # 0
    BY SlotsCounted
  <2> QED
    BY <2>1, <2>2
<1>3. ASSUME NEW t \in Threads, c11Pc[t].call # "" PROVE c11Pc[t].mtx # h
  <2>1. PICK m, s : m = c11Pc[t].mtx /\ s = c11Pc[t].slot
    OBVIOUS
  <2>2. WorksOn(t, m, s)
    BY <1>3, <2>1, Called
  <2> QED
    BY <2>1, <2>2 DEF WorksOn
<1> QED
  BY <1>2, <1>3

\* A slot that is not in use is given to an object that has none.
LEMMA Given ==
  ASSUME PoolInv, C11!TypeOK', NEW h \in Handles, NEW s \in Slots, handle[h] = 0,
         ~used[s], used'[s], type'[s] = "recursive" <=> h \in Recursive,
         handle' = [handle EXCEPT ![h] = s + 1],
         owner'[s] = "nobody",
         \A r \in Slots \ {s} :
           /\ used'[r] = used[r] /\ type'[r] = type[r] /\ owner'[r] = owner[r]
           /\ depth'[r] = depth[r] /\ locked'[r] = locked[r],
         \A r \in Slots : waiters'[r] \subseteq waiters[r],
         Chunked(s)', \A r \in Slots : Chunked(r) => Chunked(r)',
         UNCHANGED <<c11Pc, holds>>
  PROVE  PoolInv'
<1>1. /\ C11!TypeOK /\ HandlesRight /\ OneSlotEach /\ Untouched
      /\ \A u \in Threads : InCall(u)
      /\ HoldersHave /\ OwnersHold /\ PlainOnce /\ WaitersWait
  BY DEF PoolInv
<1>2. \A g \in Handles : handle[g] # s + 1
  BY <1>1 DEF HandlesRight
<1>3. handle'[h] = s + 1 /\ \A g \in Handles \ {h} : handle'[g] = handle[g]
  BY <1>1, PoolTypes
<1>4. Slots' = Slots /\ Handles' = Handles /\ Mutexes' = Mutexes
  BY DEF Slots, Handles, Mutexes
<1>5. /\ \A t \in Threads, m \in Mutexes : Has(t, m) => m # h
      /\ \A t \in Threads : c11Pc[t].call # "" => c11Pc[t].mtx # h
  BY NotThere
<1>6. \A g \in Handles, r \in Slots : handle'[g] = r + 1 =>
        \/ g = h /\ r = s
        \/ g # h /\ r # s /\ handle[g] = r + 1
  <2> SUFFICES ASSUME NEW g \in Handles, NEW r \in Slots, handle'[g] = r + 1
               PROVE  (g = h /\ r = s) \/ (g # h /\ r # s /\ handle[g] = r + 1)
    OBVIOUS
  <2>1. CASE g = h
    <3>1. r + 1 = s + 1
      BY <1>3, <2>1
    <3> QED
      BY <2>1, <3>1, SlotsCounted, Zenon
  <2>2. CASE g # h
    BY <1>2, <1>3, <2>2
  <2> QED
    BY <2>1, <2>2
<1>7. HandlesRight'
  <2> SUFFICES ASSUME NEW g \in Handles, NEW r \in Slots, handle'[g] = r + 1
               PROVE  Chunked(r)' /\ used'[r] /\ (type'[r] = "recursive" <=> g \in Recursive)
    BY <1>4 DEF HandlesRight
  <2>1. CASE g = h /\ r = s
    BY <2>1
  <2>2. CASE g # h /\ r # s /\ handle[g] = r + 1
    BY <1>1, <2>2 DEF HandlesRight
  <2> QED
    BY <1>6, <2>1, <2>2
<1>8. OneSlotEach'
  <2> SUFFICES ASSUME NEW g \in Handles, NEW k \in Handles,
                      handle'[g] # 0, handle'[g] = handle'[k]
               PROVE  g = k
    BY <1>4 DEF OneSlotEach
  <2> QED
    BY <1>1, <1>2, <1>3 DEF OneSlotEach
<1>9. Untouched'
  <2> SUFFICES ASSUME NEW r \in Slots, ~(Chunked(r)')
               PROVE  ~used'[r] /\ owner'[r] = "nobody" /\ locked'[r] = "nobody"
    BY <1>4 DEF Untouched
  <2>1. r # s /\ ~Chunked(r)
    OBVIOUS
  <2> QED
    BY <1>1, <2>1 DEF Untouched
<1>10. ASSUME NEW u \in Threads PROVE InCall(u)'
  <2>1. c11Pc[u].call # "" => c11Pc[u].mtx \in Mutexes /\ c11Pc[u].mtx \in Handles /\ c11Pc[u].mtx # h
    BY <1>1, <1>5, SlotsAreNumbers DEF InCall
  <2>2. c11Pc[u].call # "" => handle'[c11Pc[u].mtx] = handle[c11Pc[u].mtx]
    BY <1>3, <2>1
  <2>3. InCall(u)
    BY <1>1
  <2> QED
    BY <1>4, <2>2, <2>3, Zenon DEF InCall
<1>11. HoldersHave'
  <2> SUFFICES ASSUME NEW u \in Threads, NEW k \in Mutexes, Has(u, k)
               PROVE  \E r \in Slots : handle'[k] = r + 1 /\ locked'[r] = u
    BY <1>4 DEF HoldersHave, Has
  <2>1. k # h /\ k \in Handles
    BY <1>5, SlotsAreNumbers
  <2>2. PICK r \in Slots : handle[k] = r + 1 /\ locked[r] = u
    BY <1>1 DEF HoldersHave
  <2>3. r # s
    BY <1>2, <2>1, <2>2
  <2> QED
    BY <1>3, <2>1, <2>2, <2>3
<1>12. OwnersHold'
  <2> SUFFICES ASSUME NEW u \in Threads, NEW k \in Recursive, NEW r \in Slots, handle'[k] = r + 1
               PROVE  /\ holds[u][k] > 0 => owner'[r] = u /\ depth'[r] = holds[u][k]
                      /\ owner'[r] = u => holds[u][k] > 0
    BY <1>4 DEF OwnersHold
  <2>1. k \in Mutexes /\ k \in Handles
    BY DEF Mutexes, C11!Mutexes, Handles, C11!Handles
  <2>2. CASE k = h /\ r = s
    <3>1. ~(holds[u][k] > 0)
      BY <1>5, <2>1, <2>2 DEF Has
    <3>2. owner'[r] # u
      BY <2>2, PoolAssumption
    <3> QED
      BY <3>1, <3>2
  <2>3. CASE k # h /\ r # s /\ handle[k] = r + 1
    <3>1. owner'[r] = owner[r] /\ depth'[r] = depth[r]
      BY <2>3
    <3> QED
      BY <1>1, <2>3, <3>1 DEF OwnersHold
  <2> QED
    BY <1>6, <2>1, <2>2, <2>3
<1>13. PlainOnce'
  BY <1>1 DEF PlainOnce
<1>14. WaitersWait'
  BY <1>1, <1>4 DEF WaitersWait
<1> QED
  BY <1>7, <1>8, <1>9, <1>10, <1>11, <1>12, <1>13, <1>14 DEF PoolInv

LEMMA ReuseStep ==
  ASSUME PoolInv, NEW h \in Handles, handle[h] = 0, NEW s \in C11!Reusable,
         NEW kind \in {"plain", "recursive"}, kind = "recursive" <=> h \in Recursive,
         C11!Reuse(s, h, kind), UNCHANGED <<c11Pc, holds>>
  PROVE  PoolInv'
<1>1. C11!TypeOK
  BY DEF PoolInv
<1>2. s \in Slots /\ Chunked(s) /\ ~used[s]
  <2>1. PICK k \in 0..(high + 1) * Chunk - 1 :
          LET n == (next + k) % ((high + 1) * Chunk)
          IN s = n /\ n \div Chunk \in chunks /\ ~used[n]
    BY DEF C11!Reusable
  <2>2. high \in 0..Chunks - 1 /\ next + k \in Nat
    BY <1>1, PoolTypes
  <2>3. (next + k) % ((high + 1) * Chunk) \in Slots
    BY <2>2, AroundIsASlot
  <2> QED
    BY <2>1, <2>3 DEF Chunked
<1>3. s \in Nat /\ s + 1 \in 0..Chunk * Chunks
  BY <1>2, PoolNumbers DEF Slots, C11!AllSlots
<1>4. next' \in 0..Chunk * Chunks
  <2>1. high \in 0..Chunks - 1 /\ s + 1 \in Nat
    BY <1>1, <1>3, PoolTypes
  <2>2. next' = (s + 1) % ((high + 1) * Chunk)
    BY DEF C11!Reuse
  <2>3. next' \in Slots
    BY <2>1, <2>2, AroundIsASlot
  <2> QED
    BY <2>3, PoolNumbers DEF Slots, C11!AllSlots
<1>5. /\ used' = [used EXCEPT ![s] = TRUE] /\ type' = [type EXCEPT ![s] = kind]
      /\ owner' = [owner EXCEPT ![s] = "nobody"] /\ depth' = [depth EXCEPT ![s] = 0]
      /\ locked' = [locked EXCEPT ![s] = "nobody"] /\ waiters' = [waiters EXCEPT ![s] = {}]
      /\ handle' = [handle EXCEPT ![h] = s + 1] /\ chunks' = chunks /\ high' = high
  BY DEF C11!Reuse, C11!Nobody
<1>6. /\ used' \in [Slots -> BOOLEAN] /\ used'[s]
      /\ \A r \in Slots \ {s} : used'[r] = used[r]
  BY <1>1, <1>2, <1>5, PoolTypes
<1>7. /\ type' \in [Slots -> {"plain", "recursive"}] /\ type'[s] = kind
      /\ \A r \in Slots \ {s} : type'[r] = type[r]
  BY <1>1, <1>2, <1>5, PoolTypes
<1>8. /\ owner' \in [Slots -> Threads \cup {"nobody"}] /\ owner'[s] = "nobody"
      /\ \A r \in Slots \ {s} : owner'[r] = owner[r]
  BY <1>1, <1>2, <1>5, PoolTypes
<1>9. /\ locked' \in [Slots -> Threads \cup {"nobody"}]
      /\ \A r \in Slots \ {s} : locked'[r] = locked[r]
  BY <1>1, <1>2, <1>5, PoolTypes
<1>10. depth' \in [Slots -> Nat] /\ \A r \in Slots \ {s} : depth'[r] = depth[r]
  BY <1>1, <1>2, <1>5, PoolTypes
<1>11. waiters' \in [Slots -> SUBSET Threads] /\ \A r \in Slots : waiters'[r] \subseteq waiters[r]
  BY <1>1, <1>2, <1>5, PoolTypes
<1>12. handle' \in [Handles -> 0..Chunk * Chunks]
  BY <1>1, <1>3, <1>5, PoolTypes
<1>13. C11!TypeOK'
  BY <1>1, <1>4, <1>5, <1>6, <1>7, <1>8, <1>9, <1>10, <1>11, <1>12, PoolTypes, TypesPool
<1>14. Chunked(s)' /\ \A r \in Slots : Chunked(r) => Chunked(r)'
  BY <1>2, <1>5 DEF Chunked
<1> QED
  BY <1>2, <1>5, <1>6, <1>7, <1>8, <1>9, <1>10, <1>11, <1>13, <1>14, Given

LEMMA GrowStep ==
  ASSUME PoolInv, NEW h \in Handles, handle[h] = 0,
         NEW kind \in {"plain", "recursive"}, kind = "recursive" <=> h \in Recursive,
         C11!Grow(h, kind), UNCHANGED <<c11Pc, holds>>
  PROVE  PoolInv'
<1>1. C11!TypeOK /\ Untouched
  BY DEF PoolInv
<1>2. PICK c \in C11!Missing :
        /\ chunks' = chunks \cup {c}
        /\ high' = IF c > high THEN c ELSE high
        /\ used' = [used EXCEPT ![c * Chunk] = TRUE]
        /\ type' = [type EXCEPT ![c * Chunk] = kind]
        /\ next' = c * Chunk + 1
        /\ handle' = [handle EXCEPT ![h] = c * Chunk + 1]
        /\ UNCHANGED <<owner, depth, locked, waiters>>
  BY DEF C11!Grow, C11!mutexVars
<1>3. c \in 0..Chunks - 1 /\ c \notin chunks
  BY DEF C11!Missing
<1>4. PICK s : s = c * Chunk
  OBVIOUS
<1>5. s \in Slots /\ s \div Chunk = c /\ s + 1 \in 0..Chunk * Chunks
  BY <1>3, <1>4, FirstOfChunk
<1>6. ~Chunked(s)
  BY <1>3, <1>5 DEF Chunked
<1>7. ~used[s] /\ owner[s] = "nobody"
  BY <1>1, <1>5, <1>6 DEF Untouched
<1>8. /\ used' \in [Slots -> BOOLEAN] /\ used'[s]
      /\ \A r \in Slots \ {s} : used'[r] = used[r]
  BY <1>1, <1>2, <1>4, <1>5, PoolTypes
<1>9. /\ type' \in [Slots -> {"plain", "recursive"}] /\ type'[s] = kind
      /\ \A r \in Slots \ {s} : type'[r] = type[r]
  BY <1>1, <1>2, <1>4, <1>5, PoolTypes
<1>10. handle' = [handle EXCEPT ![h] = s + 1] /\ next' = s + 1
  BY <1>2, <1>4
<1>11. handle' \in [Handles -> 0..Chunk * Chunks]
  BY <1>1, <1>5, <1>10, PoolTypes
<1>12. chunks' \subseteq 0..Chunks - 1 /\ high' \in 0..Chunks - 1
  BY <1>1, <1>2, <1>3, PoolTypes
<1>13. C11!TypeOK'
  BY <1>1, <1>2, <1>5, <1>8, <1>9, <1>10, <1>11, <1>12, PoolTypes, TypesPool
<1>14. Chunked(s)' /\ \A r \in Slots : Chunked(r) => Chunked(r)'
  BY <1>2, <1>5 DEF Chunked
<1>15. \A r \in Slots : waiters'[r] \subseteq waiters[r]
  BY <1>2
<1> QED
  BY <1>2, <1>5, <1>7, <1>8, <1>9, <1>10, <1>13, <1>14, <1>15, Given

LEMMA NewStep == ASSUME PoolInv, NEW h \in Handles, C11!New(h) PROVE PoolInv'
<1> DEFINE kind == IF h \in Recursive THEN "recursive" ELSE "plain"
<1>1. /\ handle[h] = 0 /\ UNCHANGED <<c11Pc, holds>>
      /\ \/ \E s \in C11!Reusable : C11!Reuse(s, h, kind)
         \/ C11!Grow(h, kind)
  BY DEF C11!New
<1>2. kind \in {"plain", "recursive"} /\ (kind = "recursive" <=> h \in Recursive)
  OBVIOUS
<1> HIDE DEF kind
<1> QED
  BY <1>1, <1>2, ReuseStep, GrowStep

LEMMA DestroyStep == ASSUME PoolInv, NEW h \in Handles, C11!Destroy(h) PROVE PoolInv'
<1>1. /\ C11!TypeOK /\ HandlesRight /\ OneSlotEach /\ Untouched
      /\ \A u \in Threads : InCall(u)
      /\ HoldersHave /\ OwnersHold /\ PlainOnce /\ WaitersWait
  BY DEF PoolInv
<1>2. /\ handle[h] # 0 /\ ~C11!InUse(h)
      /\ used' = [s \in Slots |-> used[s] /\ s \notin C11!SlotOf(h)]
      /\ handle' = [handle EXCEPT ![h] = 0]
      /\ UNCHANGED <<chunks, next, high, type, owner, depth, locked, waiters, c11Pc, holds>>
  BY DEF C11!Destroy, C11!mutexVars, Slots
<1>3. handle'[h] = 0 /\ \A g \in Handles \ {h} : handle'[g] = handle[g]
  BY <1>1, <1>2, PoolTypes
<1>4. \A g \in Handles, r \in Slots : handle'[g] = r + 1 => g # h /\ handle[g] = r + 1
  <2>1. \A r \in Slots : r + 1 # 0
    BY SlotsCounted
  <2> QED
    BY <1>3, <2>1
<1>5. Slots' = Slots /\ Handles' = Handles /\ Mutexes' = Mutexes
  BY DEF Slots, Handles, Mutexes
<1>6. /\ \A t \in Threads, m \in Mutexes : Has(t, m) => m # h
      /\ \A t \in Threads : c11Pc[t].mtx \in Mutexes => c11Pc[t].mtx # h
  BY <1>2 DEF C11!InUse, Has, Mutexes
<1>7. C11!TypeOK'
  <2>1. handle' \in [Handles -> 0..Chunk * Chunks]
    BY <1>1, <1>2, NoneIsANumber, PoolTypes
  <2>2. used' \in [Slots -> BOOLEAN]
    BY <1>2
  <2> QED
    BY <1>1, <1>2, <2>1, <2>2, PoolTypes, TypesPool
<1>8. HandlesRight'
  <2> SUFFICES ASSUME NEW g \in Handles, NEW r \in Slots, handle'[g] = r + 1
               PROVE  Chunked(r)' /\ used'[r] /\ (type'[r] = "recursive" <=> g \in Recursive)
    BY <1>5 DEF HandlesRight
  <2>1. g # h /\ handle[g] = r + 1
    BY <1>4
  <2>2. Chunked(r) /\ used[r] /\ (type[r] = "recursive" <=> g \in Recursive)
    BY <1>1, <2>1 DEF HandlesRight
  <2>3. r \notin C11!SlotOf(h)
    <3>1. r \in C11!SlotOf(h) => handle[h] = r + 1
      BY <1>1, SlotFound
    <3> QED
      BY <1>1, <1>2, <2>1, <3>1 DEF OneSlotEach
  <2> QED
    BY <1>2, <2>2, <2>3 DEF Chunked
<1>9. OneSlotEach'
  BY <1>1, <1>3, <1>5 DEF OneSlotEach
<1>10. Untouched'
  BY <1>1, <1>2, <1>5 DEF Untouched, Chunked
<1>11. ASSUME NEW u \in Threads PROVE InCall(u)'
  <2>1. c11Pc[u].mtx \in Mutexes => c11Pc[u].mtx \in Handles \ {h}
    BY <1>6, SlotsAreNumbers
  <2>2. c11Pc[u].mtx \in Mutexes => handle'[c11Pc[u].mtx] = handle[c11Pc[u].mtx]
    BY <1>3, <2>1
  <2>3. InCall(u)
    BY <1>1
  <2> QED
    BY <1>2, <1>5, <2>2, <2>3, Zenon DEF InCall
<1>12. HoldersHave'
  <2> SUFFICES ASSUME NEW u \in Threads, NEW k \in Mutexes, Has(u, k)
               PROVE  \E r \in Slots : handle'[k] = r + 1 /\ locked[r] = u
    BY <1>2, <1>5 DEF HoldersHave, Has
  <2>1. k \in Handles \ {h}
    BY <1>6, SlotsAreNumbers
  <2> QED
    BY <1>1, <1>3, <2>1 DEF HoldersHave
<1>13. OwnersHold'
  <2>1. \A k \in Recursive : k \in Handles
    BY DEF Handles, C11!Handles, C11!Mutexes
  <2> QED
    BY <1>1, <1>2, <1>4, <1>5, <2>1 DEF OwnersHold
<1>14. PlainOnce' /\ WaitersWait'
  BY <1>1, <1>2, <1>5 DEF PlainOnce, WaitersWait
<1> QED
  BY <1>7, <1>8, <1>9, <1>10, <1>11, <1>12, <1>13, <1>14 DEF PoolInv

LEMMA PoolInit == C11!Init => PoolInv
<1> SUFFICES ASSUME C11!Init PROVE PoolInv
  OBVIOUS
<1>1. /\ handle = [h \in Handles |-> 0] /\ chunks = {} /\ next = 0 /\ high = 0
      /\ used = [s \in Slots |-> FALSE] /\ type = [s \in Slots |-> "plain"]
      /\ owner = [s \in Slots |-> "nobody"] /\ depth = [s \in Slots |-> 0]
      /\ locked = [s \in Slots |-> "nobody"] /\ waiters = [s \in Slots |-> {}]
      /\ c11Pc = [t \in Threads |-> C11!Idle]
      /\ holds = [t \in Threads |-> [m \in Mutexes |-> 0]]
  BY DEF C11!Init, Handles, Slots, Mutexes, C11!Nobody
<1>2. \A h \in Handles, s \in Slots : handle[h] = 0 /\ handle[h] # s + 1
  BY <1>1, SlotsCounted
<1>3. \A t \in Threads : c11Pc[t] = C11!Idle /\ c11Pc[t].call = "" /\ c11Pc[t].mtx \notin Mutexes
  BY <1>1, IdlePlace
<1>4. \A t \in Threads, m \in Mutexes : ~(holds[t][m] > 0) /\ holds[t][m] <= 1
  BY <1>1, DepthsCounted
<1>5. C11!TypeOK
  <2>1. 0 \in 0..Chunk * Chunks /\ 0 \in 0..Chunks - 1 /\ 0 \in 0..MaxDepth /\ C11!Idle \in Place
    BY NoneIsANumber, IdlePlace
  <2>2. handle \in [Handles -> 0..Chunk * Chunks] /\ chunks \subseteq 0..Chunks - 1
    BY <1>1, <2>1
  <2>3. next \in 0..Chunk * Chunks /\ high \in 0..Chunks - 1
    BY <1>1, <2>1
  <2>4. /\ used \in [Slots -> BOOLEAN] /\ type \in [Slots -> {"plain", "recursive"}]
        /\ depth \in [Slots -> Nat] /\ waiters \in [Slots -> SUBSET Threads]
    BY <1>1
  <2>5. /\ owner \in [Slots -> Threads \cup {"nobody"}]
        /\ locked \in [Slots -> Threads \cup {"nobody"}]
    BY <1>1
  <2>6. c11Pc \in [Threads -> Place]
    BY <1>1, <2>1, Zenon
  <2>7. holds \in [Threads -> [Mutexes -> 0..MaxDepth]]
    BY <1>1, <2>1
  <2> QED
    BY <2>2, <2>3, <2>4, <2>5, <2>6, <2>7
    DEF C11!TypeOK, Slots, Mutexes, Handles, Place, C11!Nobody
<1>6. HandlesRight /\ OneSlotEach /\ Untouched
  BY <1>1, <1>2 DEF HandlesRight, OneSlotEach, Untouched
<1>7. \A t \in Threads : InCall(t)
  BY <1>3 DEF InCall
<1>8. HoldersHave
  BY <1>3, <1>4 DEF HoldersHave, Has
<1>9. OwnersHold
  <2>1. \A k \in Recursive : k \in Handles
    BY DEF Handles, C11!Handles, C11!Mutexes
  <2> QED
    BY <1>2, <2>1 DEF OwnersHold
<1>10. PlainOnce
  <2>1. \A k \in PlainMutexes : k \in Mutexes
    BY DEF Mutexes, C11!Mutexes
  <2> QED
    BY <1>4, <2>1 DEF PlainOnce
<1>11. WaitersWait
  BY <1>1 DEF WaitersWait
<1> QED
  BY <1>5, <1>6, <1>7, <1>8, <1>9, <1>10, <1>11 DEF PoolInv

LEMMA PoolStuttered == ASSUME PoolInv, UNCHANGED C11!vars PROVE PoolInv'
<1>1. UNCHANGED <<handle, chunks, next, high, used, type, owner, depth, locked, waiters, c11Pc, holds>>
  BY DEF C11!vars, C11!poolVars, C11!mutexVars
<1>2. /\ C11!TypeOK /\ HandlesRight /\ OneSlotEach /\ Untouched
      /\ \A u \in Threads : InCall(u)
      /\ HoldersHave /\ OwnersHold /\ PlainOnce /\ WaitersWait
  BY DEF PoolInv
<1>3. C11!TypeOK'
  BY <1>1, <1>2, PoolTypes, TypesPool
<1>4. HandlesRight' /\ OneSlotEach' /\ Untouched'
  BY <1>1, <1>2, PoolKept
<1>5. \A u \in Threads : InCall(u)'
  BY <1>1, <1>2 DEF InCall, Mutexes
<1>6. HoldersHave'
  BY <1>1, <1>2 DEF HoldersHave, Has, Mutexes, Slots
<1>7. OwnersHold' /\ PlainOnce' /\ WaitersWait'
  BY <1>1, <1>2 DEF OwnersHold, PlainOnce, WaitersWait, Slots
<1> QED
  BY <1>3, <1>4, <1>5, <1>6, <1>7 DEF PoolInv

LEMMA PoolStep == ASSUME PoolInv, [C11!Next]_(C11!vars) PROVE PoolInv'
<1>1. ASSUME NEW t \in Threads, C11!Thread(t) PROVE PoolInv'
  <2>1. \A m \in Mutexes, call \in {"lock", "try", "timed"} : C11!CallLock(t, m, call) => PoolInv'
    BY CallLockStep
  <2>2. \A m \in Mutexes : C11!Disown(t, m) => PoolInv'
    BY DisownStep
  <2>3. \A m \in Mutexes, c \in Conds, call \in {"wait", "timedwait"} :
          C11!Wait(t, c, m, call) => PoolInv'
    BY WaitStep
  <2>4. \A c \in Conds : C11!Wake(t, c) => PoolInv'
    BY WakeStep
  <2> QED
    BY <1>1, <2>1, <2>2, <2>3, <2>4,
       AcquireStep, OwnStep, GiveUpStep, ReleaseStep, ExpireStep, Zenon DEF C11!Thread, Mutexes
<1>2. \A h \in Handles : C11!New(h) \/ C11!Destroy(h) => PoolInv'
  BY NewStep, DestroyStep
<1>3. CASE C11!Next
  BY <1>1, <1>2, <1>3, Zenon DEF C11!Next, Handles
<1>4. CASE UNCHANGED C11!vars
  BY <1>4, PoolStuttered
<1> QED
  BY <1>3, <1>4

LEMMA PoolInvariant == C11!Spec => []PoolInv
<1> QED
  BY PoolInit, PoolStep, PTL DEF C11!Spec

\* However many threads, objects and slots there are, and whatever was made and
\* destroyed before: a mutex is one thread's at a time, its depth is how often
\* that thread has locked it, and two objects never meet in one slot.
THEOREM MutexesAreExclusive == C11!Spec => []Exclusive
<1>1. ASSUME PoolInv PROVE Exclusive
  <2>1. C11!TypeOK /\ HandlesRight /\ OneSlotEach /\ HoldersHave /\ OwnersHold
    BY <1>1 DEF PoolInv
  <2>2. ASSUME NEW t \in Threads, NEW m \in Mutexes, holds[t][m] > 0
        PROVE  \E s \in C11!SlotOf(m) : handle[m] = s + 1 /\ locked[s] = t
    <3>1. PICK s \in Slots : handle[m] = s + 1 /\ locked[s] = t
      BY <2>1, <2>2 DEF HoldersHave, Has
    <3>2. Chunked(s)
      BY <2>1, <3>1, SlotsAreNumbers DEF HandlesRight
    <3>3. s \in C11!SlotOf(m)
      BY <3>1, <3>2 DEF C11!SlotOf, Slots, Chunked
    <3> QED
      BY <3>1, <3>3
  <2>3. \A t, u \in Threads, m \in Mutexes : holds[t][m] > 0 /\ holds[u][m] > 0 => t = u
    <3> SUFFICES ASSUME NEW t \in Threads, NEW u \in Threads, NEW m \in Mutexes,
                        holds[t][m] > 0, holds[u][m] > 0
                 PROVE  t = u
      OBVIOUS
    <3>1. PICK s \in Slots : handle[m] = s + 1 /\ locked[s] = t
      BY <2>1 DEF HoldersHave, Has
    <3>2. PICK r \in Slots : handle[m] = r + 1 /\ locked[r] = u
      BY <2>1 DEF HoldersHave, Has
    <3>3. r = s
      BY <3>1, <3>2, SlotsCounted
    <3> QED
      BY <3>1, <3>2, <3>3
  <2>4. \A t \in Threads, m \in Recursive :
          holds[t][m] > 0 => \E s \in C11!SlotOf(m) : locked[s] = t /\ depth[s] = holds[t][m]
    <3> SUFFICES ASSUME NEW t \in Threads, NEW m \in Recursive, holds[t][m] > 0
                 PROVE  \E s \in C11!SlotOf(m) : locked[s] = t /\ depth[s] = holds[t][m]
      OBVIOUS
    <3>1. m \in Mutexes /\ m \in Handles
      BY DEF Mutexes, C11!Mutexes, Handles, C11!Handles
    <3>2. PICK s \in C11!SlotOf(m) : handle[m] = s + 1 /\ locked[s] = t
      BY <2>2, <3>1
    <3>3. s \in Slots
      BY <2>1, <3>1, <3>2, SlotFound
    <3> QED
      BY <2>1, <3>2, <3>3 DEF OwnersHold
  <2>5. ASSUME NEW h \in Handles, handle[h] # 0 PROVE C11!SlotOf(h) # {}
    <3>1. handle[h] \in 0..Chunk * Chunks /\ Chunk * Chunks \in Nat
      BY <2>1, PoolTypes, PoolNumbers
    <3>2. PICK s : s = handle[h] - 1
      OBVIOUS
    <3>3. s \in Slots /\ handle[h] = s + 1
      BY <2>5, <3>1, <3>2 DEF Slots, C11!AllSlots
    <3>4. s \in C11!SlotOf(h)
      BY <2>1, <3>3 DEF HandlesRight, C11!SlotOf, Slots, Chunked
    <3> QED
      BY <3>4
  <2> QED
    BY <2>1, <2>3, <2>4, <2>5 DEF Exclusive, C11!Exclusive, OneSlotEach, Mutexes, Handles
<1> QED
  BY <1>1, PoolInvariant, PTL
----------------------------------------------------------------------------
(* LocalRefs.                                                              *)

\* The entry i of the table is a reference of the frame j.
InFrame(i, j) ==
  /\ locals[i] \in scopes[j]
  /\ \A k \in DOMAIN frames : i <= frames[k] <=> j <= k

RefTypes ==
  /\ locals \in Seq(Blocks) /\ stale \in Seq(Blocks) /\ frames \in Seq(Nat)
  /\ scopes \in Seq(SUBSET Blocks) /\ Len(scopes) = Len(frames) + 1

\* The marks never lie above the table, and rise.
MarksRise ==
  \A k \in DOMAIN frames :
    /\ frames[k] <= Len(locals)
    /\ \A j \in DOMAIN frames : j <= k => frames[j] <= frames[k]

\* Every entry is the only one of its reference, in the section of its frame.
EntriesInFrames ==
  /\ \A i, j \in DOMAIN locals : locals[i] = locals[j] => i = j
  /\ \A i \in DOMAIN locals : \E j \in DOMAIN scopes : InFrame(i, j)

\* No reference is of two frames, or local and global.
ScopesApart ==
  /\ \A j, k \in DOMAIN scopes : j # k => scopes[j] \cap scopes[k] = {}
  /\ \A j \in DOMAIN scopes : scopes[j] \cap globals = {}

HeldAlive ==
  /\ \A j \in DOMAIN scopes : scopes[j] \subseteq alive
  /\ globals \subseteq alive /\ ~twice

RefsInv == RefTypes /\ MarksRise /\ EntriesInFrames /\ ScopesApart /\ HeldAlive

LEMMA CutOff ==
  ASSUME NEW S, NEW s \in Seq(S), NEW n \in 0..Len(s)
  PROVE  /\ SubSeq(s, 1, n) \in Seq(S) /\ Len(SubSeq(s, 1, n)) = n
         /\ \A i \in 1..n : SubSeq(s, 1, n)[i] = s[i]
  OBVIOUS

LEMMA RestOf ==
  ASSUME NEW S, NEW s \in Seq(S)
  PROVE  /\ s # <<>> => Tail(s) \in Seq(S)
         /\ \A n \in 0..Len(s) : SubSeq(s, n + 1, Len(s)) \in Seq(S)
<1>1. s # <<>> => Tail(s) \in Seq(S)
  OBVIOUS
<1>2. ASSUME NEW n \in 0..Len(s) PROVE SubSeq(s, n + 1, Len(s)) \in Seq(S)
  OBVIOUS
<1> QED
  BY <1>1, <1>2

LEMMA NewRefStep == ASSUME RefsInv, NEW r \in Blocks, Refs!New(r) PROVE RefsInv'
<1> DEFINE n == Len(frames)
           L == Len(locals)
<1>1. RefTypes /\ MarksRise /\ EntriesInFrames /\ ScopesApart /\ HeldAlive
  BY DEF RefsInv
<1>2. /\ r \notin alive /\ alive' = alive \cup {r}
      /\ locals' = IF L < MaxLocals THEN Append(locals, r) ELSE locals
      /\ stale' = IF L < MaxLocals /\ stale # <<>> THEN Tail(stale) ELSE stale
      /\ scopes' = [scopes EXCEPT ![n + 1] = @ \cup {r}]
      /\ UNCHANGED <<frames, twice, globals>>
  BY <1>1 DEF Refs!New, Refs!Top, RefTypes
<1>3. n \in Nat /\ L \in Nat /\ DOMAIN scopes = 1..n + 1 /\ DOMAIN frames = 1..n /\ DOMAIN locals = 1..L
  BY <1>1 DEF RefTypes
<1>4. /\ scopes' \in Seq(SUBSET Blocks) /\ Len(scopes') = n + 1 /\ DOMAIN scopes' = 1..n + 1
      /\ scopes'[n + 1] = scopes[n + 1] \cup {r}
      /\ \A j \in 1..n : scopes'[j] = scopes[j]
  BY <1>1, <1>2, <1>3 DEF RefTypes
<1>5. stale' \in Seq(Blocks)
  BY <1>1, <1>2, RestOf DEF RefTypes
<1>6. \A j \in DOMAIN scopes : r \notin scopes[j]
  BY <1>1, <1>2 DEF HeldAlive
<1>7. r \notin globals
  BY <1>1, <1>2 DEF HeldAlive
<1>8. ScopesApart'
  BY <1>1, <1>2, <1>3, <1>4, <1>6, <1>7 DEF ScopesApart
<1>9. HeldAlive'
  BY <1>1, <1>2, <1>3, <1>4 DEF HeldAlive
<1>10. \A i \in DOMAIN locals : \E j \in DOMAIN scopes :
         /\ locals[i] \in scopes'[j] /\ \A k \in DOMAIN frames : i <= frames[k] <=> j <= k
  BY <1>1, <1>3, <1>4 DEF EntriesInFrames, InFrame
<1>11. CASE locals' = locals
  <2>1. RefTypes'
    BY <1>1, <1>2, <1>4, <1>5, <1>11 DEF RefTypes
  <2>2. MarksRise'
    BY <1>1, <1>2, <1>11 DEF MarksRise
  <2>3. EntriesInFrames'
    BY <1>1, <1>2, <1>3, <1>4, <1>10, <1>11 DEF EntriesInFrames, InFrame
  <2> QED
    BY <1>8, <1>9, <2>1, <2>2, <2>3 DEF RefsInv
<1>12. CASE locals' = Append(locals, r)
  <2>1. /\ locals' \in Seq(Blocks) /\ Len(locals') = L + 1 /\ DOMAIN locals' = 1..L + 1
        /\ locals'[L + 1] = r /\ \A i \in 1..L : locals'[i] = locals[i]
    BY <1>1, <1>3, <1>12 DEF RefTypes
  <2>2. RefTypes'
    BY <1>1, <1>2, <1>4, <1>5, <2>1 DEF RefTypes
  <2>3. \A k \in DOMAIN frames : frames[k] \in Nat /\ frames[k] <= L
    BY <1>1 DEF RefTypes, MarksRise
  <2>4. MarksRise'
    BY <1>1, <1>2, <1>3, <2>1, <2>3 DEF MarksRise
  <2>5. \A i \in 1..L : locals[i] # r
    BY <1>1, <1>3, <1>6 DEF EntriesInFrames, InFrame
  <2>6. \A i, j \in DOMAIN locals' : locals'[i] = locals'[j] => i = j
    BY <1>1, <1>3, <2>1, <2>5 DEF EntriesInFrames
  <2>7. ASSUME NEW i \in DOMAIN locals' PROVE \E j \in DOMAIN scopes' : InFrame(i, j)'
    <3>1. CASE i \in 1..L
      BY <1>2, <1>3, <1>4, <1>10, <2>1, <3>1 DEF InFrame
    <3>2. CASE i = L + 1
      <4>1. locals'[i] \in scopes'[n + 1]
        BY <1>4, <2>1, <3>2
      <4>2. \A k \in DOMAIN frames : i <= frames[k] <=> n + 1 <= k
        BY <1>3, <2>3, <3>2
      <4> QED
        BY <1>2, <1>3, <1>4, <4>1, <4>2 DEF InFrame
    <3> QED
      BY <1>3, <2>1, <3>1, <3>2
  <2> QED
    BY <1>8, <1>9, <2>2, <2>4, <2>6, <2>7 DEF RefsInv, EntriesInFrames
<1> QED
  BY <1>2, <1>11, <1>12

\* A reference of the innermost frame leaves the table.
LEMMA LeftTable ==
  ASSUME RefsInv, NEW r \in Blocks, r \in scopes[Len(scopes)], Refs!Leave(r),
         scopes' = [i \in DOMAIN scopes |-> scopes[i] \ {r}], UNCHANGED frames
  PROVE  /\ RefTypes' /\ MarksRise' /\ EntriesInFrames'
         /\ \A j \in DOMAIN scopes' : j \in DOMAIN scopes /\ scopes'[j] = scopes[j] \ {r}
<1> DEFINE n == Len(frames)
           L == Len(locals)
<1>1. RefTypes /\ MarksRise /\ EntriesInFrames /\ ScopesApart /\ HeldAlive
  BY DEF RefsInv
<1>2. /\ n \in Nat /\ L \in Nat /\ Len(scopes) = n + 1
      /\ DOMAIN scopes = 1..n + 1 /\ DOMAIN frames = 1..n /\ DOMAIN locals = 1..L
  BY <1>1 DEF RefTypes
<1>3. /\ scopes' \in Seq(SUBSET Blocks) /\ Len(scopes') = n + 1 /\ DOMAIN scopes' = 1..n + 1
      /\ \A j \in 1..n + 1 : scopes'[j] = scopes[j] \ {r}
  BY <1>1, <1>2 DEF RefTypes
<1>4. \A k \in DOMAIN frames : frames[k] \in Nat /\ frames[k] <= L
  BY <1>1 DEF RefTypes, MarksRise
<1> DEFINE P == {i \in DOMAIN locals : locals[i] = r}
           at == Refs!Last(P)
<1>5. /\ locals' = IF at = {} THEN locals ELSE Refs!Without(CHOOSE i \in at : TRUE)
      /\ stale' = IF at = {} THEN stale ELSE <<locals[L]>> \o stale
  BY DEF Refs!Leave
<1>6. CASE P = {}
  <2>1. at = {}
    BY <1>6 DEF Refs!Last
  <2>2. locals' = locals /\ stale' = stale
    BY <1>5, <2>1
  <2>3. RefTypes' /\ MarksRise'
    BY <1>1, <1>2, <1>3, <2>2 DEF RefTypes, MarksRise
  <2>4. \A i \in DOMAIN locals : locals[i] # r
    BY <1>6
  <2>5. EntriesInFrames'
    BY <1>1, <1>2, <1>3, <2>2, <2>4 DEF EntriesInFrames, InFrame
  <2> QED
    BY <1>2, <1>3, <2>3, <2>5
<1>7. CASE P # {}
  <2>1. PICK p \in DOMAIN locals : locals[p] = r
    BY <1>7
  <2>2. \A i \in DOMAIN locals : locals[i] = r => i = p
    BY <1>1, <2>1 DEF EntriesInFrames
  <2>3. at = {p}
    BY <1>2, <2>1, <2>2 DEF Refs!Last
  <2>4. (CHOOSE i \in at : TRUE) = p
    BY <2>3
  <2> HIDE DEF P, at
  <2>5. /\ locals' = SubSeq([locals EXCEPT ![p] = locals[L]], 1, L - 1)
        /\ stale' = <<locals[L]>> \o stale
    BY <1>5, <2>3, <2>4 DEF Refs!Without
  <2>6. p \in 1..L /\ L \in 1..L /\ L - 1 \in Nat
    BY <1>2, <2>1
  <2>7. locals \in Seq(Blocks) /\ stale \in Seq(Blocks) /\ locals[L] \in Blocks
    BY <1>1, <1>2, <2>6 DEF RefTypes
  <2>8. /\ locals' \in Seq(Blocks) /\ Len(locals') = L - 1 /\ DOMAIN locals' = 1..L - 1
        /\ \A i \in 1..L - 1 : locals'[i] = IF i = p THEN locals[L] ELSE locals[i]
    <3> DEFINE s == [locals EXCEPT ![p] = locals[L]]
    <3>1. s \in Seq(Blocks) /\ Len(s) = L /\ \A i \in 1..L : s[i] = IF i = p THEN locals[L] ELSE locals[i]
      BY <1>2, <2>6, <2>7
    <3> HIDE DEF s
    <3>2. L - 1 \in 0..Len(s)
      BY <2>6, <3>1
    <3>3. /\ SubSeq(s, 1, L - 1) \in Seq(Blocks) /\ Len(SubSeq(s, 1, L - 1)) = L - 1
          /\ \A i \in 1..L - 1 : SubSeq(s, 1, L - 1)[i] = s[i]
      BY <3>1, <3>2, CutOff
    <3>4. locals' = SubSeq(s, 1, L - 1)
      BY <2>5 DEF s
    <3> QED
      BY <1>2, <2>6, <3>1, <3>3, <3>4
  <2>9. stale' \in Seq(Blocks)
    BY <2>5, <2>7
  <2>10. \A k \in DOMAIN frames : frames[k] < p
    <3>1. PICK j \in DOMAIN scopes : InFrame(p, j)
      BY <1>1, <2>1 DEF EntriesInFrames
    <3>2. j = n + 1
      BY <1>1, <1>2, <2>1, <3>1 DEF InFrame, ScopesApart
    <3> QED
      BY <1>2, <1>4, <2>6, <3>1, <3>2 DEF InFrame
  <2>11. locals[L] \in scopes[n + 1]
    <3>1. PICK j \in DOMAIN scopes : InFrame(L, j)
      BY <1>1, <1>2, <2>6 DEF EntriesInFrames
    <3>2. \A k \in DOMAIN frames : ~(j <= k)
      BY <1>2, <1>4, <2>6, <2>10, <3>1 DEF InFrame
    <3>3. j = n + 1
      BY <1>2, <3>1, <3>2
    <3> QED
      BY <3>1, <3>3 DEF InFrame
  <2>12. RefTypes'
    BY <1>1, <1>3, <2>8, <2>9 DEF RefTypes
  <2>13. MarksRise'
    BY <1>1, <1>2, <1>4, <2>6, <2>8, <2>10 DEF MarksRise
  <2>14. \A i, j \in DOMAIN locals' : locals'[i] = locals'[j] => i = j
    <3>1. \A i \in 1..L - 1 : i \in DOMAIN locals /\ i # L /\ L \in DOMAIN locals
      <4> HIDE DEF L, n
      <4>1. L \in Nat /\ DOMAIN locals = 1..L
        BY <1>2
      <4>2. \A i \in 1..L - 1 : i \in 1..L /\ i # L
        BY <4>1
      <4> QED
        BY <2>6, <4>1, <4>2
    <3>2. \A i, j \in DOMAIN locals : locals[i] = locals[j] => i = j
      BY <1>1 DEF EntriesInFrames
    <3>3. \A i \in 1..L - 1 : i # p => locals'[i] = locals[i] /\ locals[i] # locals[L]
      <4>1. \A i \in 1..L - 1 : locals[i] # locals[L]
        BY <3>1, <3>2, Zenon
      <4>2. \A i \in 1..L - 1 : i # p => locals'[i] = locals[i]
        BY <2>8
      <4> QED
        BY <4>1, <4>2, Zenon
    <3>4. \A i \in 1..L - 1 : i = p => locals'[i] = locals[L]
      BY <2>8
    <3>5. ASSUME NEW i \in 1..L - 1, NEW j \in 1..L - 1, locals'[i] = locals'[j] PROVE i = j
      <4>1. CASE i # p /\ j # p
        BY <3>1, <3>2, <3>3, <3>5, <4>1
      <4>2. CASE i = p \/ j = p
        BY <3>3, <3>4, <3>5, <4>2
      <4> QED
        BY <4>1, <4>2
    <3> QED
      BY <2>8, <3>5
  <2>15. ASSUME NEW i \in DOMAIN locals' PROVE \E j \in DOMAIN scopes' : InFrame(i, j)'
    <3>1. CASE i = p
      <4>1. locals'[i] \in scopes'[n + 1]
        <5>1. locals[L] # r
          BY <1>2, <2>2, <2>6, <2>8, <3>1
        <5> QED
          BY <1>2, <1>3, <2>8, <2>11, <3>1, <5>1, SMTT(30)
      <4>2. \A k \in DOMAIN frames : i <= frames[k] <=> n + 1 <= k
        BY <1>2, <1>4, <2>6, <2>10, <3>1
      <4> QED
        BY <1>2, <1>3, <4>1, <4>2 DEF InFrame
    <3>2. CASE i # p
      <4>1. i \in DOMAIN locals /\ locals'[i] = locals[i] /\ locals[i] # r
        BY <1>2, <2>2, <2>6, <2>8, <3>2
      <4>2. PICK j \in DOMAIN scopes : InFrame(i, j)
        BY <1>1, <4>1 DEF EntriesInFrames
      <4> QED
        BY <1>2, <1>3, <4>1, <4>2 DEF InFrame
    <3> QED
      BY <3>1, <3>2
  <2> QED
    BY <1>2, <1>3, <2>12, <2>13, <2>14, <2>15 DEF EntriesInFrames
<1> QED
  BY <1>6, <1>7

LEMMA DeleteLocalStep == ASSUME RefsInv, NEW r \in Blocks, Refs!DeleteLocal(r) PROVE RefsInv'
<1>1. RefTypes /\ ScopesApart /\ HeldAlive
  BY DEF RefsInv
<1>2. /\ r \in scopes[Len(scopes)] /\ Refs!Leave(r) /\ UNCHANGED <<frames, globals>>
      /\ scopes' = [i \in DOMAIN scopes |-> scopes[i] \ {r}]
  BY DEF Refs!DeleteLocal, Refs!Reachable, Refs!Top
<1>3. /\ RefTypes' /\ MarksRise' /\ EntriesInFrames'
      /\ \A j \in DOMAIN scopes' : j \in DOMAIN scopes /\ scopes'[j] = scopes[j] \ {r}
  BY <1>2, LeftTable
<1>4. Len(scopes) \in DOMAIN scopes
  BY <1>1 DEF RefTypes
<1>5. r \in alive /\ r \notin globals
  BY <1>1, <1>2, <1>4 DEF ScopesApart, HeldAlive
<1>6. alive \ {r} \subseteq alive' /\ ~twice'
  BY <1>1, <1>5 DEF Refs!DeleteLocal, Refs!Free, HeldAlive
<1>7. ScopesApart'
  BY <1>1, <1>2, <1>3 DEF ScopesApart
<1>8. HeldAlive'
  BY <1>1, <1>2, <1>3, <1>5, <1>6 DEF HeldAlive
<1> QED
  BY <1>3, <1>7, <1>8 DEF RefsInv

LEMMA NewGlobalStep == ASSUME RefsInv, NEW r \in Blocks, Refs!NewGlobal(r) PROVE RefsInv'
<1>1. RefTypes /\ ScopesApart /\ HeldAlive
  BY DEF RefsInv
<1>2. /\ r \in scopes[Len(scopes)] /\ Refs!Leave(r) /\ UNCHANGED <<frames, alive, twice>>
      /\ globals' = globals \cup {r}
      /\ scopes' = [i \in DOMAIN scopes |-> scopes[i] \ {r}]
  BY DEF Refs!NewGlobal, Refs!Reachable, Refs!Top
<1>3. /\ RefTypes' /\ MarksRise' /\ EntriesInFrames'
      /\ \A j \in DOMAIN scopes' : j \in DOMAIN scopes /\ scopes'[j] = scopes[j] \ {r}
  BY <1>2, LeftTable
<1>4. Len(scopes) \in DOMAIN scopes
  BY <1>1 DEF RefTypes
<1>5. r \in alive
  BY <1>1, <1>2, <1>4 DEF HeldAlive
<1>6. ScopesApart'
  BY <1>1, <1>2, <1>3 DEF ScopesApart
<1>7. HeldAlive'
  BY <1>1, <1>2, <1>3, <1>5 DEF HeldAlive
<1> QED
  BY <1>3, <1>6, <1>7 DEF RefsInv

LEMMA DeleteGlobalStep == ASSUME RefsInv, NEW r \in Blocks, Refs!DeleteGlobal(r) PROVE RefsInv'
<1>1. RefTypes /\ MarksRise /\ EntriesInFrames /\ ScopesApart /\ HeldAlive
  BY DEF RefsInv
<1>2. /\ r \in globals /\ globals' = globals \ {r} /\ alive' = alive \ {r}
      /\ twice' = (twice \/ ~({r} \subseteq alive))
      /\ UNCHANGED <<locals, stale, frames, scopes>>
  BY DEF Refs!DeleteGlobal, Refs!Free, Refs!table
<1>3. RefTypes' /\ MarksRise' /\ EntriesInFrames'
  BY <1>1, <1>2 DEF RefTypes, MarksRise, EntriesInFrames, InFrame
<1>4. ScopesApart'
  BY <1>1, <1>2 DEF ScopesApart
<1>5. HeldAlive'
  BY <1>1, <1>2 DEF HeldAlive, ScopesApart
<1> QED
  BY <1>3, <1>4, <1>5 DEF RefsInv

LEMMA PushStep == ASSUME RefsInv, Refs!Push PROVE RefsInv'
<1> DEFINE n == Len(frames)
           L == Len(locals)
<1>1. RefTypes /\ MarksRise /\ EntriesInFrames /\ ScopesApart /\ HeldAlive
  BY DEF RefsInv
<1>2. /\ frames' = Append(frames, L) /\ scopes' = Append(scopes, {})
      /\ UNCHANGED <<locals, stale, alive, twice, globals>>
  BY DEF Refs!Push
<1>3. /\ n \in Nat /\ L \in Nat /\ Len(scopes) = n + 1
      /\ DOMAIN scopes = 1..n + 1 /\ DOMAIN frames = 1..n /\ DOMAIN locals = 1..L
  BY <1>1 DEF RefTypes
<1>4. /\ frames' \in Seq(Nat) /\ Len(frames') = n + 1 /\ DOMAIN frames' = 1..n + 1
      /\ frames'[n + 1] = L /\ \A k \in 1..n : frames'[k] = frames[k]
  BY <1>1, <1>2, <1>3 DEF RefTypes
<1>5. /\ scopes' \in Seq(SUBSET Blocks) /\ Len(scopes') = n + 2 /\ DOMAIN scopes' = 1..n + 2
      /\ scopes'[n + 2] = {} /\ \A j \in 1..n + 1 : scopes'[j] = scopes[j]
  BY <1>1, <1>2, <1>3 DEF RefTypes
<1>6. RefTypes'
  BY <1>1, <1>2, <1>3, <1>4, <1>5 DEF RefTypes
<1>7. MarksRise'
  <2>1. \A k \in 1..n : frames[k] \in Nat /\ frames[k] <= L
    BY <1>1, <1>3 DEF RefTypes, MarksRise
  <2> QED
    BY <1>1, <1>2, <1>3, <1>4, <2>1 DEF MarksRise
<1>8. ASSUME NEW i \in DOMAIN locals PROVE \E j \in DOMAIN scopes' : InFrame(i, j)'
  <2>1. PICK j \in 1..n + 1 : InFrame(i, j)
    BY <1>1, <1>3 DEF EntriesInFrames
  <2>2. \A k \in 1..n + 1 : i <= frames'[k] <=> j <= k
    <3>1. \A k \in 1..n : i <= frames[k] <=> j <= k
      BY <1>3, <2>1 DEF InFrame
    <3>2. i <= frames'[n + 1] /\ j <= n + 1
      BY <1>3, <1>4, <2>1
    <3> SUFFICES ASSUME NEW k \in 1..n + 1 PROVE i <= frames'[k] <=> j <= k
      OBVIOUS
    <3>3. CASE k = n + 1
      BY <3>2, <3>3
    <3>4. CASE k \in 1..n
      BY <1>4, <3>1, <3>4
    <3> QED
      BY <1>3, <3>3, <3>4
  <2>3. locals'[i] \in scopes'[j] /\ j \in DOMAIN scopes'
    BY <1>2, <1>3, <1>5, <2>1 DEF InFrame
  <2> QED
    BY <1>4, <2>2, <2>3 DEF InFrame
<1>9. EntriesInFrames'
  BY <1>1, <1>2, <1>8 DEF EntriesInFrames
<1>10. ScopesApart'
  BY <1>1, <1>2, <1>3, <1>5 DEF ScopesApart
<1>11. HeldAlive'
  BY <1>1, <1>2, <1>3, <1>5 DEF HeldAlive
<1> QED
  BY <1>6, <1>7, <1>9, <1>10, <1>11 DEF RefsInv

\* The marks are never above the table, so no entry comes back.
LEMMA PopStep ==
  ASSUME RefsInv, NEW result, Refs!Pop(result),
         result = {} \/ \E r \in scopes[Len(scopes)] : result = {r}
  PROVE  RefsInv'
<1>1. RefTypes /\ MarksRise /\ EntriesInFrames /\ ScopesApart /\ HeldAlive
  BY DEF RefsInv
<1>2. PICK n \in Nat \ {0}, L \in Nat :
        /\ n = Len(frames) /\ L = Len(locals) /\ Len(scopes) = n + 1
        /\ DOMAIN scopes = 1..n + 1 /\ DOMAIN frames = 1..n /\ DOMAIN locals = 1..L
  BY <1>1 DEF RefTypes, Refs!Pop
<1>3. \A k \in 1..n : /\ frames[k] \in Nat /\ frames[k] <= L
                      /\ \A j \in 1..n : j <= k => frames[j] <= frames[k]
  <2>1. \A k \in 1..n : frames[k] \in Nat
    BY <1>1, <1>2 DEF RefTypes
  <2>2. \A k \in 1..n : frames[k] <= L /\ \A j \in 1..n : j <= k => frames[j] <= frames[k]
    BY <1>1, <1>2 DEF MarksRise
  <2> QED
    BY <2>1, <2>2
<1>4. PICK mark \in 0..L : mark = frames[n] /\ \A k \in 1..n : frames[k] \in Nat /\ frames[k] <= mark
  <2>1. n \in 1..n /\ \A k \in 1..n : k <= n
    OBVIOUS
  <2>2. frames[n] \in 0..L
    BY <1>2, <1>3, <2>1
  <2>3. \A k \in 1..n : frames[k] <= frames[n]
    BY <1>3, <2>1
  <2> QED
    BY <1>3, <2>2, <2>3
<1> DEFINE whole == locals \o stale
           kept == SubSeq(whole, 1, mark)
           below == SubSeq(whole, mark + 1, Len(whole))
           section == {locals[i] : i \in {j \in DOMAIN locals : j > mark}}
<1>5. /\ frames' = SubSeq(frames, 1, n - 1)
      /\ alive' = alive \ (section \ result)
      /\ twice' = (twice \/ ~(section \ result \subseteq alive))
      /\ UNCHANGED globals
      /\ IF result # {} /\ mark < MaxLocals
         THEN /\ locals' = kept \o CHOOSE s \in {<<r>> : r \in result} : TRUE
              /\ stale' = IF below = <<>> THEN <<>> ELSE Tail(below)
         ELSE locals' = kept /\ stale' = below
      /\ scopes' = [SubSeq(scopes, 1, n) EXCEPT ![n] = @ \cup result]
  <2>1. Len(scopes) - 1 = n
    BY <1>2
  <2> QED
    BY <1>2, <1>4, <2>1 DEF Refs!Pop, Refs!Top, Refs!Free
<1>6. locals \in Seq(Blocks) /\ stale \in Seq(Blocks) /\ scopes \in Seq(SUBSET Blocks) /\ frames \in Seq(Nat)
  BY <1>1 DEF RefTypes
<1>7. result \subseteq scopes[n + 1] /\ result \subseteq Blocks
  BY <1>2, <1>6
<1>8. section \subseteq scopes[n + 1]
  <2> SUFFICES ASSUME NEW i \in 1..L, i > mark PROVE locals[i] \in scopes[n + 1]
    BY <1>2
  <2>1. PICK j \in 1..n + 1 : InFrame(i, j)
    BY <1>1, <1>2 DEF EntriesInFrames
  <2>2. ~(j <= n)
    BY <1>2, <1>4, <2>1 DEF InFrame
  <2>3. j = n + 1
    BY <1>2, <2>1, <2>2
  <2> QED
    BY <2>1, <2>3 DEF InFrame
<1>9. /\ kept \in Seq(Blocks) /\ Len(kept) = mark /\ DOMAIN kept = 1..mark
      /\ \A i \in 1..mark : kept[i] = locals[i]
  <2>1. whole \in Seq(Blocks) /\ mark \in 0..Len(whole) /\ \A i \in 1..L : whole[i] = locals[i]
    BY <1>2, <1>4, <1>6
  <2> HIDE DEF whole
  <2> QED
    BY <1>2, <1>4, <2>1, CutOff
<1>10. below \in Seq(Blocks)
  <2>1. whole \in Seq(Blocks) /\ mark \in 0..Len(whole)
    BY <1>2, <1>4, <1>6
  <2> HIDE DEF whole
  <2> QED
    BY <2>1, RestOf
<1> HIDE DEF whole, kept, below, section
<1>11. stale' \in Seq(Blocks)
  BY <1>5, <1>10, RestOf
<1>12. /\ frames' \in Seq(Nat) /\ Len(frames') = n - 1 /\ DOMAIN frames' = 1..n - 1
       /\ \A k \in 1..n - 1 : frames'[k] = frames[k]
  <2> DEFINE f == SubSeq(frames, 1, n - 1)
  <2>1. n - 1 \in 0..Len(frames)
    BY <1>2
  <2>2. f \in Seq(Nat) /\ Len(f) = n - 1 /\ \A k \in 1..n - 1 : f[k] = frames[k]
    BY <1>6, <2>1, CutOff
  <2>3. frames' = f
    BY <1>5
  <2> HIDE DEF f
  <2> QED
    BY <2>2, <2>3
<1>13. /\ scopes' \in Seq(SUBSET Blocks) /\ Len(scopes') = n /\ DOMAIN scopes' = 1..n
       /\ scopes'[n] = scopes[n] \cup result
       /\ \A j \in 1..n : j # n => scopes'[j] = scopes[j]
  <2> DEFINE s == SubSeq(scopes, 1, n)
  <2>1. n \in 0..Len(scopes)
    BY <1>2
  <2>2. s \in Seq(SUBSET Blocks) /\ Len(s) = n /\ \A j \in 1..n : s[j] = scopes[j]
    BY <1>6, <2>1, CutOff
  <2>3. scopes' = [s EXCEPT ![n] = @ \cup result]
    BY <1>5, <1>2
  <2> HIDE DEF s
  <2> QED
    BY <1>2, <1>7, <2>2, <2>3
<1>14. ScopesApart'
  BY <1>1, <1>5, <1>2, <1>7, <1>13, SMTT(30) DEF ScopesApart
<1>15. HeldAlive'
  <2>1. \A j \in 1..n : scopes[j] \cap section = {} /\ scopes[j] \subseteq alive
    BY <1>1, <1>2, <1>8 DEF ScopesApart, HeldAlive
  <2>2. globals \cap section = {} /\ globals \subseteq alive /\ ~twice
    BY <1>1, <1>2, <1>8 DEF ScopesApart, HeldAlive
  <2>3. scopes[n + 1] \subseteq alive
    BY <1>1, <1>2 DEF HeldAlive
  <2>4. alive' = alive \ (section \ result) /\ ~twice'
    BY <1>5, <1>8, <2>2, <2>3
  <2>5. \A j \in 1..n : scopes'[j] \subseteq alive'
    BY <1>7, <1>13, <2>1, <2>3, <2>4
  <2> QED
    BY <1>5, <1>13, <2>2, <2>4, <2>5 DEF HeldAlive
<1>16. ASSUME NEW i \in 1..mark
       PROVE  \E j \in 1..n : /\ locals[i] \in scopes[j] /\ locals[i] \in scopes'[j]
                               /\ \A k \in 1..n - 1 : i <= frames'[k] <=> j <= k
  <2>0. i \in DOMAIN locals
    BY <1>2
  <2>1. PICK j \in 1..n + 1 : InFrame(i, j)
    BY <1>1, <1>2, <2>0 DEF EntriesInFrames
  <2>2. j <= n
    BY <1>2, <1>4, <2>1 DEF InFrame
  <2>3. locals[i] \in scopes[j] /\ locals[i] \in scopes'[j]
    BY <1>2, <1>13, <2>1, <2>2 DEF InFrame
  <2>4. \A k \in 1..n - 1 : i <= frames'[k] <=> j <= k
    <3>1. \A k \in 1..n : i <= frames[k] <=> j <= k
      BY <1>2, <2>1 DEF InFrame
    <3>2. \A k \in 1..n - 1 : k \in 1..n
      OBVIOUS
    <3> QED
      BY <1>12, <3>1, <3>2
  <2> QED
    BY <1>2, <2>2, <2>3, <2>4
<1>17. /\ \A k \in 1..n - 1 : frames'[k] \in Nat /\ frames'[k] <= mark
       /\ \A j, k \in 1..n - 1 : j <= k => frames'[j] <= frames'[k]
  <2>1. \A k \in 1..n - 1 : k \in 1..n
    OBVIOUS
  <2> QED
    BY <1>3, <1>4, <1>12, <2>1
<1>18. \A i, j \in 1..mark : locals[i] = locals[j] => i = j
  <2>1. \A i \in 1..mark : i \in DOMAIN locals
    BY <1>2
  <2> QED
    BY <1>1, <2>1 DEF EntriesInFrames
<1>19. CASE locals' = kept
  <2>1. RefTypes'
    BY <1>2, <1>9, <1>11, <1>12, <1>13, <1>19 DEF RefTypes
  <2>2. MarksRise'
    BY <1>9, <1>12, <1>17, <1>19 DEF MarksRise
  <2>3. \A i, j \in DOMAIN locals' : locals'[i] = locals'[j] => i = j
    BY <1>9, <1>19, <1>18
  <2>4. \A i \in DOMAIN locals' : \E j \in DOMAIN scopes' : InFrame(i, j)'
    BY <1>9, <1>12, <1>13, <1>16, <1>19, ZenonT(40) DEF InFrame
  <2> QED
    BY <1>14, <1>15, <2>1, <2>2, <2>3, <2>4 DEF RefsInv, EntriesInFrames
<1>20. ASSUME NEW r \in Blocks, result = {r}, locals' = kept \o <<r>> PROVE RefsInv'
  <2>1. /\ locals' \in Seq(Blocks) /\ Len(locals') = mark + 1 /\ DOMAIN locals' = 1..mark + 1
        /\ locals'[mark + 1] = r /\ \A i \in 1..mark : locals'[i] = locals[i]
    BY <1>4, <1>9, <1>20
  <2>2. RefTypes'
    BY <1>2, <1>11, <1>12, <1>13, <2>1 DEF RefTypes
  <2>3. MarksRise'
    <3>1. \A k \in 1..n - 1 : frames'[k] <= mark + 1
      BY <1>17
    <3> QED
      BY <1>12, <1>17, <2>1, <3>1 DEF MarksRise
  <2>4. \A i \in 1..mark : locals[i] # r
    <3> SUFFICES ASSUME NEW i \in 1..mark, locals[i] = r PROVE FALSE
      OBVIOUS
    <3>1. PICK j \in 1..n : r \in scopes[j]
      BY <1>16
    <3>2. r \in scopes[n + 1]
      BY <1>7, <1>20
    <3>3. j \in DOMAIN scopes /\ n + 1 \in DOMAIN scopes /\ j # n + 1
      BY <1>2
    <3> QED
      BY <1>1, <3>1, <3>2, <3>3 DEF ScopesApart
  <2>5. \A i, j \in DOMAIN locals' : locals'[i] = locals'[j] => i = j
    <3> SUFFICES ASSUME NEW i \in 1..mark + 1, NEW j \in 1..mark + 1, locals'[i] = locals'[j]
                 PROVE  i = j
      BY <2>1
    <3>1. \A x \in 1..mark + 1 : x = mark + 1 \/ x \in 1..mark
      OBVIOUS
    <3>2. CASE i \in 1..mark /\ j \in 1..mark
      BY <1>18, <2>1, <3>2
    <3>3. CASE i = mark + 1 \/ j = mark + 1
      BY <2>1, <2>4, <3>1, <3>3
    <3> QED
      BY <3>1, <3>2, <3>3
  <2>6. ASSUME NEW i \in DOMAIN locals' PROVE \E j \in DOMAIN scopes' : InFrame(i, j)'
    <3>1. CASE i \in 1..mark
      BY <1>12, <1>13, <1>16, <2>1, <3>1 DEF InFrame
    <3>2. CASE i = mark + 1
      <4>1. locals'[i] \in scopes'[n]
        BY <1>13, <1>20, <2>1, <3>2
      <4>2. \A k \in DOMAIN frames' : i <= frames'[k] <=> n <= k
        <5> SUFFICES ASSUME NEW k \in 1..n - 1 PROVE ~(i <= frames'[k]) /\ ~(n <= k)
          BY <1>12
        <5> QED
          BY <1>17, <3>2
      <4> QED
        BY <1>2, <1>13, <4>1, <4>2 DEF InFrame
    <3> QED
      BY <1>4, <2>1, <3>1, <3>2
  <2> QED
    BY <1>14, <1>15, <2>2, <2>3, <2>5, <2>6 DEF RefsInv, EntriesInFrames
<1>21. CASE result # {} /\ mark < MaxLocals
  <2>1. PICK r \in Blocks : result = {r}
    BY <1>7, <1>21
  <2>2. (CHOOSE s \in {<<x>> : x \in result} : TRUE) = <<r>>
    BY <2>1
  <2>3. locals' = kept \o <<r>>
    BY <1>5, <1>21, <2>2
  <2> QED
    BY <1>20, <2>1, <2>3
<1>22. CASE ~(result # {} /\ mark < MaxLocals)
  BY <1>5, <1>19, <1>22
<1> QED
  BY <1>21, <1>22

LEMMA RefsInit == Refs!Init => RefsInv
  BY DEF Refs!Init, RefsInv, RefTypes, MarksRise, EntriesInFrames, ScopesApart, HeldAlive

LEMMA RefsStuttered == ASSUME RefsInv, UNCHANGED Refs!vars PROVE RefsInv'
  BY DEF Refs!vars, Refs!table, RefsInv, RefTypes, MarksRise, EntriesInFrames, InFrame,
         ScopesApart, HeldAlive

LEMMA RefsStep == ASSUME RefsInv, [Refs!Next]_(Refs!vars) PROVE RefsInv'
<1>1. \A r \in Blocks :
        Refs!New(r) \/ Refs!DeleteLocal(r) \/ Refs!NewGlobal(r) \/ Refs!DeleteGlobal(r) => RefsInv'
  BY NewRefStep, DeleteLocalStep, NewGlobalStep, DeleteGlobalStep
<1>2. Refs!Pop({}) => RefsInv'
  BY PopStep
<1>3. \A r \in scopes[Len(scopes)] : Refs!Pop({r}) => RefsInv'
  BY PopStep
<1>4. Refs!PopNothing => RefsInv'
  BY RefsStuttered DEF Refs!PopNothing
<1>5. CASE Refs!Next
  BY <1>1, <1>2, <1>3, <1>4, <1>5, PushStep DEF Refs!Next, Refs!Reachable, Refs!Top
<1> QED
  BY <1>5, RefsStuttered

\* Whatever the size of the table, the depth of the frames and the addresses that
\* are given out again: what the engine may still use is alive, and nothing is
\* freed twice, if the engine deletes and returns what is of its innermost frame.
THEOREM UsedReferencesLive == Refs!Spec => []AliveWhileUsed
<1>1. RefsInv => AliveWhileUsed
  BY DEF RefsInv, HeldAlive, AliveWhileUsed, Refs!AliveWhileUsed, Refs!InScope, Refs!Range1
<1>2. Refs!Spec => []RefsInv
  BY RefsInit, RefsStep, PTL DEF Refs!Spec
<1> QED
  BY <1>1, <1>2, PTL
----------------------------------------------------------------------------
(* OpenFiles.                                                              *)

\* What a directory lists.
Listable == Packs \cup PlainFiles \cup Folders

AFile == [path : Packs \cup PlainFiles \cup {"none"}, pos : Nat]
NoFile == [path |-> "none", pos |-> 0]

FileTypes ==
  /\ files \in [1..MaxFiles -> [file : AFile, size : Int, eof : BOOLEAN, poolable : BOOLEAN]]
  /\ pool \in [1..PoolSize -> AFile] /\ poolPath \in Packs \cup {"none"}
  /\ assets \in [1..MaxAssets -> [file : AFile, mem : BOOLEAN]]
  /\ fileView \in [File!Handles -> AFile]

\* Whose handle it is, of the file in its slot.
JniHandles ==
  \A t \in Threads : \A i \in 1..MaxFiles : <<"jni", i>> \in fileMine[t] =>
    /\ files[i].file = fileView[<<"jni", i>>]
    /\ files[i].file.path \in Packs \cup PlainFiles
    /\ files[i].size = Size[files[i].file.path]
    /\ files[i].poolable => files[i].file.path \in Packs

AssetHandles ==
  \A t \in Threads : \A i \in 1..MaxAssets : <<"asset", i>> \in fileMine[t] =>
    /\ assets[i].file = fileView[<<"asset", i>>]
    /\ assets[i].file.path \in Packs \cup PlainFiles

FolderHandles ==
  /\ folders \in [1..MaxDirs -> [path : Folders \cup {"none"}, left : Seq(Listable),
                                 current : Listable \cup {"none"}, isDir : BOOLEAN]]
  /\ listed \in [1..MaxDirs -> Seq(Listable)]
  /\ \A t \in Threads : \A i \in 1..MaxDirs : <<"dir", i>> \in fileMine[t] =>
       folders[i].path \in Folders /\ File!ListedSoFar(i)

Everything == {<<"jni", i>> : i \in 1..MaxFiles} \cup {<<"asset", i>> : i \in 1..MaxAssets}
                \cup {<<"dir", i>> : i \in 1..MaxDirs}

Owners ==
  /\ fileMine \in [Threads -> SUBSET Everything]
  /\ \A t, u \in Threads : t # u => fileMine[t] \cap fileMine[u] = {}

\* What is parked is the pack, and its size is known.
Parked ==
  /\ \A k \in 1..PoolSize : pool[k] # NoFile => pool[k].path \in Packs
  /\ poolPath # "none" => poolSize = Size[poolPath]

\* A file in hand is at the start, of the path that was asked for.
InHand ==
  /\ DOMAIN filePc = Threads
  /\ \A t \in Threads : filePc[t] # File!Idle =>
       /\ filePc[t].path \in Packs \cup PlainFiles
       /\ filePc[t].file = [path |-> filePc[t].path, pos |-> 0]
       /\ filePc[t].known \in {-1, Size[filePc[t].path]}

FilesInv == FileTypes /\ JniHandles /\ AssetHandles /\ FolderHandles /\ Owners /\ Parked /\ InHand

LEMMA FirstIn == ASSUME NEW S PROVE File!First(S) \subseteq S
  BY DEF File!First

LEMMA NoFileThere == NoFile \in AFile /\ \A f \in AFile : f = NoFile => f.path \notin Packs \cup PlainFiles
  BY FileAssumption DEF NoFile, AFile

LEMMA SizesAreNat == \A p \in Packs \cup PlainFiles : Size[p] \in Nat
  BY FileAssumption

\* Reading moves on in the same file.
LEMMA AfterReading ==
  ASSUME NEW f \in AFile, f.path \in Packs \cup PlainFiles, NEW n \in Nat
  PROVE  File!After(f, n) \in AFile /\ File!After(f, n).path = f.path
<1>1. f.pos \in Nat /\ Size[f.path] \in Nat
  BY SizesAreNat DEF AFile
<1>2. File!Least(f.pos + n, Size[f.path]) \in Nat
  BY <1>1 DEF File!Least
<1>3. \A m \in Nat : [f EXCEPT !.pos = m] \in AFile /\ [f EXCEPT !.pos = m].path = f.path
  BY DEF AFile
<1> QED
  BY <1>2, <1>3 DEF File!After

\* A thread is given some slots that nobody has.
LEMMA Gained ==
  ASSUME Owners, NEW t \in Threads, NEW N \in SUBSET Everything,
         \A u \in Threads : N \cap fileMine[u] = {},
         fileMine' = [fileMine EXCEPT ![t] = @ \cup N]
  PROVE  /\ Owners'
         /\ \A u \in Threads : fileMine'[u] \subseteq fileMine[u] \cup N
<1>1. /\ fileMine \in [Threads -> SUBSET Everything]
      /\ \A u, v \in Threads : u # v => fileMine[u] \cap fileMine[v] = {}
  BY DEF Owners
<1>2. /\ fileMine' \in [Threads -> SUBSET Everything]
      /\ \A u \in Threads : fileMine'[u] = IF u = t THEN fileMine[u] \cup N ELSE fileMine[u]
  BY <1>1
<1>3. \A u, v \in Threads : u # v => fileMine'[u] \cap fileMine'[v] = {}
  BY <1>1, <1>2
<1> QED
  BY <1>2, <1>3 DEF Owners

\* It gives one back.
LEMMA Lost ==
  ASSUME Owners, NEW t \in Threads, NEW h \in fileMine[t],
         fileMine' = [fileMine EXCEPT ![t] = @ \ {h}]
  PROVE  /\ Owners'
         /\ \A u \in Threads : fileMine'[u] \subseteq fileMine[u] /\ h \notin fileMine'[u]
<1>1. /\ fileMine \in [Threads -> SUBSET Everything]
      /\ \A u, v \in Threads : u # v => fileMine[u] \cap fileMine[v] = {}
  BY DEF Owners
<1>2. /\ fileMine' \in [Threads -> SUBSET Everything]
      /\ \A u \in Threads : fileMine'[u] = IF u = t THEN fileMine[u] \ {h} ELSE fileMine[u]
  BY <1>1
<1>3. \A u, v \in Threads : u # v => fileMine'[u] \cap fileMine'[v] = {}
  BY <1>1, <1>2
<1> QED
  BY <1>1, <1>2, <1>3 DEF Owners

LEMMA TakeStep ==
  ASSUME FilesInv, NEW t \in Threads, NEW p \in Packs \cup PlainFiles, File!Take(t, p)
  PROVE  FilesInv'
<1> DEFINE k == File!First({j \in 1..PoolSize : pool[j] # NoFile})
           parked == p \in Packs /\ poolPath = p /\ k # {}
           f == [path |-> IF parked THEN pool[CHOOSE j \in k : TRUE].path ELSE p, pos |-> 0]
           known == IF parked THEN poolSize ELSE -1
<1>1. FileTypes /\ JniHandles /\ AssetHandles /\ FolderHandles /\ Owners /\ Parked /\ InHand
  BY DEF FilesInv
<1>2. /\ pool' = [j \in 1..PoolSize |-> IF parked /\ j \in k THEN NoFile ELSE pool[j]]
      /\ filePc' = [filePc EXCEPT ![t] = [path |-> p, file |-> f, known |-> known]]
      /\ UNCHANGED <<files, poolPath, poolSize, assets, fileMine, fileView, folders, listed>>
  BY DEF File!Take, File!Pooled, File!NoFile, File!NoPath, NoFile, File!asset, File!dir
<1>3. f = [path |-> p, pos |-> 0]
  <2>1. CASE parked
    <3>1. PICK j \in k : j = CHOOSE i \in k : TRUE
      BY <2>1
    <3>2. j \in 1..PoolSize /\ pool[j] # NoFile
      BY <3>1, FirstIn
    <3>3. pool[j].path \in Packs /\ p \in Packs
      BY <1>1, <2>1, <3>2 DEF Parked
    <3> QED
      BY <2>1, <3>1, <3>3, FileAssumption
  <2>2. CASE ~parked
    BY <2>2
  <2> QED
    BY <2>1, <2>2
<1>4. known \in {-1, Size[p]}
  BY <1>1, FileAssumption DEF Parked
<1> HIDE DEF k, parked, f, known
<1>5. FileTypes'
  BY <1>1, <1>2, NoFileThere DEF FileTypes
<1>6. Parked'
  BY <1>1, <1>2 DEF Parked
<1>7. InHand'
  BY <1>1, <1>2, <1>3, <1>4 DEF InHand
<1>8. JniHandles' /\ AssetHandles' /\ Owners'
  BY <1>1, <1>2 DEF JniHandles, AssetHandles, Owners
<1>9. FolderHandles'
  BY <1>1, <1>2 DEF FolderHandles, File!ListedSoFar
<1> QED
  BY <1>5, <1>6, <1>7, <1>8, <1>9 DEF FilesInv

LEMMA EnterStep == ASSUME FilesInv, NEW t \in Threads, File!Enter(t) PROVE FilesInv'
<1> DEFINE i == File!First({j \in 1..MaxFiles : files[j].file = NoFile})
           N == {<<"jni", j>> : j \in i}
<1>1. FileTypes /\ JniHandles /\ AssetHandles /\ FolderHandles /\ Owners /\ Parked /\ InHand
  BY DEF FilesInv
<1>2. PICK p \in Packs \cup PlainFiles :
        filePc[t].path = p /\ filePc[t].file = [path |-> p, pos |-> 0]
        /\ filePc[t].known \in {-1, Size[p]}
  BY <1>1 DEF File!Enter, InHand
<1>3. PICK open \in {[path |-> p, pos |-> 0]} : open = [path |-> p, pos |-> 0]
  OBVIOUS
<1>4. /\ open \in AFile /\ open.path = p /\ open = filePc[t].file
      /\ Size[p] \in Nat
  BY <1>2, <1>3, SizesAreNat DEF AFile
<1> DEFINE new == [file |-> open, eof |-> FALSE, poolable |-> p \in Packs, size |-> Size[p]]
<1>5. (IF filePc[t].known >= 0 THEN filePc[t].known ELSE Size[filePc[t].file.path]) = Size[p]
  BY <1>2, <1>4
<1>6. /\ files' = [j \in 1..MaxFiles |-> IF j \in i THEN new ELSE files[j]]
      /\ fileMine' = [fileMine EXCEPT ![t] = @ \cup N]
      /\ fileView' = [h \in File!Handles |-> IF \E j \in i : h = <<"jni", j>> THEN open ELSE fileView[h]]
      /\ filePc' = [filePc EXCEPT ![t] = File!Idle]
      /\ UNCHANGED <<pool, assets, folders, listed>>
  BY <1>2, <1>3, <1>4, <1>5 DEF File!Enter, File!Ids, File!NoFile, File!NoPath, NoFile, File!asset, File!dir
<1>7. \/ p \in Packs /\ poolSize' = Size[p] /\ poolPath' = p
      \/ UNCHANGED <<poolSize, poolPath>>
  BY <1>2, <1>4, <1>5 DEF File!Enter
<1>8. \A j \in i : j \in 1..MaxFiles /\ files[j].file = NoFile
  BY FirstIn
<1>18. \A h \in N : \E j \in i : h = <<"jni", j>>
  OBVIOUS
<1>19. N \subseteq Everything
  BY <1>8 DEF Everything
<1> HIDE DEF i, N
<1>9. /\ new.file = open /\ new.size = Size[p] /\ (new.poolable => p \in Packs)
      /\ new \in [file : AFile, size : Int, eof : BOOLEAN, poolable : BOOLEAN]
  <2>1. (p \in Packs) \in BOOLEAN /\ Size[p] \in Int /\ open \in AFile
    BY <1>4
  <2> QED
    BY <2>1
<1> HIDE DEF new
<1>10. \A u \in Threads : N \cap fileMine[u] = {}
  <2> SUFFICES ASSUME NEW u \in Threads, NEW j \in i, <<"jni", j>> \in fileMine[u] PROVE FALSE
    BY <1>18
  <2>1. files[j].file = NoFile /\ files[j].file.path \in Packs \cup PlainFiles
    BY <1>1, <1>8 DEF JniHandles
  <2> QED
    BY <2>1, NoFileThere
<1>11. /\ Owners'
       /\ \A u \in Threads : \A h \in fileMine'[u] : h \in fileMine[u] \/ \E j \in i : h = <<"jni", j>>
  <2>1. Owners' /\ \A u \in Threads : fileMine'[u] \subseteq fileMine[u] \cup N
    BY <1>1, <1>6, <1>10, <1>19, Gained
  <2> QED
    BY <1>18, <2>1
<1>12. FileTypes'
  BY <1>1, <1>4, <1>6, <1>7, <1>9 DEF FileTypes
<1>13. JniHandles'
  <2> SUFFICES ASSUME NEW u \in Threads, NEW j \in 1..MaxFiles, <<"jni", j>> \in fileMine'[u]
               PROVE  /\ files'[j].file = fileView'[<<"jni", j>>]
                      /\ files'[j].file.path \in Packs \cup PlainFiles
                      /\ files'[j].size = Size[files'[j].file.path]
                      /\ files'[j].poolable => files'[j].file.path \in Packs
    BY DEF JniHandles
  <2>1. <<"jni", j>> \in File!Handles
    BY DEF File!Handles, File!Ids
  <2>2. CASE j \in i
    BY <1>4, <1>6, <1>9, <2>1, <2>2
  <2>3. CASE j \notin i
    <3>1. <<"jni", j>> \in fileMine[u]
      BY <1>11, <2>3
    <3>2. files'[j] = files[j] /\ fileView'[<<"jni", j>>] = fileView[<<"jni", j>>]
      BY <1>6, <2>1, <2>3
    <3> QED
      BY <1>1, <3>1, <3>2 DEF JniHandles
  <2> QED
    BY <2>2, <2>3
<1>14. AssetHandles'
  <2> SUFFICES ASSUME NEW u \in Threads, NEW j \in 1..MaxAssets, <<"asset", j>> \in fileMine'[u]
               PROVE  /\ assets'[j].file = fileView'[<<"asset", j>>]
                      /\ assets'[j].file.path \in Packs \cup PlainFiles
    BY DEF AssetHandles
  <2>1. <<"asset", j>> \in File!Handles /\ <<"asset", j>> \in fileMine[u]
    BY <1>11 DEF File!Handles, File!AssetIds
  <2>2. fileView'[<<"asset", j>>] = fileView[<<"asset", j>>]
    BY <1>6, <2>1
  <2> QED
    BY <1>1, <1>6, <2>1, <2>2 DEF AssetHandles
<1>15. FolderHandles'
  <2>1. \A u \in Threads : \A j \in 1..MaxDirs : <<"dir", j>> \in fileMine'[u] => <<"dir", j>> \in fileMine[u]
    BY <1>11
  <2> QED
    BY <1>1, <1>6, <2>1 DEF FolderHandles, File!ListedSoFar
<1>16. Parked'
  BY <1>1, <1>6, <1>7 DEF Parked
<1>17. InHand'
  BY <1>1, <1>6 DEF InHand
<1> QED
  BY <1>11, <1>12, <1>13, <1>14, <1>15, <1>16, <1>17 DEF FilesInv

\* What the slots of the files, and the assets, do not touch.
LEMMA SameFolders ==
  ASSUME FolderHandles, UNCHANGED <<folders, listed>>,
         \A u \in Threads : \A j \in 1..MaxDirs : <<"dir", j>> \in fileMine'[u] => <<"dir", j>> \in fileMine[u]
  PROVE  FolderHandles'
  BY DEF FolderHandles, File!ListedSoFar

\* A handle that is given back leaves what its owner knows of the others.
LEMMA CloseStep ==
  ASSUME FilesInv, NEW t \in Threads, NEW i \in 1..MaxFiles, File!Close(t, i)
  PROVE  FilesInv'
<1> DEFINE k == File!First({j \in 1..PoolSize : pool[j] = NoFile})
           h == <<"jni", i>>
<1>1. FileTypes /\ JniHandles /\ AssetHandles /\ FolderHandles /\ Owners /\ Parked /\ InHand
  BY DEF FilesInv
<1>2. /\ h \in fileMine[t]
      /\ pool' = [j \in 1..PoolSize |-> IF files[i].poolable /\ j \in k THEN files[i].file ELSE pool[j]]
      /\ files' = [files EXCEPT ![i] = File!FreeSlot]
      /\ fileMine' = [fileMine EXCEPT ![t] = @ \ {h}]
      /\ UNCHANGED <<poolPath, poolSize, assets, filePc, fileView, folders, listed>>
  BY DEF File!Close, File!Pooled, File!NoFile, File!NoPath, NoFile, File!asset, File!dir
<1> HIDE DEF k
<1>3. Owners' /\ \A u \in Threads : fileMine'[u] \subseteq fileMine[u] /\ h \notin fileMine'[u]
  BY <1>1, <1>2, Lost
<1>4. files[i].poolable => files[i].file.path \in Packs
  BY <1>1, <1>2 DEF JniHandles
<1>5. FileTypes'
  <2>1. File!FreeSlot \in [file : AFile, size : Int, eof : BOOLEAN, poolable : BOOLEAN]
    BY NoFileThere DEF File!FreeSlot, File!NoFile, File!NoPath, NoFile
  <2> QED
    BY <1>1, <1>2, <2>1 DEF FileTypes
<1>6. JniHandles'
  <2> SUFFICES ASSUME NEW u \in Threads, NEW j \in 1..MaxFiles, <<"jni", j>> \in fileMine'[u]
               PROVE  j # i /\ <<"jni", j>> \in fileMine[u] /\ files'[j] = files[j]
    BY <1>1, <1>2 DEF JniHandles
  <2>1. j # i /\ <<"jni", j>> \in fileMine[u]
    BY <1>3
  <2> QED
    BY <1>1, <1>2, <2>1 DEF FileTypes
<1>7. AssetHandles'
  BY <1>1, <1>2, <1>3 DEF AssetHandles
<1>8. FolderHandles'
  BY <1>1, <1>2, <1>3, SameFolders
<1>9. Parked'
  BY <1>1, <1>2, <1>4 DEF Parked
<1>10. InHand'
  BY <1>1, <1>2 DEF InHand
<1> QED
  BY <1>3, <1>5, <1>6, <1>7, <1>8, <1>9, <1>10 DEF FilesInv

LEMMA SlotMoved ==
  ASSUME NEW S, NEW r \in [file : S, size : Int, eof : BOOLEAN, poolable : BOOLEAN],
         NEW f \in S, NEW eof \in BOOLEAN, NEW new, new = [r EXCEPT !.file = f, !.eof = eof]
  PROVE  /\ new \in [file : S, size : Int, eof : BOOLEAN, poolable : BOOLEAN]
         /\ new.file = f /\ new.size = r.size /\ new.poolable = r.poolable
  OBVIOUS

\* A handle and what its owner knows of it move alike.
LEMMA JniMoved ==
  ASSUME FilesInv, NEW t \in Threads, NEW i \in 1..MaxFiles, <<"jni", i>> \in fileMine[t],
         NEW f \in AFile, f.path = files[i].file.path, NEW eof \in BOOLEAN,
         files' = [files EXCEPT ![i].file = f, ![i].eof = eof],
         fileView' = [fileView EXCEPT ![<<"jni", i>>] = f],
         UNCHANGED <<pool, poolPath, poolSize, assets, filePc, fileMine, folders, listed>>
  PROVE  FilesInv'
<1>1. FileTypes /\ JniHandles /\ AssetHandles /\ FolderHandles /\ Owners /\ Parked /\ InHand
  BY DEF FilesInv
<1>2. \A j \in 1..MaxFiles : <<"jni", j>> \in File!Handles
  BY DEF File!Handles, File!Ids
<1>3. files[i] \in [file : AFile, size : Int, eof : BOOLEAN, poolable : BOOLEAN]
  BY <1>1 DEF FileTypes
<1> DEFINE new == [files[i] EXCEPT !.file = f, !.eof = eof]
<1>4. /\ new \in [file : AFile, size : Int, eof : BOOLEAN, poolable : BOOLEAN]
      /\ new.file = f /\ new.size = files[i].size /\ new.poolable = files[i].poolable
  <2> HIDE DEF new
  <2>1. new = [files[i] EXCEPT !.file = f, !.eof = eof]
    BY DEF new
  <2> QED
    BY <1>3, <2>1, SlotMoved
<1>10. files' = [files EXCEPT ![i] = new]
  BY <1>3
<1> HIDE DEF new
<1>5. FileTypes'
  BY <1>1, <1>2, <1>4, <1>10 DEF FileTypes
<1>6. JniHandles'
  <2> SUFFICES ASSUME NEW u \in Threads, NEW j \in 1..MaxFiles, <<"jni", j>> \in fileMine[u]
               PROVE  /\ files'[j].file = fileView'[<<"jni", j>>]
                      /\ files'[j].file.path \in Packs \cup PlainFiles
                      /\ files'[j].size = Size[files'[j].file.path]
                      /\ files'[j].poolable => files'[j].file.path \in Packs
    BY DEF JniHandles
  <2>1. CASE j = i
    <3>1. files'[i] = new /\ fileView'[<<"jni", i>>] = f
      BY <1>1, <1>2, <1>10 DEF FileTypes
    <3>2. /\ new.file.path \in Packs \cup PlainFiles
          /\ new.size = Size[new.file.path]
          /\ new.poolable => new.file.path \in Packs
      BY <1>1, <1>4 DEF JniHandles
    <3> QED
      BY <1>4, <2>1, <3>1, <3>2
  <2>2. CASE j # i
    <3>1. files'[j] = files[j] /\ fileView'[<<"jni", j>>] = fileView[<<"jni", j>>]
      BY <1>1, <1>2, <1>10, <2>2 DEF FileTypes
    <3> QED
      BY <1>1, <3>1 DEF JniHandles
  <2> QED
    BY <2>1, <2>2
<1>7. AssetHandles'
  <2>1. \A j \in 1..MaxAssets : fileView'[<<"asset", j>>] = fileView[<<"asset", j>>]
    <3>1. \A j \in 1..MaxAssets : <<"asset", j>> \in File!Handles
      BY DEF File!Handles, File!AssetIds
    <3> QED
      BY <1>1, <3>1 DEF FileTypes
  <2> QED
    BY <1>1, <2>1 DEF AssetHandles
<1>8. FolderHandles' /\ Owners'
  BY <1>1, SameFolders DEF Owners
<1>9. Parked' /\ InHand'
  BY <1>1 DEF Parked, InHand
<1> QED
  BY <1>5, <1>6, <1>7, <1>8, <1>9 DEF FilesInv

LEMMA ReadStep ==
  ASSUME FilesInv, NEW t \in Threads, NEW i \in 1..MaxFiles, NEW n \in Nat, File!Read(t, i, n)
  PROVE  FilesInv'
<1>1. FileTypes /\ JniHandles
  BY DEF FilesInv
<1> DEFINE f == File!After(files[i].file, n)
           eof == files[i].eof \/ f.pos < files[i].file.pos + n
<1>2. /\ <<"jni", i>> \in fileMine[t]
      /\ files' = [files EXCEPT ![i].file = f, ![i].eof = @ \/ f.pos < files[i].file.pos + n]
      /\ fileView' = [fileView EXCEPT ![<<"jni", i>>] = File!After(@, n)]
      /\ UNCHANGED <<pool, poolPath, poolSize, assets, filePc, fileMine, folders, listed>>
  BY DEF File!Read, File!asset, File!dir
<1>3. /\ files[i].file \in AFile /\ files[i].file.path \in Packs \cup PlainFiles
      /\ files[i].file = fileView[<<"jni", i>>] /\ files[i].eof \in BOOLEAN
  BY <1>1, <1>2 DEF FileTypes, JniHandles
<1>4. f \in AFile /\ f.path = files[i].file.path
  BY <1>3, AfterReading
<1>5. fileView' = [fileView EXCEPT ![<<"jni", i>>] = f]
  BY <1>2, <1>3
<1>6. eof \in BOOLEAN /\ files' = [files EXCEPT ![i].file = f, ![i].eof = eof]
  BY <1>2, <1>3
<1> HIDE DEF f, eof
<1> QED
  BY <1>2, <1>4, <1>5, <1>6, JniMoved, ZenonT(40)

LEMMA SeekStep ==
  ASSUME FilesInv, NEW t \in Threads, NEW i \in 1..MaxFiles, NEW fromEnd \in BOOLEAN, NEW n \in Nat,
         File!Seek(t, i, fromEnd, n)
  PROVE  FilesInv'
<1>1. FileTypes /\ JniHandles
  BY DEF FilesInv
<1> DEFINE to(g) == [g EXCEPT !.pos = IF fromEnd THEN Size[g.path] - n ELSE n]
           f == to(files[i].file)
<1>2. /\ <<"jni", i>> \in fileMine[t] /\ n \in 0..Size[fileView[<<"jni", i>>].path]
      /\ files' = [files EXCEPT ![i].file = to(@), ![i].eof = FALSE]
      /\ fileView' = [fileView EXCEPT ![<<"jni", i>>] = to(@)]
      /\ UNCHANGED <<pool, poolPath, poolSize, assets, filePc, fileMine, folders, listed>>
  BY DEF File!Seek, File!asset, File!dir
<1>3. /\ files[i].file \in AFile /\ files[i].file.path \in Packs \cup PlainFiles
      /\ files[i].file = fileView[<<"jni", i>>]
  BY <1>1, <1>2 DEF FileTypes, JniHandles
<1>4. Size[files[i].file.path] - n \in Nat
  BY <1>2, <1>3, SizesAreNat
<1>5. f \in AFile /\ f.path = files[i].file.path
  BY <1>3, <1>4 DEF AFile
<1>6. /\ files' = [files EXCEPT ![i].file = f, ![i].eof = FALSE]
      /\ fileView' = [fileView EXCEPT ![<<"jni", i>>] = f]
  BY <1>2, <1>3
<1> HIDE DEF f
<1> QED
  BY <1>2, <1>5, <1>6, JniMoved, ZenonT(40)

LEMMA OpenAssetStep ==
  ASSUME FilesInv, NEW t \in Threads, NEW p \in Packs \cup PlainFiles, File!OpenAsset(t, p)
  PROVE  FilesInv'
<1> DEFINE i == File!First({j \in 1..MaxAssets : assets[j].file = NoFile})
           N == {<<"asset", j>> : j \in i}
<1>1. FileTypes /\ JniHandles /\ AssetHandles /\ FolderHandles /\ Owners /\ Parked /\ InHand
  BY DEF FilesInv
<1>15. PICK open \in {[path |-> p, pos |-> 0]} : open = [path |-> p, pos |-> 0]
  OBVIOUS
<1>2. open \in AFile /\ open = [path |-> p, pos |-> 0] /\ open.path = p
  BY <1>15 DEF AFile
<1>3. PICK mem \in BOOLEAN : mem = (p = resident')
  OBVIOUS
<1> DEFINE new == [file |-> open, mem |-> mem]
<1>4. /\ assets' = [j \in 1..MaxAssets |-> IF j \in i THEN new ELSE assets[j]]
      /\ fileMine' = [fileMine EXCEPT ![t] = @ \cup N]
      /\ fileView' = [h \in File!Handles |-> IF \E j \in i : h = <<"asset", j>> THEN open ELSE fileView[h]]
      /\ UNCHANGED <<files, pool, poolPath, poolSize, filePc, folders, listed>>
  BY <1>2, <1>3 DEF File!OpenAsset, File!AssetIds, File!NoFile, File!NoPath, NoFile, File!jni, File!dir
<1>5. \A j \in i : j \in 1..MaxAssets /\ assets[j].file = NoFile
  BY FirstIn
<1>6. N \subseteq Everything /\ \A h \in N : \E j \in i : h = <<"asset", j>>
  BY <1>5 DEF Everything
<1>7. new \in [file : AFile, mem : BOOLEAN] /\ new.file = open
  BY <1>2
<1> HIDE DEF i, N, new
<1>8. \A u \in Threads : N \cap fileMine[u] = {}
  <2> SUFFICES ASSUME NEW u \in Threads, NEW j \in i, <<"asset", j>> \in fileMine[u] PROVE FALSE
    BY <1>6
  <2>1. assets[j].file = NoFile /\ assets[j].file.path \in Packs \cup PlainFiles
    BY <1>1, <1>5 DEF AssetHandles
  <2> QED
    BY <2>1, NoFileThere
<1>9. Owners' /\ \A u \in Threads : \A h \in fileMine'[u] : h \in fileMine[u] \/ \E j \in i : h = <<"asset", j>>
  <2>1. Owners' /\ \A u \in Threads : fileMine'[u] \subseteq fileMine[u] \cup N
    BY <1>1, <1>4, <1>6, <1>8, Gained
  <2> QED
    BY <1>6, <2>1
<1>10. FileTypes'
  BY <1>1, <1>4, <1>7 DEF FileTypes
<1>11. JniHandles'
  <2> SUFFICES ASSUME NEW u \in Threads, NEW j \in 1..MaxFiles, <<"jni", j>> \in fileMine'[u]
               PROVE  <<"jni", j>> \in fileMine[u] /\ fileView'[<<"jni", j>>] = fileView[<<"jni", j>>]
    BY <1>1, <1>4 DEF JniHandles
  <2>1. <<"jni", j>> \in File!Handles /\ <<"jni", j>> \in fileMine[u]
    BY <1>9 DEF File!Handles, File!Ids
  <2> QED
    BY <1>4, <2>1
<1>12. AssetHandles'
  <2> SUFFICES ASSUME NEW u \in Threads, NEW j \in 1..MaxAssets, <<"asset", j>> \in fileMine'[u]
               PROVE  /\ assets'[j].file = fileView'[<<"asset", j>>]
                      /\ assets'[j].file.path \in Packs \cup PlainFiles
    BY DEF AssetHandles
  <2>1. <<"asset", j>> \in File!Handles
    BY DEF File!Handles, File!AssetIds
  <2>2. CASE j \in i
    BY <1>2, <1>4, <1>7, <2>1, <2>2
  <2>3. CASE j \notin i
    <3>1. <<"asset", j>> \in fileMine[u]
      BY <1>9, <2>3
    <3>2. assets'[j] = assets[j] /\ fileView'[<<"asset", j>>] = fileView[<<"asset", j>>]
      BY <1>4, <2>1, <2>3
    <3> QED
      BY <1>1, <3>1, <3>2 DEF AssetHandles
  <2> QED
    BY <2>2, <2>3
<1>13. FolderHandles'
  <2>1. \A u \in Threads : \A j \in 1..MaxDirs : <<"dir", j>> \in fileMine'[u] => <<"dir", j>> \in fileMine[u]
    BY <1>9
  <2> QED
    BY <1>1, <1>4, <2>1, SameFolders
<1>14. Parked' /\ InHand'
  BY <1>1, <1>4 DEF Parked, InHand
<1> QED
  BY <1>9, <1>10, <1>11, <1>12, <1>13, <1>14 DEF FilesInv

LEMMA CloseAssetStep ==
  ASSUME FilesInv, NEW t \in Threads, NEW i \in 1..MaxAssets, File!CloseAsset(t, i)
  PROVE  FilesInv'
<1> DEFINE h == <<"asset", i>>
           free == [file |-> NoFile, mem |-> FALSE]
<1>1. FileTypes /\ JniHandles /\ AssetHandles /\ FolderHandles /\ Owners /\ Parked /\ InHand
  BY DEF FilesInv
<1>2. /\ h \in fileMine[t] /\ assets' = [assets EXCEPT ![i] = free]
      /\ fileMine' = [fileMine EXCEPT ![t] = @ \ {h}]
      /\ UNCHANGED <<files, pool, poolPath, poolSize, filePc, fileView, folders, listed>>
  BY DEF File!CloseAsset, File!NoFile, File!NoPath, NoFile, File!jni, File!dir
<1>3. Owners' /\ \A u \in Threads : fileMine'[u] \subseteq fileMine[u] /\ h \notin fileMine'[u]
  BY <1>1, <1>2, Lost
<1>4. FileTypes'
  <2>1. free \in [file : AFile, mem : BOOLEAN]
    BY NoFileThere
  <2> HIDE DEF free
  <2> QED
    BY <1>1, <1>2, <2>1 DEF FileTypes
<1>5. AssetHandles'
  <2> SUFFICES ASSUME NEW u \in Threads, NEW j \in 1..MaxAssets, <<"asset", j>> \in fileMine'[u]
               PROVE  j # i /\ <<"asset", j>> \in fileMine[u] /\ assets'[j] = assets[j]
    BY <1>1, <1>2 DEF AssetHandles
  <2>1. j # i /\ <<"asset", j>> \in fileMine[u]
    BY <1>3
  <2> QED
    BY <1>1, <1>2, <2>1 DEF FileTypes
<1>6. JniHandles'
  BY <1>1, <1>2, <1>3 DEF JniHandles
<1>7. FolderHandles'
  BY <1>1, <1>2, <1>3, SameFolders
<1>8. Parked' /\ InHand'
  BY <1>1, <1>2 DEF Parked, InHand
<1> QED
  BY <1>3, <1>4, <1>5, <1>6, <1>7, <1>8 DEF FilesInv

LEMMA AssetMoved ==
  ASSUME FilesInv, NEW t \in Threads, NEW i \in 1..MaxAssets, <<"asset", i>> \in fileMine[t],
         NEW f \in AFile, f.path = assets[i].file.path,
         assets' = [assets EXCEPT ![i].file = f],
         fileView' = [fileView EXCEPT ![<<"asset", i>>] = f],
         UNCHANGED <<files, pool, poolPath, poolSize, filePc, fileMine, folders, listed>>
  PROVE  FilesInv'
<1>1. FileTypes /\ JniHandles /\ AssetHandles /\ FolderHandles /\ Owners /\ Parked /\ InHand
  BY DEF FilesInv
<1>2. \A j \in 1..MaxAssets : <<"asset", j>> \in File!Handles
  BY DEF File!Handles, File!AssetIds
<1>3. FileTypes'
  BY <1>1, <1>2 DEF FileTypes
<1>4. AssetHandles'
  <2> SUFFICES ASSUME NEW u \in Threads, NEW j \in 1..MaxAssets, <<"asset", j>> \in fileMine[u]
               PROVE  /\ assets'[j].file = fileView'[<<"asset", j>>]
                      /\ assets'[j].file.path \in Packs \cup PlainFiles
    BY DEF AssetHandles
  <2>1. CASE j = i
    <3>1. assets'[i].file = f /\ fileView'[<<"asset", i>>] = f
      BY <1>1, <1>2 DEF FileTypes
    <3>2. f.path \in Packs \cup PlainFiles
      BY <1>1 DEF AssetHandles
    <3> QED
      BY <2>1, <3>1, <3>2
  <2>2. CASE j # i
    <3>1. assets'[j] = assets[j] /\ fileView'[<<"asset", j>>] = fileView[<<"asset", j>>]
      BY <1>1, <1>2, <2>2 DEF FileTypes
    <3> QED
      BY <1>1, <3>1 DEF AssetHandles
  <2> QED
    BY <2>1, <2>2
<1>5. JniHandles'
  <2>1. \A j \in 1..MaxFiles : fileView'[<<"jni", j>>] = fileView[<<"jni", j>>]
    <3>1. \A j \in 1..MaxFiles : <<"jni", j>> \in File!Handles
      BY DEF File!Handles, File!Ids
    <3> QED
      BY <1>1, <3>1 DEF FileTypes
  <2> QED
    BY <1>1, <2>1 DEF JniHandles
<1>6. FolderHandles' /\ Owners'
  BY <1>1, SameFolders DEF Owners
<1>7. Parked' /\ InHand'
  BY <1>1 DEF Parked, InHand
<1> QED
  BY <1>3, <1>4, <1>5, <1>6, <1>7 DEF FilesInv

LEMMA ReadAssetStep ==
  ASSUME FilesInv, NEW t \in Threads, NEW i \in 1..MaxAssets, NEW n \in Nat, File!ReadAsset(t, i, n)
  PROVE  FilesInv'
<1>1. FileTypes /\ AssetHandles
  BY DEF FilesInv
<1> DEFINE f == File!After(assets[i].file, n)
<1>2. /\ <<"asset", i>> \in fileMine[t]
      /\ assets' = [assets EXCEPT ![i].file = File!After(@, n)]
      /\ fileView' = [fileView EXCEPT ![<<"asset", i>>] = File!After(@, n)]
      /\ UNCHANGED <<files, pool, poolPath, poolSize, filePc, fileMine, folders, listed>>
  BY DEF File!ReadAsset, File!jni, File!dir
<1>3. /\ assets[i].file \in AFile /\ assets[i].file.path \in Packs \cup PlainFiles
      /\ assets[i].file = fileView[<<"asset", i>>]
  BY <1>1, <1>2 DEF FileTypes, AssetHandles
<1>4. f \in AFile /\ f.path = assets[i].file.path
  BY <1>3, AfterReading
<1>5. /\ assets' = [assets EXCEPT ![i].file = f]
      /\ fileView' = [fileView EXCEPT ![<<"asset", i>>] = f]
  BY <1>2, <1>3
<1> HIDE DEF f
<1> QED
  BY <1>2, <1>4, <1>5, AssetMoved

LEMMA SeekAssetStep ==
  ASSUME FilesInv, NEW t \in Threads, NEW i \in 1..MaxAssets, NEW n \in Nat, File!SeekAsset(t, i, n)
  PROVE  FilesInv'
<1>1. FileTypes /\ AssetHandles
  BY DEF FilesInv
<1> DEFINE refused == assets[i].mem /\ n > Size[assets[i].file.path]
           f == [assets[i].file EXCEPT !.pos = IF refused THEN @ ELSE n]
<1>2. /\ <<"asset", i>> \in fileMine[t]
      /\ assets' = [assets EXCEPT ![i].file.pos = IF refused THEN @ ELSE n]
      /\ fileView' = [fileView EXCEPT ![<<"asset", i>>].pos = IF refused THEN @ ELSE n]
      /\ UNCHANGED <<files, pool, poolPath, poolSize, filePc, fileMine, folders, listed>>
  BY DEF File!SeekAsset, File!jni, File!dir
<1>3. /\ assets[i].file \in AFile /\ assets[i].file.path \in Packs \cup PlainFiles
      /\ assets[i].file = fileView[<<"asset", i>>]
  BY <1>1, <1>2 DEF FileTypes, AssetHandles
<1> HIDE DEF refused
<1>4. f \in AFile /\ f.path = assets[i].file.path
  BY <1>3 DEF AFile
<1>5. /\ assets' = [assets EXCEPT ![i].file = f]
      /\ fileView' = [fileView EXCEPT ![<<"asset", i>>] = f]
  BY <1>2, <1>3
<1> HIDE DEF f
<1> QED
  BY <1>2, <1>4, <1>5, AssetMoved, ZenonT(40)

\* The next entry passes from what is left to what was given.
LEMMA Passed ==
  ASSUME NEW S, NEW l \in Seq(S), NEW x \in Seq(S), x # <<>>
  PROVE  /\ Append(l, Head(x)) \in Seq(S) /\ Tail(x) \in Seq(S) /\ Head(x) \in S
         /\ Append(l, Head(x)) # <<>> /\ Append(l, Head(x))[Len(Append(l, Head(x)))] = Head(x)
         /\ Append(l, Head(x)) \o Tail(x) = l \o x
<1> DEFINE a == Append(l, Head(x)) \o Tail(x)
           b == l \o x
<1>1. Len(x) > 0 /\ Head(x) = x[1] /\ Head(x) \in S /\ Tail(x) \in Seq(S) /\ Len(Tail(x)) = Len(x) - 1
  OBVIOUS
<1>2. Append(l, Head(x)) \in Seq(S) /\ Len(Append(l, Head(x))) = Len(l) + 1
      /\ Append(l, Head(x))[Len(l) + 1] = Head(x)
  BY <1>1
<1>3. a \in Seq(S) /\ b \in Seq(S) /\ Len(a) = Len(b)
  BY <1>1, <1>2
<1>4. ASSUME NEW k \in 1..Len(a) PROVE a[k] = b[k]
  <2>1. CASE k <= Len(l)
    BY <1>1, <1>2, <2>1
  <2>2. CASE k > Len(l)
    BY <1>1, <1>2, <2>2
  <2> QED
    BY <1>3, <2>1, <2>2
<1>5. a = b
  <2> HIDE DEF a, b
  <2> QED
    BY <1>3, <1>4
<1> QED
  BY <1>1, <1>2, <1>5

AFolder == [path : Folders \cup {"none"}, left : Seq(Listable), current : Listable \cup {"none"}, isDir : BOOLEAN]

LEMMA FolderOpened ==
  ASSUME NEW S, NEW Q, NEW C, NEW r \in [path : S, left : Q, current : C, isDir : BOOLEAN],
         NEW p \in S, NEW e \in Q, NEW c \in C, NEW new,
         new = [r EXCEPT !.path = p, !.left = e, !.current = c]
  PROVE  new \in [path : S, left : Q, current : C, isDir : BOOLEAN] /\ new.path = p /\ new.left = e
  OBVIOUS

LEMMA FolderMoved ==
  ASSUME NEW S, NEW Q, NEW C, NEW r \in [path : S, left : Q, current : C, isDir : BOOLEAN],
         NEW e \in Q, NEW c \in C, NEW d \in BOOLEAN, NEW new,
         new = [r EXCEPT !.left = e, !.current = c, !.isDir = d]
  PROVE  /\ new \in [path : S, left : Q, current : C, isDir : BOOLEAN]
         /\ new.path = r.path /\ new.left = e /\ new.current = c /\ new.isDir = d
  OBVIOUS

LEMMA FolderClosed ==
  ASSUME NEW S, NEW Q, NEW C, NEW r \in [path : S, left : Q, current : C, isDir : BOOLEAN],
         NEW p \in S, NEW e \in Q, NEW new, new = [r EXCEPT !.path = p, !.left = e]
  PROVE  new \in [path : S, left : Q, current : C, isDir : BOOLEAN]
  OBVIOUS

\* What is not about directories, when only these change.
LEMMA SameFiles ==
  ASSUME FilesInv,
         UNCHANGED <<files, pool, poolPath, poolSize, assets, filePc, fileView>>,
         \A u \in Threads : \A h \in fileMine'[u] : h[1] # "dir" => h \in fileMine[u]
  PROVE  FileTypes' /\ JniHandles' /\ AssetHandles' /\ Parked' /\ InHand'
<1>1. FileTypes /\ JniHandles /\ AssetHandles /\ Parked /\ InHand
  BY DEF FilesInv
<1>2. FileTypes' /\ Parked' /\ InHand'
  BY <1>1 DEF FileTypes, Parked, InHand
<1>3. JniHandles'
  <2>1. \A u \in Threads : \A i \in 1..MaxFiles :
          <<"jni", i>> \in fileMine'[u] => <<"jni", i>> \in fileMine[u]
    OBVIOUS
  <2> QED
    BY <1>1, <2>1 DEF JniHandles
<1>4. AssetHandles'
  <2>1. \A u \in Threads : \A i \in 1..MaxAssets :
          <<"asset", i>> \in fileMine'[u] => <<"asset", i>> \in fileMine[u]
    OBVIOUS
  <2> QED
    BY <1>1, <2>1 DEF AssetHandles
<1> QED
  BY <1>2, <1>3, <1>4

LEMMA OpenDirStep ==
  ASSUME FilesInv, NEW t \in Threads, NEW p \in Folders, File!OpenDir(t, p)
  PROVE  FilesInv'
<1> DEFINE i == File!First({j \in 1..MaxDirs : folders[j].path = "none"})
           N == {<<"dir", j>> : j \in i}
           opened(j) == [folders[j] EXCEPT !.path = p, !.left = Entries[p], !.current = "none"]
<1>1. FolderHandles /\ Owners
  BY DEF FilesInv
<1>2. /\ folders' = [j \in 1..MaxDirs |-> IF j \in i THEN opened(j) ELSE folders[j]]
      /\ listed' = [j \in 1..MaxDirs |-> IF j \in i THEN <<>> ELSE listed[j]]
      /\ fileMine' = [fileMine EXCEPT ![t] = @ \cup N]
      /\ UNCHANGED <<files, pool, poolPath, poolSize, assets, filePc, fileView>>
  BY DEF File!OpenDir, File!NoPath, File!jni, File!asset
<1>3. \A j \in i : j \in 1..MaxDirs /\ folders[j].path = "none"
  BY FirstIn
<1>4. N \subseteq Everything /\ \A h \in N : \E j \in i : h = <<"dir", j>>
  BY <1>3 DEF Everything
<1>5. Entries[p] \in Seq(Listable)
  BY FileAssumption DEF Listable
<1>6. folders \in [1..MaxDirs -> AFolder] /\ listed \in [1..MaxDirs -> Seq(Listable)]
  BY <1>1 DEF FolderHandles, AFolder
<1>7. \A j \in 1..MaxDirs : opened(j) \in AFolder /\ opened(j).path = p /\ opened(j).left = Entries[p]
  <2> SUFFICES ASSUME NEW j \in 1..MaxDirs
               PROVE  opened(j) \in AFolder /\ opened(j).path = p /\ opened(j).left = Entries[p]
    OBVIOUS
  <2>1. opened(j) = [folders[j] EXCEPT !.path = p, !.left = Entries[p], !.current = "none"]
    OBVIOUS
  <2>2. folders[j] \in AFolder
    BY <1>6
  <2>3. "none" \in Listable \cup {"none"} /\ p \in Folders \cup {"none"}
    OBVIOUS
  <2> HIDE DEF opened
  <2> QED
    BY <1>5, <2>1, <2>2, <2>3, FolderOpened, ZenonT(40) DEF AFolder
<1> HIDE DEF i, N, opened
<1>8. \A u \in Threads : N \cap fileMine[u] = {}
  <2> SUFFICES ASSUME NEW u \in Threads, NEW j \in i, <<"dir", j>> \in fileMine[u] PROVE FALSE
    BY <1>4
  <2> QED
    BY <1>1, <1>3, FileAssumption DEF FolderHandles
<1>9. Owners' /\ \A u \in Threads : \A h \in fileMine'[u] : h \in fileMine[u] \/ \E j \in i : h = <<"dir", j>>
  <2>1. Owners' /\ \A u \in Threads : fileMine'[u] \subseteq fileMine[u] \cup N
    BY <1>1, <1>2, <1>4, <1>8, Gained
  <2> QED
    BY <1>4, <2>1
<1>10. folders' \in [1..MaxDirs -> AFolder] /\ listed' \in [1..MaxDirs -> Seq(Listable)]
  <2>1. folders' \in [1..MaxDirs -> AFolder]
    BY <1>2, <1>6, <1>7
  <2>2. listed' \in [1..MaxDirs -> Seq(Listable)]
    BY <1>2, <1>6
  <2> QED
    BY <2>1, <2>2
<1>11. ASSUME NEW u \in Threads, NEW j \in 1..MaxDirs, <<"dir", j>> \in fileMine'[u]
       PROVE  folders'[j].path \in Folders /\ File!ListedSoFar(j)'
  <2>1. CASE j \in i
    <3>1. listed'[j] = <<>> /\ folders'[j] = opened(j)
      BY <1>2, <2>1
    <3>2. <<>> \o Entries[p] = Entries[p]
      BY <1>5
    <3> QED
      BY <1>7, <3>1, <3>2 DEF File!ListedSoFar
  <2>2. CASE j \notin i
    <3>1. <<"dir", j>> \in fileMine[u]
      BY <1>9, <1>11, <2>2
    <3>2. folders'[j] = folders[j] /\ listed'[j] = listed[j]
      BY <1>2, <2>2
    <3> QED
      BY <1>1, <3>1, <3>2 DEF FolderHandles, File!ListedSoFar
  <2> QED
    BY <2>1, <2>2
<1>12. FolderHandles'
  BY <1>10, <1>11 DEF FolderHandles, AFolder
<1>13. FileTypes' /\ JniHandles' /\ AssetHandles' /\ Parked' /\ InHand'
  BY <1>2, <1>9, SameFiles
<1> QED
  BY <1>9, <1>12, <1>13 DEF FilesInv

LEMMA NextEntryStep ==
  ASSUME FilesInv, NEW t \in Threads, NEW i \in 1..MaxDirs, File!NextEntry(t, i)
  PROVE  FilesInv'
<1>1. FolderHandles /\ Owners
  BY DEF FilesInv
<1>2. /\ <<"dir", i>> \in fileMine[t]
      /\ UNCHANGED <<files, pool, poolPath, poolSize, assets, filePc, fileMine, fileView>>
  BY DEF File!NextEntry, File!jni, File!asset
<1>3. FileTypes' /\ JniHandles' /\ AssetHandles' /\ Parked' /\ InHand' /\ Owners'
  BY <1>1, <1>2, SameFiles DEF Owners
<1>4. CASE UNCHANGED <<folders, listed>>
  BY <1>1, <1>2, <1>3, <1>4, SameFolders DEF FilesInv
<1>5. CASE folders[i].left # <<>>
  <2> DEFINE left == folders[i].left
             moved == [folders[i] EXCEPT !.left = Tail(left), !.current = Head(left),
                                         !.isDir = Head(left) \in Folders]
             given == Append(listed[i], Head(left))
  <2>1. folders' = [folders EXCEPT ![i] = moved] /\ listed' = [listed EXCEPT ![i] = given]
    BY <1>5 DEF File!NextEntry
  <2>2. folders \in [1..MaxDirs -> AFolder] /\ listed \in [1..MaxDirs -> Seq(Listable)]
    BY <1>1 DEF FolderHandles, AFolder
  <2>3. /\ left \in Seq(Listable) /\ left # <<>> /\ listed[i] \in Seq(Listable)
        /\ folders[i] \in AFolder
    BY <1>5, <2>2 DEF AFolder
  <2> HIDE DEF left
  <2>4. /\ given \in Seq(Listable) /\ Tail(left) \in Seq(Listable) /\ Head(left) \in Listable
        /\ given # <<>> /\ given[Len(given)] = Head(left)
        /\ given \o Tail(left) = listed[i] \o left
    BY <2>3, Passed, SMTT(30)
  <2>5. /\ moved \in AFolder /\ moved.path = folders[i].path /\ moved.left = Tail(left)
        /\ moved.current = Head(left) /\ moved.isDir = (Head(left) \in Folders)
    <3>1. moved = [folders[i] EXCEPT !.left = Tail(left), !.current = Head(left),
                                     !.isDir = Head(left) \in Folders]
      BY DEF left
    <3>2. (Head(left) \in Folders) \in BOOLEAN /\ Head(left) \in Listable \cup {"none"}
      BY <2>4
    <3> HIDE DEF moved
    <3> QED
      BY <2>3, <2>4, <3>1, <3>2, FolderMoved DEF AFolder, left
  <2>6. folders[i].path \in Folders /\ listed[i] \o left = Entries[folders[i].path]
    BY <1>1, <1>2 DEF FolderHandles, File!ListedSoFar, left
  <2> HIDE DEF moved, given
  <2>7. folders' \in [1..MaxDirs -> AFolder] /\ listed' \in [1..MaxDirs -> Seq(Listable)]
    BY <2>1, <2>2, <2>4, <2>5
  <2>8. ASSUME NEW u \in Threads, NEW j \in 1..MaxDirs, <<"dir", j>> \in fileMine[u]
        PROVE  folders'[j].path \in Folders /\ File!ListedSoFar(j)'
    <3>1. CASE j = i
      <4>1. folders'[j] = moved /\ listed'[j] = given
        BY <2>1, <2>2, <3>1
      <4> QED
        BY <2>4, <2>5, <2>6, <4>1 DEF File!ListedSoFar
    <3>2. CASE j # i
      <4>1. folders'[j] = folders[j] /\ listed'[j] = listed[j]
        BY <2>1, <2>2, <3>2
      <4> QED
        BY <1>1, <2>8, <4>1 DEF FolderHandles, File!ListedSoFar
    <3> QED
      BY <3>1, <3>2
  <2>9. FolderHandles'
    BY <1>2, <2>7, <2>8 DEF FolderHandles, AFolder
  <2> QED
    BY <1>3, <2>9 DEF FilesInv
<1> QED
  BY <1>4, <1>5 DEF File!NextEntry, File!dir

LEMMA CloseDirStep ==
  ASSUME FilesInv, NEW t \in Threads, NEW i \in 1..MaxDirs, File!CloseDir(t, i)
  PROVE  FilesInv'
<1> DEFINE h == <<"dir", i>>
           closed == [folders[i] EXCEPT !.path = "none", !.left = <<>>]
<1>1. FolderHandles /\ Owners
  BY DEF FilesInv
<1>2. /\ h \in fileMine[t] /\ folders' = [folders EXCEPT ![i] = closed]
      /\ fileMine' = [fileMine EXCEPT ![t] = @ \ {h}]
      /\ UNCHANGED <<files, pool, poolPath, poolSize, assets, filePc, fileView, listed>>
  BY DEF File!CloseDir, File!NoPath, File!jni, File!asset
<1>3. Owners' /\ \A u \in Threads : fileMine'[u] \subseteq fileMine[u] /\ h \notin fileMine'[u]
  BY <1>1, <1>2, Lost
<1>4. folders \in [1..MaxDirs -> AFolder] /\ listed \in [1..MaxDirs -> Seq(Listable)]
  BY <1>1 DEF FolderHandles, AFolder
<1>5. closed \in AFolder
  <2>1. closed = [folders[i] EXCEPT !.path = "none", !.left = <<>>]
    OBVIOUS
  <2>2. folders[i] \in AFolder /\ "none" \in Folders \cup {"none"} /\ <<>> \in Seq(Listable)
    BY <1>4
  <2> HIDE DEF closed
  <2> QED
    BY <2>1, <2>2, FolderClosed DEF AFolder
<1> HIDE DEF closed
<1>6. folders' \in [1..MaxDirs -> AFolder]
  BY <1>2, <1>4, <1>5
<1>7. ASSUME NEW u \in Threads, NEW j \in 1..MaxDirs, <<"dir", j>> \in fileMine'[u]
      PROVE  folders'[j].path \in Folders /\ File!ListedSoFar(j)'
  <2>1. j # i /\ <<"dir", j>> \in fileMine[u]
    BY <1>3, <1>7
  <2>2. folders'[j] = folders[j] /\ listed'[j] = listed[j]
    BY <1>2, <1>4, <2>1
  <2> QED
    BY <1>1, <2>1, <2>2 DEF FolderHandles, File!ListedSoFar
<1>8. FolderHandles'
  BY <1>2, <1>4, <1>6, <1>7 DEF FolderHandles, AFolder
<1>9. FileTypes' /\ JniHandles' /\ AssetHandles' /\ Parked' /\ InHand'
  BY <1>2, <1>3, SameFiles
<1> QED
  BY <1>3, <1>8, <1>9 DEF FilesInv

LEMMA FilesInit == File!Init => FilesInv
<1> SUFFICES ASSUME File!Init PROVE FilesInv
  OBVIOUS
<1>1. /\ files = [i \in 1..MaxFiles |-> File!FreeSlot]
      /\ pool = [k \in 1..PoolSize |-> NoFile] /\ poolPath = "none"
      /\ assets = [i \in 1..MaxAssets |-> [file |-> NoFile, mem |-> FALSE]]
      /\ filePc = [t \in Threads |-> File!Idle]
      /\ folders = [i \in 1..MaxDirs |-> File!FreeDir] /\ listed = [i \in 1..MaxDirs |-> <<>>]
      /\ fileMine = [t \in Threads |-> {}] /\ fileView = [h \in File!Handles |-> NoFile]
  BY DEF File!Init, File!Ids, File!Pooled, File!AssetIds, File!NoFile, File!NoPath, NoFile
<1>2. FileTypes
  <2>1. File!FreeSlot \in [file : AFile, size : Int, eof : BOOLEAN, poolable : BOOLEAN]
    BY NoFileThere DEF File!FreeSlot, File!NoFile, File!NoPath, NoFile
  <2> QED
    BY <1>1, <2>1, NoFileThere DEF FileTypes
<1>3. JniHandles /\ AssetHandles /\ Owners
  BY <1>1 DEF JniHandles, AssetHandles, Owners
<1>4. FolderHandles
  <2>1. File!FreeDir \in [path : Folders \cup {"none"}, left : Seq(Listable), current : Listable \cup {"none"}, isDir : BOOLEAN]
    BY DEF File!FreeDir, File!NoPath
  <2> QED
    BY <1>1, <2>1 DEF FolderHandles
<1>5. Parked /\ InHand
  BY <1>1 DEF Parked, InHand
<1> QED
  BY <1>2, <1>3, <1>4, <1>5 DEF FilesInv

LEMMA FilesStuttered == FilesInv /\ UNCHANGED File!vars => FilesInv'
<1> SUFFICES ASSUME FilesInv, UNCHANGED File!vars PROVE FilesInv'
  OBVIOUS
<1>1. FileTypes /\ JniHandles /\ AssetHandles /\ FolderHandles /\ Owners /\ Parked /\ InHand
  BY DEF FilesInv
<1>2. UNCHANGED <<files, pool, poolPath, poolSize, assets, filePc, fileMine, fileView, folders, listed>>
  BY DEF File!vars, File!jni, File!asset, File!dir
<1>3. FileTypes' /\ JniHandles' /\ AssetHandles' /\ Owners'
  BY <1>1, <1>2 DEF FileTypes, JniHandles, AssetHandles, Owners
<1>4. FolderHandles' /\ Parked' /\ InHand'
  BY <1>1, <1>2, SameFolders DEF Parked, InHand
<1> QED
  BY <1>3, <1>4 DEF FilesInv

LEMMA FilesStep == FilesInv /\ [File!Next]_(File!vars) => FilesInv'
<1> SUFFICES ASSUME FilesInv, File!Next PROVE FilesInv'
  BY FilesStuttered
<1>1. PICK t \in Threads : File!Jni(t) \/ File!Asset(t) \/ File!Listing(t)
  BY DEF File!Next
<1>2. CASE File!Jni(t)
  BY <1>2, TakeStep, EnterStep, CloseStep, ReadStep, SeekStep DEF File!Jni, File!Ids, File!Paths
<1>3. CASE File!Asset(t)
  BY <1>3, OpenAssetStep, CloseAssetStep, ReadAssetStep, SeekAssetStep DEF File!Asset, File!AssetIds, File!Paths
<1>4. CASE File!Listing(t)
  BY <1>4, OpenDirStep, NextEntryStep, CloseDirStep DEF File!Listing
<1> QED
  BY <1>1, <1>2, <1>3, <1>4

\* However many files, assets and directories are open in however many threads,
\* and whatever was parked before: a handle reads the file it was opened for from
\* where its owner left it, a directory lists each entry once, and no handle is in
\* two hands.
THEOREM HandlesReadWhatTheyOpened == File!Spec => []HandlesReadTheirFile
<1>1. FilesInv => HandlesReadTheirFile
  <2> SUFFICES ASSUME FilesInv PROVE HandlesReadTheirFile
    OBVIOUS
  <2>1. JniHandles /\ AssetHandles /\ FolderHandles /\ Owners /\ Parked
    BY DEF FilesInv
  <2>2. ASSUME NEW t \in Threads, NEW h \in fileMine[t]
        PROVE  /\ h[1] = "jni" => /\ files[h[2]].file = fileView[h]
                                  /\ files[h[2]].size = Size[fileView[h].path]
               /\ h[1] = "asset" => assets[h[2]].file = fileView[h]
               /\ h[1] = "dir" => File!ListedSoFar(h[2])
    <3>1. h \in Everything
      BY <2>1 DEF Owners
    <3>2. CASE h \in {<<"jni", i>> : i \in 1..MaxFiles}
      BY <2>1, <3>2 DEF JniHandles
    <3>3. CASE h \in {<<"asset", i>> : i \in 1..MaxAssets}
      BY <2>1, <3>3 DEF AssetHandles
    <3>4. CASE h \in {<<"dir", i>> : i \in 1..MaxDirs}
      BY <2>1, <3>4 DEF FolderHandles
    <3> QED
      BY <3>1, <3>2, <3>3, <3>4 DEF Everything
  <2>3. \A t, u \in Threads : t # u => fileMine[t] \cap fileMine[u] = {}
    BY <2>1 DEF Owners
  <2>4. poolPath # "none" => \A k \in 1..PoolSize : pool[k] # NoFile => pool[k].path = poolPath
    BY <2>1, FileAssumption DEF Parked, FilesInv, FileTypes
  <2> QED
    BY <2>2, <2>3, <2>4
    DEF HandlesReadTheirFile, File!HandlesReadTheirFile, File!NoPath, File!NoFile, NoFile, File!Pooled
<1>2. File!Spec => []FilesInv
  BY FilesInit, FilesStep, PTL DEF File!Spec
<1> QED
  BY <1>1, <1>2, PTL

----------------------------------------------------------------------------
(* Deferred.  Numbers that go round in the queue are less than twice its   *)
(* places, so that their remainder is one of two.                          *)

LEMMA Wraps ==
  ASSUME NEW n \in Nat \ {0}, NEW x \in 0..(2 * n - 1)
  PROVE  x % n = IF x < n THEN x ELSE x - n
<1>1. x % n \in 0..(n - 1) /\ x = n * (x \div n) + (x % n) /\ x \div n \in Int
  OBVIOUS
<1>2. PICK d \in Int : d = x \div n
  BY <1>1
<1>3. PICK m \in 0..(n - 1) : m = x % n
  BY <1>1
<1>4. x = n * d + m
  BY <1>1, <1>2, <1>3
<1>5. d = 0 \/ d = 1
  <2>1. d < 0 => FALSE
    <3>1. SUFFICES ASSUME d < 0 PROVE FALSE  OBVIOUS
    <3>2. n * d <= n * (-1)
      BY <3>1
    <3>3. QED BY <3>2, <1>4
  <2>2. d > 1 => FALSE
    <3>1. SUFFICES ASSUME d > 1 PROVE FALSE  OBVIOUS
    <3>2. n * d >= n * 2
      BY <3>1
    <3>3. QED BY <3>2, <1>4
  <2>3. QED BY <2>1, <2>2
<1>6. QED
  BY <1>3, <1>4, <1>5

\* How many wait, from the two ends of the queue; and its places.
LEMMA HowMany ==
  ASSUME NEW n \in Nat \ {0}, NEW h \in 0..(n - 1), NEW t \in 0..(n - 1)
  PROVE  (h + n - t) % n = IF h >= t THEN h - t ELSE h + n - t
<1>1. h + n - t \in 0..(2 * n - 1)
  OBVIOUS
<1>2. (h + n - t) % n = IF h + n - t < n THEN h + n - t ELSE (h + n - t) - n
  BY <1>1, Wraps
<1>3. QED
  BY <1>2

LEMMA After ==
  ASSUME NEW n \in Nat \ {0}, NEW t \in 0..(n - 1), NEW k \in 0..n
  PROVE  (t + k) % n = IF t + k < n THEN t + k ELSE t + k - n
<1>1. PICK x \in 0..(2 * n - 1) : x = t + k
  OBVIOUS
<1>2. x % n = IF x < n THEN x ELSE x - n
  BY Wraps
<1>3. QED
  BY <1>1, <1>2

\* A queue with room takes one more, at its head.
RoomAt(n, h, t, w, g) ==
  /\ w \in 0..(n - 1) /\ g \in 0..(n - 1)
  /\ g = t => w = n - 1
  /\ g # t => (g + n - t) % n = w + 1
  /\ (t + w) % n = h
  /\ \A k \in 1..w : (t + (k - 1)) % n \in 0..(n - 1) /\ (t + (k - 1)) % n # h

LEMMA OneMore ==
  ASSUME NEW n \in Nat \ {0}, NEW h \in 0..(n - 1), NEW t \in 0..(n - 1),
         NEW w, w = (h + n - t) % n, NEW g, g = (h + 1) % n
  PROVE  RoomAt(n, h, t, w, g)
<1>1. w \in Int /\ w = IF h >= t THEN h - t ELSE h + n - t
  BY HowMany
<1>2. g \in Int /\ g = IF h + 1 < n THEN h + 1 ELSE 0
  <2>1. \A k \in 0..n : (h + k) % n = IF h + k < n THEN h + k ELSE h + k - n
    BY After
  <2>2. QED BY <2>1
<1>3. w \in 0..(n - 1) /\ g \in 0..(n - 1)
  BY <1>1, <1>2
<1>4. g = t => w = n - 1
  BY <1>1, <1>2
<1>5. g # t => (g + n - t) % n = w + 1
  <2>1. (g + n - t) % n = IF g >= t THEN g - t ELSE g + n - t
    BY <1>3, HowMany
  <2>2. QED BY <2>1, <1>1, <1>2
<1>6. (t + w) % n = h
  <2>1. \A k \in 0..n : (t + k) % n = IF t + k < n THEN t + k ELSE t + k - n
    BY After
  <2>2. QED BY <2>1, <1>1, <1>3
<1>7. ASSUME NEW k \in 1..w
      PROVE  (t + (k - 1)) % n \in 0..(n - 1) /\ (t + (k - 1)) % n # h
  <2>1. k - 1 \in 0..n
    BY <1>3
  <2>2. (t + (k - 1)) % n = IF t + (k - 1) < n THEN t + (k - 1) ELSE t + (k - 1) - n
    BY <2>1, After
  <2>3. QED BY <2>2, <1>1, <1>3
<1>8. QED
  BY <1>3, <1>4, <1>5, <1>6, <1>7 DEF RoomAt

\* A queue that is not empty gives the one at its tail.
NextAt(n, h, t, w, u) ==
  /\ w \in 0..(n - 1) /\ u \in 0..(n - 1)
  /\ (h = t) = (w = 0)
  /\ h # t => (h + n - u) % n = w - 1
  /\ (t + 0) % n = t
  /\ \A k \in 1..(w - 1) : (u + (k - 1)) % n = (t + ((k + 1) - 1)) % n

LEMMA OneLess ==
  ASSUME NEW n \in Nat \ {0}, NEW h \in 0..(n - 1), NEW t \in 0..(n - 1),
         NEW w, w = (h + n - t) % n, NEW u, u = (t + 1) % n
  PROVE  NextAt(n, h, t, w, u)
<1>1. w \in Int /\ w = IF h >= t THEN h - t ELSE h + n - t
  BY HowMany
<1>2. u \in Int /\ u = IF t + 1 < n THEN t + 1 ELSE 0
  <2>1. \A k \in 0..n : (t + k) % n = IF t + k < n THEN t + k ELSE t + k - n
    BY After
  <2>2. QED BY <2>1
<1>3. w \in 0..(n - 1) /\ u \in 0..(n - 1)
  BY <1>1, <1>2
<1>4. (h = t) = (w = 0)
  BY <1>1
<1>5. h # t => (h + n - u) % n = w - 1
  <2>1. (h + n - u) % n = IF h >= u THEN h - u ELSE h + n - u
    BY <1>3, HowMany
  <2>2. QED BY <2>1, <1>1, <1>2
<1>6. (t + 0) % n = t
  <2>1. \A k \in 0..n : (t + k) % n = IF t + k < n THEN t + k ELSE t + k - n
    BY After
  <2>2. QED BY <2>1
<1>7. ASSUME NEW k \in 1..(w - 1)
      PROVE  (u + (k - 1)) % n = (t + ((k + 1) - 1)) % n
  <2>1. k - 1 \in 0..n /\ k \in 0..n /\ (k + 1) - 1 = k
    BY <1>3
  <2>2. (u + (k - 1)) % n = IF u + (k - 1) < n THEN u + (k - 1) ELSE u + (k - 1) - n
    BY <2>1, <1>3, After
  <2>3. (t + k) % n = IF t + k < n THEN t + k ELSE t + k - n
    BY <2>1, After
  <2>4. (u + (k - 1)) % n = (t + k) % n
    BY <2>1, <2>2, <2>3, <1>2, <1>3
  <2>5. QED BY <2>1, <2>4
<1>8. QED
  BY <1>3, <1>4, <1>5, <1>6, <1>7 DEF NextAt

ADialog == [id : Nat, kind : Kinds \cup {"none"}]
GamePlaces == {"top", "drain", "answer", "tick", "expired", "step"}

LaterTypes ==
  /\ dialogQ \in [0..(DialogSlots - 1) -> ADialog]
  /\ dialogHead \in 0..(DialogSlots - 1) /\ dialogTail \in 0..(DialogSlots - 1)
  /\ asked \in Seq(ADialog) /\ answered \in Seq(ADialog) /\ turnedAway \in Nat
  /\ gameThread \in [at : GamePlaces, dialog : ADialog, started : BOOLEAN]
  /\ mainThread \in {"loop", "stopping"} /\ focused \in BOOLEAN
  /\ vibReady \in BOOLEAN /\ motor \in BOOLEAN /\ crossed \in BOOLEAN
  /\ stopTick \in Nat /\ tick \in Nat \ {0}

\* How many dialogs wait, and how many are through.
W == Later!Waiting
Through == Len(asked) - W - (IF gameThread.at = "answer" THEN 1 ELSE 0)

\* The queue is the end of what was asked, and the dialog that is being answered
\* is the one before it; of those before that, the ones that have a callback
\* were answered, in order.
DialogsInv ==
  /\ Later!InOrder(asked)
  /\ \A i \in 1..Len(asked) : asked[i].id <= Len(asked) + turnedAway
  /\ Through >= 0
  /\ \A k \in 1..W : dialogQ[(dialogTail + (k - 1)) % DialogSlots] = asked[Len(asked) - W + k]
  /\ gameThread.at = "answer" => gameThread.dialog = asked[Len(asked) - W]
  /\ \A i \in 1..Len(answered) :
       \E j \in 1..Through : answered[i] = asked[j] /\ asked[j].kind \in Callbacks
  /\ \A j \in 1..Through : asked[j].kind \in Callbacks =>
       \E i \in 1..Len(answered) : answered[i] = asked[j]
  /\ Later!InOrder(answered)
  /\ turnedAway > 0 => Len(asked) >= DialogSlots - 1

\* Motors that run, and were not started in the middle of a stop, are about to
\* be given the time at which they stop, or have it and nobody is forgetting it.
MotorsInv ==
  /\ gameThread.started => gameThread.at \in {"step", "answer"}
  /\ motor => crossed \/ /\ vibReady /\ mainThread = "loop"
                         /\ gameThread.at # "expired"
                         /\ gameThread.started \/ stopTick # 0

LaterInv == LaterTypes /\ DialogsInv /\ MotorsInv

LEMMA WaitingIs ==
  ASSUME LaterTypes
  PROVE  /\ W = (dialogHead + DialogSlots - dialogTail) % DialogSlots
         /\ W \in 0..(DialogSlots - 1)
<1>1. W = (dialogHead + DialogSlots - dialogTail) % DialogSlots
  BY DEF W, Later!Waiting
<1>2. QED
  <2>1. PICK g : g = (dialogHead + 1) % DialogSlots
    OBVIOUS
  <2>2. RoomAt(DialogSlots, dialogHead, dialogTail, W, g)
    BY <1>1, <2>1, OneMore, LaterAssumption DEF LaterTypes
  <2>3. QED BY <1>1, <2>2 DEF RoomAt

LEMMA DialogsKept ==
  ASSUME LaterTypes, DialogsInv,
         UNCHANGED <<dialogQ, dialogHead, dialogTail, asked, answered, turnedAway>>,
         (gameThread.at = "answer") = (gameThread'.at = "answer"),
         gameThread.at = "answer" => gameThread'.dialog = gameThread.dialog
  PROVE  DialogsInv'
<1>1. W' = W
  BY DEF W, Later!Waiting
<1>2. Through' = Through
  BY <1>1 DEF Through
<1>3. Later!InOrder(asked)' /\ Later!InOrder(answered)'
  BY DEF Later!InOrder, DialogsInv
<1>4. QED
  BY <1>1, <1>2, <1>3 DEF DialogsInv

LEMMA LaterInit == Later!Init => LaterInv
<1>1. SUFFICES ASSUME Later!Init PROVE LaterInv
  OBVIOUS
<1>2. LaterTypes
  <2>1. Later!NoDialog \in ADialog
    BY DEF Later!NoDialog, ADialog
  <2>2. dialogQ \in [0..(DialogSlots - 1) -> ADialog]
    BY <1>1, <2>1 DEF Later!Init, Later!Places
  <2>3. 0 \in 0..(DialogSlots - 1)
    BY LaterAssumption
  <2>4. asked \in Seq(ADialog) /\ answered \in Seq(ADialog)
    BY <1>1 DEF Later!Init
  <2>5. gameThread \in [at : GamePlaces, dialog : ADialog, started : BOOLEAN]
    BY <1>1, <2>1 DEF Later!Init, GamePlaces
  <2>6. /\ dialogHead = 0 /\ dialogTail = 0 /\ turnedAway = 0
        /\ mainThread = "loop" /\ stopTick = 0 /\ tick = 1
    BY <1>1 DEF Later!Init
  <2>7. focused \in BOOLEAN /\ vibReady \in BOOLEAN /\ motor \in BOOLEAN /\ crossed \in BOOLEAN
    BY <1>1 DEF Later!Init
  <2>8. /\ dialogHead \in 0..(DialogSlots - 1) /\ dialogTail \in 0..(DialogSlots - 1)
        /\ turnedAway \in Nat /\ mainThread \in {"loop", "stopping"}
        /\ stopTick \in Nat /\ tick \in Nat \ {0}
    BY <2>3, <2>6
  <2>9. QED
    BY <2>2, <2>4, <2>5, <2>7, <2>8 DEF LaterTypes
<1>3. W = 0
  <2>1. dialogHead = 0 /\ dialogTail = 0
    BY <1>1 DEF Later!Init
  <2>2. (0 + DialogSlots - 0) % DialogSlots = 0
    <3>1. \A h, t \in 0..(DialogSlots - 1) :
            (h + DialogSlots - t) % DialogSlots = IF h >= t THEN h - t ELSE h + DialogSlots - t
      BY HowMany, LaterAssumption
    <3>2. QED BY <3>1, LaterAssumption
  <2>3. QED BY <2>1, <2>2, <1>2, WaitingIs
<1>4. asked = <<>> /\ answered = <<>> /\ turnedAway = 0 /\ gameThread.at = "top"
      /\ Len(asked) = 0 /\ Len(answered) = 0
  BY <1>1 DEF Later!Init
<1>5. Through = 0
  BY <1>3, <1>4 DEF Through
<1>6. Later!InOrder(asked) /\ Later!InOrder(answered)
  BY <1>4 DEF Later!InOrder
<1>7. DialogsInv
  BY <1>3, <1>4, <1>5, <1>6 DEF DialogsInv
<1>8. MotorsInv
  BY <1>1 DEF Later!Init, MotorsInv
<1>9. QED
  BY <1>2, <1>7, <1>8 DEF LaterInv

\* A queue with room takes the dialog behind all that were asked for.
LEMMA DialogTaken ==
  ASSUME LaterInv, NEW d \in ADialog, d.id = Len(asked) + turnedAway + 1,
         (dialogHead + 1) % DialogSlots # dialogTail,
         dialogQ' = [dialogQ EXCEPT ![dialogHead] = d],
         dialogHead' = (dialogHead + 1) % DialogSlots, asked' = Append(asked, d),
         UNCHANGED <<dialogTail, answered, turnedAway, gameThread>>
  PROVE  DialogsInv'
<1> USE DEF LaterInv
<1> DEFINE w == W  n == Len(asked)  D == DialogSlots
<1>1. /\ D \in Nat \ {0} /\ n \in Nat /\ w \in 0..(D - 1)
      /\ dialogHead \in 0..(D - 1) /\ dialogTail \in 0..(D - 1)
      /\ asked \in Seq(ADialog) /\ turnedAway \in Nat
  BY LaterAssumption, WaitingIs DEF LaterTypes
<1>2. /\ w = (dialogHead + D - dialogTail) % D
      /\ W' = w + 1
      /\ (dialogTail + w) % D = dialogHead
      /\ \A k \in 1..w : /\ (dialogTail + (k - 1)) % D \in 0..(D - 1)
                         /\ (dialogTail + (k - 1)) % D # dialogHead
  <2>1. W' = (dialogHead' + D - dialogTail') % D
    BY DEF W, Later!Waiting
  <2>2. w = (dialogHead + D - dialogTail) % D
    BY WaitingIs
  <2>3. PICK g : g = (dialogHead + 1) % D
    OBVIOUS
  <2>4. W' = (g + D - dialogTail) % D /\ g # dialogTail
    BY <2>1, <2>3
  <2>5. /\ (g + D - dialogTail) % D = w + 1
        /\ (dialogTail + w) % D = dialogHead
        /\ \A k \in 1..w : /\ (dialogTail + (k - 1)) % D \in 0..(D - 1)
                           /\ (dialogTail + (k - 1)) % D # dialogHead
    <3> HIDE DEF w, D
    <3>1. RoomAt(D, dialogHead, dialogTail, w, g)
      BY <1>1, <2>2, <2>3, OneMore
    <3>2. QED BY <2>4, <3>1 DEF RoomAt
  <2>6. QED BY <2>2, <2>4, <2>5
<1>3. /\ Len(asked') = n + 1 /\ asked'[n + 1] = d
      /\ \A i \in 1..n : asked'[i] = asked[i]
      /\ DOMAIN asked = 1..n /\ DOMAIN asked' = 1..(n + 1)
  BY <1>1
<1>4. Through' = Through /\ Through \in Nat /\ Through <= n - w
  <2>1. Through' = Len(asked') - W' - (IF gameThread.at = "answer" THEN 1 ELSE 0)
    BY DEF Through
  <2>2. Through = n - w - (IF gameThread.at = "answer" THEN 1 ELSE 0)
    BY DEF Through
  <2>3. QED BY <1>1, <1>2, <1>3, <2>1, <2>2 DEF DialogsInv
<1> HIDE DEF w, n, D
<1>5. \A i \in 1..n : asked[i].id <= n + turnedAway /\ asked[i].id \in Nat
  <2>1. SUFFICES ASSUME NEW i \in 1..n
                 PROVE  asked[i].id <= n + turnedAway /\ asked[i].id \in Nat
    OBVIOUS
  <2>2. asked[i] \in ADialog
    BY <1>1 DEF n
  <2>3. QED BY <2>2 DEF DialogsInv, n, ADialog
<1>6. Later!InOrder(asked)'
  <2>1. \A i, j \in 1..n : i < j => asked[i].id < asked[j].id
    BY <1>3 DEF DialogsInv, Later!InOrder
  <2>2. SUFFICES ASSUME NEW i \in 1..(n + 1), NEW j \in 1..(n + 1), i < j
                 PROVE  asked'[i].id < asked'[j].id
    BY <1>3 DEF Later!InOrder
  <2>3. CASE j = n + 1
    <3>1. asked'[i] = asked[i] /\ asked'[j] = d /\ i \in 1..n
      BY <1>1, <1>3, <2>2, <2>3
    <3>2. d.id = n + turnedAway + 1
      BY DEF n
    <3>3. QED BY <1>1, <1>5, <3>1, <3>2
  <2>4. CASE j # n + 1
    <3>1. i \in 1..n /\ j \in 1..n
      BY <1>1, <2>2, <2>4
    <3>2. QED BY <1>3, <2>1, <2>2, <3>1
  <2>5. QED BY <2>3, <2>4
<1>7. \A i \in 1..(n + 1) : asked'[i].id <= n + 1 + turnedAway
  <2>1. d.id = n + turnedAway + 1
    BY DEF n
  <2>2. SUFFICES ASSUME NEW i \in 1..(n + 1) PROVE asked'[i].id <= n + 1 + turnedAway
    OBVIOUS
  <2>3. CASE i = n + 1
    BY <1>1, <1>3, <2>1, <2>3
  <2>4. CASE i # n + 1
    <3>1. i \in 1..n
      BY <1>1, <2>4
    <3>2. asked'[i] = asked[i] /\ asked[i].id <= n + turnedAway /\ asked[i].id \in Nat
      BY <1>3, <1>5, <3>1
    <3>3. QED BY <1>1, <3>2, SMTT(30)
  <2>5. QED BY <2>3, <2>4
<1>8. ASSUME NEW k \in 1..(w + 1)
      PROVE  dialogQ'[(dialogTail + (k - 1)) % D] = asked'[(n + 1) - (w + 1) + k]
  <2>1. CASE k = w + 1
    <3>1. (dialogTail + (k - 1)) % D = dialogHead
      <4>1. k - 1 = w
        BY <1>1, <2>1
      <4>2. QED BY <4>1, <1>2
    <3>2. (n + 1) - (w + 1) + k = n + 1
      BY <1>1, <2>1
    <3>3. dialogQ'[dialogHead] = d
      BY DEF LaterTypes
    <3>4. QED BY <3>1, <3>2, <3>3, <1>3
  <2>2. CASE k # w + 1
    <3>1. k \in 1..w
      BY <1>1, <2>2
    <3>2. PICK p \in 0..(D - 1) : p = (dialogTail + (k - 1)) % D /\ p # dialogHead
      BY <1>2, <3>1
    <3>3. dialogQ'[p] = dialogQ[p]
      BY <3>2 DEF LaterTypes, D
    <3>4. dialogQ[p] = asked[n - w + k]
      BY <3>1, <3>2 DEF DialogsInv, n, w, D
    <3>5. n - w + k \in 1..n /\ (n + 1) - (w + 1) + k = n - w + k
      BY <1>1, <1>4, <3>1
    <3>6. QED BY <1>3, <3>2, <3>3, <3>4, <3>5
  <2>3. QED BY <2>1, <2>2
<1>9. gameThread.at = "answer" => gameThread.dialog = asked'[(n + 1) - (w + 1)]
  <2>1. SUFFICES ASSUME gameThread.at = "answer"
                 PROVE  gameThread.dialog = asked'[(n + 1) - (w + 1)]
    OBVIOUS
  <2>2. gameThread.dialog = asked[n - w]
    BY <2>1 DEF DialogsInv, n, w
  <2>3. Through = n - w - 1
    BY <2>1 DEF Through, n, w
  <2>4. n - w \in 1..n /\ (n + 1) - (w + 1) = n - w
    BY <1>1, <1>4, <2>3
  <2>5. QED BY <1>3, <2>2, <2>4
<1>10. \A j \in 1..Through : asked'[j] = asked[j]
  BY <1>1, <1>3, <1>4
<1>11. /\ \A i \in 1..Len(answered) :
            \E j \in 1..Through : answered[i] = asked'[j] /\ asked'[j].kind \in Callbacks
       /\ \A j \in 1..Through : asked'[j].kind \in Callbacks =>
            \E i \in 1..Len(answered) : answered[i] = asked'[j]
  <2>1. /\ \A i \in 1..Len(answered) :
             \E j \in 1..Through : answered[i] = asked[j] /\ asked[j].kind \in Callbacks
        /\ \A j \in 1..Through : asked[j].kind \in Callbacks =>
             \E i \in 1..Len(answered) : answered[i] = asked[j]
    BY DEF DialogsInv
  <2>2. ASSUME NEW i \in 1..Len(answered)
        PROVE  \E j \in 1..Through : answered[i] = asked'[j] /\ asked'[j].kind \in Callbacks
    <3>1. PICK j \in 1..Through : answered[i] = asked[j] /\ asked[j].kind \in Callbacks
      BY <2>1
    <3>2. QED BY <1>10, <3>1
  <2>3. ASSUME NEW j \in 1..Through, asked'[j].kind \in Callbacks
        PROVE  \E i \in 1..Len(answered) : answered[i] = asked'[j]
    <3>1. asked'[j] = asked[j]
      BY <1>10
    <3>2. QED BY <2>1, <2>3, <3>1
  <2>4. QED BY <2>2, <2>3
<1>12. Later!InOrder(answered)'
  BY DEF DialogsInv, Later!InOrder
<1>13. turnedAway > 0 => n + 1 >= D - 1
  BY <1>1 DEF DialogsInv, n, D
<1>14. \A i \in 1..Len(asked') : asked'[i].id <= Len(asked') + turnedAway'
  BY <1>3, <1>7
<1>15. \A k \in 1..W' : dialogQ'[(dialogTail' + (k - 1)) % D] = asked'[Len(asked') - W' + k]
  BY <1>2, <1>3, <1>8
<1>16. gameThread'.at = "answer" => gameThread'.dialog = asked'[Len(asked') - W']
  BY <1>2, <1>3, <1>9
<1>17. Through' >= 0
  BY <1>4
<1>18. QED
  BY <1>3, <1>4, <1>6, <1>11, <1>12, <1>13, <1>14, <1>15, <1>16, <1>17 DEF DialogsInv, D

LEMMA PostStep ==
  ASSUME LaterInv, NEW kind \in Kinds, Later!Post(kind)
  PROVE  LaterInv'
<1> DEFINE d == [id |-> Len(asked) + turnedAway + 1, kind |-> kind]
           g == (dialogHead + 1) % DialogSlots
<1>1. /\ UNCHANGED <<dialogTail, answered, vibReady, motor, stopTick, crossed, tick,
                    gameThread, mainThread, focused>>
      /\ \/ /\ g # dialogTail /\ dialogQ' = [dialogQ EXCEPT ![dialogHead] = d]
            /\ dialogHead' = g /\ asked' = Append(asked, d) /\ UNCHANGED turnedAway
         \/ /\ g = dialogTail /\ turnedAway' = turnedAway + 1
            /\ UNCHANGED <<dialogQ, dialogHead, asked>>
  BY DEF Later!Post, Later!rumble
<1>2. LaterTypes /\ DialogsInv /\ MotorsInv
  BY DEF LaterInv
<1>3. Len(asked) \in Nat /\ turnedAway \in Nat /\ d \in ADialog
  BY <1>2 DEF LaterTypes, ADialog
<1>4. MotorsInv'
  BY <1>1, <1>2 DEF MotorsInv
<1>5. CASE g # dialogTail
  <2>1. DialogsInv'
    BY <1>1, <1>3, <1>5, DialogTaken
  <2>2. g \in 0..(DialogSlots - 1)
    <3>1. RoomAt(DialogSlots, dialogHead, dialogTail, W, g)
      BY <1>2, WaitingIs, OneMore, LaterAssumption DEF LaterTypes
    <3>2. QED BY <3>1 DEF RoomAt
  <2>3. LaterTypes'
    <3> HIDE DEF d, g
    <3>1. dialogQ' \in [0..(DialogSlots - 1) -> ADialog] /\ asked' \in Seq(ADialog)
      BY <1>1, <1>2, <1>3, <1>5, SMTT(30) DEF LaterTypes
    <3>2. QED BY <1>1, <1>2, <1>5, <2>2, <3>1 DEF LaterTypes
  <2>4. QED BY <2>1, <2>3, <1>4 DEF LaterInv
<1>6. CASE g = dialogTail
  <2>1. LaterTypes'
    BY <1>1, <1>2, <1>6 DEF LaterTypes
  <2>2. W = DialogSlots - 1
    <3>1. /\ dialogHead \in 0..(DialogSlots - 1) /\ dialogTail \in 0..(DialogSlots - 1)
          /\ W = (dialogHead + DialogSlots - dialogTail) % DialogSlots
      BY <1>2, WaitingIs DEF LaterTypes
    <3>2. RoomAt(DialogSlots, dialogHead, dialogTail, W, dialogTail)
      BY <1>6, <3>1, OneMore, LaterAssumption
    <3>3. QED BY <3>2 DEF RoomAt
  <2>3. Len(asked) >= DialogSlots - 1
    BY <1>2, <1>3, <2>2, LaterAssumption DEF DialogsInv, Through
  <2>4. W' = W
    BY <1>1, <1>6 DEF W, Later!Waiting
  <2>5. Through' = Through
    BY <1>1, <1>6, <2>4 DEF Through
  <2>6. Later!InOrder(asked)' /\ Later!InOrder(answered)'
    BY <1>1, <1>2, <1>6 DEF Later!InOrder, DialogsInv
  <2>7. \A i \in 1..Len(asked') : asked'[i].id <= Len(asked') + turnedAway'
    <3>1. \A i \in 1..Len(asked) : asked[i].id <= Len(asked) + turnedAway /\ asked[i].id \in Nat
      <4>1. SUFFICES ASSUME NEW i \in 1..Len(asked)
                     PROVE  asked[i].id <= Len(asked) + turnedAway /\ asked[i].id \in Nat
        OBVIOUS
      <4>2. asked[i] \in ADialog
        BY <1>2 DEF LaterTypes
      <4>3. QED BY <1>2, <4>2 DEF DialogsInv, ADialog
    <3>2. \A i \in 1..Len(asked) : asked[i].id <= Len(asked) + (turnedAway + 1)
      BY <1>3, <3>1
    <3>3. QED BY <1>1, <1>6, <3>2
  <2>8. DialogsInv'
    BY <1>1, <1>2, <1>6, <2>3, <2>4, <2>5, <2>6, <2>7 DEF DialogsInv
  <2>9. QED BY <2>1, <2>8, <1>4 DEF LaterInv
<1>7. QED
  BY <1>5, <1>6

LEMMA DrainStep ==
  ASSUME LaterInv, Later!Drain
  PROVE  LaterInv'
<1> DEFINE D == DialogSlots  n == Len(asked)  w == W
<1>1. /\ gameThread.at = "drain" /\ ~gameThread.started
      /\ UNCHANGED <<dialogQ, dialogHead, asked, answered, turnedAway, vibReady, motor,
                    stopTick, crossed, tick, mainThread, focused>>
      /\ \/ /\ dialogTail # dialogHead /\ dialogTail' = (dialogTail + 1) % D
            /\ gameThread' = [gameThread EXCEPT !.at = "answer", !.dialog = dialogQ[dialogTail]]
         \/ /\ dialogTail = dialogHead /\ UNCHANGED dialogTail
            /\ gameThread' = [at |-> "tick", dialog |-> Later!NoDialog, started |-> FALSE]
  BY DEF Later!Drain, Later!At, Later!GoTo, Later!rumble
<1>2. LaterTypes /\ DialogsInv /\ MotorsInv
  BY DEF LaterInv
<1>3. Later!NoDialog \in ADialog
  BY DEF Later!NoDialog, ADialog
<1>4. /\ gameThread.dialog \in ADialog /\ dialogQ[dialogTail] \in ADialog
      /\ gameThread \in [at : GamePlaces, dialog : ADialog, started : BOOLEAN]
  BY <1>2 DEF LaterTypes
<1>5. CASE dialogTail = dialogHead
  <2>1. gameThread'.at = "tick" /\ gameThread'.started = FALSE
        /\ gameThread' \in [at : GamePlaces, dialog : ADialog, started : BOOLEAN]
        /\ dialogTail' = dialogTail
    <3>1. gameThread' = [at |-> "tick", dialog |-> Later!NoDialog, started |-> FALSE]
          /\ dialogTail' = dialogTail
      BY <1>1, <1>5
    <3>2. QED BY <1>3, <3>1 DEF GamePlaces
  <2>2. DialogsInv'
    BY <1>1, <1>2, <2>1, DialogsKept
  <2>3. LaterTypes'
    BY <1>1, <1>2, <2>1 DEF LaterTypes
  <2>4. MotorsInv'
    BY <1>1, <1>2, <2>1 DEF MotorsInv
  <2>5. QED BY <2>2, <2>3, <2>4 DEF LaterInv
<1>6. CASE dialogTail # dialogHead
  <2>1. /\ gameThread'.at = "answer" /\ gameThread'.dialog = dialogQ[dialogTail]
        /\ gameThread'.started = FALSE
        /\ gameThread' \in [at : GamePlaces, dialog : ADialog, started : BOOLEAN]
    BY <1>1, <1>4, <1>6 DEF GamePlaces
  <2>2. PICK u : u = (dialogTail + 1) % D /\ dialogTail' = u
    BY <1>1, <1>6
  <2>3. /\ D \in Nat \ {0} /\ n \in Nat
        /\ dialogHead \in 0..(D - 1) /\ dialogTail \in 0..(D - 1)
        /\ w = (dialogHead + D - dialogTail) % D
    BY <1>2, LaterAssumption, WaitingIs DEF LaterTypes
  <2>4. NextAt(D, dialogHead, dialogTail, w, u)
    <3> HIDE DEF w, D
    <3>1. QED BY <2>2, <2>3, OneLess
  <2>5. W' = (dialogHead + D - u) % D
    BY <1>1, <2>2 DEF W, Later!Waiting
  <2>6. W' = w - 1 /\ w \in 1..(D - 1) /\ u \in 0..(D - 1)
    <3>1. /\ w \in 0..(D - 1) /\ u \in 0..(D - 1) /\ (dialogHead = dialogTail) = (w = 0)
          /\ dialogHead # dialogTail => (dialogHead + D - u) % D = w - 1
      BY <2>4 DEF NextAt
    <3>2. w # 0 /\ W' = w - 1
      BY <1>6, <3>1, <2>5
    <3>3. QED BY <3>1, <3>2, <2>3
  <2>7. Through = n - w /\ Through' = n - w
    <3>1. Through = n - w - 0
      BY <1>1 DEF Through
    <3>2. Through' = n - W' - 1
      BY <1>1, <2>1 DEF Through
    <3> HIDE DEF w, n
    <3>3. QED BY <3>1, <3>2, <2>3, <2>6
  <2>8. ASSUME NEW k \in 1..(w - 1)
        PROVE  dialogQ[(u + (k - 1)) % D] = asked[n - (w - 1) + k]
    <3>1. (u + (k - 1)) % D = (dialogTail + ((k + 1) - 1)) % D
      BY <2>4 DEF NextAt
    <3>2. k + 1 \in 1..W
      BY <2>6
    <3>3. dialogQ[(dialogTail + ((k + 1) - 1)) % D] = asked[n - w + (k + 1)]
      BY <1>2, <3>2 DEF DialogsInv
    <3>4. n - w + (k + 1) = n - (w - 1) + k
      <4> HIDE DEF w, n
      <4>1. QED BY <2>3, <2>6
    <3>5. QED BY <3>1, <3>3, <3>4
  <2>9. dialogQ[dialogTail] = asked[n - (w - 1)]
    <3>1. (dialogTail + (1 - 1)) % D = dialogTail
      <4>1. (dialogTail + 0) % D = dialogTail
        BY <2>4 DEF NextAt
      <4>2. 1 - 1 = 0
        OBVIOUS
      <4>3. QED BY <4>1, <4>2
    <3>2. 1 \in 1..W
      BY <2>6
    <3>3. dialogQ[(dialogTail + (1 - 1)) % D] = asked[n - w + 1]
      BY <1>2, <3>2 DEF DialogsInv
    <3>4. n - w + 1 = n - (w - 1)
      <4> HIDE DEF w, n
      <4>1. QED BY <2>3, <2>6
    <3>5. QED BY <3>1, <3>3, <3>4
  <2> HIDE DEF w, n
  <2>10. Later!InOrder(asked)' /\ Later!InOrder(answered)'
    BY <1>1, <1>2 DEF Later!InOrder, DialogsInv
  <2>11. \A k \in 1..W' : dialogQ'[(dialogTail' + (k - 1)) % D] = asked'[Len(asked') - W' + k]
    BY <1>1, <2>2, <2>6, <2>8 DEF n
  <2>12. gameThread'.dialog = asked'[Len(asked') - W']
    BY <1>1, <2>1, <2>6, <2>9 DEF n
  <2>13. Through' = Through
    BY <2>7
  <2>14. DialogsInv'
    BY <1>1, <1>2, <2>10, <2>11, <2>12, <2>13 DEF DialogsInv, D
  <2>15. LaterTypes'
    BY <1>1, <1>2, <2>1, <2>2, <2>6 DEF LaterTypes, D
  <2>16. MotorsInv'
    BY <1>1, <1>2, <2>1 DEF MotorsInv
  <2>17. QED BY <2>14, <2>15, <2>16 DEF LaterInv
<1>7. QED
  BY <1>5, <1>6

LEMMA AnswerStep ==
  ASSUME LaterInv, Later!Answer
  PROVE  LaterInv'
<1> DEFINE d == gameThread.dialog  n == Len(asked)
<1>1. /\ gameThread.at = "answer" /\ ~gameThread.started
      /\ answered' = IF d.kind \in Callbacks THEN Append(answered, d) ELSE answered
      /\ gameThread' = [at |-> "drain", dialog |-> Later!NoDialog, started |-> FALSE]
      /\ UNCHANGED <<dialogQ, dialogHead, dialogTail, asked, turnedAway, vibReady, motor,
                    stopTick, crossed, tick, mainThread, focused>>
  BY DEF Later!Answer, Later!At, Later!GoTo, Later!rumble
<1>2. LaterTypes /\ DialogsInv /\ MotorsInv
  BY DEF LaterInv
<1>3. /\ d \in ADialog /\ n \in Nat /\ answered \in Seq(ADialog) /\ asked \in Seq(ADialog)
      /\ Later!NoDialog \in ADialog /\ W \in Nat /\ Len(answered) \in Nat
      /\ DOMAIN answered = 1..Len(answered)
  <2>1. W \in Nat
    BY <1>2, WaitingIs, LaterAssumption
  <2>2. QED BY <1>2, <2>1 DEF LaterTypes, Later!NoDialog, ADialog
<1>4. /\ gameThread'.at = "drain" /\ gameThread'.started = FALSE
      /\ gameThread' \in [at : GamePlaces, dialog : ADialog, started : BOOLEAN]
  BY <1>1, <1>3 DEF GamePlaces
<1>5. LaterTypes'
  <2>1. answered' \in Seq(ADialog)
    BY <1>1, <1>3
  <2>2. QED BY <1>1, <1>2, <1>4, <2>1 DEF LaterTypes
<1>6. MotorsInv'
  BY <1>1, <1>2, <1>4 DEF MotorsInv
<1>7. W' = W
  BY <1>1 DEF W, Later!Waiting
<1>8. Through' = Through + 1 /\ Through = n - W - 1 /\ Through \in Nat
  <2>1. Through = n - W - 1
    BY <1>1 DEF Through
  <2>2. Through' = n - W - 0
    BY <1>1, <1>4, <1>7 DEF Through
  <2>3. Through >= 0
    BY <1>2 DEF DialogsInv
  <2> HIDE DEF n
  <2>4. QED BY <1>3, <2>1, <2>2, <2>3
<1>9. d = asked[Through + 1] /\ Through + 1 \in 1..n
  <2>1. d = asked[n - W]
    BY <1>1, <1>2 DEF DialogsInv
  <2> HIDE DEF n
  <2>2. n - W = Through + 1 /\ Through + 1 \in 1..n
    BY <1>3, <1>8
  <2>3. QED BY <2>1, <2>2
<1> HIDE DEF d, n
<1>10. /\ \A i \in 1..Len(answered) : answered'[i] = answered[i]
       /\ d.kind \in Callbacks => /\ Len(answered') = Len(answered) + 1
                                  /\ answered'[Len(answered) + 1] = d
       /\ d.kind \notin Callbacks => answered' = answered
  <2>1. answered' = IF d.kind \in Callbacks THEN Append(answered, d) ELSE answered
    BY <1>1 DEF d
  <2>2. CASE d.kind \in Callbacks
    <3>1. answered' = Append(answered, d)
      BY <2>1, <2>2
    <3>2. /\ \A i \in 1..Len(answered) : answered'[i] = answered[i]
          /\ Len(answered') = Len(answered) + 1 /\ answered'[Len(answered) + 1] = d
      BY <1>3, <3>1
    <3>3. QED BY <2>2, <3>2, Zenon
  <2>3. CASE d.kind \notin Callbacks
    <3>1. answered' = answered
      BY <2>1, <2>3
    <3>2. QED BY <2>3, <3>1
  <2>4. QED BY <2>2, <2>3
<1>11. \A i \in 1..Len(answered) : \E j \in 1..Through :
         answered[i] = asked[j] /\ asked[j].kind \in Callbacks
  BY <1>2 DEF DialogsInv
<1>12. ASSUME NEW i \in 1..Len(answered')
       PROVE  \E j \in 1..(Through + 1) : answered'[i] = asked[j] /\ asked[j].kind \in Callbacks
  <2>1. CASE i \in 1..Len(answered)
    <3>1. PICK j \in 1..Through : answered[i] = asked[j] /\ asked[j].kind \in Callbacks
      BY <1>11, <2>1
    <3>2. j \in 1..(Through + 1) /\ answered'[i] = asked[j]
      BY <1>8, <1>10, <2>1, <3>1
    <3>3. QED BY <3>1, <3>2
  <2>2. CASE i \notin 1..Len(answered)
    <3>1. d.kind \in Callbacks
      BY <1>10, <2>2
    <3>2. i = Len(answered) + 1
      BY <1>3, <1>10, <2>2, <3>1
    <3>3. answered'[i] = asked[Through + 1] /\ Through + 1 \in 1..(Through + 1)
      BY <1>8, <1>9, <1>10, <3>1, <3>2
    <3>4. QED BY <1>9, <3>1, <3>3
  <2>3. QED BY <2>1, <2>2
<1>13. ASSUME NEW j \in 1..(Through + 1), asked[j].kind \in Callbacks
       PROVE  \E i \in 1..Len(answered') : answered'[i] = asked[j]
  <2>1. CASE j = Through + 1
    <3>1. d.kind \in Callbacks
      BY <1>9, <1>13, <2>1
    <3>2. Len(answered) + 1 \in 1..Len(answered') /\ answered'[Len(answered) + 1] = asked[j]
      BY <1>3, <1>9, <1>10, <2>1, <3>1
    <3>3. QED BY <3>2
  <2>2. CASE j # Through + 1
    <3>1. j \in 1..Through
      BY <1>8, <2>2
    <3>2. PICK i \in 1..Len(answered) : answered[i] = asked[j]
      BY <1>2, <1>13, <3>1 DEF DialogsInv
    <3>3. i \in 1..Len(answered') /\ answered'[i] = asked[j]
      BY <1>3, <1>10, <3>2
    <3>4. QED BY <3>3
  <2>3. QED BY <2>1, <2>2
<1>14. Later!InOrder(answered)'
  <2>1. \A i, j \in 1..Len(answered) : i < j => answered[i].id < answered[j].id
    BY <1>2, <1>3 DEF DialogsInv, Later!InOrder
  <2>2. CASE d.kind \notin Callbacks
    BY <1>2, <1>10, <2>2 DEF DialogsInv, Later!InOrder
  <2>3. CASE d.kind \in Callbacks
    <3>1. answered' = Append(answered, d) /\ DOMAIN answered' = 1..(Len(answered) + 1)
      BY <1>1, <1>3, <2>3 DEF d
    <3>2. SUFFICES ASSUME NEW i \in 1..(Len(answered) + 1), NEW j \in 1..(Len(answered) + 1),
                          i < j
                   PROVE  answered'[i].id < answered'[j].id
      BY <3>1 DEF Later!InOrder
    <3>3. i \in 1..Len(answered) /\ answered'[i] = answered[i]
      BY <1>3, <1>10, <3>2
    <3>4. CASE j = Len(answered) + 1
      <4>1. PICK k \in 1..Through : answered[i] = asked[k]
        BY <1>11, <3>3
      <4>2. asked[k].id < asked[Through + 1].id
        <5>1. \A a, b \in 1..n : a < b => asked[a].id < asked[b].id
          BY <1>2, <1>3 DEF DialogsInv, Later!InOrder, n
        <5>2. k \in 1..n /\ k < Through + 1
          BY <1>3, <1>8, <1>9
        <5>3. QED BY <1>9, <5>1, <5>2
      <4>3. answered'[j] = d
        BY <1>10, <2>3, <3>4
      <4>4. QED BY <1>9, <3>3, <4>1, <4>2, <4>3
    <3>5. CASE j # Len(answered) + 1
      <4>1. j \in 1..Len(answered) /\ answered'[j] = answered[j]
        BY <1>3, <1>10, <3>2, <3>5
      <4>2. QED BY <2>1, <3>2, <3>3, <4>1
    <3>6. QED BY <3>4, <3>5
  <2>4. QED BY <2>2, <2>3
<1>15. Later!InOrder(asked)'
  BY <1>1, <1>2 DEF Later!InOrder, DialogsInv
<1>16. Through' >= 0
  BY <1>8
<1>17. DialogsInv'
  <2>1. /\ \A i \in 1..Len(answered') : \E j \in 1..Through' :
             answered'[i] = asked'[j] /\ asked'[j].kind \in Callbacks
        /\ \A j \in 1..Through' : asked'[j].kind \in Callbacks =>
             \E i \in 1..Len(answered') : answered'[i] = asked'[j]
    <3>1. asked' = asked /\ 1..Through' = 1..(Through + 1)
      BY <1>1, <1>8
    <3>2. \A i \in 1..Len(answered') : \E j \in 1..Through' :
             answered'[i] = asked'[j] /\ asked'[j].kind \in Callbacks
      BY <1>12, <3>1, Zenon
    <3>3. \A j \in 1..Through' : asked'[j].kind \in Callbacks =>
             \E i \in 1..Len(answered') : answered'[i] = asked'[j]
      BY <1>13, <3>1, Zenon
    <3>4. QED BY <3>2, <3>3
  <2>2. QED BY <1>1, <1>2, <1>4, <1>7, <1>14, <1>15, <1>16, <2>1 DEF DialogsInv
<1>18. QED
  BY <1>5, <1>6, <1>17 DEF LaterInv

\* The steps of the game thread that have nothing to do with dialogs.
LEMMA GameStep ==
  ASSUME LaterInv,
         Later!Start \/ Later!Started \/ Later!StopRequest \/ Later!Frame
         \/ Later!Expire \/ Later!Expired \/ Later!StepDone
  PROVE  LaterInv'
<1>1. LaterTypes /\ DialogsInv /\ MotorsInv
  BY DEF LaterInv
<1>2. UNCHANGED <<dialogQ, dialogHead, dialogTail, asked, answered, turnedAway, tick,
                  mainThread, focused>>
  BY DEF Later!Start, Later!Started, Later!StopRequest, Later!Frame, Later!Expire,
         Later!Expired, Later!StepDone, Later!dialogs
<1>3. gameThread \in [at : GamePlaces, dialog : ADialog, started : BOOLEAN]
  BY <1>1 DEF LaterTypes
<1>4. Later!NoDialog \in ADialog
  BY DEF Later!NoDialog, ADialog
<1>5. CASE Later!Start
  <2>1. Later!Asking /\ UNCHANGED stopTick
    BY <1>5 DEF Later!Start
  <2>2. gameThread.at \in {"step", "answer"} /\ ~gameThread.started
    BY <2>1 DEF Later!Asking, Later!At
  <2>3. \/ ~vibReady /\ UNCHANGED <<vibReady, motor, crossed, gameThread>>
        \/ /\ vibReady' = TRUE /\ motor' = TRUE
           /\ gameThread' = [gameThread EXCEPT !.started = TRUE]
           /\ crossed' = (crossed \/ mainThread = "stopping")
    BY <1>5 DEF Later!Start
  <2>4. CASE UNCHANGED <<vibReady, motor, crossed, gameThread>>
    <3>1. DialogsInv'
      BY <1>1, <1>2, <2>4, DialogsKept
    <3>2. QED BY <1>1, <1>2, <2>1, <2>4, <3>1 DEF LaterInv, LaterTypes, MotorsInv
  <2>5. CASE /\ vibReady' = TRUE /\ motor' = TRUE
             /\ gameThread' = [gameThread EXCEPT !.started = TRUE]
             /\ crossed' = (crossed \/ mainThread = "stopping")
    <3>1. /\ gameThread' \in [at : GamePlaces, dialog : ADialog, started : BOOLEAN]
          /\ gameThread'.at = gameThread.at /\ gameThread'.dialog = gameThread.dialog
          /\ gameThread'.started = TRUE
      BY <1>3, <2>5
    <3>2. DialogsInv'
      BY <1>1, <1>2, <3>1, DialogsKept
    <3>3. crossed' \in BOOLEAN /\ (crossed' \/ mainThread = "loop")
      BY <1>1, <2>5 DEF LaterTypes
    <3>4. MotorsInv'
      BY <1>2, <2>2, <2>5, <3>1, <3>3 DEF MotorsInv
    <3>5. LaterTypes'
      BY <1>1, <1>2, <2>1, <2>5, <3>1, <3>3 DEF LaterTypes
    <3>6. QED BY <3>2, <3>4, <3>5 DEF LaterInv
  <2>6. QED BY <2>3, <2>4, <2>5
<1>6. CASE Later!Started
  <2>1. /\ gameThread.started /\ stopTick' = tick + Length
        /\ gameThread' = [gameThread EXCEPT !.started = FALSE]
        /\ UNCHANGED <<vibReady, motor, crossed>>
    BY <1>6 DEF Later!Started
  <2>2. /\ gameThread' \in [at : GamePlaces, dialog : ADialog, started : BOOLEAN]
        /\ gameThread'.at = gameThread.at /\ gameThread'.dialog = gameThread.dialog
        /\ gameThread'.started = FALSE
    BY <1>3, <2>1
  <2>3. DialogsInv'
    BY <1>1, <1>2, <2>2, DialogsKept
  <2>4. stopTick' \in Nat /\ stopTick' # 0
    BY <1>1, <2>1, LaterAssumption DEF LaterTypes
  <2>5. MotorsInv'
    BY <1>1, <1>2, <2>1, <2>2, <2>4 DEF MotorsInv
  <2>6. LaterTypes'
    BY <1>1, <1>2, <2>1, <2>2, <2>4 DEF LaterTypes
  <2>7. QED BY <2>3, <2>5, <2>6 DEF LaterInv
<1>7. CASE Later!StopRequest
  <2>1. /\ vibReady' \in BOOLEAN /\ UNCHANGED <<crossed, gameThread>>
        /\ \/ motor' = FALSE /\ stopTick' = 0
           \/ ~vibReady /\ vibReady' = vibReady /\ UNCHANGED <<motor, stopTick>>
    <3>1. /\ vibReady' \in {vibReady, TRUE} /\ UNCHANGED <<crossed, gameThread>>
          /\ IF vibReady' THEN motor' = FALSE /\ stopTick' = 0 ELSE UNCHANGED <<motor, stopTick>>
      BY <1>7 DEF Later!StopRequest
    <3>2. vibReady \in BOOLEAN
      BY <1>1 DEF LaterTypes
    <3>3. CASE vibReady' = TRUE
      BY <3>1, <3>3
    <3>4. CASE vibReady' # TRUE
      <4>1. vibReady' = vibReady /\ vibReady' \in BOOLEAN
        BY <3>1, <3>2, <3>4
      <4>2. QED BY <3>1, <3>4, <4>1
    <3>5. QED BY <3>3, <3>4
  <2>2. DialogsInv'
    BY <1>1, <1>2, <2>1, DialogsKept
  <2>3. MotorsInv'
    <3>1. CASE motor' = FALSE
      BY <1>1, <2>1, <3>1 DEF MotorsInv
    <3>2. CASE ~vibReady /\ vibReady' = vibReady /\ UNCHANGED <<motor, stopTick>>
      BY <1>1, <1>2, <2>1, <3>2 DEF MotorsInv
    <3>3. QED BY <2>1, <3>1, <3>2
  <2>4. LaterTypes'
    <3>1. stopTick' \in Nat /\ motor' \in BOOLEAN /\ vibReady' \in BOOLEAN
      <4>1. stopTick \in Nat /\ motor \in BOOLEAN
        BY <1>1 DEF LaterTypes
      <4>2. CASE motor' = FALSE /\ stopTick' = 0
        BY <2>1, <4>2
      <4>3. CASE UNCHANGED <<motor, stopTick>>
        BY <2>1, <4>1, <4>3
      <4>4. QED BY <2>1, <4>2, <4>3
    <3>2. QED BY <1>1, <1>2, <2>1, <3>1 DEF LaterTypes
  <2>5. QED BY <2>2, <2>3, <2>4 DEF LaterInv
<1>8. CASE Later!Frame \/ Later!Expire \/ Later!Expired \/ Later!StepDone
  <2>1. /\ gameThread.at \in {"top", "tick", "expired", "step"} /\ ~gameThread.started
        /\ \E p \in GamePlaces \ {"answer"} :
             gameThread' = [at |-> p, dialog |-> Later!NoDialog, started |-> FALSE]
        /\ UNCHANGED <<vibReady, crossed>>
    BY <1>8 DEF Later!Frame, Later!Expire, Later!Expired, Later!StepDone, Later!At, Later!GoTo,
                GamePlaces, Later!rumble
  <2>2. /\ gameThread' \in [at : GamePlaces, dialog : ADialog, started : BOOLEAN]
        /\ gameThread'.at # "answer" /\ gameThread'.started = FALSE
    BY <1>4, <2>1
  <2>3. DialogsInv'
    <3>1. gameThread.at # "answer"
      BY <2>1
    <3>2. QED BY <1>1, <1>2, <2>2, <3>1, DialogsKept
  <2>4. /\ motor' \in BOOLEAN /\ stopTick' \in Nat
        /\ motor' => motor
        /\ motor' => crossed \/ (gameThread'.at # "expired" /\ stopTick' # 0)
    <3>1. motor => crossed \/ (vibReady /\ gameThread.at # "expired" /\ stopTick # 0)
      BY <1>1, <2>1 DEF MotorsInv
    <3>2. motor \in BOOLEAN /\ stopTick \in Nat /\ vibReady \in BOOLEAN
      BY <1>1 DEF LaterTypes
    <3>3. CASE Later!Frame \/ Later!StepDone
      <4>1. UNCHANGED <<motor, stopTick>> /\ gameThread'.at # "expired"
        BY <3>3 DEF Later!Frame, Later!StepDone, Later!rumble, Later!GoTo
      <4>2. QED BY <3>1, <3>2, <4>1
    <3>4. CASE Later!Expire
      <4>1. /\ UNCHANGED stopTick
            /\ \/ motor' = (motor /\ ~vibReady)
               \/ UNCHANGED motor /\ gameThread'.at = "step"
        BY <3>4 DEF Later!Expire, Later!GoTo
      <4>2. CASE motor' = (motor /\ ~vibReady)
        <5>1. motor' \in BOOLEAN /\ (motor' => motor /\ ~vibReady)
          BY <3>2, <4>2
        <5>2. QED BY <3>1, <3>2, <4>1, <5>1
      <4>3. CASE UNCHANGED motor /\ gameThread'.at = "step"
        BY <3>1, <3>2, <4>1, <4>3
      <4>4. QED BY <4>1, <4>2, <4>3
    <3>5. CASE Later!Expired
      <4>1. stopTick' = 0 /\ UNCHANGED motor /\ gameThread.at = "expired"
        BY <3>5 DEF Later!Expired, Later!At
      <4>2. QED BY <3>1, <3>2, <4>1
    <3>6. QED BY <1>8, <3>3, <3>4, <3>5
  <2>5. LaterTypes'
    BY <1>1, <1>2, <2>1, <2>2, <2>4 DEF LaterTypes
  <2>6. MotorsInv'
    BY <1>1, <1>2, <2>1, <2>2, <2>4 DEF MotorsInv
  <2>7. QED BY <2>3, <2>5, <2>6 DEF LaterInv
<1>9. QED
  BY <1>5, <1>6, <1>7, <1>8

LEMMA MainStep ==
  ASSUME LaterInv, Later!FocusChanges \/ Later!Stopped \/ Later!Time
  PROVE  LaterInv'
<1>1. LaterTypes /\ DialogsInv /\ MotorsInv
  BY DEF LaterInv
<1>2. UNCHANGED <<dialogQ, dialogHead, dialogTail, asked, answered, turnedAway, gameThread,
                  vibReady, crossed>>
  BY DEF Later!FocusChanges, Later!Stopped, Later!Time, Later!dialogs, Later!rumble
<1>3. DialogsInv'
  BY <1>1, <1>2, DialogsKept
<1>4. CASE Later!FocusChanges
  <2>1. /\ UNCHANGED <<stopTick, tick>> /\ focused' = ~focused /\ mainThread = "loop"
        /\ \/ mainThread' = "stopping" /\ motor' = (motor /\ ~vibReady)
           \/ UNCHANGED <<mainThread, motor>>
    BY <1>4 DEF Later!FocusChanges
  <2>2. LaterTypes'
    BY <1>1, <1>2, <2>1 DEF LaterTypes
  <2>3. MotorsInv'
    BY <1>1, <1>2, <2>1 DEF MotorsInv, LaterTypes
  <2>4. QED BY <1>3, <2>2, <2>3 DEF LaterInv
<1>5. CASE Later!Stopped
  <2>1. /\ UNCHANGED <<motor, tick, focused>> /\ mainThread = "stopping"
        /\ mainThread' = "loop" /\ stopTick' = 0
    BY <1>5 DEF Later!Stopped
  <2>2. LaterTypes'
    BY <1>1, <1>2, <2>1 DEF LaterTypes
  <2>3. MotorsInv'
    BY <1>1, <1>2, <2>1 DEF MotorsInv
  <2>4. QED BY <1>3, <2>2, <2>3 DEF LaterInv
<1>6. CASE Later!Time
  <2>1. UNCHANGED <<motor, stopTick, mainThread, focused>> /\ tick' = tick + 1
    BY <1>6 DEF Later!Time, Later!rumble
  <2>2. LaterTypes'
    BY <1>1, <1>2, <2>1 DEF LaterTypes
  <2>3. MotorsInv'
    BY <1>1, <1>2, <2>1 DEF MotorsInv
  <2>4. QED BY <1>3, <2>2, <2>3 DEF LaterInv
<1>7. QED
  BY <1>4, <1>5, <1>6

LEMMA LaterStep == LaterInv /\ [Later!Next]_(Later!vars) => LaterInv'
<1>1. SUFFICES ASSUME LaterInv, [Later!Next]_(Later!vars) PROVE LaterInv'
  OBVIOUS
<1>2. ASSUME UNCHANGED Later!vars PROVE LaterInv'
  <2>1. UNCHANGED <<dialogQ, dialogHead, dialogTail, asked, answered, turnedAway, gameThread,
                    vibReady, motor, stopTick, crossed, tick, mainThread, focused>>
    BY <1>2 DEF Later!vars, Later!dialogs, Later!rumble
  <2>2. DialogsInv'
    BY <1>1, <2>1, DialogsKept DEF LaterInv
  <2>3. QED BY <1>1, <2>1, <2>2 DEF LaterInv, LaterTypes, MotorsInv
<1>3. QED
  BY <1>1, <1>2, PostStep, DrainStep, AnswerStep, GameStep, MainStep DEF Later!Next

\* What is on its way is the rest of what was asked for.
LEMMA OnTheWay ==
  ASSUME LaterInv
  PROVE  /\ Later!InHand \in Seq(ADialog) /\ Later!Queued \in Seq(ADialog)
         /\ Through \in 0..Len(asked)
         /\ Len(Later!InHand \o Later!Queued) = Len(asked) - Through
         /\ \A k \in 1..(Len(asked) - Through) :
              (Later!InHand \o Later!Queued)[k] = asked[Through + k]
<1> DEFINE n == Len(asked)  w == W  H == Later!InHand  Q == Later!Queued
<1>1. LaterTypes /\ DialogsInv
  BY DEF LaterInv
<1>2. n \in Nat /\ w \in Nat /\ asked \in Seq(ADialog) /\ gameThread.dialog \in ADialog
  BY <1>1, WaitingIs, LaterAssumption DEF LaterTypes
<1>3. Through = n - w - (IF gameThread.at = "answer" THEN 1 ELSE 0) /\ Through >= 0
  BY <1>1 DEF DialogsInv, Through
<1>4. Q = [k \in 1..w |-> dialogQ[(dialogTail + (k - 1)) % DialogSlots]]
  BY DEF Later!Queued, W
<1>5. \A k \in 1..w : dialogQ[(dialogTail + (k - 1)) % DialogSlots] = asked[n - w + k]
  BY <1>1 DEF DialogsInv
<1> HIDE DEF n, w, Q
<1>6. \A k \in 1..w : Q[k] = asked[n - w + k] /\ n - w + k \in 1..n
  BY <1>2, <1>3, <1>4, <1>5
<1>7. Q \in Seq(ADialog) /\ Len(Q) = w
  <2>1. \A k \in 1..w : Q[k] \in ADialog
    BY <1>2, <1>6 DEF n
  <2>2. Q \in [1..w -> ADialog]
    BY <1>4, <2>1
  <2>3. QED BY <1>2, <2>2
<1>8. CASE gameThread.at = "answer"
  <2>1. H = <<gameThread.dialog>> /\ gameThread.dialog = asked[n - w]
    BY <1>1, <1>8 DEF Later!InHand, DialogsInv, n, w
  <2>2. Through = n - w - 1
    BY <1>3, <1>8
  <2>3. H \in Seq(ADialog) /\ Len(H) = 1 /\ H[1] = asked[n - w]
    BY <1>2, <2>1
  <2> HIDE DEF H
  <2>4. /\ Len(H \o Q) = 1 + w
        /\ \A k \in 1..(1 + w) : (H \o Q)[k] = IF k <= 1 THEN H[k] ELSE Q[k - 1]
    <3>1. /\ Len(H \o Q) = Len(H) + Len(Q)
          /\ \A k \in 1..(Len(H) + Len(Q)) :
               (H \o Q)[k] = IF k <= Len(H) THEN H[k] ELSE Q[k - Len(H)]
      BY <1>7, <2>3, ConcatProperties
    <3>2. QED BY <1>7, <2>3, <3>1
  <2>5. ASSUME NEW k \in 1..(n - Through) PROVE (H \o Q)[k] = asked[Through + k]
    <3>1. CASE k = 1
      <4>1. (H \o Q)[k] = H[1] /\ Through + k = n - w
        BY <1>2, <2>2, <2>4, <3>1
      <4>2. QED BY <2>3, <4>1
    <3>2. CASE k # 1
      <4>1. k - 1 \in 1..w /\ (H \o Q)[k] = Q[k - 1] /\ n - w + (k - 1) = Through + k
        BY <1>2, <1>3, <2>2, <2>4, <3>2
      <4>2. QED BY <1>6, <4>1
    <3>3. QED BY <3>1, <3>2
  <2>6. Through \in 0..n /\ 1 + w = n - Through
    BY <1>2, <1>3, <2>2
  <2>7. QED BY <1>7, <2>3, <2>4, <2>5, <2>6 DEF n, H, Q
<1>9. CASE gameThread.at # "answer"
  <2>1. H = <<>> /\ H \in Seq(ADialog)
    BY <1>9 DEF Later!InHand
  <2>2. H \o Q = Q
    BY <1>7, <2>1, ConcatEmptySeq
  <2>3. Through = n - w /\ Through \in 0..n
    BY <1>2, <1>3, <1>9
  <2>4. n - Through = w
    BY <1>2, <2>3
  <2>5. \A k \in 1..w : (H \o Q)[k] = asked[Through + k]
    BY <1>6, <2>2, <2>3
  <2>6. QED BY <1>7, <2>1, <2>2, <2>3, <2>4, <2>5 DEF n, H, Q
<1>10. QED
  BY <1>8, <1>9

LEMMA LaterSafe == LaterInv => DoneLater
<1>1. SUFFICES ASSUME LaterInv PROVE DoneLater
  OBVIOUS
<1> DEFINE H == Later!InHand  Q == Later!Queued  n == Len(asked)  m == Len(answered)
<1>2. /\ LaterTypes /\ DialogsInv /\ MotorsInv
  BY <1>1 DEF LaterInv
<1>3. /\ asked \in Seq(ADialog) /\ answered \in Seq(ADialog) /\ n \in Nat /\ m \in Nat
      /\ DOMAIN asked = 1..n /\ DOMAIN answered = 1..m
  BY <1>2 DEF LaterTypes
<1>4. /\ H \in Seq(ADialog) /\ Q \in Seq(ADialog) /\ Through \in 0..n
      /\ H \o Q \in Seq(ADialog) /\ Len(H \o Q) = n - Through
      /\ \A k \in 1..(n - Through) : (H \o Q)[k] = asked[Through + k]
  <2>1. H \in Seq(ADialog) /\ Q \in Seq(ADialog)
    BY <1>1, OnTheWay
  <2>2. H \o Q \in Seq(ADialog)
    BY <2>1, ConcatProperties
  <2>3. QED BY <1>1, <2>1, <2>2, OnTheWay
<1>5. \A i, j \in 1..n : i < j => asked[i].id < asked[j].id
  BY <1>2, <1>3 DEF DialogsInv, Later!InOrder
<1>6. \A i, j \in 1..m : i < j => answered[i].id < answered[j].id
  BY <1>2, <1>3 DEF DialogsInv, Later!InOrder
<1>7. /\ \A i \in 1..m : \E j \in 1..Through : answered[i] = asked[j] /\ asked[j].kind \in Callbacks
      /\ \A j \in 1..Through : asked[j].kind \in Callbacks => \E i \in 1..m : answered[i] = asked[j]
  BY <1>2 DEF DialogsInv
<1> DEFINE R == H \o Q
<1> HIDE DEF H, Q, n, m, R
<1>8. answered \o H \o Q = answered \o (H \o Q)
  <2>1. answered \in Seq(ADialog) /\ H \in Seq(ADialog) /\ Q \in Seq(ADialog)
    BY <1>3, <1>4
  <2>2. QED BY <2>1, ConcatAssociative
<1>0. n \in Nat /\ m \in Nat /\ Through \in 0..n
  BY <1>3, <1>4
<1>9. /\ R \in Seq(ADialog) /\ Len(R) = n - Through /\ DOMAIN R = 1..(n - Through)
      /\ \A k \in 1..(n - Through) : R[k] = asked[Through + k] /\ Through + k \in 1..n
      /\ answered \o H \o Q = answered \o R
  BY <1>3, <1>4, <1>8 DEF R
<1>10. Later!InOrder(answered \o R)
  <2>1. /\ DOMAIN (answered \o R) = 1..(m + (n - Through))
        /\ \A i \in 1..(m + (n - Through)) :
             (answered \o R)[i] = IF i <= m THEN answered[i] ELSE R[i - m]
    <3>1. /\ answered \o R \in Seq(ADialog)
          /\ Len(answered \o R) = m + (n - Through)
          /\ \A i \in 1..(m + (n - Through)) :
               (answered \o R)[i] = IF i <= m THEN answered[i] ELSE R[i - m]
      BY <1>3, <1>9, ConcatProperties DEF m
    <3>2. QED BY <3>1
  <2>2. SUFFICES ASSUME NEW i \in 1..(m + (n - Through)), NEW j \in 1..(m + (n - Through)), i < j
                 PROVE  (answered \o R)[i].id < (answered \o R)[j].id
    BY <2>1 DEF Later!InOrder
  <2>3. CASE j <= m
    <3>1. i \in 1..m /\ j \in 1..m
      BY <1>0, <2>2, <2>3
    <3>2. (answered \o R)[i] = answered[i] /\ (answered \o R)[j] = answered[j]
      BY <1>0, <2>1, <3>1
    <3>3. QED BY <1>6, <2>2, <3>1, <3>2
  <2>4. CASE j > m
    <3>1. j - m \in 1..(n - Through) /\ (answered \o R)[j] = R[j - m]
      BY <1>0, <2>1, <2>4
    <3>2. PICK b \in 1..n : b = Through + (j - m) /\ (answered \o R)[j] = asked[b]
      BY <1>9, <3>1
    <3>3. CASE i <= m
      <4>1. i \in 1..m /\ (answered \o R)[i] = answered[i]
        BY <1>0, <2>1, <3>3
      <4>2. PICK a \in 1..Through : answered[i] = asked[a]
        BY <1>7, <4>1
      <4>3. a \in 1..n /\ a < b
        BY <1>0, <3>1, <3>2
      <4>4. asked[a].id < asked[b].id
        BY <1>5, <4>3
      <4>5. QED BY <3>2, <4>1, <4>2, <4>4
    <3>4. CASE i > m
      <4>1. i - m \in 1..(n - Through) /\ (answered \o R)[i] = R[i - m]
        BY <1>0, <2>1, <3>4
      <4>2. PICK a \in 1..n : a = Through + (i - m) /\ (answered \o R)[i] = asked[a]
        BY <1>9, <4>1
      <4>3. a < b
        BY <1>0, <2>2, <3>2, <4>2
      <4>4. asked[a].id < asked[b].id
        BY <1>5, <4>3
      <4>5. QED BY <3>2, <4>2, <4>4
    <3>5. i <= m \/ i > m
      BY <1>0
    <3>6. QED BY <3>3, <3>4, <3>5, Zenon
  <2>5. j <= m \/ j > m
    BY <1>0
  <2>6. QED BY <2>3, <2>4, <2>5, Zenon
<1>11. {answered[i] : i \in DOMAIN answered} \cup Later!Answerable(R) = Later!Answerable(asked)
  <2>1. ASSUME NEW d \in {answered[i] : i \in DOMAIN answered} PROVE d \in Later!Answerable(asked)
    <3>1. PICK i \in 1..m : d = answered[i]
      BY <1>3, <2>1
    <3>2. PICK j \in 1..Through : answered[i] = asked[j] /\ asked[j].kind \in Callbacks
      BY <1>7
    <3>3. j \in DOMAIN asked
      BY <1>3, <1>4
    <3>4. QED BY <3>1, <3>2, <3>3 DEF Later!Answerable
  <2>2. ASSUME NEW d \in Later!Answerable(R) PROVE d \in Later!Answerable(asked)
    <3>1. d.kind \in Callbacks /\ d \in {R[k] : k \in DOMAIN R}
      BY <2>2 DEF Later!Answerable
    <3>2. PICK k \in 1..(n - Through) : d = R[k]
      BY <1>9, <3>1
    <3>3. R[k] = asked[Through + k] /\ Through + k \in DOMAIN asked
      BY <1>3, <1>9
    <3>4. QED BY <3>1, <3>2, <3>3 DEF Later!Answerable
  <2>3. ASSUME NEW d \in Later!Answerable(asked)
        PROVE  d \in {answered[i] : i \in DOMAIN answered} \cup Later!Answerable(R)
    <3>1. d.kind \in Callbacks /\ d \in {asked[j] : j \in DOMAIN asked}
      BY <2>3 DEF Later!Answerable
    <3>2. PICK j \in 1..n : d = asked[j]
      BY <1>3, <3>1
    <3>3. CASE j <= Through
      <4>1. j \in 1..Through
        BY <1>4, <3>3
      <4>2. PICK i \in 1..m : answered[i] = asked[j]
        BY <1>7, <3>1, <3>2, <4>1
      <4>3. QED BY <1>3, <3>2, <4>2
    <3>4. CASE j > Through
      <4>1. j - Through \in 1..(n - Through) /\ Through + (j - Through) = j
        BY <1>3, <1>4, <3>4
      <4>2. R[j - Through] = d /\ j - Through \in DOMAIN R
        BY <1>9, <3>2, <4>1
      <4>3. QED BY <3>1, <4>2 DEF Later!Answerable
    <3>5. QED BY <1>4, <3>3, <3>4
  <2>4. QED BY <2>1, <2>2, <2>3
<1>12. turnedAway > 0 => n >= DialogSlots - 1
  BY <1>2 DEF DialogsInv, n
<1>13. motor => gameThread.started \/ stopTick # 0 \/ crossed
  BY <1>2 DEF MotorsInv
<1>14. QED
  BY <1>9, <1>10, <1>11, <1>12, <1>13 DEF DoneLater, Later!DoneLater, R, H, Q, n

\* Whatever the size of the dialog queue and of the motors' time, every dialog
\* that was asked for is answered once and in order or is on its way, and motors
\* that run will be stopped unless they were started during jni_rumble_stop
\* (source/jni_helpers.c).
THEOREM DialogsAndMotorsAreDoneWith == Later!Spec => []DoneLater
<1>1. Later!Spec => []LaterInv
  BY LaterInit, LaterStep, PTL DEF Later!Spec
<1>2. QED
  BY <1>1, LaterSafe, PTL

----------------------------------------------------------------------------
(* LogRing.                                                                *)

Printers == Log!Printers
LogPlaces == {"idle", "take", "write", "flush", "over"}
AChunk == [lines : Seq(Nat), dropped : SUBSET Nat, suppressed : SUBSET Nat]

LogTypes ==
  /\ ring \in Seq(Nat) /\ file \in Seq(Nat) /\ printed \in Seq(Nat) /\ said \in Nat
  /\ told \in [dropped : SUBSET Nat, suppressed : SUBSET Nat]
  /\ logAt \in [Printers -> LogPlaces] /\ flush \in [Printers -> BOOLEAN]
  /\ hands \in [Printers -> AChunk] /\ earlier \in [Others -> SUBSET Nat]

\* A pump has a chunk while it writes it; a thread that faulted flushes, and when
\* its chunk was not full, no line that was there before is in the ring.
PumpsRight ==
  /\ \A t \in Printers : logAt[t] # "write" => hands[t] = Log!Empty
  /\ \A t \in Others : logAt[t] # "idle" => flush[t]
  /\ \A t \in Others : logAt[t] # "idle" => earlier[t] \subseteq Log!Lines(printed)
  /\ \A t \in Others :
       \/ logAt[t] = "write" /\ Len(hands[t].lines) # ChunkLines
       \/ logAt[t] \in {"flush", "over"}
       => earlier[t] \subseteq Log!Lines(file) \cup Log!InHands

MainsOrder ==
  (\A t \in Others : logAt[t] = "idle") => file \o hands[Main].lines \o ring = printed

DroppedOf == [t \in Printers |-> hands[t].dropped]
SuppressedOf == [t \in Printers |-> hands[t].suppressed]
LinesOf == [t \in Printers |-> Log!Lines(hands[t].lines)]

CountsRight ==
  /\ Log!EachOnce(lost, DroppedOf, dropped, told.dropped)
  /\ Log!EachOnce(skipped, SuppressedOf, suppressed \ reported, told.suppressed)
  /\ reported \subseteq suppressed /\ suppressed \subseteq skipped
  /\ Log!Lines(printed) \cup lost \cup skipped = 1..said

LinesRight ==
  /\ Log!EachOnce(Log!Lines(printed), LinesOf, Log!Lines(ring), Log!Lines(file))
  /\ Log!NotTwice(file) /\ Log!NotTwice(ring)
  /\ \A t \in Printers : Log!NotTwice(hands[t].lines)

LogInv == LogTypes /\ PumpsRight /\ MainsOrder /\ CountsRight /\ LinesRight

\* What was given, taken from where it waits, and written.
LEMMA NewOne ==
  ASSUME NEW all, NEW mine, NEW waiting, NEW written, NEW x,
         Log!EachOnce(all, mine, waiting, written), x \notin all
  PROVE  Log!EachOnce(all \cup {x}, mine, waiting \cup {x}, written)
<1>1. /\ written \cup waiting \cup UNION {mine[t] : t \in Printers} = all
      /\ written \cap waiting = {}
      /\ \A t \in Printers : mine[t] \cap (written \cup waiting) = {}
      /\ \A t, u \in Printers : t # u => mine[t] \cap mine[u] = {}
  BY DEF Log!EachOnce, Printers
<1>2. \A t \in Printers : x \notin mine[t]
  BY <1>1
<1>3. x \notin written /\ x \notin waiting
  BY <1>1
<1>4. QED
  BY <1>1, <1>2, <1>3 DEF Log!EachOnce, Printers

LEMMA TakenOut ==
  ASSUME NEW all, NEW mine, NEW mine2, NEW waiting, NEW written, NEW X, NEW t \in Printers,
         Log!EachOnce(all, mine, waiting, written), mine[t] = {}, X \subseteq waiting,
         mine2[t] = X, \A u \in Printers : u # t => mine2[u] = mine[u]
  PROVE  Log!EachOnce(all, mine2, waiting \ X, written)
<1>1. /\ written \cup waiting \cup UNION {mine[u] : u \in Printers} = all
      /\ written \cap waiting = {}
      /\ \A u \in Printers : mine[u] \cap (written \cup waiting) = {}
      /\ \A u, v \in Printers : u # v => mine[u] \cap mine[v] = {}
  BY DEF Log!EachOnce, Printers
<1>2. UNION {mine2[u] : u \in Printers} = X \cup UNION {mine[u] : u \in Printers}
  <2>1. ASSUME NEW e \in UNION {mine2[u] : u \in Printers}
        PROVE  e \in X \cup UNION {mine[u] : u \in Printers}
    BY <2>1
  <2>2. ASSUME NEW e \in X \cup UNION {mine[u] : u \in Printers}
        PROVE  e \in UNION {mine2[u] : u \in Printers}
    BY <2>2
  <2>3. QED BY <2>1, <2>2
<1>3. written \cup (waiting \ X) \cup UNION {mine2[u] : u \in Printers} = all
  BY <1>1, <1>2
<1>4. \A u \in Printers : mine2[u] \cap (written \cup (waiting \ X)) = {}
  BY <1>1
<1>5. \A u, v \in Printers : u # v => mine2[u] \cap mine2[v] = {}
  BY <1>1
<1>6. QED
  BY <1>1, <1>3, <1>4, <1>5 DEF Log!EachOnce, Printers

LEMMA WrittenOut ==
  ASSUME NEW all, NEW mine, NEW mine2, NEW waiting, NEW written, NEW t \in Printers,
         Log!EachOnce(all, mine, waiting, written),
         mine2[t] = {}, \A u \in Printers : u # t => mine2[u] = mine[u]
  PROVE  Log!EachOnce(all, mine2, waiting, written \cup mine[t])
<1>1. /\ written \cup waiting \cup UNION {mine[u] : u \in Printers} = all
      /\ written \cap waiting = {}
      /\ \A u \in Printers : mine[u] \cap (written \cup waiting) = {}
      /\ \A u, v \in Printers : u # v => mine[u] \cap mine[v] = {}
  BY DEF Log!EachOnce, Printers
<1>2. mine[t] \cup UNION {mine2[u] : u \in Printers} = UNION {mine[u] : u \in Printers}
  <2>1. ASSUME NEW e \in mine[t] \cup UNION {mine2[u] : u \in Printers}
        PROVE  e \in UNION {mine[u] : u \in Printers}
    BY <2>1
  <2>2. ASSUME NEW e \in UNION {mine[u] : u \in Printers}
        PROVE  e \in mine[t] \cup UNION {mine2[u] : u \in Printers}
    BY <2>2
  <2>3. QED BY <2>1, <2>2
<1>3. (written \cup mine[t]) \cup waiting \cup UNION {mine2[u] : u \in Printers} = all
  BY <1>1, <1>2
<1>4. (written \cup mine[t]) \cap waiting = {}
  BY <1>1
<1>5. \A u \in Printers : mine2[u] \cap ((written \cup mine[t]) \cup waiting) = {}
  BY <1>1
<1>6. \A u, v \in Printers : u # v => mine2[u] \cap mine2[v] = {}
  BY <1>1
<1>7. QED
  BY <1>3, <1>4, <1>5, <1>6 DEF Log!EachOnce, Printers

\* The lines of sequences that are put together and taken apart.
LEMMA LinesJoined ==
  ASSUME NEW s \in Seq(Nat), NEW r \in Seq(Nat)
  PROVE  /\ s \o r \in Seq(Nat)
         /\ Log!Lines(s \o r) = Log!Lines(s) \cup Log!Lines(r)
         /\ Log!NotTwice(s) /\ Log!NotTwice(r) /\ Log!Lines(s) \cap Log!Lines(r) = {}
              => Log!NotTwice(s \o r)
<1> DEFINE c == s \o r
<1>1. /\ c \in Seq(Nat) /\ Len(c) = Len(s) + Len(r)
      /\ \A i \in 1..(Len(s) + Len(r)) : c[i] = IF i <= Len(s) THEN s[i] ELSE r[i - Len(s)]
  BY ConcatProperties
<1>2. /\ Len(s) \in Nat /\ Len(r) \in Nat /\ DOMAIN s = 1..Len(s) /\ DOMAIN r = 1..Len(r)
      /\ DOMAIN c = 1..(Len(s) + Len(r))
  BY <1>1
<1> HIDE DEF c
<1>3. \A i \in 1..Len(s) : i \in DOMAIN c /\ c[i] = s[i]
  BY <1>1, <1>2
<1>4. \A j \in 1..Len(r) : Len(s) + j \in DOMAIN c /\ c[Len(s) + j] = r[j]
  <2>1. SUFFICES ASSUME NEW j \in 1..Len(r)
                 PROVE  Len(s) + j \in DOMAIN c /\ c[Len(s) + j] = r[j]
    OBVIOUS
  <2>2. PICK k \in 1..(Len(s) + Len(r)) : k = Len(s) + j /\ ~(k <= Len(s)) /\ k - Len(s) = j
    BY <1>2, SMTT(30)
  <2>3. c[k] = r[k - Len(s)]
    BY <1>1, <2>2
  <2>4. QED BY <1>2, <2>2, <2>3
<1>5. ASSUME NEW i \in DOMAIN c
      PROVE  \/ i \in DOMAIN s /\ c[i] = s[i]
             \/ i - Len(s) \in DOMAIN r /\ c[i] = r[i - Len(s)]
  BY <1>1, <1>2
<1>6. Log!Lines(c) = Log!Lines(s) \cup Log!Lines(r)
  <2>1. ASSUME NEW e \in Log!Lines(c) PROVE e \in Log!Lines(s) \cup Log!Lines(r)
    <3>1. PICK i \in DOMAIN c : e = c[i]
      BY <2>1 DEF Log!Lines
    <3>2. QED BY <1>5, <3>1 DEF Log!Lines
  <2>2. ASSUME NEW e \in Log!Lines(s) PROVE e \in Log!Lines(c)
    BY <1>2, <1>3, <2>2 DEF Log!Lines
  <2>3. ASSUME NEW e \in Log!Lines(r) PROVE e \in Log!Lines(c)
    <3>1. PICK j \in 1..Len(r) : e = r[j]
      BY <1>2, <2>3 DEF Log!Lines
    <3>2. QED BY <1>4, <3>1 DEF Log!Lines
  <2>4. QED BY <2>1, <2>2, <2>3
<1>7. ASSUME Log!NotTwice(s), Log!NotTwice(r), Log!Lines(s) \cap Log!Lines(r) = {}
      PROVE  Log!NotTwice(c)
  <2>1. SUFFICES ASSUME NEW i \in DOMAIN c, NEW j \in DOMAIN c, c[i] = c[j] PROVE i = j
    BY DEF Log!NotTwice
  <2>2. CASE i \in DOMAIN s /\ c[i] = s[i]
    <3>1. s[i] \in Log!Lines(s)
      BY <2>2 DEF Log!Lines
    <3>2. ~(j - Len(s) \in DOMAIN r /\ c[j] = r[j - Len(s)])
      BY <1>7, <2>1, <2>2, <3>1 DEF Log!Lines
    <3>3. j \in DOMAIN s /\ c[j] = s[j]
      BY <1>5, <3>2
    <3>4. QED BY <1>7, <2>1, <2>2, <3>3 DEF Log!NotTwice
  <2>3. CASE i - Len(s) \in DOMAIN r /\ c[i] = r[i - Len(s)]
    <3>1. r[i - Len(s)] \in Log!Lines(r)
      BY <2>3 DEF Log!Lines
    <3>2. ~(j \in DOMAIN s /\ c[j] = s[j])
      BY <1>7, <2>1, <2>3, <3>1 DEF Log!Lines
    <3>3. j - Len(s) \in DOMAIN r /\ c[j] = r[j - Len(s)]
      BY <1>5, <3>2
    <3>4. i - Len(s) = j - Len(s)
      BY <1>7, <2>1, <2>3, <3>3 DEF Log!NotTwice
    <3>5. QED BY <1>2, <3>4
  <2>4. QED BY <1>5, <2>2, <2>3
<1>8. QED
  BY <1>1, <1>6, <1>7 DEF c

LEMMA LinesAppended ==
  ASSUME NEW s \in Seq(Nat), NEW x \in Nat
  PROVE  /\ Append(s, x) \in Seq(Nat)
         /\ Log!Lines(Append(s, x)) = Log!Lines(s) \cup {x}
         /\ Log!NotTwice(s) /\ x \notin Log!Lines(s) => Log!NotTwice(Append(s, x))
<1>1. Append(s, x) = s \o <<x>> /\ Append(s, x) \in Seq(Nat)
  BY AppendIsConcat, AppendProperties
<1>2. <<x>> \in Seq(Nat) /\ DOMAIN <<x>> = {1} /\ <<x>>[1] = x
  OBVIOUS
<1>3. Log!Lines(<<x>>) = {x} /\ Log!NotTwice(<<x>>)
  BY <1>2 DEF Log!Lines, Log!NotTwice
<1> DEFINE r == <<x>>
<1> HIDE DEF r
<1>4. r \in Seq(Nat) /\ Log!Lines(r) = {x} /\ Log!NotTwice(r) /\ Append(s, x) = s \o r
  BY <1>1, <1>2, <1>3 DEF r
<1>5. /\ Log!Lines(s \o r) = Log!Lines(s) \cup Log!Lines(r)
      /\ Log!NotTwice(s) /\ Log!NotTwice(r) /\ Log!Lines(s) \cap Log!Lines(r) = {}
           => Log!NotTwice(s \o r)
  BY <1>4, LinesJoined
<1>6. Log!NotTwice(s) /\ x \notin Log!Lines(s) => Log!NotTwice(s \o r)
  BY <1>4, <1>5
<1>7. QED
  BY <1>1, <1>4, <1>5, <1>6

LEMMA LinesParted ==
  ASSUME NEW s \in Seq(Nat), NEW k \in 0..Len(s)
  PROVE  LET a == SubSeq(s, 1, k)
             b == SubSeq(s, k + 1, Len(s))
         IN /\ a \in Seq(Nat) /\ b \in Seq(Nat) /\ Len(a) = k /\ Len(b) = Len(s) - k
            /\ a \o b = s
            /\ Log!NotTwice(s) => /\ Log!NotTwice(a) /\ Log!NotTwice(b)
                                  /\ Log!Lines(a) \cap Log!Lines(b) = {}
            /\ Log!Lines(s) = Log!Lines(a) \cup Log!Lines(b)
<1> DEFINE a == SubSeq(s, 1, k)  b == SubSeq(s, k + 1, Len(s))  n == Len(s)
<1>1. n \in Nat /\ k \in 0..n /\ DOMAIN s = 1..n /\ \A i \in 1..n : s[i] \in Nat
  OBVIOUS
<1>2. /\ a \in Seq(Nat) /\ Len(a) = k
      /\ \A i \in 1..k : a[i] = s[i]
  <2>1. \A i \in 1..k : s[i] \in Nat
    BY <1>1
  <2>2. /\ a \in Seq(Nat) /\ Len(a) = IF 1 <= k THEN k - 1 + 1 ELSE 0
        /\ \A i \in 1..(k - 1 + 1) : a[i] = s[1 + i - 1]
    BY <1>1, <2>1, SubSeqProperties
  <2>3. \A i \in 1..k : i \in 1..(k - 1 + 1) /\ 1 + i - 1 = i
    BY <1>1
  <2>4. QED BY <1>1, <2>2, <2>3
<1>3. /\ b \in Seq(Nat) /\ Len(b) = n - k
      /\ \A i \in 1..(n - k) : b[i] = s[k + i] /\ k + i \in 1..n
  <2>1. \A i \in (k + 1)..n : s[i] \in Nat
    BY <1>1
  <2>2. /\ b \in Seq(Nat) /\ Len(b) = IF k + 1 <= n THEN n - (k + 1) + 1 ELSE 0
        /\ \A i \in 1..(n - (k + 1) + 1) : b[i] = s[k + 1 + i - 1]
    BY <1>1, <2>1, SubSeqProperties
  <2>3. \A i \in 1..(n - k) : i \in 1..(n - (k + 1) + 1) /\ k + 1 + i - 1 = k + i /\ k + i \in 1..n
    BY <1>1
  <2>4. Len(b) = n - k
    <3>1. PICK l : l = Len(b)
      OBVIOUS
    <3>2. l = IF k + 1 <= n THEN n - (k + 1) + 1 ELSE 0
      BY <2>2, <3>1
    <3> HIDE DEF n
    <3>3. l = n - k
      BY <1>1, <3>2
    <3>4. QED BY <3>1, <3>3
  <2>5. ASSUME NEW i \in 1..(n - k) PROVE b[i] = s[k + i] /\ k + i \in 1..n
    BY <2>2, <2>3
  <2>6. QED BY <2>2, <2>4, <2>5
<1>4. a \o b = s
  <2>1. SubSeq(s, 1, k) \o SubSeq(s, k + 1, Len(s)) = SubSeq(s, 1, Len(s))
    <3>1. 1 \in 1..(Len(s) + 1) /\ k \in (1 - 1)..Len(s) /\ Len(s) \in k..Len(s)
      BY <1>1
    <3>2. QED BY <3>1, ConcatAdjacentSubSeq
  <2>2. QED BY <2>1, SubSeqFull
<1> HIDE DEF a, b, n
<1>5. DOMAIN a = 1..k /\ DOMAIN b = 1..(n - k)
  BY <1>1, <1>2, <1>3
<1>6. ASSUME Log!NotTwice(s)
      PROVE  /\ Log!NotTwice(a) /\ Log!NotTwice(b) /\ Log!Lines(a) \cap Log!Lines(b) = {}
  <2>1. \A i, j \in 1..n : s[i] = s[j] => i = j
    BY <1>1, <1>6 DEF Log!NotTwice
  <2>2. Log!NotTwice(a)
    <3>1. \A i \in 1..k : i \in 1..n
      BY <1>1
    <3>2. QED BY <1>2, <1>5, <2>1, <3>1 DEF Log!NotTwice
  <2>3. Log!NotTwice(b)
    <3>1. SUFFICES ASSUME NEW i \in 1..(n - k), NEW j \in 1..(n - k), b[i] = b[j] PROVE i = j
      BY <1>5 DEF Log!NotTwice
    <3>2. k + i = k + j
      BY <1>3, <2>1, <3>1
    <3>3. QED BY <1>1, <3>2
  <2>4. ASSUME NEW e, e \in Log!Lines(a), e \in Log!Lines(b) PROVE FALSE
    <3>1. PICK i \in 1..k : e = a[i]
      BY <1>5, <2>4 DEF Log!Lines
    <3>2. PICK j \in 1..(n - k) : e = b[j]
      BY <1>5, <2>4 DEF Log!Lines
    <3>3. s[i] = s[k + j] /\ k + j \in 1..n
      BY <1>2, <1>3, <3>1, <3>2
    <3>4. i \in 1..n /\ i # k + j
      BY <1>1
    <3>5. QED BY <2>1, <3>3, <3>4
  <2>5. QED BY <2>2, <2>3, <2>4
<1>7. Log!Lines(s) = Log!Lines(a) \cup Log!Lines(b)
  BY <1>2, <1>3, <1>4, LinesJoined
<1>8. QED
  BY <1>2, <1>3, <1>4, <1>6, <1>7 DEF a, b, n

LEMMA LogInit == Log!Init => LogInv
<1>1. SUFFICES ASSUME Log!Init PROVE LogInv
  OBVIOUS
<1>2. /\ ring = <<>> /\ file = <<>> /\ printed = <<>> /\ said = 0
      /\ dropped = {} /\ suppressed = {} /\ reported = {} /\ lost = {} /\ skipped = {}
      /\ told = [dropped |-> {}, suppressed |-> {}]
      /\ logAt = [t \in Printers |-> "idle"] /\ flush = [t \in Printers |-> FALSE]
      /\ hands = [t \in Printers |-> Log!Empty]
  BY <1>1 DEF Log!Init, Printers
<1>3. Log!Empty = [lines |-> <<>>, dropped |-> {}, suppressed |-> {}] /\ Log!Empty \in AChunk
  BY DEF Log!Empty, AChunk
<1>4. LogTypes
  <2>1. earlier \in [Others -> SUBSET Nat]
    BY <1>1 DEF Log!Init
  <2>2. QED BY <1>2, <1>3, <2>1 DEF LogTypes, LogPlaces
<1>5. PumpsRight
  BY <1>2 DEF PumpsRight, Log!Printers, Printers
<1>6. Log!Lines(<<>>) = {} /\ Log!NotTwice(<<>>)
  BY DEF Log!Lines, Log!NotTwice
<1>7. \A t \in Printers : hands[t].lines = <<>> /\ hands[t].dropped = {} /\ hands[t].suppressed = {}
  BY <1>2, <1>3
<1>8. Main \in Printers
  BY DEF Printers, Log!Printers
<1>9. MainsOrder
  <2>1. file \o hands[Main].lines \o ring = <<>>
    BY <1>2, <1>7, <1>8
  <2>2. QED BY <1>2, <2>1 DEF MainsOrder
<1>10. /\ \A t \in Printers : LinesOf[t] = {} /\ DroppedOf[t] = {} /\ SuppressedOf[t] = {}
  BY <1>6, <1>7 DEF LinesOf, DroppedOf, SuppressedOf
<1>11. CountsRight
  <2>1. Log!EachOnce({}, DroppedOf, {}, {}) /\ Log!EachOnce({}, SuppressedOf, {}, {})
    BY <1>10 DEF Log!EachOnce, Printers
  <2>2. 1..0 = {}
    OBVIOUS
  <2>3. suppressed \ reported = {} /\ told.dropped = {} /\ told.suppressed = {}
    BY <1>2
  <2>4. QED BY <1>2, <1>6, <2>1, <2>2, <2>3 DEF CountsRight
<1>12. LinesRight
  <2>1. Log!EachOnce({}, LinesOf, {}, {})
    BY <1>10 DEF Log!EachOnce, Printers
  <2>2. QED BY <1>2, <1>6, <1>7, <2>1 DEF LinesRight
<1>13. QED
  BY <1>4, <1>5, <1>9, <1>11, <1>12 DEF LogInv

\* What a step that moves no line keeps.
LEMMA NoLineMoved ==
  ASSUME LogInv, UNCHANGED <<ring, dropped, suppressed, reported, file, told, hands, said,
                             printed, lost, skipped>>
  PROVE  /\ CountsRight' /\ LinesRight' /\ Log!InHands' = Log!InHands
         /\ (\A t \in Others : logAt'[t] = "idle" => logAt[t] = "idle") => MainsOrder'
<1>1. LinesOf' = LinesOf /\ DroppedOf' = DroppedOf /\ SuppressedOf' = SuppressedOf
      /\ Log!InHands' = Log!InHands
  BY DEF LinesOf, DroppedOf, SuppressedOf, Log!InHands
<1>2. CountsRight' /\ LinesRight'
  BY <1>1 DEF LogInv, CountsRight, LinesRight
<1>3. (\A t \in Others : logAt'[t] = "idle" => logAt[t] = "idle") => MainsOrder'
  BY DEF LogInv, MainsOrder
<1>4. QED
  BY <1>1, <1>2, <1>3

\* The main thread's part that goes on and stops; a fault; a pump that is through.
LEMMA MovedOn ==
  ASSUME LogInv, UNCHANGED <<ring, dropped, suppressed, reported, file, told, hands, said,
                             printed, lost, skipped>>,
         NEW t \in Printers, NEW p \in {"idle", "take", "over"},
         logAt[t] # "write",
         logAt' = [logAt EXCEPT ![t] = p],
         flush' \in [Printers -> BOOLEAN], earlier' \in [Others -> SUBSET Nat],
         \A u \in Printers : u # t => flush'[u] = flush[u],
         \A u \in Others : u # t => earlier'[u] = earlier[u],
         \/ t = Main /\ p # "over"
         \/ /\ t \in Others /\ p # "idle" /\ flush'[t]
            /\ earlier'[t] \subseteq Log!Lines(printed)
            /\ p = "over" => logAt[t] = "flush" /\ earlier'[t] = earlier[t]
  PROVE  LogInv'
<1>1. LogTypes /\ PumpsRight
  BY DEF LogInv
<1>2. \A u \in Printers : logAt'[u] = IF u = t THEN p ELSE logAt[u]
  BY <1>1 DEF LogTypes
<1>3. Main \notin Others /\ Others \subseteq Printers
  BY LogAssumption DEF Printers, Log!Printers
<1>9. /\ t \in Others => /\ p # "idle" /\ flush'[t] /\ earlier'[t] \subseteq Log!Lines(printed)
                         /\ p = "over" => logAt[t] = "flush" /\ earlier'[t] = earlier[t]
      /\ p = "over" => t \in Others
  BY <1>3, Zenon
<1>4. LogTypes'
  <2>1. logAt' \in [Printers -> LogPlaces]
    BY <1>1 DEF LogTypes, LogPlaces
  <2>2. QED BY <1>1, <2>1 DEF LogTypes
<1>5. \A u \in Others : logAt'[u] = "idle" => logAt[u] = "idle"
  BY <1>2, <1>3, <1>9
<1>6. CountsRight' /\ LinesRight' /\ MainsOrder' /\ Log!InHands' = Log!InHands
  BY <1>5, NoLineMoved
<1>7. PumpsRight'
  <2>1. \A u \in Printers : logAt'[u] # "write" => hands'[u] = Log!Empty
    BY <1>1, <1>2 DEF PumpsRight
  <2>2. \A u \in Others : logAt'[u] # "idle" => flush'[u]
    BY <1>1, <1>2, <1>3, <1>9 DEF PumpsRight
  <2>3. \A u \in Others : logAt'[u] # "idle" => earlier'[u] \subseteq Log!Lines(printed)
    BY <1>1, <1>2, <1>3, <1>9 DEF PumpsRight
  <2>4. ASSUME NEW u \in Others,
               \/ logAt'[u] = "write" /\ Len(hands[u].lines) # ChunkLines
               \/ logAt'[u] \in {"flush", "over"}
        PROVE  earlier'[u] \subseteq Log!Lines(file) \cup Log!InHands
    <3>1. CASE u = t
      <4>1. p = "over" /\ t \in Others
        BY <1>2, <1>3, <1>9, <2>4, <3>1
      <4>2. logAt[u] = "flush" /\ earlier'[u] = earlier[u]
        BY <1>9, <3>1, <4>1
      <4>3. QED BY <1>1, <4>2 DEF PumpsRight
    <3>2. CASE u # t
      <4>1. logAt'[u] = logAt[u] /\ earlier'[u] = earlier[u]
        BY <1>2, <1>3, <3>2
      <4>2. QED BY <1>1, <2>4, <4>1 DEF PumpsRight
    <3>3. QED BY <3>1, <3>2
  <2>5. QED BY <1>6, <2>1, <2>2, <2>3, <2>4 DEF PumpsRight
<1>8. QED
  BY <1>4, <1>6, <1>7 DEF LogInv

LEMMA StopEagerStep == ASSUME LogInv, Log!StopEager PROVE LogInv'
<1>1. UNCHANGED <<ring, dropped, suppressed, reported, file, told, hands, said, printed, lost,
                  skipped, logAt, flush, earlier>>
  BY DEF Log!StopEager, Log!log, Log!past
<1>2. CountsRight' /\ LinesRight' /\ MainsOrder' /\ Log!InHands' = Log!InHands
  BY <1>1, NoLineMoved
<1>3. LogTypes' /\ PumpsRight'
  BY <1>1, <1>2 DEF LogInv, LogTypes, PumpsRight
<1>4. QED
  BY <1>2, <1>3 DEF LogInv

LEMMA PumpStep == ASSUME LogInv, NEW f \in BOOLEAN, Log!Pump(f) PROVE LogInv'
<1>1. /\ UNCHANGED <<ring, dropped, suppressed, reported, file, told, hands, said, printed, lost,
                     skipped, earlier>>
      /\ logAt[Main] = "idle" /\ logAt' = [logAt EXCEPT ![Main] = "take"]
      /\ flush' = [flush EXCEPT ![Main] = f]
  BY DEF Log!Pump, Log!log, Log!past
<1>2. Main \in Printers /\ flush \in [Printers -> BOOLEAN]
  BY DEF Printers, Log!Printers, LogInv, LogTypes
<1>3. flush' \in [Printers -> BOOLEAN] /\ \A u \in Printers : u # Main => flush'[u] = flush[u]
  BY <1>1, <1>2
<1>4. QED
  <2>1. earlier' \in [Others -> SUBSET Nat]
    BY <1>1 DEF LogInv, LogTypes
  <2>2. QED BY <1>1, <1>2, <1>3, <2>1, MovedOn

LEMMA FaultStep == ASSUME LogInv, NEW t \in Printers, Log!Fault(t) PROVE LogInv'
<1>1. /\ UNCHANGED <<ring, dropped, suppressed, reported, file, told, hands, said, printed, lost,
                     skipped>>
      /\ t \in Others /\ logAt[t] = "idle" /\ logAt' = [logAt EXCEPT ![t] = "take"]
      /\ flush' = [flush EXCEPT ![t] = TRUE]
      /\ earlier' = [earlier EXCEPT ![t] = Log!Lines(printed)]
  BY DEF Log!Fault, Log!log
<1>2. flush \in [Printers -> BOOLEAN] /\ LogTypes
  BY DEF LogInv, LogTypes
<1>3. /\ flush' \in [Printers -> BOOLEAN] /\ flush'[t]
      /\ \A u \in Printers : u # t => flush'[u] = flush[u]
  BY <1>1, <1>2
<1>4. Log!Lines(printed) \subseteq Nat
  BY <1>2 DEF LogTypes, Log!Lines
<1>5. /\ earlier' \in [Others -> SUBSET Nat] /\ earlier'[t] = Log!Lines(printed)
      /\ \A u \in Others : u # t => earlier'[u] = earlier[u]
  BY <1>1, <1>2, <1>4 DEF LogTypes
<1>6. QED
  BY <1>1, <1>3, <1>5, MovedOn

LEMMA FlushStep == ASSUME LogInv, NEW t \in Printers, Log!Flush(t) PROVE LogInv'
<1>1. /\ UNCHANGED <<ring, dropped, suppressed, reported, file, told, hands, said, printed, lost,
                     skipped, flush, earlier>>
      /\ logAt[t] = "flush"
      /\ logAt' = [logAt EXCEPT ![t] = IF t = Main THEN "idle" ELSE "over"]
  BY DEF Log!Flush, Log!log, Log!past
<1>2. flush \in [Printers -> BOOLEAN] /\ earlier \in [Others -> SUBSET Nat] /\ PumpsRight
  BY DEF LogInv, LogTypes
<1>3. CASE t = Main
  <2>1. logAt' = [logAt EXCEPT ![t] = "idle"]
    BY <1>1, <1>3
  <2>2. QED BY <1>1, <1>2, <1>3, <2>1, MovedOn
<1>4. CASE t # Main
  <2>1. logAt' = [logAt EXCEPT ![t] = "over"]
    BY <1>1, <1>4
  <2>2. t \in Others
    BY <1>4 DEF Printers, Log!Printers
  <2>3. flush'[t] /\ earlier'[t] \subseteq Log!Lines(printed)
    BY <1>1, <1>2, <2>2 DEF PumpsRight
  <2>4. QED BY <1>1, <1>2, <2>1, <2>2, <2>3, MovedOn
<1>5. QED
  BY <1>3, <1>4

\* A printed line is new, and is in the ring or in a count.
LEMMA NumberIsNew ==
  ASSUME LogInv
  PROVE  /\ Log!Number \in Nat /\ Log!Number = said + 1 /\ said \in Nat
         /\ Log!Number \notin Log!Lines(printed) /\ Log!Number \notin lost
         /\ Log!Number \notin skipped /\ Log!Number \notin suppressed
         /\ (1..said) \cup {Log!Number} = 1..Log!Number
<1>1. said \in Nat /\ Log!Number = said + 1
  BY DEF LogInv, LogTypes, Log!Number
<1>2. Log!Number \in Nat /\ Log!Number \notin 1..said /\ (1..said) \cup {Log!Number} = 1..Log!Number
  BY <1>1
<1>3. Log!Lines(printed) \cup lost \cup skipped = 1..said /\ suppressed \subseteq skipped
  BY DEF LogInv, CountsRight
<1>4. QED
  BY <1>1, <1>2, <1>3

LEMMA PrintStep ==
  ASSUME LogInv, NEW t \in Printers, NEW engineLine \in BOOLEAN, Log!PrintLine(t, engineLine)
  PROVE  LogInv'
<1> DEFINE N == Log!Number
<1>1. /\ logAt[t] = "idle" /\ said' = N
      /\ \/ t = Main /\ logAt' = [logAt EXCEPT ![t] = "take"] /\ flush' = [flush EXCEPT ![t] = TRUE]
         \/ UNCHANGED <<logAt, flush>>
      /\ UNCHANGED <<reported, file, told, hands, earlier>>
  BY DEF Log!PrintLine
<1>2. \/ /\ suppressed' = suppressed \cup {N} /\ skipped' = skipped \cup {N}
         /\ UNCHANGED <<ring, dropped, printed, lost>>
      \/ /\ ring' = Append(ring, N) /\ printed' = Append(printed, N)
         /\ UNCHANGED <<dropped, lost, suppressed, skipped>>
      \/ /\ dropped' = dropped \cup {N} /\ lost' = lost \cup {N}
         /\ UNCHANGED <<ring, printed, suppressed, skipped>>
  BY DEF Log!PrintLine, Log!Suppress, Log!Put
<1>3. LogTypes /\ PumpsRight /\ MainsOrder /\ CountsRight /\ LinesRight
  BY DEF LogInv
<1>4. /\ N \in Nat /\ N = said + 1 /\ said \in Nat
      /\ N \notin Log!Lines(printed) /\ N \notin lost /\ N \notin skipped /\ N \notin suppressed
      /\ (1..said) \cup {N} = 1..N
  BY NumberIsNew
<1>5. Main \notin Others /\ Others \subseteq Printers /\ Main \in Printers
  BY LogAssumption DEF Printers, Log!Printers
<1> HIDE DEF N
<1>6. /\ logAt' \in [Printers -> LogPlaces] /\ flush' \in [Printers -> BOOLEAN]
      /\ \A u \in Others : logAt'[u] = logAt[u] /\ flush'[u] = flush[u]
      /\ \A u \in Printers : logAt'[u] = "write" => logAt[u] = "write"
      /\ \A u \in Printers : logAt'[u] # "write" => logAt[u] # "write"
  BY <1>1, <1>3, <1>5 DEF LogTypes, LogPlaces
<1>7. LinesOf' = LinesOf /\ DroppedOf' = DroppedOf /\ SuppressedOf' = SuppressedOf
      /\ Log!InHands' = Log!InHands
  BY <1>1 DEF LinesOf, DroppedOf, SuppressedOf, Log!InHands
<1>8. Log!Lines(printed) \subseteq Log!Lines(printed')
  <2>1. printed \in Seq(Nat) /\ N \in Nat
    BY <1>3, <1>4 DEF LogTypes
  <2>2. Log!Lines(Append(printed, N)) = Log!Lines(printed) \cup {N}
    BY <2>1, LinesAppended
  <2>3. printed' = printed \/ printed' = Append(printed, N)
    BY <1>2, Zenon
  <2>4. QED BY <2>2, <2>3
<1>9. PumpsRight'
  <2>1. \A u \in Others : logAt'[u] # "idle" => earlier'[u] \subseteq Log!Lines(printed')
    BY <1>1, <1>3, <1>6, <1>8 DEF PumpsRight
  <2>2. QED BY <1>1, <1>3, <1>5, <1>6, <1>7, <2>1 DEF PumpsRight
<1>10. ring' \in Seq(Nat) /\ printed' \in Seq(Nat)
  <2>1. ring \in Seq(Nat) /\ printed \in Seq(Nat)
    BY <1>3 DEF LogTypes
  <2>2. Append(ring, N) \in Seq(Nat) /\ Append(printed, N) \in Seq(Nat)
    BY <1>4, <2>1
  <2>3. (ring' = ring \/ ring' = Append(ring, N)) /\ (printed' = printed \/ printed' = Append(printed, N))
    BY <1>2
  <2>4. QED BY <2>1, <2>2, <2>3, Zenon
<1>11. LogTypes'
  BY <1>1, <1>3, <1>4, <1>6, <1>10 DEF LogTypes
<1>12. CASE /\ suppressed' = suppressed \cup {N} /\ skipped' = skipped \cup {N}
            /\ UNCHANGED <<ring, dropped, printed, lost>>
  <2>1. suppressed' \ reported' = (suppressed \ reported) \cup {N}
    BY <1>1, <1>3, <1>4, <1>12 DEF CountsRight
  <2>2. Log!EachOnce(skipped', SuppressedOf', suppressed' \ reported', told'.suppressed)
    BY <1>1, <1>3, <1>4, <1>7, <1>12, <2>1, NewOne DEF CountsRight
  <2>3. CountsRight'
    BY <1>1, <1>3, <1>4, <1>7, <1>12, <2>2 DEF CountsRight
  <2>4. LinesRight' /\ MainsOrder'
    BY <1>1, <1>3, <1>6, <1>7, <1>12 DEF LinesRight, MainsOrder
  <2>5. QED BY <1>9, <1>11, <2>3, <2>4 DEF LogInv
<1>13. CASE /\ dropped' = dropped \cup {N} /\ lost' = lost \cup {N}
            /\ UNCHANGED <<ring, printed, suppressed, skipped>>
  <2>1. Log!EachOnce(lost', DroppedOf', dropped', told'.dropped)
    BY <1>1, <1>3, <1>4, <1>7, <1>13, NewOne DEF CountsRight
  <2>2. CountsRight'
    BY <1>1, <1>3, <1>4, <1>7, <1>13, <2>1 DEF CountsRight
  <2>3. LinesRight' /\ MainsOrder'
    BY <1>1, <1>3, <1>6, <1>7, <1>13 DEF LinesRight, MainsOrder
  <2>4. QED BY <1>9, <1>11, <2>2, <2>3 DEF LogInv
<1>14. CASE /\ ring' = Append(ring, N) /\ printed' = Append(printed, N)
            /\ UNCHANGED <<dropped, lost, suppressed, skipped>>
  <2>1. /\ Log!Lines(ring') = Log!Lines(ring) \cup {N}
        /\ Log!Lines(printed') = Log!Lines(printed) \cup {N}
        /\ Log!NotTwice(ring) /\ N \notin Log!Lines(ring) => Log!NotTwice(ring')
    BY <1>3, <1>4, <1>14, LinesAppended DEF LogTypes
  <2>2. N \notin Log!Lines(ring)
    BY <1>3, <1>4 DEF LinesRight, Log!EachOnce
  <2>3. Log!EachOnce(Log!Lines(printed'), LinesOf', Log!Lines(ring'), Log!Lines(file'))
    BY <1>1, <1>3, <1>4, <1>7, <2>1, NewOne DEF LinesRight
  <2>4. LinesRight'
    BY <1>1, <1>3, <2>1, <2>2, <2>3 DEF LinesRight
  <2>5. CountsRight'
    BY <1>1, <1>3, <1>4, <1>7, <1>14, <2>1 DEF CountsRight
  <2>6. MainsOrder'
    <3>1. SUFFICES ASSUME \A u \in Others : logAt[u] = "idle"
                   PROVE  file \o hands[Main].lines \o ring' = printed'
      BY <1>1, <1>6 DEF MainsOrder
    <3>2. file \o hands[Main].lines \o ring = printed
      BY <1>3, <3>1 DEF MainsOrder
    <3>3. hands[Main].lines \in Seq(Nat) /\ file \in Seq(Nat) /\ ring \in Seq(Nat)
      BY <1>3, <1>5 DEF LogTypes, AChunk
    <3> DEFINE c == file \o hands[Main].lines
    <3>4. c \in Seq(Nat)
      BY <3>3, ConcatProperties
    <3>5. c \o ring = printed
      BY <3>2
    <3> HIDE DEF c
    <3>6. ring' = ring \o <<N>> /\ printed' = printed \o <<N>> /\ <<N>> \in Seq(Nat)
      <4>1. printed \in Seq(Nat)
        BY <1>3 DEF LogTypes
      <4>2. Append(ring, N) = ring \o <<N>> /\ Append(printed, N) = printed \o <<N>>
        <5>1. N \in Nat /\ ring \in Seq(Nat) /\ printed \in Seq(Nat)
          BY <1>4, <3>3, <4>1
        <5>2. Append(ring, N) = ring \o <<N>>
          BY <5>1, AppendIsConcat
        <5>3. Append(printed, N) = printed \o <<N>>
          BY <5>1, AppendIsConcat
        <5>4. QED BY <5>2, <5>3
      <4>3. <<N>> \in Seq(Nat)
        BY <1>4
      <4>4. QED BY <1>14, <4>2, <4>3, Zenon
    <3>7. c \o (ring \o <<N>>) = (c \o ring) \o <<N>>
      BY <3>3, <3>4, <3>6, ConcatAssociative, SMTT(30)
    <3>8. QED BY <3>5, <3>6, <3>7 DEF c
  <2>7. QED BY <1>9, <1>11, <2>4, <2>5, <2>6 DEF LogInv
<1>15. QED
  BY <1>2, <1>12, <1>13, <1>14

LEMMA ChunkTaken ==
  ASSUME LogInv, NEW t \in Printers, Log!Take(t)
  PROVE  LogInv'
<1> DEFINE k == Log!Least(ChunkLines, Len(ring))
           a == SubSeq(ring, 1, k)
           X == IF flush[t] THEN suppressed \ reported ELSE {}
<1>1. /\ logAt[t] = "take" /\ logAt' = [logAt EXCEPT ![t] = "write"]
      /\ hands' = [hands EXCEPT ![t] = [lines |-> a, dropped |-> dropped, suppressed |-> X]]
      /\ ring' = SubSeq(ring, k + 1, Len(ring)) /\ dropped' = {}
      /\ reported' = IF flush[t] THEN suppressed ELSE reported
      /\ UNCHANGED <<suppressed, file, told, flush, said, printed, lost, skipped, earlier>>
  BY DEF Log!Take, Log!Taken, Log!past
<1>2. LogTypes /\ PumpsRight /\ MainsOrder /\ CountsRight /\ LinesRight
  BY DEF LogInv
<1>3. ring \in Seq(Nat) /\ Len(ring) \in Nat /\ k \in 0..Len(ring) /\ (k # ChunkLines => k = Len(ring))
  <2>1. ring \in Seq(Nat) /\ Len(ring) \in Nat
    BY <1>2 DEF LogTypes
  <2>2. QED BY <2>1, LogAssumption DEF Log!Least
<1>4. /\ a \in Seq(Nat) /\ ring' \in Seq(Nat) /\ Len(a) = k /\ Len(ring') = Len(ring) - k
      /\ a \o ring' = ring
      /\ Log!NotTwice(a) /\ Log!NotTwice(ring') /\ Log!Lines(a) \cap Log!Lines(ring') = {}
      /\ Log!Lines(ring) = Log!Lines(a) \cup Log!Lines(ring')
  <2>1. Log!NotTwice(ring)
    BY <1>2 DEF LinesRight
  <2>2. ring' = SubSeq(ring, k + 1, Len(ring))
    BY <1>1
  <2> HIDE DEF k
  <2>3. QED BY <1>3, <2>1, <2>2, LinesParted
<1>5. /\ Main \in Printers /\ Main \notin Others /\ Others \subseteq Printers
  BY LogAssumption DEF Printers, Log!Printers
<1>6. lost \subseteq Nat /\ skipped \subseteq Nat /\ dropped \subseteq lost /\ suppressed \subseteq skipped
      /\ X \subseteq suppressed \ reported
  <2>1. 1..said \subseteq Nat
    OBVIOUS
  <2>2. Log!Lines(printed) \cup lost \cup skipped = 1..said /\ suppressed \subseteq skipped
    BY <1>2 DEF CountsRight
  <2>3. dropped \subseteq lost
    BY <1>2 DEF CountsRight, Log!EachOnce
  <2>4. QED BY <2>1, <2>2, <2>3
<1> DEFINE c == [lines |-> a, dropped |-> dropped, suppressed |-> X]
<1>7. c \in AChunk /\ c.lines = a /\ c.dropped = dropped /\ c.suppressed = X
  <2>1. X \subseteq Nat /\ dropped \subseteq Nat
    BY <1>6
  <2> HIDE DEF a, X
  <2>2. QED BY <1>4, <2>1 DEF AChunk
<1>8. hands' = [hands EXCEPT ![t] = c]
  BY <1>1
<1>9. X = (suppressed \ reported) \ (suppressed \ reported') /\ reported' \subseteq suppressed
      /\ suppressed \ reported' = (suppressed \ reported) \ X
  <2>1. reported \subseteq suppressed
    BY <1>2 DEF CountsRight
  <2>2. QED BY <1>1, <2>1
<1> HIDE DEF k, a, X, c
<1>10. /\ hands' \in [Printers -> AChunk] /\ hands'[t] = c
       /\ \A u \in Printers : u # t => hands'[u] = hands[u]
       /\ logAt' \in [Printers -> LogPlaces] /\ logAt'[t] = "write"
       /\ \A u \in Printers : u # t => logAt'[u] = logAt[u]
  BY <1>1, <1>2, <1>7, <1>8 DEF LogTypes, LogPlaces
<1>11. hands[t].lines = <<>> /\ hands[t].dropped = {} /\ hands[t].suppressed = {}
  <2>1. hands[t] = Log!Empty
    BY <1>1, <1>2 DEF PumpsRight
  <2>2. QED BY <2>1 DEF Log!Empty
<1>12. LogTypes'
  BY <1>1, <1>2, <1>4, <1>10 DEF LogTypes
<1>13. /\ LinesOf'[t] = Log!Lines(a) /\ DroppedOf'[t] = dropped /\ SuppressedOf'[t] = X
       /\ LinesOf[t] = {} /\ DroppedOf[t] = {} /\ SuppressedOf[t] = {}
       /\ \A u \in Printers : u # t => /\ LinesOf'[u] = LinesOf[u] /\ DroppedOf'[u] = DroppedOf[u]
                                      /\ SuppressedOf'[u] = SuppressedOf[u]
  <2>1. Log!Lines(<<>>) = {}
    BY DEF Log!Lines
  <2>2. QED BY <1>7, <1>10, <1>11, <2>1 DEF LinesOf, DroppedOf, SuppressedOf
<1>14. CountsRight'
  <2>1. Log!EachOnce(lost, DroppedOf', dropped \ dropped, told.dropped)
    <3>1. Log!EachOnce(lost, DroppedOf, dropped, told.dropped)
      BY <1>2 DEF CountsRight
    <3>2. DroppedOf[t] = {} /\ dropped \subseteq dropped
      BY <1>4, <1>6, <1>13
    <3>3. PICK f : f = DroppedOf' /\ f[t] = dropped /\ \A u \in Printers : u # t => f[u] = DroppedOf[u]
      BY <1>13
    <3>4. Log!EachOnce(lost, f, dropped \ dropped, told.dropped)
      <4>1. PICK m : m = DroppedOf
        OBVIOUS
      <4>2. Log!EachOnce(lost, m, dropped, told.dropped) /\ m[t] = {}
        BY <3>1, <3>2, <4>1
      <4>3. f[t] = dropped /\ \A u \in Printers : u # t => f[u] = m[u]
        BY <3>3, <4>1
      <4>4. QED BY <3>2, <4>2, <4>3, TakenOut, Zenon
    <3>5. QED BY <3>3, <3>4
  <2>2. Log!EachOnce(skipped, SuppressedOf', (suppressed \ reported) \ X, told.suppressed)
    <3>1. Log!EachOnce(skipped, SuppressedOf, (suppressed \ reported), told.suppressed)
      BY <1>2 DEF CountsRight
    <3>2. SuppressedOf[t] = {} /\ X \subseteq (suppressed \ reported)
      BY <1>4, <1>6, <1>13
    <3>3. PICK f : f = SuppressedOf' /\ f[t] = X /\ \A u \in Printers : u # t => f[u] = SuppressedOf[u]
      BY <1>13
    <3>4. Log!EachOnce(skipped, f, (suppressed \ reported) \ X, told.suppressed)
      <4>1. PICK w : w = suppressed \ reported
        OBVIOUS
      <4>2. PICK m : m = SuppressedOf
        OBVIOUS
      <4>3. Log!EachOnce(skipped, m, w, told.suppressed) /\ X \subseteq w /\ m[t] = {}
        BY <3>1, <3>2, <4>1, <4>2
      <4>4. \A u \in Printers : u # t => f[u] = m[u]
        BY <3>3, <4>2
      <4>5. f[t] = X
        BY <3>3
      <4>6. Log!EachOnce(skipped, f, w \ X, told.suppressed)
        BY <4>3, <4>4, <4>5, TakenOut, Zenon
      <4>7. QED BY <4>1, <4>6
    <3>5. QED BY <3>3, <3>4
  <2>3. dropped' = dropped \ dropped
    BY <1>1
  <2>4. QED BY <1>1, <1>2, <1>9, <2>1, <2>2, <2>3 DEF CountsRight
<1>15. LinesRight'
  <2>1. Log!EachOnce(Log!Lines(printed), LinesOf', Log!Lines(ring) \ Log!Lines(a), Log!Lines(file))
    <3>1. Log!EachOnce(Log!Lines(printed), LinesOf, Log!Lines(ring), Log!Lines(file))
      BY <1>2 DEF LinesRight
    <3>2. LinesOf[t] = {} /\ Log!Lines(a) \subseteq Log!Lines(ring)
      BY <1>4, <1>6, <1>13
    <3>3. PICK f : f = LinesOf' /\ f[t] = Log!Lines(a) /\ \A u \in Printers : u # t => f[u] = LinesOf[u]
      BY <1>13
    <3>4. Log!EachOnce(Log!Lines(printed), f, Log!Lines(ring) \ Log!Lines(a), Log!Lines(file))
      BY <3>1, <3>2, <3>3, TakenOut
    <3>5. QED BY <3>3, <3>4
  <2>2. Log!Lines(ring') = Log!Lines(ring) \ Log!Lines(a)
    BY <1>4
  <2>3. \A u \in Printers : Log!NotTwice(hands'[u].lines)
    BY <1>2, <1>4, <1>7, <1>10 DEF LinesRight
  <2>4. QED BY <1>1, <1>2, <1>4, <2>1, <2>2, <2>3 DEF LinesRight
<1>16. MainsOrder'
  <2>1. SUFFICES ASSUME \A u \in Others : logAt'[u] = "idle"
                 PROVE  file \o hands'[Main].lines \o ring' = printed
    BY <1>1 DEF MainsOrder
  <2>2. t = Main
    BY <1>10, <2>1 DEF Printers, Log!Printers
  <2>3. \A u \in Others : logAt[u] = "idle"
    BY <1>5, <1>10, <2>1, <2>2
  <2>4. file \o <<>> \o ring = printed
    BY <1>2, <1>11, <2>2, <2>3 DEF MainsOrder
  <2>5. file \in Seq(Nat)
    BY <1>2 DEF LogTypes
  <2>6. file \o ring = printed
    BY <2>4, <2>5, ConcatEmptySeq
  <2>7. (file \o a) \o ring' = file \o (a \o ring')
    <3>1. a \in Seq(Nat) /\ ring' \in Seq(Nat)
      BY <1>4
    <3>2. PICK b : b = ring'
      OBVIOUS
    <3>3. (file \o a) \o b = file \o (a \o b)
      BY <2>5, <3>1, <3>2, ConcatAssociative, SMTT(30)
    <3>4. QED BY <3>2, <3>3
  <2>8. hands'[Main].lines = a
    BY <1>7, <1>10, <2>2
  <2>9. QED BY <1>4, <2>6, <2>7, <2>8
<1>17. Log!InHands \subseteq Log!InHands' /\ Log!Lines(a) \subseteq Log!InHands'
  <2>1. ASSUME NEW e \in Log!InHands PROVE e \in Log!InHands'
    <3>1. PICK u \in Printers : e \in Log!Lines(hands[u].lines)
      BY DEF Log!InHands, Printers
    <3>2. u # t
      BY <1>11, <3>1 DEF Log!Lines
    <3>3. e \in Log!Lines(hands'[u].lines)
      BY <1>10, <3>1, <3>2
    <3>4. QED BY <3>3 DEF Log!InHands, Printers
  <2>2. Log!Lines(hands'[t].lines) = Log!Lines(a)
    BY <1>7, <1>10
  <2>3. QED BY <2>1, <2>2 DEF Log!InHands, Printers
<1>18. PumpsRight'
  <2>1. \A u \in Printers : logAt'[u] # "write" => hands'[u] = Log!Empty
    BY <1>2, <1>10 DEF PumpsRight
  <2>2. \A u \in Others : logAt'[u] # "idle" =>
          flush'[u] /\ earlier'[u] \subseteq Log!Lines(printed')
    <3>1. \A u \in Others : logAt'[u] # "idle" => logAt[u] # "idle"
      BY <1>1, <1>5, <1>10
    <3>2. QED BY <1>1, <1>2, <3>1 DEF PumpsRight
  <2>3. ASSUME NEW u \in Others,
               \/ logAt'[u] = "write" /\ Len(hands'[u].lines) # ChunkLines
               \/ logAt'[u] \in {"flush", "over"}
        PROVE  earlier'[u] \subseteq Log!Lines(file') \cup Log!InHands'
    <3>1. CASE u # t
      <4>1. logAt'[u] = logAt[u] /\ hands'[u] = hands[u] /\ earlier'[u] = earlier[u]
        BY <1>1, <1>5, <1>10, <3>1
      <4>2. earlier[u] \subseteq Log!Lines(file) \cup Log!InHands
        BY <1>2, <2>3, <4>1 DEF PumpsRight
      <4>3. QED BY <1>1, <1>17, <4>1, <4>2
    <3>2. CASE u = t
      <4>1. k # ChunkLines
        BY <1>4, <1>7, <1>10, <2>3, <3>2
      <4>2. Len(ring') = 0
        BY <1>3, <1>4, <4>1
      <4>3. Log!Lines(ring') = {}
        <5>1. DOMAIN ring' = 1..0
          BY <1>4, <4>2
        <5>2. QED BY <5>1 DEF Log!Lines
      <4>4. earlier'[u] \subseteq Log!Lines(printed)
        BY <1>1, <2>2, <1>10, <3>2
      <4>5. Log!Lines(printed) = Log!Lines(file) \cup Log!Lines(ring) \cup UNION {LinesOf[v] : v \in Printers}
        BY <1>2 DEF LinesRight, Log!EachOnce, Printers
      <4>6. UNION {LinesOf[v] : v \in Printers} = Log!InHands
        BY DEF LinesOf, Log!InHands, Printers
      <4>7. QED BY <1>1, <1>4, <1>17, <4>3, <4>4, <4>5, <4>6
    <3>3. QED BY <3>1, <3>2
  <2>4. QED BY <2>1, <2>2, <2>3 DEF PumpsRight
<1>19. QED
  BY <1>12, <1>14, <1>15, <1>16, <1>18 DEF LogInv

LEMMA ChunkWritten ==
  ASSUME LogInv, NEW t \in Printers, Log!Write(t)
  PROVE  LogInv'
<1> DEFINE h == hands[t]
<1>1. /\ logAt[t] = "write" /\ file' = file \o h.lines
      /\ told' = [dropped |-> told.dropped \cup h.dropped,
                  suppressed |-> told.suppressed \cup h.suppressed]
      /\ hands' = [hands EXCEPT ![t] = Log!Empty]
      /\ logAt' = [logAt EXCEPT ![t] = IF Len(h.lines) = ChunkLines THEN "take"
                                      ELSE IF flush[t] THEN "flush" ELSE "idle"]
      /\ UNCHANGED <<ring, dropped, suppressed, reported, flush, said, printed, lost, skipped, earlier>>
  BY DEF Log!Write, Log!log, Log!past
<1>2. LogTypes /\ PumpsRight /\ MainsOrder /\ CountsRight /\ LinesRight
  BY DEF LogInv
<1>3. /\ Main \in Printers /\ Main \notin Others /\ Others \subseteq Printers
  BY LogAssumption DEF Printers, Log!Printers
<1>4. h \in AChunk /\ file \in Seq(Nat) /\ ring \in Seq(Nat)
      /\ told \in [dropped : SUBSET Nat, suppressed : SUBSET Nat]
  BY <1>2 DEF LogTypes
<1>5. h.lines \in Seq(Nat) /\ h.dropped \subseteq Nat /\ h.suppressed \subseteq Nat
  BY <1>4 DEF AChunk
<1>6. Log!Empty = [lines |-> <<>>, dropped |-> {}, suppressed |-> {}] /\ Log!Empty \in AChunk
  BY DEF Log!Empty, AChunk
<1>7. /\ hands' \in [Printers -> AChunk] /\ hands'[t] = Log!Empty
      /\ \A u \in Printers : u # t => hands'[u] = hands[u]
  BY <1>1, <1>2, <1>6 DEF LogTypes
<1>8. /\ logAt' \in [Printers -> LogPlaces] /\ logAt'[t] \in {"take", "flush", "idle"}
      /\ logAt'[t] = "flush" => Len(h.lines) # ChunkLines
      /\ logAt'[t] = "idle" => ~flush[t]
      /\ \A u \in Printers : u # t => logAt'[u] = logAt[u]
  BY <1>1, <1>2 DEF LogTypes, LogPlaces
<1> HIDE DEF h
<1>9. \A u \in Others : logAt'[u] = "idle" => u # t /\ logAt[u] = "idle"
  <2>1. SUFFICES ASSUME NEW u \in Others, logAt'[u] = "idle" PROVE u # t /\ logAt[u] = "idle"
    OBVIOUS
  <2>2. CASE u = t
    <3>1. flush[u]
      BY <1>1, <1>2, <2>2 DEF PumpsRight
    <3>2. QED BY <1>8, <2>1, <2>2, <3>1
  <2>3. CASE u # t
    BY <1>3, <1>8, <2>1, <2>3
  <2>4. QED BY <2>2, <2>3
<1>10. file' \in Seq(Nat) /\ Log!Lines(file') = Log!Lines(file) \cup Log!Lines(h.lines)
  BY <1>1, <1>4, <1>5, LinesJoined DEF h
<1>11. told' \in [dropped : SUBSET Nat, suppressed : SUBSET Nat]
       /\ told'.dropped = told.dropped \cup h.dropped
       /\ told'.suppressed = told.suppressed \cup h.suppressed
  BY <1>1, <1>4, <1>5 DEF h
<1>12. LogTypes'
  BY <1>1, <1>2, <1>7, <1>8, <1>10, <1>11 DEF LogTypes
<1>13. /\ LinesOf'[t] = {} /\ DroppedOf'[t] = {} /\ SuppressedOf'[t] = {}
       /\ LinesOf[t] = Log!Lines(h.lines) /\ DroppedOf[t] = h.dropped
       /\ SuppressedOf[t] = h.suppressed
       /\ \A u \in Printers : u # t => /\ LinesOf'[u] = LinesOf[u] /\ DroppedOf'[u] = DroppedOf[u]
                                      /\ SuppressedOf'[u] = SuppressedOf[u]
  <2>1. Log!Lines(<<>>) = {}
    BY DEF Log!Lines
  <2>2. QED BY <1>6, <1>7, <2>1 DEF LinesOf, DroppedOf, SuppressedOf, h
<1>14. CountsRight'
  <2>1. Log!EachOnce(lost, DroppedOf', dropped, told.dropped \cup h.dropped)
    <3>1. Log!EachOnce(lost, DroppedOf, dropped, told.dropped)
      BY <1>2 DEF CountsRight
    <3>2. PICK f : f = DroppedOf' /\ f[t] = {} /\ \A u \in Printers : u # t => f[u] = DroppedOf[u]
      BY <1>13
    <3>3. Log!EachOnce(lost, f, dropped, told.dropped \cup DroppedOf[t])
      BY <3>1, <3>2, WrittenOut
    <3>4. QED BY <1>13, <3>2, <3>3
  <2>2. Log!EachOnce(skipped, SuppressedOf', suppressed \ reported, told.suppressed \cup h.suppressed)
    <3>1. Log!EachOnce(skipped, SuppressedOf, suppressed \ reported, told.suppressed)
      BY <1>2 DEF CountsRight
    <3>2. PICK f : f = SuppressedOf' /\ f[t] = {}
                   /\ \A u \in Printers : u # t => f[u] = SuppressedOf[u]
      BY <1>13
    <3>3. Log!EachOnce(skipped, f, suppressed \ reported, told.suppressed \cup SuppressedOf[t])
      BY <3>1, <3>2, WrittenOut
    <3>4. QED BY <1>13, <3>2, <3>3
  <2>3. QED BY <1>1, <1>2, <1>11, <2>1, <2>2 DEF CountsRight
<1>15. LinesRight'
  <2>1. Log!EachOnce(Log!Lines(printed), LinesOf', Log!Lines(ring),
                     Log!Lines(file) \cup Log!Lines(h.lines))
    <3>1. Log!EachOnce(Log!Lines(printed), LinesOf, Log!Lines(ring), Log!Lines(file))
      BY <1>2 DEF LinesRight
    <3>2. PICK f : f = LinesOf' /\ f[t] = {} /\ \A u \in Printers : u # t => f[u] = LinesOf[u]
      BY <1>13
    <3>3. Log!EachOnce(Log!Lines(printed), f, Log!Lines(ring), Log!Lines(file) \cup LinesOf[t])
      BY <3>1, <3>2, WrittenOut
    <3>4. QED BY <1>13, <3>2, <3>3
  <2>2. Log!NotTwice(file')
    <3>1. Log!NotTwice(file) /\ Log!NotTwice(h.lines)
      BY <1>2 DEF LinesRight, h
    <3>2. LinesOf[t] \cap Log!Lines(file) = {}
      BY <1>2 DEF LinesRight, Log!EachOnce, Printers
    <3>3. Log!Lines(file) \cap Log!Lines(h.lines) = {}
      BY <1>13, <3>2
    <3>4. Log!NotTwice(file \o h.lines)
      BY <1>4, <1>5, <3>1, <3>3, LinesJoined
    <3>5. QED BY <1>1, <3>4 DEF h
  <2>3. \A u \in Printers : Log!NotTwice(hands'[u].lines)
    <3>1. Log!NotTwice(<<>>)
      BY DEF Log!NotTwice
    <3>2. QED BY <1>2, <1>6, <1>7, <3>1 DEF LinesRight
  <2>4. QED BY <1>1, <1>2, <1>10, <2>1, <2>2, <2>3 DEF LinesRight
<1>16. MainsOrder'
  <2>1. SUFFICES ASSUME \A u \in Others : logAt'[u] = "idle"
                 PROVE  file' \o hands'[Main].lines \o ring = printed
    BY <1>1 DEF MainsOrder
  <2>2. t = Main
    BY <1>9, <2>1 DEF Printers, Log!Printers
  <2>3. file \o h.lines \o ring = printed
    BY <1>2, <1>9, <2>1, <2>2 DEF MainsOrder, h
  <2>4. hands'[Main].lines = <<>>
    BY <1>6, <1>7, <2>2
  <2>5. file' \o <<>> = file'
    BY <1>10, ConcatEmptySeq
  <2>6. file' = file \o h.lines
    BY <1>1 DEF h
  <2>7. QED BY <2>3, <2>4, <2>5, <2>6
<1>17. Log!Lines(file) \cup Log!InHands \subseteq Log!Lines(file') \cup Log!InHands'
  <2>1. ASSUME NEW e \in Log!InHands PROVE e \in Log!Lines(file') \cup Log!InHands'
    <3>1. PICK u \in Printers : e \in Log!Lines(hands[u].lines)
      BY DEF Log!InHands, Printers
    <3>2. CASE u = t
      BY <1>10, <3>1, <3>2 DEF h
    <3>3. CASE u # t
      <4>1. e \in Log!Lines(hands'[u].lines)
        BY <1>7, <3>1, <3>3
      <4>2. QED BY <4>1 DEF Log!InHands, Printers
    <3>4. QED BY <3>2, <3>3
  <2>2. QED BY <1>10, <2>1
<1>18. PumpsRight'
  <2>1. \A u \in Printers : logAt'[u] # "write" => hands'[u] = Log!Empty
    BY <1>2, <1>7, <1>8 DEF PumpsRight
  <2>2. \A u \in Others : logAt'[u] # "idle" =>
          flush'[u] /\ earlier'[u] \subseteq Log!Lines(printed')
    <3>1. \A u \in Others : logAt'[u] # "idle" => logAt[u] # "idle"
      BY <1>1, <1>3, <1>8
    <3>2. QED BY <1>1, <1>2, <3>1 DEF PumpsRight
  <2>3. ASSUME NEW u \in Others,
               \/ logAt'[u] = "write" /\ Len(hands'[u].lines) # ChunkLines
               \/ logAt'[u] \in {"flush", "over"}
        PROVE  earlier'[u] \subseteq Log!Lines(file') \cup Log!InHands'
    <3>1. \/ logAt[u] = "write" /\ Len(hands[u].lines) # ChunkLines
          \/ logAt[u] \in {"flush", "over"}
      <4>1. CASE u # t
        BY <1>3, <1>7, <1>8, <2>3, <4>1
      <4>2. CASE u = t
        <5>1. logAt'[t] = "flush"
          BY <1>8, <2>3, <4>2
        <5>2. QED BY <1>1, <1>8, <4>2, <5>1 DEF h
      <4>3. QED BY <4>1, <4>2
    <3>2. earlier[u] \subseteq Log!Lines(file) \cup Log!InHands
      BY <1>2, <3>1 DEF PumpsRight
    <3>3. QED BY <1>1, <1>17, <3>2
  <2>4. QED BY <2>1, <2>2, <2>3 DEF PumpsRight
<1>19. QED
  BY <1>12, <1>14, <1>15, <1>16, <1>18 DEF LogInv

LEMMA LogStuttered == LogInv /\ UNCHANGED Log!logVars => LogInv'
<1>1. SUFFICES ASSUME LogInv, UNCHANGED Log!logVars PROVE LogInv'
  OBVIOUS
<1>2. UNCHANGED <<ring, dropped, suppressed, reported, file, told, hands, said, printed, lost,
                  skipped, logAt, flush, earlier>>
  BY <1>1 DEF Log!logVars, Log!log, Log!past
<1>3. CountsRight' /\ LinesRight' /\ MainsOrder' /\ Log!InHands' = Log!InHands
  BY <1>1, <1>2, NoLineMoved
<1>4. LogTypes' /\ PumpsRight'
  BY <1>1, <1>2, <1>3 DEF LogInv, LogTypes, PumpsRight
<1>5. QED
  BY <1>3, <1>4 DEF LogInv

LEMMA LogSteps == LogInv /\ [Log!Next]_(Log!vars) => LogInv'
<1>1. SUFFICES ASSUME LogInv, [Log!Next]_(Log!vars) PROVE LogInv'
  OBVIOUS
<1>2. CASE UNCHANGED Log!logVars
  BY <1>1, <1>2, LogStuttered
<1>3. CASE Log!Logging
  BY <1>1, <1>3, StopEagerStep, PumpStep, FaultStep, FlushStep, PrintStep, ChunkTaken, ChunkWritten
     DEF Log!Logging, Printers
<1>4. QED
  BY <1>1, <1>2, <1>3 DEF Log!Next, Log!Statistics, Log!vars

\* The queue of the statistics.
StatsInv ==
  /\ statsQ \in Seq(Nat) /\ statsHands \in Seq(Nat) /\ statsFile \in Seq(Nat)
  /\ statsTaken \in Seq(Nat) /\ statsAsked \in Nat
  /\ statsAt # "write" => statsHands = <<>>
  /\ statsFile \o statsHands \o statsQ = statsTaken
  /\ Len(statsTaken) < statsAsked => Len(statsTaken) >= RingLines

LEMMA StatsInit == Log!Init => StatsInv
<1>1. SUFFICES ASSUME Log!Init PROVE StatsInv
  OBVIOUS
<1>2. statsQ = <<>> /\ statsHands = <<>> /\ statsFile = <<>> /\ statsTaken = <<>> /\ statsAsked = 0
  BY <1>1 DEF Log!Init
<1>3. statsFile \o statsHands \o statsQ = statsTaken
  BY <1>2
<1>4. ~(Len(statsTaken) < statsAsked)
  BY <1>2
<1>5. QED
  BY <1>2, <1>3, <1>4 DEF StatsInv

LEMMA StatsStep == StatsInv /\ [Log!Next]_(Log!vars) => StatsInv'
<1>1. SUFFICES ASSUME StatsInv, [Log!Next]_(Log!vars) PROVE StatsInv'
  OBVIOUS
<1>2. CASE UNCHANGED Log!stats
  BY <1>1, <1>2 DEF Log!stats, StatsInv
<1>3. ASSUME NEW t \in Printers, Log!Emit(t) PROVE StatsInv'
  <2>1. /\ statsAsked' = statsAsked + 1 /\ UNCHANGED <<statsHands, statsFile>>
        /\ statsAt' # "write" => statsAt # "write"
        /\ \/ Len(statsQ) < RingLines /\ statsQ' = Append(statsQ, statsAsked + 1)
              /\ statsTaken' = Append(statsTaken, statsAsked + 1)
           \/ ~(Len(statsQ) < RingLines) /\ UNCHANGED <<statsQ, statsTaken>>
    BY <1>3 DEF Log!Emit
  <2>2. statsAsked + 1 \in Nat
    BY <1>1 DEF StatsInv
  <2>3. PICK x \in Nat : x = statsAsked + 1
    BY <2>2
  <2>4. PICK c : c = statsFile \o statsHands
    OBVIOUS
  <2>5. c \in Seq(Nat) /\ c \o statsQ = statsTaken /\ statsQ \in Seq(Nat) /\ statsTaken \in Seq(Nat)
    BY <1>1, <2>4, ConcatProperties DEF StatsInv
  <2>6. Len(statsTaken) >= Len(statsQ)
    <3>1. Len(statsTaken) = Len(c) + Len(statsQ)
      BY <2>5, ConcatProperties
    <3>2. QED BY <2>5, <3>1
  <2>7. CASE Len(statsQ) < RingLines /\ statsQ' = Append(statsQ, statsAsked + 1)
             /\ statsTaken' = Append(statsTaken, statsAsked + 1)
    <3>1. statsQ' = statsQ \o <<x>> /\ statsTaken' = statsTaken \o <<x>> /\ <<x>> \in Seq(Nat)
          /\ statsQ' \in Seq(Nat) /\ statsTaken' \in Seq(Nat)
          /\ Len(statsTaken') = Len(statsTaken) + 1
      <4>1. Append(statsQ, x) = statsQ \o <<x>> /\ Append(statsQ, x) \in Seq(Nat)
        <5>1. Append(statsQ, x) = statsQ \o <<x>>
          BY <2>3, <2>5, AppendIsConcat
        <5>2. Append(statsQ, x) \in Seq(Nat)
          BY <2>3, <2>5, AppendProperties
        <5>3. QED BY <5>1, <5>2
      <4>2. Append(statsTaken, x) = statsTaken \o <<x>> /\ Append(statsTaken, x) \in Seq(Nat)
        <5>1. Append(statsTaken, x) = statsTaken \o <<x>>
          BY <2>3, <2>5, AppendIsConcat
        <5>2. Append(statsTaken, x) \in Seq(Nat)
          BY <2>3, <2>5, AppendProperties
        <5>3. QED BY <5>1, <5>2
      <4>3. Len(Append(statsTaken, x)) = Len(statsTaken) + 1
        BY <2>3, <2>5, AppendProperties
      <4>4. <<x>> \in Seq(Nat)
        BY <2>3
      <4>5. statsQ' = Append(statsQ, x) /\ statsTaken' = Append(statsTaken, x)
        BY <2>3, <2>7
      <4>6. QED BY <4>1, <4>2, <4>3, <4>4, <4>5
    <3>2. c \o (statsQ \o <<x>>) = (c \o statsQ) \o <<x>>
      BY <2>5, <3>1, ConcatAssociative, SMTT(30)
    <3>3. c \o statsQ' = statsTaken'
      BY <2>5, <3>1, <3>2
    <3>4. Len(statsTaken') < statsAsked' => Len(statsTaken') >= RingLines
      <4>1. Len(statsTaken) \in Nat /\ statsAsked \in Nat
            /\ (Len(statsTaken) < statsAsked => Len(statsTaken) >= RingLines)
        BY <1>1 DEF StatsInv
      <4>2. QED BY <2>1, <3>1, <4>1, LogAssumption
    <3>5. QED BY <1>1, <2>1, <2>2, <2>4, <3>1, <3>3, <3>4 DEF StatsInv
  <2>8. CASE ~(Len(statsQ) < RingLines) /\ UNCHANGED <<statsQ, statsTaken>>
    <3>1. Len(statsTaken) >= RingLines
      BY <2>5, <2>6, <2>8, LogAssumption
    <3>2. QED BY <1>1, <2>1, <2>2, <2>8, <3>1 DEF StatsInv
  <2>9. QED BY <2>1, <2>7, <2>8
<1>4. CASE Log!PumpStats
  BY <1>1, <1>4 DEF Log!PumpStats, StatsInv
<1>5. CASE Log!TakeStats
  <2>1. statsAt # "write" /\ statsAt' = "write" /\ statsHands' = statsQ /\ statsQ' = <<>>
        /\ UNCHANGED <<statsFile, statsAsked, statsTaken>>
    BY <1>5 DEF Log!TakeStats
  <2>2. statsFile \o statsQ = statsTaken
    BY <1>1, <2>1, ConcatEmptySeq DEF StatsInv
  <2>3. statsTaken \o <<>> = statsTaken
    BY <1>1, ConcatEmptySeq DEF StatsInv
  <2>4. QED BY <1>1, <2>1, <2>2, <2>3 DEF StatsInv
<1>6. CASE Log!WriteStats
  <2>1. statsFile' = statsFile \o statsHands /\ statsHands' = <<>>
        /\ UNCHANGED <<statsQ, statsAsked, statsTaken>>
    BY <1>6 DEF Log!WriteStats
  <2>2. statsFile' \in Seq(Nat)
    BY <1>1, <2>1, ConcatProperties DEF StatsInv
  <2>3. statsFile' \o <<>> = statsFile'
    BY <2>2, ConcatEmptySeq
  <2>4. QED BY <1>1, <2>1, <2>2, <2>3 DEF StatsInv
<1>7. QED
  BY <1>1, <1>2, <1>3, <1>4, <1>5, <1>6 DEF Log!Next, Log!Statistics, Log!Logging, Log!vars, Printers

LEMMA LogSafe == LogInv /\ StatsInv => EveryLineOnce
<1>1. SUFFICES ASSUME LogInv, StatsInv PROVE EveryLineOnce
  OBVIOUS
<1>2. Log!LinesOnce
  BY <1>1 DEF Log!LinesOnce, LogInv, LinesRight, LinesOf, Printers
<1>3. /\ Log!EachOnce(lost, [t \in Log!Printers |-> hands[t].dropped], dropped, told.dropped)
      /\ Log!EachOnce(skipped, [t \in Log!Printers |-> hands[t].suppressed],
                      suppressed \ reported, told.suppressed)
      /\ Log!Lines(printed) \cup lost \cup skipped = 1..said
  BY <1>1 DEF LogInv, CountsRight, DroppedOf, SuppressedOf, Printers
<1>4. (\A t \in Others : logAt[t] = "idle") => file \o hands[Main].lines \o ring = printed
  BY <1>1 DEF LogInv, MainsOrder
<1>5. \A t \in Others : logAt[t] = "flush" =>
        earlier[t] \subseteq Log!Lines(file) \cup Log!InHands
  BY <1>1 DEF LogInv, PumpsRight
<1>6. QED
  BY <1>1, <1>2, <1>3, <1>4, <1>5 DEF EveryLineOnce, Log!EveryLineOnce, StatsInv

\* Whatever the size of the ring and of a chunk, and however many threads print
\* and fault while the main thread pumps: every line is in the ring, in a pump's
\* hands or in the file once, in order while only the main thread pumps, or in
\* one count; a thread that faulted has flushed what was printed before; and the
\* statistics' queue keeps its order (source/util.c, source/main.c).
THEOREM NoLineIsLost == Log!Spec => []EveryLineOnce
<1>1. Log!Spec => [](LogInv /\ StatsInv)
  BY LogInit, LogSteps, StatsInit, StatsStep, PTL DEF Log!Spec
<1>2. QED
  BY <1>1, LogSafe, PTL

----------------------------------------------------------------------------
(* Descriptors.                                                            *)

Tracking == 1..MaxTracked
Buffered == [fd : Fds \cup {-1}, pos : Nat, start : Nat, buf : Seq(Archives \X Nat),
             ra : Nat \ {0}, seqNext : Int]
FdCall == [call : {"", "open", "untrack", "forget", "close"}, fd : Fds \cup {-1},
           slot : 0..MaxTracked]

FdTypes ==
  /\ is \in [Fds -> Archives \cup {"closed", "socket", "loose"}]
  /\ pos \in [Fds -> Int] /\ fdView \in [Fds -> Nat]
  /\ slots \in [Tracking -> Buffered] /\ marks \subseteq Fds
  /\ fdPc \in [Threads -> FdCall] /\ fdMine \in [Threads -> SUBSET Fds]

InCallFor(t, fd) == fdPc[t].call # "" /\ fdPc[t].fd = fd
Theirs(t, fd) == fd \in fdMine[t] \/ InCallFor(t, fd)

\* A descriptor is one thread's, who has it or is in a call for it.
FdsApart ==
  /\ \A t \in Threads : fdPc[t].call # "" => fdPc[t].fd \in Fds \ fdMine[t]
  /\ \A t, u \in Threads : \A fd \in Fds : Theirs(t, fd) /\ Theirs(u, fd) => t = u
  /\ \A t \in Threads : \A fd \in Fds : Theirs(t, fd) => is[fd] # "closed"

\* A slot in use is its descriptor's only one.
OneSlotEachFd ==
  \A s, r \in Tracking : slots[s].fd = slots[r].fd /\ slots[s].fd # -1 => s = r

\* It is given up before anything else of the descriptor is.
TrackedWhileOpen ==
  /\ \A s \in Tracking : slots[s].fd # -1 =>
       \E t \in Threads : slots[s].fd \in fdMine[t]
                          \/ (fdPc[t].call = "untrack" /\ fdPc[t].fd = slots[s].fd)
  /\ \A t \in Threads : fdPc[t].call = "untrack" =>
       \A s \in Tracking : s = fdPc[t].slot <=> slots[s].fd = fdPc[t].fd

\* The buffer is a block of the file, from its start on.
BlockOf(s, f) == \A k \in 1..Len(s.buf) : s.buf[k] = <<f, s.start + k - 1>>

SlotsRight ==
  \A s \in Tracking : slots[s].fd # -1 =>
    LET fd == slots[s].fd
    IN is[fd] \in Archives /\ slots[s].pos = fdView[fd] /\ BlockOf(slots[s], is[fd])

\* The libc's position is the caller's where the shim keeps none.
PlainRight ==
  /\ \A t \in Threads : \A fd \in fdMine[t] :
       is[fd] # "socket" /\ (\A s \in Tracking : slots[s].fd # fd) => pos[fd] = fdView[fd]
  /\ \A t \in Threads : fdPc[t].call = "open" =>
       pos[fdPc[t].fd] = 0 /\ fdView[fdPc[t].fd] = 0

MarksRight ==
  /\ \A fd \in marks : \E t \in Threads :
       fd \in fdMine[t] \/ (fdPc[t].call \in {"untrack", "forget"} /\ fdPc[t].fd = fd)
  /\ \A t \in Threads : \A fd \in fdMine[t] : fd \in marks <=> is[fd] = "socket"

FdInv == /\ FdTypes /\ FdsApart /\ OneSlotEachFd /\ TrackedWhileOpen
         /\ SlotsRight /\ PlainRight /\ MarksRight

LEMMA DescriptorNumbers ==
  /\ Fds \subseteq Nat /\ ArchiveSize \in Nat /\ MaxTracked \in Nat
  /\ Page \in Nat \ {0} /\ RaMin \in Nat \ {0} /\ RaMax \in Nat \ {0}
  /\ \A fd \in Fds : fd # -1
<1>1. Fds \subseteq Nat
  BY DescriptorAssumption
<1>2. \A fd \in Fds : fd # -1
  BY <1>1
<1> QED BY <1>2, DescriptorAssumption

\* How many units there are from i on, of n.
There(i, n) == IF i < ArchiveSize THEN IF n < ArchiveSize - i THEN n ELSE ArchiveSize - i ELSE 0

LEMMA ThereIs ==
  ASSUME NEW i \in Nat, NEW n \in Nat
  PROVE  /\ There(i, n) \in Nat
         /\ Fd!Least(n, IF i < ArchiveSize THEN ArchiveSize - i ELSE 0) = There(i, n)
  BY DescriptorNumbers DEF There, Fd!Least

LEMMA ContentIs ==
  ASSUME NEW f \in Archives, NEW i \in Nat, NEW n \in Nat
  PROVE  /\ Fd!Content(f, i, n) = [k \in 1..There(i, n) |-> <<f, i + k - 1>>]
         /\ Fd!Content(f, i, n) \in Seq(Archives \X Nat)
         /\ Len(Fd!Content(f, i, n)) = There(i, n)
<1>1. There(i, n) \in Nat
      /\ Fd!Least(n, IF i < ArchiveSize THEN ArchiveSize - i ELSE 0) = There(i, n)
  BY ThereIs
<1>2. Fd!Content(f, i, n) = [k \in 1..There(i, n) |-> <<f, i + k - 1>>]
  BY <1>1 DEF Fd!Content
<1>3. \A k \in 1..There(i, n) : <<f, i + k - 1>> \in Archives \X Nat
  <2>1. \A k \in 1..There(i, n) : i + k - 1 \in Nat
    BY <1>1
  <2> QED BY <2>1
<1>4. PICK c \in Nat : c = There(i, n)
  BY <1>1
<1>5. PICK b : b = [k \in 1..c |-> <<f, i + k - 1>>]
  OBVIOUS
<1>6. b \in Seq(Archives \X Nat) /\ Len(b) = c
  BY <1>3, <1>4, <1>5
<1> QED BY <1>2, <1>4, <1>5, <1>6

\* The place that is asked for is in the buffer after Filled.
Served1(r, s, f) ==
  /\ r \in Buffered /\ r.fd = s.fd /\ r.pos = s.pos /\ BlockOf(r, f)
  /\ r.start <= r.pos /\ r.pos - r.start + 1 \in 1..Len(r.buf)

LEMMA FilledIs ==
  ASSUME NEW f \in Archives, NEW s \in Buffered, BlockOf(s, f), s.pos < ArchiveSize
  PROVE  Served1(Fd!Filled(s, f), s, f)
<1>1. /\ s.pos \in Nat /\ s.start \in Nat /\ s.buf \in Seq(Archives \X Nat) /\ s.ra \in Nat \ {0}
      /\ s.seqNext \in Int /\ s.fd \in Fds \cup {-1} /\ Len(s.buf) \in Nat
  BY DEF Buffered
<1>2. CASE s.start <= s.pos /\ s.pos < s.start + Len(s.buf)
  <2>1. Fd!Filled(s, f) = s
    BY <1>2 DEF Fd!Filled
  <2>2. s.pos - s.start + 1 \in 1..Len(s.buf)
    BY <1>1, <1>2
  <2> QED BY <1>2, <2>1, <2>2 DEF Served1
<1>3. CASE ~(s.start <= s.pos /\ s.pos < s.start + Len(s.buf))
  <2>1. PICK ra : ra = IF s.pos = s.seqNext THEN Fd!Least(2 * s.ra, RaMax) ELSE RaMin
    OBVIOUS
  <2>2. ra \in Nat \ {0}
    <3>1. Fd!Least(2 * s.ra, RaMax) \in Nat \ {0}
      BY <1>1, DescriptorNumbers DEF Fd!Least
    <3> QED BY <2>1, <3>1, DescriptorNumbers
  <2>3. PICK start : start = s.pos - (s.pos % Page)
    OBVIOUS
  <2>4. start \in Nat /\ start <= s.pos /\ s.pos - start < Page
    <3>1. s.pos % Page \in 0..(Page - 1) /\ s.pos % Page <= s.pos
      <4>1. PICK p \in Nat, q \in Nat \ {0} : p = s.pos /\ q = Page
        BY <1>1, DescriptorNumbers
      <4>2. p % q \in 0..(q - 1) /\ p % q <= p
        <5>1. p = q * (p \div q) + (p % q) /\ p % q \in 0..(q - 1) /\ p \div q \in Int
          OBVIOUS
        <5>2. p \div q >= 0
          OBVIOUS
        <5>3. q * (p \div q) >= 0
          BY <5>1, <5>2
        <5> QED BY <5>1, <5>3
      <4> QED BY <4>1, <4>2
    <3> QED BY <1>1, <2>3, <3>1, DescriptorNumbers
  <2>5. PICK n : n = Fd!Least(ra + s.pos - start, RaMax + 2 * Page)
    OBVIOUS
  <2>6. n \in Nat /\ s.pos - start + 1 <= n
    <3>1. PICK p \in Nat, a \in Nat, b \in Nat :
            p = s.pos - start /\ a = ra + s.pos - start /\ b = RaMax + 2 * Page
      <4>1. RaMax \in Nat /\ Page \in Nat
        BY DescriptorNumbers
      <4>2. RaMax + 2 * Page \in Nat
        BY <4>1
      <4> QED BY <1>1, <2>2, <2>4, <4>2
    <3>2. p + 1 <= a
      BY <1>1, <2>2, <2>4, <3>1
    <3>3. p + 1 <= b
      <4>1. p < Page /\ Page \in Nat \ {0} /\ RaMax \in Nat
        BY <2>4, <3>1, DescriptorNumbers
      <4> QED BY <3>1, <4>1
    <3>4. n = IF a < b THEN a ELSE b
      BY <2>5, <3>1 DEF Fd!Least
    <3> QED BY <3>1, <3>2, <3>3, <3>4
  <2>7. PICK buf : buf = Fd!Content(f, start, n)
    OBVIOUS
  <2>8. /\ buf = [k \in 1..There(start, n) |-> <<f, start + k - 1>>]
        /\ buf \in Seq(Archives \X Nat) /\ Len(buf) = There(start, n)
    BY <2>4, <2>6, <2>7, ContentIs
  <2>9. There(start, n) \in Nat /\ s.pos - start + 1 \in 1..There(start, n)
    <3>1. start < ArchiveSize /\ ArchiveSize \in Nat
      BY <1>1, <2>4, DescriptorNumbers
    <3>2. There(start, n) = IF n < ArchiveSize - start THEN n ELSE ArchiveSize - start
      BY <3>1 DEF There
    <3>3. s.pos - start + 1 <= ArchiveSize - start /\ s.pos - start + 1 >= 1
      BY <1>1, <2>4, <3>1
    <3> QED BY <1>1, <2>4, <2>6, <3>1, <3>2, <3>3
  <2>10. start + Len(buf) \in Int
    BY <2>4, <2>8, <2>9
  <2>11. PICK r : r = [s EXCEPT !.ra = ra, !.start = start, !.buf = buf, !.seqNext = start + Len(buf)]
    OBVIOUS
  <2>12. Fd!Filled(s, f) = r
    BY <1>3, <2>1, <2>3, <2>5, <2>7, <2>11 DEF Fd!Filled
  <2>13. r \in Buffered /\ r.fd = s.fd /\ r.pos = s.pos /\ r.start = start /\ r.buf = buf
    BY <1>1, <2>2, <2>4, <2>8, <2>10, <2>11 DEF Buffered
  <2>14. BlockOf(r, f)
    BY <2>8, <2>13, Zenon DEF BlockOf
  <2>15. r.start <= r.pos /\ r.pos - r.start + 1 \in 1..Len(r.buf)
    BY <2>4, <2>8, <2>9, <2>13
  <2> QED BY <2>12, <2>13, <2>14, <2>15 DEF Served1
<1> QED BY <1>2, <1>3

\* What k units make of a slot that stands at i.
ServedSoFar(acc, s, f, i, k) ==
  /\ acc.slot \in Buffered /\ acc.slot.fd = s.fd /\ BlockOf(acc.slot, f)
  /\ acc.slot.pos = i + There(i, k)
  /\ acc.out = [j \in 1..There(i, k) |-> <<f, i + j - 1>>]

LEMMA OneUnitMore ==
  ASSUME NEW f \in Archives, NEW s, NEW i \in Nat, NEW k \in Nat, NEW acc,
         ServedSoFar(acc, s, f, i, k)
  PROVE  ServedSoFar(Fd!OneServed(acc, f), s, f, i, k + 1)
<1>1. PICK c \in Nat : c = There(i, k)
  BY ThereIs
<1>2. /\ acc.slot \in Buffered /\ acc.slot.fd = s.fd /\ BlockOf(acc.slot, f)
      /\ acc.slot.pos = i + c /\ acc.out = [j \in 1..c |-> <<f, i + j - 1>>]
  BY <1>1 DEF ServedSoFar
<1>3. CASE acc.slot.pos >= ArchiveSize
  <2>1. Fd!OneServed(acc, f) = acc
    BY <1>3 DEF Fd!OneServed
  <2>2. There(i, k + 1) = c
    BY <1>1, <1>2, <1>3, DescriptorNumbers DEF There
  <2> QED BY <1>2, <2>1, <2>2, Zenon DEF ServedSoFar
<1>4. CASE ~(acc.slot.pos >= ArchiveSize)
  <2>1. acc.slot.pos \in Nat /\ acc.slot.pos < ArchiveSize
    BY <1>2, <1>4, DescriptorNumbers
  <2>2. PICK now : now = Fd!Filled(acc.slot, f)
    OBVIOUS
  <2>3. Served1(now, acc.slot, f)
    BY <1>2, <2>1, <2>2, FilledIs
  <2>4. /\ now \in Buffered /\ now.fd = s.fd /\ now.pos = i + c /\ BlockOf(now, f)
        /\ now.start <= now.pos /\ now.pos - now.start + 1 \in 1..Len(now.buf)
    BY <1>2, <2>3 DEF Served1
  <2>5. There(i, k + 1) = c + 1
    BY <1>1, <1>2, <2>1, DescriptorNumbers DEF There
  <2>6. now.buf[now.pos - now.start + 1] = <<f, i + c>>
    <3>1. now.buf[now.pos - now.start + 1] = <<f, now.start + (now.pos - now.start + 1) - 1>>
      BY <2>4, Zenon DEF BlockOf
    <3>2. now.start + (now.pos - now.start + 1) - 1 = i + c
      BY <2>4 DEF Buffered
    <3> QED BY <3>1, <3>2
  <2>7. PICK slot : slot = [now EXCEPT !.pos = @ + 1]
    OBVIOUS
  <2>8. slot \in Buffered /\ slot.fd = s.fd /\ slot.pos = i + (c + 1)
    <3>1. now.pos + 1 \in Nat /\ now.pos + 1 = i + (c + 1)
      BY <2>4
    <3> QED BY <2>4, <2>7, <3>1 DEF Buffered
  <2>9. slot.buf = now.buf /\ slot.start = now.start
    BY <2>4, <2>7 DEF Buffered
  <2>10. BlockOf(slot, f)
    BY <2>4, <2>9, Zenon DEF BlockOf
  <2>11. PICK out : out = Append(acc.out, <<f, i + c>>)
    OBVIOUS
  <2>12. out = [j \in 1..(c + 1) |-> <<f, i + j - 1>>]
    <3>1. \A j \in 1..c : <<f, i + j - 1>> \in Archives \X Nat
      OBVIOUS
    <3>2. acc.out \in Seq(Archives \X Nat) /\ Len(acc.out) = c
      BY <1>2, <3>1
    <3>3. <<f, i + c>> \in Archives \X Nat
      OBVIOUS
    <3>4. out \in Seq(Archives \X Nat) /\ Len(out) = c + 1
      BY <2>11, <3>2, <3>3
    <3>5. \A j \in 1..(c + 1) : out[j] = IF j <= c THEN acc.out[j] ELSE <<f, i + c>>
      BY <2>11, <3>2, <3>3
    <3>6. \A j \in 1..(c + 1) : out[j] = <<f, i + j - 1>>
      <4> TAKE j \in 1..(c + 1)
      <4>1. CASE j <= c
        <5>1. j \in 1..c
          BY <4>1
        <5>2. out[j] = acc.out[j]
          BY <3>5, <4>1
        <5> QED BY <1>2, <5>1, <5>2, Zenon
      <4>2. CASE ~(j <= c)
        <5>1. i + j - 1 = i + c
          BY <4>2
        <5> QED BY <3>5, <4>2, <5>1
      <4> QED BY <4>1, <4>2
    <3> QED BY <3>4, <3>6
  <2>13. Fd!OneServed(acc, f) = [slot |-> slot, out |-> out]
    BY <1>4, <2>2, <2>6, <2>7, <2>11 DEF Fd!OneServed
  <2>14. PICK new : new = [slot |-> slot, out |-> out]
    OBVIOUS
  <2>15. new.slot = slot /\ new.out = out
    BY <2>14
  <2>16. ServedSoFar(new, s, f, i, k + 1)
    BY <2>5, <2>8, <2>10, <2>12, <2>15, Zenon DEF ServedSoFar
  <2> QED BY <2>13, <2>14, <2>16
<1> QED BY <1>3, <1>4

Lower == {ss \in Nat \X Nat : ss[1] < ss[2]}

LEMMA LowerIsWellFounded == IsWellFoundedOn(Lower, Nat)
  BY NatLessThanWellFounded DEF OpToRel, Lower

\* A set of numbers that is not empty has a least one.
LEMMA LeastOf ==
  ASSUME NEW S \in SUBSET Nat, S # {}
  PROVE  \E i \in S : \A j \in Nat : j < i => j \notin S
<1>1. PICK i \in S : \A j \in S : ~(<<j, i>> \in Lower)
  BY LowerIsWellFounded, WFMin
<1>2. ASSUME NEW j \in Nat, j < i PROVE j \notin S
  BY <1>1, <1>2 DEF Lower
<1> QED BY <1>2

\* A function on the first m units that does with each what Served says.
Serves(g, m, start, f) ==
  g = [k \in 0..m |-> IF k = 0 THEN start ELSE Fd!OneServed(g[k - 1], f)]

LEMMA ServesOn ==
  ASSUME NEW start, NEW f, NEW m \in Nat
  PROVE  \E g : Serves(g, m, start, f)
<1> SUFFICES ASSUME ~(\E g : Serves(g, m, start, f)) PROVE FALSE
  OBVIOUS
<1> DEFINE S == {i \in Nat : ~(\E g : Serves(g, i, start, f))}
<1>1. S \in SUBSET Nat /\ S # {}
  OBVIOUS
<1>2. PICK i \in S : \A j \in Nat : j < i => j \notin S
  <2> HIDE DEF S
  <2> QED BY <1>1, LeastOf
<1>3. i \in Nat /\ ~(\E g : Serves(g, i, start, f))
  OBVIOUS
<1>4. CASE i = 0
  <2>1. PICK g : g = [k \in 0..0 |-> start]
    OBVIOUS
  <2>2. g = [k \in 0..0 |-> IF k = 0 THEN start ELSE Fd!OneServed(g[k - 1], f)]
    <3>1. \A k \in 0..0 : k = 0
      OBVIOUS
    <3> QED BY <2>1, <3>1, Zenon
  <2>3. Serves(g, 0, start, f)
    BY <2>2, Zenon DEF Serves
  <2> QED BY <1>3, <1>4, <2>3
<1>5. CASE i # 0
  <2>1. i - 1 \in Nat /\ i - 1 < i
    BY <1>3, <1>5
  <2>2. PICK h : Serves(h, i - 1, start, f)
    <3>1. i - 1 \notin S
      BY <1>2, <2>1
    <3> QED BY <2>1, <3>1
  <2> DEFINE g == [k \in 0..i |-> IF k = 0 THEN start ELSE Fd!OneServed(h[k - 1], f)]
  <2>3. \A k \in 0..(i - 1) : g[k] = h[k]
    <3>1. 0..(i - 1) \subseteq 0..i
      BY <1>3
    <3>2. \A k \in 0..(i - 1) : h[k] = IF k = 0 THEN start ELSE Fd!OneServed(h[k - 1], f)
      BY <2>2, Zenon DEF Serves
    <3>3. \A k \in 0..i : g[k] = IF k = 0 THEN start ELSE Fd!OneServed(h[k - 1], f)
      BY Zenon
    <3> QED BY <3>1, <3>2, <3>3, Zenon
  <2>4. \A k \in 0..i : k # 0 => k - 1 \in 0..(i - 1)
    BY <1>3
  <2>5. \A k \in 0..i : k # 0 => g[k - 1] = h[k - 1]
    BY <2>3, <2>4, Zenon
  <2>6. g = [k \in 0..i |-> IF k = 0 THEN start ELSE Fd!OneServed(g[k - 1], f)]
    <3>1. \A k \in 0..i : (IF k = 0 THEN start ELSE Fd!OneServed(h[k - 1], f))
                            = IF k = 0 THEN start ELSE Fd!OneServed(g[k - 1], f)
      <4> HIDE DEF g
      <4> QED BY <2>5, Zenon
    <3>2. PICK e : e = g
      OBVIOUS
    <3>3. e = [k \in 0..i |-> IF k = 0 THEN start ELSE Fd!OneServed(h[k - 1], f)]
      BY <3>2
    <3>4. e = [k \in 0..i |-> IF k = 0 THEN start ELSE Fd!OneServed(e[k - 1], f)]
      <4> HIDE DEF g
      <4> QED BY <3>1, <3>2, <3>3, Zenon
    <3> HIDE DEF g
    <3> QED BY <3>2, <3>4, Zenon
  <2> HIDE DEF g
  <2>7. Serves(g, i, start, f)
    BY <2>6, Zenon DEF Serves
  <2> QED BY <1>3, <2>7
<1> QED BY <1>4, <1>5

\* A read of a tracked archive answers with the units from its place on, and
\* leaves the slot behind them.
LEMMA ServedIs ==
  ASSUME NEW f \in Archives, NEW s \in Buffered, BlockOf(s, f), NEW n \in Nat
  PROVE  ServedSoFar(Fd!Served(s, f, n), s, f, s.pos, n)
<1>1. PICK start : start = [slot |-> s, out |-> <<>>]
  OBVIOUS
<1>2. PICK i \in Nat : i = s.pos
  BY DEF Buffered
<1>3. \E h : Serves(h, n, start, f)
  BY ServesOn
<1>4. PICK g : g = CHOOSE h : Serves(h, n, start, f)
  OBVIOUS
<1>5. Serves(g, n, start, f)
  BY <1>3, <1>4, Zenon
<1>6. Fd!Served(s, f, n) = g[n]
  BY <1>1, <1>4 DEF Fd!Served, Serves
<1>7. \A k \in 0..n : g[k] = IF k = 0 THEN start ELSE Fd!OneServed(g[k - 1], f)
  BY <1>5, Zenon DEF Serves
<1>8. ServedSoFar(g[0], s, f, i, 0)
  <2>1. 0 \in 0..n
    OBVIOUS
  <2>2. g[0] = start
    BY <1>7, <2>1
  <2>3. start.slot = s /\ start.out = <<>>
    BY <1>1
  <2>4. There(i, 0) = 0
    BY DescriptorNumbers DEF There
  <2>5. s.pos = i + 0
    BY <1>2
  <2>6. <<>> = [j \in 1..0 |-> <<f, i + j - 1>>]
    <3>1. 1..0 = {}
      OBVIOUS
    <3>2. <<>> = [j \in {} |-> <<f, i + j - 1>>]
      OBVIOUS
    <3> QED BY <3>1, <3>2
  <2>7. ServedSoFar(start, s, f, i, 0)
    BY <2>3, <2>4, <2>5, <2>6, Zenon DEF ServedSoFar
  <2> QED BY <2>2, <2>7
<1>9. ASSUME NEW k \in 0..(n - 1), ServedSoFar(g[k], s, f, i, k)
      PROVE  ServedSoFar(g[k + 1], s, f, i, k + 1)
  <2>1. k + 1 \in 0..n /\ k + 1 # 0 /\ (k + 1) - 1 = k /\ k \in Nat
    OBVIOUS
  <2>2. g[k + 1] = Fd!OneServed(g[k], f)
    BY <1>7, <2>1
  <2>3. ServedSoFar(Fd!OneServed(g[k], f), s, f, i, k + 1)
    BY <1>9, <2>1, OneUnitMore
  <2> QED BY <2>2, <2>3
<1>10. ServedSoFar(g[n], s, f, i, n)
  <2> SUFFICES ASSUME ~ServedSoFar(g[n], s, f, i, n) PROVE FALSE
    OBVIOUS
  <2>1. PICK S : S = {k \in 0..n : ~ServedSoFar(g[k], s, f, i, k)}
    OBVIOUS
  <2>2. n \in 0..n
    OBVIOUS
  <2>3. S \in SUBSET Nat /\ S # {}
    <3>1. 0..n \subseteq Nat
      OBVIOUS
    <3> QED BY <2>1, <2>2, <3>1, Zenon
  <2>4. PICK m \in S : \A j \in Nat : j < m => j \notin S
    BY <2>3, LeastOf
  <2>5. m \in 0..n /\ ~ServedSoFar(g[m], s, f, i, m)
    BY <2>1, Zenon
  <2>6. m # 0
    BY <1>8, <2>5, Zenon
  <2>7. PICK k \in 0..(n - 1) : m = k + 1 /\ k \in Nat /\ k < m /\ k \in 0..n
    <3>1. m - 1 \in 0..(n - 1) /\ m = (m - 1) + 1 /\ m - 1 \in Nat /\ m - 1 < m /\ m - 1 \in 0..n
      BY <2>5, <2>6
    <3> QED BY <3>1
  <2>8. ServedSoFar(g[k], s, f, i, k)
    <3>1. k \notin S
      BY <2>4, <2>7
    <3> QED BY <2>1, <2>7, <3>1, Zenon
  <2>9. ServedSoFar(g[k + 1], s, f, i, k + 1)
    BY <1>9, <2>8
  <2> QED BY <2>5, <2>7, <2>9, Zenon
<1> QED BY <1>2, <1>6, <1>10, Zenon

----------------------------------------------------------------------------

LEMMA FdInit == Fd!Init => FdInv
<1> SUFFICES ASSUME Fd!Init PROVE FdInv
  OBVIOUS
<1>1. /\ is = [f \in Fds |-> "closed"] /\ pos = [f \in Fds |-> 0]
      /\ slots = [s \in Tracking |-> Fd!Fresh] /\ marks = {}
      /\ fdPc = [t \in Threads |-> Fd!Idle]
      /\ fdMine = [t \in Threads |-> {}] /\ fdView = [f \in Fds |-> 0]
  BY DEF Fd!Init, Fd!Slots, Tracking, Fd!Closed
<1>2. Fd!Fresh \in Buffered /\ Fd!Fresh.fd = -1
  <2>1. <<>> \in Seq(Archives \X Nat)
    OBVIOUS
  <2> QED BY <2>1, DescriptorNumbers DEF Fd!Fresh, Fd!NoFd, Buffered
<1>3. Fd!Idle \in FdCall /\ Fd!Idle.call = ""
  BY DescriptorNumbers DEF Fd!Idle, Fd!NoFd, FdCall
<1>4. FdTypes
  <2>1. slots \in [Tracking -> Buffered] /\ fdPc \in [Threads -> FdCall]
    BY <1>1, <1>2, <1>3, Zenon
  <2>2. is \in [Fds -> Archives \cup {"closed", "socket", "loose"}]
    BY <1>1
  <2>3. pos \in [Fds -> Int] /\ fdView \in [Fds -> Nat]
    BY <1>1
  <2>4. fdMine \in [Threads -> SUBSET Fds] /\ marks \subseteq Fds
    BY <1>1
  <2> QED BY <2>1, <2>2, <2>3, <2>4, Zenon DEF FdTypes
<1>5. (\A t \in Threads : fdPc[t].call = "" /\ fdMine[t] = {}) /\ \A s \in Tracking : slots[s].fd = -1
  BY <1>1, <1>2, <1>3
<1>6. FdsApart /\ OneSlotEachFd /\ TrackedWhileOpen /\ SlotsRight /\ PlainRight /\ MarksRight
  BY <1>1, <1>5, Zenon DEF FdsApart, OneSlotEachFd, TrackedWhileOpen, SlotsRight, PlainRight,
                           MarksRight, Theirs, InCallFor
<1> QED BY <1>4, <1>6 DEF FdInv

LEMMA FdKept == FdInv /\ UNCHANGED Fd!vars => FdInv'
<1> SUFFICES ASSUME FdInv, UNCHANGED Fd!vars PROVE FdInv'
  OBVIOUS
<1>1. UNCHANGED <<is, pos, slots, marks, fdPc, fdMine, fdView>>
  BY DEF Fd!vars
<1>2. /\ FdTypes /\ FdsApart /\ OneSlotEachFd /\ TrackedWhileOpen
      /\ SlotsRight /\ PlainRight /\ MarksRight
  BY DEF FdInv
<1>3. FdTypes'
  BY <1>1, <1>2 DEF FdTypes
<1>4. FdsApart'
  BY <1>1, <1>2 DEF FdsApart, Theirs, InCallFor
<1>5. OneSlotEachFd' /\ TrackedWhileOpen'
  BY <1>1, <1>2 DEF OneSlotEachFd, TrackedWhileOpen
<1>6. SlotsRight'
  BY <1>1, <1>2 DEF SlotsRight, BlockOf
<1>7. PlainRight'
  BY <1>1, <1>2 DEF PlainRight
<1>8. MarksRight'
  BY <1>1, <1>2 DEF MarksRight
<1> QED BY <1>3, <1>4, <1>5, <1>6, <1>7, <1>8, Zenon DEF FdInv

\* obb_find returns the descriptor's slot.
LEMMA TrackedIs ==
  ASSUME FdInv, NEW fd \in Fds
  PROVE  /\ (\A s \in Tracking : slots[s].fd # fd) => Fd!Tracked(fd) = {}
         /\ \A s \in Tracking : slots[s].fd = fd => Fd!Tracked(fd) = {s}
<1>1. Fd!Tracked(fd) = {i \in {s \in Tracking : slots[s].fd = fd} :
                          \A j \in {s \in Tracking : slots[s].fd = fd} : i <= j}
  BY DEF Fd!Tracked, Fd!Lowest, Fd!Slots, Tracking
<1>2. fd # -1
  BY DescriptorNumbers
<1>3. ASSUME NEW s \in Tracking, slots[s].fd = fd
      PROVE  {r \in Tracking : slots[r].fd = fd} = {s}
  BY <1>2, <1>3, Zenon DEF FdInv, OneSlotEachFd
<1>4. ASSUME NEW s \in Tracking, slots[s].fd = fd
      PROVE  Fd!Tracked(fd) = {s}
  <2>1. s <= s
    BY DEF Tracking
  <2>2. {r \in Tracking : slots[r].fd = fd} = {s}
    BY <1>3, <1>4
  <2>3. Fd!Tracked(fd) = {i \in {s} : \A j \in {s} : i <= j}
    BY <1>1, <2>2
  <2> QED BY <2>1, <2>3
<1>5. (\A s \in Tracking : slots[s].fd # fd) => Fd!Tracked(fd) = {}
  BY <1>1, Zenon
<1> QED BY <1>4, <1>5

\* A number the libc has not given out is nobody's and left no trace.
LEMMA Unowned ==
  ASSUME FdInv, NEW fd \in Fds, is[fd] = "closed"
  PROVE  /\ \A t \in Threads : ~Theirs(t, fd)
         /\ \A s \in Tracking : slots[s].fd # fd
         /\ fd \notin marks
<1>1. \A t \in Threads : ~Theirs(t, fd)
  BY DEF FdInv, FdsApart
<1>2. \A s \in Tracking : slots[s].fd # fd
  <2> SUFFICES ASSUME NEW s \in Tracking, slots[s].fd = fd PROVE FALSE
    OBVIOUS
  <2>1. fd # -1
    BY DescriptorNumbers
  <2>2. PICK t \in Threads : fd \in fdMine[t] \/ (fdPc[t].call = "untrack" /\ fdPc[t].fd = fd)
    BY <2>1 DEF FdInv, TrackedWhileOpen
  <2>3. Theirs(t, fd)
    BY <2>2 DEF Theirs, InCallFor
  <2> QED BY <1>1, <2>3
<1>3. fd \notin marks
  <2> SUFFICES ASSUME fd \in marks PROVE FALSE
    OBVIOUS
  <2>1. PICK t \in Threads :
          fd \in fdMine[t] \/ (fdPc[t].call \in {"untrack", "forget"} /\ fdPc[t].fd = fd)
    BY DEF FdInv, MarksRight
  <2>2. Theirs(t, fd)
    BY <2>1 DEF Theirs, InCallFor
  <2> QED BY <1>1, <2>2
<1> QED BY <1>1, <1>2, <1>3

\* A call goes on with a descriptor that nobody has; but for a close that has
\* not given its slot up, none of the slots is that descriptor's.
LEMMA CallsOwn ==
  ASSUME FdInv, NEW t \in Threads, fdPc[t].call # ""
  PROVE  /\ fdPc[t].fd \in Fds
         /\ \A u \in Threads : fdPc[t].fd \notin fdMine[u]
         /\ \A u \in Threads : InCallFor(u, fdPc[t].fd) => u = t
         /\ fdPc[t].call # "untrack" => \A s \in Tracking : slots[s].fd # fdPc[t].fd
<1>1. fdPc[t].fd \in Fds \ fdMine[t]
  BY DEF FdInv, FdsApart
<1>2. PICK fd \in Fds : fd = fdPc[t].fd
  BY <1>1
<1>3. Theirs(t, fd) /\ fd # -1
  <2>1. fd \in Fds
    BY <1>2
  <2>2. fd # -1
    BY <2>1, DescriptorNumbers, Zenon
  <2> QED BY <1>2, <2>2 DEF Theirs, InCallFor
<1>4. \A u \in Threads : Theirs(u, fd) => u = t
  BY <1>3 DEF FdInv, FdsApart
<1>5. \A u \in Threads : fd \notin fdMine[u]
  BY <1>1, <1>2, <1>4 DEF Theirs
<1>6. \A u \in Threads : InCallFor(u, fd) => u = t
  BY <1>4 DEF Theirs
<1>7. ASSUME fdPc[t].call # "untrack", NEW s \in Tracking, slots[s].fd = fd PROVE FALSE
  <2>1. fd # -1
    BY <1>3
  <2>2. PICK u \in Threads : fd \in fdMine[u] \/ (fdPc[u].call = "untrack" /\ fdPc[u].fd = fd)
    BY <1>7, <2>1 DEF FdInv, TrackedWhileOpen
  <2>3. fdPc[u].call = "untrack" /\ fdPc[u].fd = fd
    BY <1>5, <2>2
  <2>4. u = t
    BY <1>6, <2>3 DEF InCallFor
  <2> QED BY <1>7, <2>3, <2>4
<1> QED BY <1>2, <1>5, <1>6, <1>7

LEMMA FdCalls ==
  ASSUME FdTypes, NEW t \in Threads, NEW r \in FdCall, fdPc' = [fdPc EXCEPT ![t] = r]
  PROVE  /\ fdPc' \in [Threads -> FdCall] /\ fdPc'[t] = r
         /\ \A u \in Threads : u # t => fdPc'[u] = fdPc[u]
<1>1. fdPc \in [Threads -> FdCall]
  BY DEF FdTypes
<1> QED BY <1>1, Zenon

LEMMA FdOpenStep ==
  ASSUME FdInv, NEW t \in Threads, NEW what \in Archives \cup {Fd!Socket, Fd!Loose}, Fd!Open(t, what)
  PROVE  FdInv'
<1>1. PICK fd \in Fds : /\ fdPc[t] = Fd!Idle /\ is[fd] = "closed"
                        /\ is' = [is EXCEPT ![fd] = what] /\ pos' = [pos EXCEPT ![fd] = 0]
                        /\ fdView' = [fdView EXCEPT ![fd] = 0]
                        /\ fdPc' = [fdPc EXCEPT ![t] = [Fd!Idle EXCEPT !.call = "open", !.fd = fd]]
  BY DEF Fd!Open, Fd!Lowest, Fd!Closed
<1>2. UNCHANGED <<slots, marks, fdMine>>
  BY DEF Fd!Open
<1>3. FdTypes
  BY DEF FdInv
<1>4. PICK r : r = [Fd!Idle EXCEPT !.call = "open", !.fd = fd]
  OBVIOUS
<1>5. r \in FdCall /\ r.call = "open" /\ r.fd = fd /\ Fd!Idle.call = ""
  <2>1. fd \in Fds /\ 0 \in 0..MaxTracked
    BY <1>1, DescriptorNumbers
  <2> QED BY <1>4, <2>1 DEF Fd!Idle, FdCall
<1>6. /\ fdPc' \in [Threads -> FdCall] /\ fdPc'[t] = r
      /\ \A u \in Threads : u # t => fdPc'[u] = fdPc[u]
  <2>1. fdPc' = [fdPc EXCEPT ![t] = r]
    BY <1>1, <1>4
  <2> QED BY <1>3, <1>5, <2>1, FdCalls
<1>7. fdPc[t].call = ""
  BY <1>1, <1>5
<1>8. /\ \A u \in Threads : ~Theirs(u, fd)
      /\ \A s \in Tracking : slots[s].fd # fd
      /\ fd \notin marks
  BY <1>1, Unowned
<1>9. what # "closed" /\ what \in Archives \cup {"closed", "socket", "loose"}
  BY DescriptorAssumption DEF Fd!Socket, Fd!Loose
<1>10. /\ is'[fd] = what /\ pos'[fd] = 0 /\ fdView'[fd] = 0
       /\ \A x \in Fds : x # fd => is'[x] = is[x] /\ pos'[x] = pos[x] /\ fdView'[x] = fdView[x]
  BY <1>1, <1>3, Zenon DEF FdTypes
<1>11. FdTypes'
  <2>1. is' \in [Fds -> Archives \cup {"closed", "socket", "loose"}]
    BY <1>1, <1>3, <1>9, Zenon DEF FdTypes
  <2>2. pos' \in [Fds -> Int] /\ fdView' \in [Fds -> Nat]
    BY <1>1, <1>3 DEF FdTypes
  <2> QED BY <1>2, <1>3, <1>6, <2>1, <2>2 DEF FdTypes
<1>12. \A u \in Threads : \A x \in Fds : Theirs(u, x)' <=> (Theirs(u, x) \/ (u = t /\ x = fd))
  <2> SUFFICES ASSUME NEW u \in Threads, NEW x \in Fds
               PROVE  Theirs(u, x)' <=> (Theirs(u, x) \/ (u = t /\ x = fd))
    OBVIOUS
  <2>1. CASE u = t
    <3>1. fdPc'[u].call = "open" /\ fdPc'[u].fd = fd /\ fdPc[u].call = ""
      BY <1>5, <1>6, <1>7, <2>1
    <3> QED BY <1>2, <2>1, <3>1 DEF Theirs, InCallFor
  <2>2. CASE u # t
    <3>1. fdPc'[u] = fdPc[u]
      BY <1>6, <2>2
    <3> QED BY <1>2, <2>2, <3>1 DEF Theirs, InCallFor
  <2> QED BY <2>1, <2>2
<1>13. FdsApart'
  <2>1. \A u \in Threads : fdPc'[u].call # "" => fdPc'[u].fd \in Fds \ fdMine'[u]
    <3>1. fd \notin fdMine[t]
      BY <1>8 DEF Theirs
    <3> QED BY <1>2, <1>5, <1>6, <3>1 DEF FdInv, FdsApart
  <2>2. \A u, w \in Threads : \A x \in Fds : Theirs(u, x)' /\ Theirs(w, x)' => u = w
    <3>1. \A u, w \in Threads : \A x \in Fds : Theirs(u, x) /\ Theirs(w, x) => u = w
      BY DEF FdInv, FdsApart
    <3>2. SUFFICES ASSUME NEW u \in Threads, NEW w \in Threads, NEW x \in Fds,
                          Theirs(u, x)', Theirs(w, x)'
                   PROVE  u = w
      OBVIOUS
    <3>3. Theirs(u, x) \/ (u = t /\ x = fd)
      BY <1>12, <3>2, Zenon
    <3>4. Theirs(w, x) \/ (w = t /\ x = fd)
      BY <1>12, <3>2, Zenon
    <3> QED BY <1>8, <3>1, <3>3, <3>4, Zenon
  <2>3. \A u \in Threads : \A x \in Fds : Theirs(u, x)' => is'[x] # "closed"
    BY <1>9, <1>10, <1>12 DEF FdInv, FdsApart
  <2> QED BY <2>1, <2>2, <2>3 DEF FdsApart
<1>14. OneSlotEachFd' /\ TrackedWhileOpen'
  <2>1. \A u \in Threads : fdPc'[u].call = "untrack" => u # t
    BY <1>5, <1>6
  <2>2. \A u \in Threads : fdPc[u].call = "untrack" => u # t
    BY <1>7
  <2>3. OneSlotEachFd'
    BY <1>2 DEF FdInv, OneSlotEachFd
  <2>4. TrackedWhileOpen'
    BY <1>2, <1>6, <2>1, <2>2 DEF FdInv, TrackedWhileOpen
  <2> QED BY <2>3, <2>4
<1>15. SlotsRight'
  <2>1. \A s \in Tracking : slots[s].fd # -1 => slots[s].fd \in Fds
    BY <1>3 DEF FdTypes, Buffered
  <2> QED BY <1>2, <1>8, <1>10, <2>1 DEF FdInv, SlotsRight, BlockOf
<1>16. PlainRight'
  <2>1. \A u \in Threads : \A x \in fdMine[u] : x \in Fds /\ x # fd
    BY <1>3, <1>8 DEF FdTypes, Theirs
  <2>2. \A u \in Threads : \A x \in fdMine'[u] :
          is'[x] # "socket" /\ (\A s \in Tracking : slots'[s].fd # x) => pos'[x] = fdView'[x]
    BY <1>2, <1>10, <2>1 DEF FdInv, PlainRight
  <2>3. \A u \in Threads : fdPc'[u].call = "open" =>
          pos'[fdPc'[u].fd] = 0 /\ fdView'[fdPc'[u].fd] = 0
    <3> SUFFICES ASSUME NEW u \in Threads, fdPc'[u].call = "open"
                 PROVE  pos'[fdPc'[u].fd] = 0 /\ fdView'[fdPc'[u].fd] = 0
      OBVIOUS
    <3>1. CASE u = t
      BY <1>5, <1>6, <1>10, <3>1
    <3>2. CASE u # t
      <4>1. fdPc'[u] = fdPc[u]
        BY <1>6, <3>2
      <4>2. fdPc[u].fd \in Fds /\ Theirs(u, fdPc[u].fd)
        BY <4>1 DEF FdInv, FdsApart, Theirs, InCallFor
      <4>3. fdPc[u].fd # fd
        BY <1>8, <4>2
      <4> QED BY <1>10, <4>1, <4>2, <4>3 DEF FdInv, PlainRight
    <3> QED BY <3>1, <3>2
  <2> QED BY <2>2, <2>3 DEF PlainRight
<1>17. MarksRight'
  <2>1. \A u \in Threads : \A x \in fdMine[u] : x \in Fds /\ x # fd
    BY <1>3, <1>8 DEF FdTypes, Theirs
  <2>2. \A x \in marks' : \E u \in Threads :
          x \in fdMine'[u] \/ (fdPc'[u].call \in {"untrack", "forget"} /\ fdPc'[u].fd = x)
    <3> SUFFICES ASSUME NEW x \in marks
                 PROVE  \E u \in Threads : x \in fdMine'[u]
                          \/ (fdPc'[u].call \in {"untrack", "forget"} /\ fdPc'[u].fd = x)
      BY <1>2
    <3>1. PICK u \in Threads :
            x \in fdMine[u] \/ (fdPc[u].call \in {"untrack", "forget"} /\ fdPc[u].fd = x)
      BY DEF FdInv, MarksRight
    <3>2. CASE u = t
      BY <1>2, <1>7, <3>1, <3>2
    <3>3. CASE u # t
      BY <1>2, <1>6, <3>1, <3>3
    <3> QED BY <3>2, <3>3
  <2>3. \A u \in Threads : \A x \in fdMine'[u] : x \in marks' <=> is'[x] = "socket"
    BY <1>2, <1>10, <2>1 DEF FdInv, MarksRight
  <2> QED BY <2>2, <2>3 DEF MarksRight
<1> QED BY <1>11, <1>13, <1>14, <1>15, <1>16, <1>17 DEF FdInv

\* The slots L, one at most, go to the archive fd.
Takes(L, new, fd) ==
  /\ slots' = [s \in Tracking |-> IF s \in L THEN new ELSE slots[s]]
  /\ \A s \in L : s \in Tracking /\ slots[s].fd = -1 /\ is[fd] \in Archives
  /\ \A s, r \in L : s = r

LEMMA FdOpenedStep ==
  ASSUME FdInv, NEW t \in Threads, Fd!Opened(t)
  PROVE  FdInv'
<1>1. PICK fd \in Fds : fd = fdPc[t].fd
  BY CallsOwn DEF Fd!Opened
<1>2. /\ fdPc[t].call = "open"
      /\ marks' = IF is[fd] = "socket" THEN marks \cup {fd} ELSE marks
      /\ fdMine' = [fdMine EXCEPT ![t] = @ \cup {fd}]
      /\ fdPc' = [fdPc EXCEPT ![t] = Fd!Idle]
      /\ UNCHANGED <<is, pos, fdView>>
  BY <1>1 DEF Fd!Opened, Fd!Socket, Fd!libc
<1>3. FdTypes
  BY DEF FdInv
<1>4. PICK new : new = [Fd!Fresh EXCEPT !.fd = fd]
  OBVIOUS
<1>5. /\ new \in Buffered /\ new.fd = fd /\ new.pos = 0 /\ new.buf = <<>>
      /\ fd # -1
  <2>1. <<>> \in Seq(Archives \X Nat) /\ fd \in Fds
    BY <1>1
  <2>2. fd # -1
    BY <1>1, DescriptorNumbers, Zenon
  <2>3. new = [fd |-> fd, pos |-> 0, start |-> 0, buf |-> <<>>, ra |-> RaMin, seqNext |-> -1]
    BY <1>4 DEF Fd!Fresh
  <2>4. new \in Buffered
    BY <2>1, <2>3, DescriptorNumbers DEF Buffered
  <2> QED BY <2>2, <2>3, <2>4
<1>6. PICK L : Takes(L, new, fd)
  <2>1. CASE is[fd] \in Archives /\ Fd!Track(fd)
    <3>1. PICK L : L = Fd!Lowest({k \in Tracking : slots[k].fd = -1})
      OBVIOUS
    <3>2. L = {i \in {k \in Tracking : slots[k].fd = -1} :
                 \A j \in {k \in Tracking : slots[k].fd = -1} : i <= j}
      BY <3>1 DEF Fd!Lowest
    <3>3. slots' = [s \in Tracking |-> IF s \in L THEN new ELSE slots[s]]
      BY <1>4, <2>1, <3>1 DEF Fd!Track, Fd!Slots, Fd!NoFd, Tracking
    <3>4. \A s \in L : s \in Tracking /\ slots[s].fd = -1
      BY <3>2, Zenon
    <3>5. \A s, r \in L : s <= r /\ r <= s /\ s \in Int /\ r \in Int
      <4>1. \A s, r \in L : s <= r
        BY <3>2, Zenon
      <4> QED BY <3>4, <4>1 DEF Tracking
    <3>6. \A s, r \in L : s = r
      BY <3>5
    <3>7. \A s \in L : s \in Tracking /\ slots[s].fd = -1 /\ is[fd] \in Archives
      BY <2>1, <3>4, Zenon
    <3>8. Takes(L, new, fd)
      BY <3>3, <3>6, <3>7, Zenon DEF Takes
    <3> QED BY <3>8
  <2>2. CASE UNCHANGED slots
    <3>1. slots' = [s \in Tracking |-> IF s \in {} THEN new ELSE slots[s]]
      BY <1>3, <2>2 DEF FdTypes
    <3>2. \A s \in {} : s \in Tracking /\ slots[s].fd = -1 /\ is[fd] \in Archives
      OBVIOUS
    <3>3. \A s, r \in {} : s = r
      OBVIOUS
    <3>4. Takes({}, new, fd)
      BY <3>1, <3>2, <3>3, Zenon DEF Takes
    <3> QED BY <3>4
  <2> QED BY <1>1, <2>1, <2>2 DEF Fd!Opened
<1>7. /\ slots' = [s \in Tracking |-> IF s \in L THEN new ELSE slots[s]]
      /\ \A s \in L : s \in Tracking /\ slots[s].fd = -1 /\ is[fd] \in Archives
      /\ \A s, r \in L : s = r
  BY <1>6, Zenon DEF Takes
<1>8. /\ \A u \in Threads : fd \notin fdMine[u]
      /\ \A u \in Threads : InCallFor(u, fd) => u = t
      /\ \A s \in Tracking : slots[s].fd # fd
  BY <1>1, <1>2, CallsOwn
<1>9. Fd!Idle \in FdCall /\ Fd!Idle.call = ""
  BY DescriptorNumbers DEF Fd!Idle, Fd!NoFd, FdCall
<1>10. /\ fdPc' \in [Threads -> FdCall] /\ fdPc'[t].call = ""
       /\ \A u \in Threads : u # t => fdPc'[u] = fdPc[u]
  BY <1>2, <1>3, <1>9, FdCalls
<1>11. /\ fdMine' \in [Threads -> SUBSET Fds] /\ fdMine'[t] = fdMine[t] \cup {fd}
       /\ \A u \in Threads : u # t => fdMine'[u] = fdMine[u]
  <2>1. fdMine \in [Threads -> SUBSET Fds]
    BY <1>3 DEF FdTypes
  <2>2. fdMine[t] \cup {fd} \in SUBSET Fds
    BY <1>1, <2>1
  <2> QED BY <1>2, <2>1, <2>2, Zenon
<1>12. \A s \in Tracking : (s \in L /\ slots'[s] = new) \/ (s \notin L /\ slots'[s] = slots[s])
  BY <1>7, Zenon
<1>13. slots' \in [Tracking -> Buffered]
  <2>1. \A s \in Tracking : (IF s \in L THEN new ELSE slots[s]) \in Buffered
    BY <1>3, <1>5 DEF FdTypes
  <2> QED BY <1>7, <2>1, Zenon
<1>14. FdTypes'
  <2>1. marks' \subseteq Fds
    BY <1>1, <1>2, <1>3 DEF FdTypes
  <2> QED BY <1>2, <1>3, <1>10, <1>11, <1>13, <2>1 DEF FdTypes
<1>15. \A u \in Threads : \A x \in Fds : Theirs(u, x)' <=> Theirs(u, x)
  <2> SUFFICES ASSUME NEW u \in Threads, NEW x \in Fds
               PROVE  Theirs(u, x)' <=> Theirs(u, x)
    OBVIOUS
  <2>1. CASE u = t
    <3>1. fdPc'[u].call = "" /\ fdPc[u].call = "open" /\ fdPc[u].fd = fd
          /\ fdMine'[u] = fdMine[u] \cup {fd}
      BY <1>1, <1>2, <1>10, <1>11, <2>1
    <3> QED BY <3>1 DEF Theirs, InCallFor
  <2>2. CASE u # t
    <3>1. fdPc'[u] = fdPc[u] /\ fdMine'[u] = fdMine[u]
      BY <1>10, <1>11, <2>2
    <3> QED BY <3>1 DEF Theirs, InCallFor
  <2> QED BY <2>1, <2>2
<1>16. FdsApart'
  <2>1. \A u \in Threads : fdPc'[u].call # "" => fdPc'[u].fd \in Fds \ fdMine'[u]
    BY <1>10, <1>11 DEF FdInv, FdsApart
  <2>2. \A u, w \in Threads : \A x \in Fds : Theirs(u, x)' /\ Theirs(w, x)' => u = w
    <3>1. \A u, w \in Threads : \A x \in Fds : Theirs(u, x) /\ Theirs(w, x) => u = w
      BY DEF FdInv, FdsApart
    <3> QED BY <1>15, <3>1, Zenon
  <2>3. \A u \in Threads : \A x \in Fds : Theirs(u, x)' => is'[x] # "closed"
    <3>1. \A u \in Threads : \A x \in Fds : Theirs(u, x) => is[x] # "closed"
      BY DEF FdInv, FdsApart
    <3>2. is' = is
      BY <1>2
    <3> QED BY <1>15, <3>1, <3>2, Zenon
  <2> QED BY <2>1, <2>2, <2>3 DEF FdsApart
<1>17. OneSlotEachFd'
  <2> SUFFICES ASSUME NEW s \in Tracking, NEW r \in Tracking, slots'[s].fd = slots'[r].fd,
                      slots'[s].fd # -1
               PROVE  s = r
    BY DEF OneSlotEachFd
  <2>1. CASE s \in L /\ r \in L
    BY <1>7, <2>1
  <2>2. CASE s \in L /\ r \notin L
    BY <1>5, <1>8, <1>12, <2>2
  <2>3. CASE s \notin L /\ r \in L
    BY <1>5, <1>8, <1>12, <2>3
  <2>4. CASE s \notin L /\ r \notin L
    BY <1>12, <2>4 DEF FdInv, OneSlotEachFd
  <2> QED BY <2>1, <2>2, <2>3, <2>4
<1>18. TrackedWhileOpen'
  <2>1. ASSUME NEW s \in Tracking, slots'[s].fd # -1
        PROVE  \E u \in Threads : slots'[s].fd \in fdMine'[u]
                 \/ (fdPc'[u].call = "untrack" /\ fdPc'[u].fd = slots'[s].fd)
    <3>1. CASE s \in L
      BY <1>5, <1>11, <1>12, <3>1
    <3>2. CASE s \notin L
      <4>1. slots'[s] = slots[s]
        BY <1>12, <3>2
      <4>2. PICK u \in Threads : slots[s].fd \in fdMine[u]
              \/ (fdPc[u].call = "untrack" /\ fdPc[u].fd = slots[s].fd)
        BY <2>1, <4>1 DEF FdInv, TrackedWhileOpen
      <4>3. CASE u = t
        BY <1>2, <1>11, <4>1, <4>2, <4>3
      <4>4. CASE u # t
        BY <1>10, <1>11, <4>1, <4>2, <4>4
      <4> QED BY <4>3, <4>4
    <3> QED BY <3>1, <3>2
  <2>2. ASSUME NEW u \in Threads, fdPc'[u].call = "untrack", NEW s \in Tracking
        PROVE  s = fdPc'[u].slot <=> slots'[s].fd = fdPc'[u].fd
    <3>1. u # t /\ fdPc'[u] = fdPc[u] /\ fdPc[u].call = "untrack"
      BY <1>10, <2>2
    <3>2. s = fdPc[u].slot <=> slots[s].fd = fdPc[u].fd
      BY <3>1 DEF FdInv, TrackedWhileOpen
    <3>3. CASE s \in L
      <4>1. slots[s].fd = -1 /\ slots'[s].fd = fd
        BY <1>5, <1>7, <1>12, <3>3
      <4>2. fdPc[u].fd # fd
        BY <1>8, <3>1 DEF InCallFor
      <4>3. fdPc[u].fd # -1
        <5>1. fdPc[u].fd \in Fds
          BY <3>1 DEF FdInv, FdsApart
        <5> QED BY <5>1, DescriptorNumbers, Zenon
      <4> QED BY <3>1, <3>2, <4>1, <4>2, <4>3
    <3>4. CASE s \notin L
      <4>1. slots'[s] = slots[s]
        BY <1>12, <3>4
      <4> QED BY <3>1, <3>2, <4>1
    <3> QED BY <3>3, <3>4
  <2> QED BY <2>1, <2>2 DEF TrackedWhileOpen
<1>19. SlotsRight'
  <2> SUFFICES ASSUME NEW s \in Tracking, slots'[s].fd # -1
               PROVE  /\ is'[slots'[s].fd] \in Archives
                      /\ slots'[s].pos = fdView'[slots'[s].fd]
                      /\ BlockOf(slots'[s], is'[slots'[s].fd])
    BY DEF SlotsRight, BlockOf
  <2>1. is' = is /\ fdView' = fdView
    BY <1>2
  <2>2. CASE s \in L
    <3>1. slots'[s] = new /\ is[fd] \in Archives
      BY <1>7, <1>12, <2>2
    <3>2. fdView[fd] = 0
      BY <1>1, <1>2 DEF FdInv, PlainRight
    <3>3. BlockOf(new, is[fd])
      BY <1>5 DEF BlockOf
    <3> QED BY <1>5, <2>1, <3>1, <3>2, <3>3
  <2>3. CASE s \notin L
    <3>1. slots'[s] = slots[s]
      BY <1>12, <2>3
    <3>2. /\ is[slots[s].fd] \in Archives /\ slots[s].pos = fdView[slots[s].fd]
          /\ BlockOf(slots[s], is[slots[s].fd])
      BY <3>1 DEF FdInv, SlotsRight
    <3> QED BY <2>1, <3>1, <3>2
  <2> QED BY <2>2, <2>3
<1>20. PlainRight'
  <2>1. ASSUME NEW u \in Threads, NEW x \in fdMine'[u], is[x] # "socket",
               \A s \in Tracking : slots'[s].fd # x
        PROVE  pos[x] = fdView[x]
    <3>1. CASE x = fd
      BY <1>1, <1>2, <3>1 DEF FdInv, PlainRight
    <3>2. CASE x # fd
      <4>1. x \in fdMine[u] /\ x \in Fds
        BY <1>3, <1>11, <3>2 DEF FdTypes
      <4>2. x # -1
        BY <4>1, DescriptorNumbers, Zenon
      <4>3. \A s \in Tracking : slots[s].fd # x
        BY <1>7, <1>12, <2>1, <4>2
      <4> QED BY <2>1, <4>1, <4>3 DEF FdInv, PlainRight
    <3> QED BY <3>1, <3>2
  <2>2. ASSUME NEW u \in Threads, fdPc'[u].call = "open"
        PROVE  pos[fdPc'[u].fd] = 0 /\ fdView[fdPc'[u].fd] = 0
    <3>1. fdPc'[u] = fdPc[u]
      BY <1>10, <2>2
    <3> QED BY <2>2, <3>1 DEF FdInv, PlainRight
  <2>3. is' = is /\ pos' = pos /\ fdView' = fdView
    BY <1>2
  <2> QED BY <2>1, <2>2, <2>3 DEF PlainRight
<1>21. MarksRight'
  <2>1. fd \notin marks
    <3> SUFFICES ASSUME fd \in marks PROVE FALSE
      OBVIOUS
    <3>1. PICK u \in Threads :
            fd \in fdMine[u] \/ (fdPc[u].call \in {"untrack", "forget"} /\ fdPc[u].fd = fd)
      BY DEF FdInv, MarksRight
    <3>2. u = t
      BY <1>8, <3>1 DEF InCallFor
    <3> QED BY <1>2, <1>8, <3>1, <3>2
  <2>2. ASSUME NEW x \in marks'
        PROVE  \E u \in Threads : x \in fdMine'[u]
                 \/ (fdPc'[u].call \in {"untrack", "forget"} /\ fdPc'[u].fd = x)
    <3>1. CASE x = fd
      BY <1>11, <3>1
    <3>2. CASE x # fd
      <4>1. PICK u \in Threads :
              x \in fdMine[u] \/ (fdPc[u].call \in {"untrack", "forget"} /\ fdPc[u].fd = x)
        BY <1>2, <2>2, <3>2 DEF FdInv, MarksRight
      <4>2. CASE u = t
        BY <1>2, <1>11, <4>1, <4>2
      <4>3. CASE u # t
        BY <1>10, <1>11, <4>1, <4>3
      <4> QED BY <4>2, <4>3
    <3> QED BY <3>1, <3>2
  <2>3. ASSUME NEW u \in Threads, NEW x \in fdMine'[u]
        PROVE  x \in marks' <=> is'[x] = "socket"
    <3>1. CASE x = fd
      BY <1>2, <2>1, <3>1
    <3>2. CASE x # fd
      <4>1. x \in fdMine[u]
        BY <1>11, <3>2
      <4>2. x \in marks <=> is[x] = "socket"
        BY <4>1 DEF FdInv, MarksRight
      <4> QED BY <1>2, <3>2, <4>2
    <3> QED BY <3>1, <3>2
  <2> QED BY <2>2, <2>3 DEF MarksRight
<1> QED BY <1>14, <1>16, <1>17, <1>18, <1>19, <1>20, <1>21 DEF FdInv

LEMMA FdCloseStep ==
  ASSUME FdInv, NEW t \in Threads, NEW fd \in fdMine[t], Fd!Close(t, fd)
  PROVE  FdInv'
<1>1. PICK r : r = [call |-> "untrack", fd |-> fd,
                    slot |-> IF Fd!Tracked(fd) = {} THEN 0 ELSE CHOOSE s \in Fd!Tracked(fd) : TRUE]
  OBVIOUS
<1>2. /\ fdPc[t].call = "" /\ fdMine' = [fdMine EXCEPT ![t] = @ \ {fd}]
      /\ fdPc' = [fdPc EXCEPT ![t] = r]
      /\ UNCHANGED <<is, pos, slots, marks, fdView>>
  <2>1. fdPc[t].call = ""
    <3>1. fdPc[t] = Fd!Idle
      BY DEF Fd!Close
    <3>2. Fd!Idle.call = ""
      BY DEF Fd!Idle
    <3> QED BY <3>1, <3>2
  <2>2. fdPc' = [fdPc EXCEPT ![t] = r]
    BY <1>1 DEF Fd!Close
  <2>3. UNCHANGED <<is, pos, slots, marks, fdView>> /\ fdMine' = [fdMine EXCEPT ![t] = @ \ {fd}]
    BY DEF Fd!Close, Fd!libc
  <2> QED BY <2>1, <2>2, <2>3
<1>3. FdTypes /\ fd \in Fds /\ fd # -1
  <2>1. FdTypes /\ fd \in Fds
    BY DEF FdInv, FdTypes
  <2> QED BY <2>1, DescriptorNumbers, Zenon
<1>4. r.slot \in 0..MaxTracked /\ \A s \in Tracking : s = r.slot <=> slots[s].fd = fd
  <2>1. CASE \A s \in Tracking : slots[s].fd # fd
    <3>1. r.slot = 0
      BY <1>1, <1>3, <2>1, TrackedIs
    <3>2. \A s \in Tracking : s # 0
      BY DEF Tracking
    <3> QED BY <2>1, <3>1, <3>2, DescriptorNumbers
  <2>2. CASE ~(\A s \in Tracking : slots[s].fd # fd)
    <3>1. PICK k \in Tracking : slots[k].fd = fd
      BY <2>2
    <3>2. Fd!Tracked(fd) = {k}
      BY <1>3, <3>1, TrackedIs
    <3>3. r.slot = k
      <4>1. {k} # {} /\ (CHOOSE s \in {k} : TRUE) = k
        OBVIOUS
      <4>2. r.slot = CHOOSE s \in {k} : TRUE
        BY <1>1, <3>2, <4>1
      <4> QED BY <4>1, <4>2
    <3>4. \A s \in Tracking : slots[s].fd = fd => s = k
      BY <1>3, <3>1 DEF FdInv, OneSlotEachFd
    <3>5. k \in 0..MaxTracked
      BY DEF Tracking
    <3> QED BY <3>1, <3>3, <3>4, <3>5
  <2> QED BY <2>1, <2>2
<1>5. r \in FdCall /\ r.call = "untrack" /\ r.fd = fd
  BY <1>1, <1>3, <1>4 DEF FdCall
<1>6. /\ fdPc' \in [Threads -> FdCall] /\ fdPc'[t] = r
      /\ \A u \in Threads : u # t => fdPc'[u] = fdPc[u]
  BY <1>2, <1>3, <1>5, FdCalls
<1>7. /\ fdMine' \in [Threads -> SUBSET Fds] /\ fdMine'[t] = fdMine[t] \ {fd}
      /\ \A u \in Threads : u # t => fdMine'[u] = fdMine[u]
  <2>1. fdMine \in [Threads -> SUBSET Fds]
    BY <1>3 DEF FdTypes
  <2>2. fdMine[t] \ {fd} \in SUBSET Fds
    BY <2>1
  <2> QED BY <1>2, <2>1, <2>2, Zenon
<1>8. FdTypes'
  BY <1>2, <1>3, <1>6, <1>7 DEF FdTypes
<1>9. \A u \in Threads : \A x \in Fds : Theirs(u, x)' <=> Theirs(u, x)
  <2> SUFFICES ASSUME NEW u \in Threads, NEW x \in Fds
               PROVE  Theirs(u, x)' <=> Theirs(u, x)
    OBVIOUS
  <2>1. CASE u = t
    <3>1. fdPc'[u].call = "untrack" /\ fdPc'[u].fd = fd /\ fdPc[u].call = ""
          /\ fdMine'[u] = fdMine[u] \ {fd} /\ fd \in fdMine[u]
      BY <1>2, <1>5, <1>6, <1>7, <2>1
    <3> QED BY <3>1 DEF Theirs, InCallFor
  <2>2. CASE u # t
    <3>1. fdPc'[u] = fdPc[u] /\ fdMine'[u] = fdMine[u]
      BY <1>6, <1>7, <2>2
    <3> QED BY <3>1 DEF Theirs, InCallFor
  <2> QED BY <2>1, <2>2
<1>10. FdsApart'
  <2>1. \A u \in Threads : fdPc'[u].call # "" => fdPc'[u].fd \in Fds \ fdMine'[u]
    BY <1>3, <1>5, <1>6, <1>7 DEF FdInv, FdsApart
  <2>2. \A u, w \in Threads : \A x \in Fds : Theirs(u, x)' /\ Theirs(w, x)' => u = w
    <3>1. \A u, w \in Threads : \A x \in Fds : Theirs(u, x) /\ Theirs(w, x) => u = w
      BY DEF FdInv, FdsApart
    <3> QED BY <1>9, <3>1, Zenon
  <2>3. \A u \in Threads : \A x \in Fds : Theirs(u, x)' => is'[x] # "closed"
    <3>1. \A u \in Threads : \A x \in Fds : Theirs(u, x) => is[x] # "closed"
      BY DEF FdInv, FdsApart
    <3>2. is' = is
      BY <1>2
    <3> QED BY <1>9, <3>1, <3>2, Zenon
  <2> QED BY <2>1, <2>2, <2>3 DEF FdsApart
<1>11. OneSlotEachFd' /\ SlotsRight'
  BY <1>2 DEF FdInv, OneSlotEachFd, SlotsRight, BlockOf
<1>12. TrackedWhileOpen'
  <2>1. ASSUME NEW s \in Tracking, slots[s].fd # -1
        PROVE  \E u \in Threads : slots[s].fd \in fdMine'[u]
                 \/ (fdPc'[u].call = "untrack" /\ fdPc'[u].fd = slots[s].fd)
    <3>1. CASE slots[s].fd = fd
      BY <1>5, <1>6, <3>1
    <3>2. CASE slots[s].fd # fd
      <4>1. PICK u \in Threads : slots[s].fd \in fdMine[u]
              \/ (fdPc[u].call = "untrack" /\ fdPc[u].fd = slots[s].fd)
        BY <2>1 DEF FdInv, TrackedWhileOpen
      <4>2. CASE u = t
        BY <1>2, <1>7, <3>2, <4>1, <4>2
      <4>3. CASE u # t
        BY <1>6, <1>7, <4>1, <4>3
      <4> QED BY <4>2, <4>3
    <3> QED BY <3>1, <3>2
  <2>2. ASSUME NEW u \in Threads, fdPc'[u].call = "untrack", NEW s \in Tracking
        PROVE  s = fdPc'[u].slot <=> slots[s].fd = fdPc'[u].fd
    <3>1. CASE u = t
      BY <1>4, <1>5, <1>6, <3>1
    <3>2. CASE u # t
      BY <1>6, <2>2, <3>2 DEF FdInv, TrackedWhileOpen
    <3> QED BY <3>1, <3>2
  <2>3. slots' = slots
    BY <1>2
  <2> QED BY <2>1, <2>2, <2>3 DEF TrackedWhileOpen
<1>13. \A u \in Threads : \A x \in fdMine'[u] : x \in fdMine[u]
  BY <1>7
<1>14. PlainRight'
  <2>1. ASSUME NEW u \in Threads, fdPc'[u].call = "open"
        PROVE  u # t /\ fdPc'[u] = fdPc[u]
    BY <1>5, <1>6, <2>1
  <2> QED BY <1>2, <1>13, <2>1 DEF FdInv, PlainRight
<1>15. MarksRight'
  <2>1. ASSUME NEW x \in marks
        PROVE  \E u \in Threads : x \in fdMine'[u]
                 \/ (fdPc'[u].call \in {"untrack", "forget"} /\ fdPc'[u].fd = x)
    <3>1. PICK u \in Threads :
            x \in fdMine[u] \/ (fdPc[u].call \in {"untrack", "forget"} /\ fdPc[u].fd = x)
      BY DEF FdInv, MarksRight
    <3>2. CASE u = t
      BY <1>2, <1>5, <1>6, <1>7, <3>1, <3>2
    <3>3. CASE u # t
      BY <1>6, <1>7, <3>1, <3>3
    <3> QED BY <3>2, <3>3
  <2>2. \A u \in Threads : \A x \in fdMine'[u] : x \in marks <=> is[x] = "socket"
    BY <1>13 DEF FdInv, MarksRight
  <2>3. marks' = marks /\ is' = is
    BY <1>2
  <2> QED BY <2>1, <2>2, <2>3 DEF MarksRight
<1> QED BY <1>8, <1>10, <1>11, <1>12, <1>14, <1>15 DEF FdInv

\* The steps of a close after the first change the thread's place, and
\* not whose the descriptor is.
LEMMA FdCallGoesOn ==
  ASSUME FdInv, NEW t \in Threads, fdPc[t].call # "", NEW c \in {"forget", "close"},
         fdPc' = [fdPc EXCEPT ![t].call = c], UNCHANGED <<fdMine, is>>
  PROVE  /\ fdPc' \in [Threads -> FdCall] /\ fdPc'[t].call = c /\ fdPc'[t].fd = fdPc[t].fd
         /\ \A u \in Threads : u # t => fdPc'[u] = fdPc[u]
         /\ FdsApart'
<1>1. FdTypes
  BY DEF FdInv
<1>2. fdPc[t] \in FdCall
  BY <1>1 DEF FdTypes
<1>3. PICK r : r = [fdPc[t] EXCEPT !.call = c]
  OBVIOUS
<1>4. r \in FdCall /\ r.call = c /\ r.fd = fdPc[t].fd
  BY <1>2, <1>3 DEF FdCall
<1>5. /\ fdPc' \in [Threads -> FdCall] /\ fdPc'[t] = r
      /\ \A u \in Threads : u # t => fdPc'[u] = fdPc[u]
  <2>1. fdPc' = [fdPc EXCEPT ![t] = r]
    BY <1>3
  <2> QED BY <1>1, <1>4, <2>1, FdCalls
<1>6. \A u \in Threads : \A x \in Fds : Theirs(u, x)' <=> Theirs(u, x)
  <2> SUFFICES ASSUME NEW u \in Threads, NEW x \in Fds
               PROVE  Theirs(u, x)' <=> Theirs(u, x)
    OBVIOUS
  <2>1. /\ fdPc'[u].call # "" <=> fdPc[u].call # ""
        /\ fdPc'[u].fd = fdPc[u].fd
    BY <1>4, <1>5
  <2> QED BY <2>1 DEF Theirs, InCallFor
<1>7. FdsApart'
  <2>1. \A u \in Threads : fdPc'[u].call # "" => fdPc'[u].fd \in Fds \ fdMine'[u]
    BY <1>4, <1>5 DEF FdInv, FdsApart
  <2>2. \A u, w \in Threads : \A x \in Fds : Theirs(u, x)' /\ Theirs(w, x)' => u = w
    <3>1. \A u, w \in Threads : \A x \in Fds : Theirs(u, x) /\ Theirs(w, x) => u = w
      BY DEF FdInv, FdsApart
    <3> QED BY <1>6, <3>1, Zenon
  <2>3. \A u \in Threads : \A x \in Fds : Theirs(u, x)' => is'[x] # "closed"
    <3>1. \A u \in Threads : \A x \in Fds : Theirs(u, x) => is[x] # "closed"
      BY DEF FdInv, FdsApart
    <3> QED BY <1>6, <3>1, Zenon
  <2> QED BY <2>1, <2>2, <2>3 DEF FdsApart
<1> QED BY <1>4, <1>5, <1>7

LEMMA FdUntrackStep == ASSUME FdInv, NEW t \in Threads, Fd!Untrack(t) PROVE FdInv'
<1>1. PICK fd \in Fds : fd = fdPc[t].fd
  BY CallsOwn DEF Fd!Untrack
<1>2. /\ fdPc[t].call = "untrack"
      /\ slots' = [s \in Tracking |-> IF s = fdPc[t].slot THEN [slots[s] EXCEPT !.fd = -1] ELSE slots[s]]
      /\ fdPc' = [fdPc EXCEPT ![t].call = "forget"]
      /\ UNCHANGED <<is, pos, marks, fdMine, fdView>>
  BY DEF Fd!Untrack, Fd!libc, Fd!Slots, Fd!NoFd, Tracking
<1>3. FdTypes /\ fd # -1
  BY <1>1, DescriptorNumbers, Zenon DEF FdInv
<1>4. /\ fdPc' \in [Threads -> FdCall] /\ fdPc'[t].call = "forget" /\ fdPc'[t].fd = fd
      /\ \A u \in Threads : u # t => fdPc'[u] = fdPc[u]
      /\ FdsApart'
  BY <1>1, <1>2, FdCallGoesOn
<1>5. /\ \A u \in Threads : fd \notin fdMine[u]
      /\ \A u \in Threads : InCallFor(u, fd) => u = t
  BY <1>1, <1>2, CallsOwn
<1>6. \A s \in Tracking : s = fdPc[t].slot <=> slots[s].fd = fd
  BY <1>1, <1>2 DEF FdInv, TrackedWhileOpen
<1>7. slots' \in [Tracking -> Buffered]
  <2>1. \A s \in Tracking :
          (IF s = fdPc[t].slot THEN [slots[s] EXCEPT !.fd = -1] ELSE slots[s]) \in Buffered
    <3> TAKE s \in Tracking
    <3>1. slots[s] \in Buffered /\ -1 \in Fds \cup {-1}
      BY <1>3 DEF FdTypes
    <3>2. [slots[s] EXCEPT !.fd = -1] \in Buffered
      BY <3>1 DEF Buffered
    <3> QED BY <3>1, <3>2
  <2> QED BY <1>2, <2>1, Zenon
<1>8. \A s \in Tracking : (slots[s].fd = fd /\ slots'[s].fd = -1) \/ (slots[s].fd # fd /\ slots'[s] = slots[s])
  <2> SUFFICES ASSUME NEW s \in Tracking
               PROVE  (slots[s].fd = fd /\ slots'[s].fd = -1) \/ (slots[s].fd # fd /\ slots'[s] = slots[s])
    OBVIOUS
  <2>1. slots'[s] = IF s = fdPc[t].slot THEN [slots[s] EXCEPT !.fd = -1] ELSE slots[s]
    BY <1>2
  <2>2. slots[s] \in Buffered
    BY <1>3 DEF FdTypes
  <2>3. [slots[s] EXCEPT !.fd = -1].fd = -1
    BY <2>2 DEF Buffered
  <2> QED BY <1>6, <2>1, <2>3
<1>9. FdTypes'
  BY <1>2, <1>3, <1>4, <1>7 DEF FdTypes
<1>10. OneSlotEachFd'
  BY <1>8 DEF FdInv, OneSlotEachFd
<1>11. TrackedWhileOpen'
  <2>1. ASSUME NEW s \in Tracking, slots'[s].fd # -1
        PROVE  \E u \in Threads : slots'[s].fd \in fdMine'[u]
                 \/ (fdPc'[u].call = "untrack" /\ fdPc'[u].fd = slots'[s].fd)
    <3>1. slots'[s] = slots[s] /\ slots[s].fd # fd
      BY <1>8, <2>1
    <3>2. PICK u \in Threads : slots[s].fd \in fdMine[u]
            \/ (fdPc[u].call = "untrack" /\ fdPc[u].fd = slots[s].fd)
      BY <2>1, <3>1 DEF FdInv, TrackedWhileOpen
    <3>3. CASE u = t
      BY <1>1, <1>2, <3>1, <3>2, <3>3
    <3>4. CASE u # t
      BY <1>2, <1>4, <3>1, <3>2, <3>4
    <3> QED BY <3>3, <3>4
  <2>2. ASSUME NEW u \in Threads, fdPc'[u].call = "untrack", NEW s \in Tracking
        PROVE  s = fdPc'[u].slot <=> slots'[s].fd = fdPc'[u].fd
    <3>1. u # t /\ fdPc'[u] = fdPc[u] /\ fdPc[u].call = "untrack"
      BY <1>4, <2>2
    <3>2. s = fdPc[u].slot <=> slots[s].fd = fdPc[u].fd
      BY <3>1 DEF FdInv, TrackedWhileOpen
    <3>3. fdPc[u].fd # fd /\ fdPc[u].fd # -1
      <4>1. fdPc[u].fd \in Fds
        BY <3>1 DEF FdInv, FdsApart
      <4>2. fdPc[u].fd # -1
        BY <4>1, DescriptorNumbers, Zenon
      <4> QED BY <1>5, <3>1, <4>2 DEF InCallFor
    <3> QED BY <1>8, <3>1, <3>2, <3>3
  <2> QED BY <2>1, <2>2 DEF TrackedWhileOpen
<1>12. SlotsRight'
  <2> SUFFICES ASSUME NEW s \in Tracking, slots'[s].fd # -1
               PROVE  /\ is'[slots'[s].fd] \in Archives
                      /\ slots'[s].pos = fdView'[slots'[s].fd]
                      /\ BlockOf(slots'[s], is'[slots'[s].fd])
    BY DEF SlotsRight, BlockOf
  <2>1. slots'[s] = slots[s]
    BY <1>8
  <2>2. /\ is[slots[s].fd] \in Archives /\ slots[s].pos = fdView[slots[s].fd]
        /\ BlockOf(slots[s], is[slots[s].fd])
    BY <2>1 DEF FdInv, SlotsRight
  <2>3. is' = is /\ fdView' = fdView
    BY <1>2
  <2> QED BY <2>1, <2>2, <2>3
<1>13. PlainRight'
  <2>1. ASSUME NEW u \in Threads, NEW x \in fdMine[u], is[x] # "socket",
               \A s \in Tracking : slots'[s].fd # x
        PROVE  pos[x] = fdView[x]
    <3>1. x # fd
      BY <1>5
    <3>2. \A s \in Tracking : slots[s].fd # x
      BY <1>8, <2>1, <3>1
    <3> QED BY <2>1, <3>2 DEF FdInv, PlainRight
  <2>2. ASSUME NEW u \in Threads, fdPc'[u].call = "open"
        PROVE  pos[fdPc'[u].fd] = 0 /\ fdView[fdPc'[u].fd] = 0
    <3>1. fdPc'[u] = fdPc[u]
      BY <1>4, <2>2
    <3> QED BY <2>2, <3>1 DEF FdInv, PlainRight
  <2>3. is' = is /\ pos' = pos /\ fdView' = fdView /\ fdMine' = fdMine
    BY <1>2
  <2> QED BY <2>1, <2>2, <2>3 DEF PlainRight
<1>14. MarksRight'
  <2>1. ASSUME NEW x \in marks
        PROVE  \E u \in Threads : x \in fdMine[u]
                 \/ (fdPc'[u].call \in {"untrack", "forget"} /\ fdPc'[u].fd = x)
    <3>1. PICK u \in Threads :
            x \in fdMine[u] \/ (fdPc[u].call \in {"untrack", "forget"} /\ fdPc[u].fd = x)
      BY DEF FdInv, MarksRight
    <3>2. CASE u = t
      BY <1>1, <1>2, <1>4, <3>1, <3>2
    <3>3. CASE u # t
      BY <1>4, <3>1, <3>3
    <3> QED BY <3>2, <3>3
  <2>2. marks' = marks /\ is' = is /\ fdMine' = fdMine
    BY <1>2
  <2> QED BY <2>1, <2>2 DEF FdInv, MarksRight
<1> QED BY <1>4, <1>9, <1>10, <1>11, <1>12, <1>13, <1>14 DEF FdInv

LEMMA FdForgetStep == ASSUME FdInv, NEW t \in Threads, Fd!Forget(t) PROVE FdInv'
<1>1. PICK fd \in Fds : fd = fdPc[t].fd
  BY CallsOwn DEF Fd!Forget
<1>2. /\ fdPc[t].call = "forget" /\ marks' = marks \ {fd}
      /\ fdPc' = [fdPc EXCEPT ![t].call = "close"]
      /\ UNCHANGED <<is, pos, slots, fdMine, fdView>>
  BY <1>1 DEF Fd!Forget, Fd!libc
<1>3. FdTypes
  BY DEF FdInv
<1>4. /\ fdPc' \in [Threads -> FdCall] /\ fdPc'[t].call = "close" /\ fdPc'[t].fd = fd
      /\ \A u \in Threads : u # t => fdPc'[u] = fdPc[u]
      /\ FdsApart'
  BY <1>1, <1>2, FdCallGoesOn
<1>5. \A u \in Threads : fd \notin fdMine[u]
  BY <1>1, <1>2, CallsOwn
<1>6. FdTypes'
  BY <1>2, <1>3, <1>4 DEF FdTypes
<1>7. OneSlotEachFd' /\ SlotsRight'
  BY <1>2 DEF FdInv, OneSlotEachFd, SlotsRight, BlockOf
<1>8. \A u \in Threads : fdPc'[u].call \in {"untrack", "open"} => u # t /\ fdPc'[u] = fdPc[u]
  BY <1>4
<1>9. \A u \in Threads : fdPc[u].call = "untrack" => fdPc'[u] = fdPc[u]
  BY <1>2, <1>4
<1>10. TrackedWhileOpen'
  BY <1>2, <1>8, <1>9 DEF FdInv, TrackedWhileOpen
<1>11. PlainRight'
  BY <1>2, <1>8 DEF FdInv, PlainRight
<1>12. MarksRight'
  <2>1. ASSUME NEW x \in marks, x # fd
        PROVE  \E u \in Threads : x \in fdMine[u]
                 \/ (fdPc'[u].call \in {"untrack", "forget"} /\ fdPc'[u].fd = x)
    <3>1. PICK u \in Threads :
            x \in fdMine[u] \/ (fdPc[u].call \in {"untrack", "forget"} /\ fdPc[u].fd = x)
      BY DEF FdInv, MarksRight
    <3>2. CASE u = t
      BY <1>1, <2>1, <3>1, <3>2
    <3>3. CASE u # t
      BY <1>4, <3>1, <3>3
    <3> QED BY <3>2, <3>3
  <2>2. ASSUME NEW u \in Threads, NEW x \in fdMine[u]
        PROVE  x \in marks \ {fd} <=> is[x] = "socket"
    <3>1. x # fd
      BY <1>5
    <3>2. x \in marks <=> is[x] = "socket"
      BY DEF FdInv, MarksRight
    <3> QED BY <3>1, <3>2
  <2>3. marks' = marks \ {fd} /\ is' = is /\ fdMine' = fdMine
    BY <1>2
  <2> QED BY <2>1, <2>2, <2>3 DEF MarksRight
<1> QED BY <1>4, <1>6, <1>7, <1>10, <1>11, <1>12 DEF FdInv

LEMMA FdClosesStep == ASSUME FdInv, NEW t \in Threads, Fd!Closes(t) PROVE FdInv'
<1>1. PICK fd \in Fds : fd = fdPc[t].fd
  BY CallsOwn DEF Fd!Closes
<1>2. /\ fdPc[t].call = "close" /\ is' = [is EXCEPT ![fd] = "closed"]
      /\ fdPc' = [fdPc EXCEPT ![t] = Fd!Idle]
      /\ UNCHANGED <<pos, slots, marks, fdMine, fdView>>
  BY <1>1 DEF Fd!Closes, Fd!Closed
<1>3. FdTypes
  BY DEF FdInv
<1>4. Fd!Idle \in FdCall /\ Fd!Idle.call = ""
  BY DescriptorNumbers DEF Fd!Idle, Fd!NoFd, FdCall
<1>5. /\ fdPc' \in [Threads -> FdCall] /\ fdPc'[t].call = ""
      /\ \A u \in Threads : u # t => fdPc'[u] = fdPc[u]
  BY <1>2, <1>3, <1>4, FdCalls
<1>6. /\ \A u \in Threads : fd \notin fdMine[u]
      /\ \A u \in Threads : InCallFor(u, fd) => u = t
      /\ \A s \in Tracking : slots[s].fd # fd
  BY <1>1, <1>2, CallsOwn
<1>7. \A x \in Fds : x # fd => is'[x] = is[x]
  BY <1>2, <1>3, Zenon DEF FdTypes
<1>8. FdTypes'
  <2>1. is' \in [Fds -> Archives \cup {"closed", "socket", "loose"}]
    BY <1>2, <1>3 DEF FdTypes
  <2> QED BY <1>2, <1>3, <1>5, <2>1 DEF FdTypes
<1>9. \A u \in Threads : \A x \in Fds : Theirs(u, x)' => Theirs(u, x) /\ x # fd
  <2> SUFFICES ASSUME NEW u \in Threads, NEW x \in Fds, Theirs(u, x)'
               PROVE  Theirs(u, x) /\ x # fd
    OBVIOUS
  <2>1. CASE u = t
    <3>1. x \in fdMine[u]
      BY <1>2, <1>5, <2>1 DEF Theirs, InCallFor
    <3> QED BY <1>6, <3>1 DEF Theirs
  <2>2. CASE u # t
    <3>1. Theirs(u, x)
      BY <1>2, <1>5, <2>2 DEF Theirs, InCallFor
    <3> QED BY <1>6, <2>2, <3>1 DEF Theirs
  <2> QED BY <2>1, <2>2
<1>10. FdsApart'
  <2>1. \A u \in Threads : fdPc'[u].call # "" => fdPc'[u].fd \in Fds \ fdMine'[u]
    BY <1>2, <1>5 DEF FdInv, FdsApart
  <2>2. \A u, w \in Threads : \A x \in Fds : Theirs(u, x)' /\ Theirs(w, x)' => u = w
    <3>1. \A u, w \in Threads : \A x \in Fds : Theirs(u, x) /\ Theirs(w, x) => u = w
      BY DEF FdInv, FdsApart
    <3> QED BY <1>9, <3>1, Zenon
  <2>3. \A u \in Threads : \A x \in Fds : Theirs(u, x)' => is'[x] # "closed"
    <3>1. \A u \in Threads : \A x \in Fds : Theirs(u, x) => is[x] # "closed"
      BY DEF FdInv, FdsApart
    <3> QED BY <1>7, <1>9, <3>1, Zenon
  <2> QED BY <2>1, <2>2, <2>3 DEF FdsApart
<1>11. \A u \in Threads : fdPc'[u].call # "" => u # t /\ fdPc'[u] = fdPc[u]
  BY <1>5
<1>12. \A u \in Threads : fdPc[u].call \in {"untrack", "forget"} => fdPc'[u] = fdPc[u]
  BY <1>2, <1>5
<1>13. OneSlotEachFd'
  BY <1>2 DEF FdInv, OneSlotEachFd
<1>14. TrackedWhileOpen'
  <2>1. \A s \in Tracking : slots'[s].fd # -1 =>
          \E u \in Threads : slots'[s].fd \in fdMine'[u]
                             \/ (fdPc'[u].call = "untrack" /\ fdPc'[u].fd = slots'[s].fd)
    BY <1>2, <1>12 DEF FdInv, TrackedWhileOpen
  <2>2. \A u \in Threads : fdPc'[u].call = "untrack" =>
          \A s \in Tracking : s = fdPc'[u].slot <=> slots'[s].fd = fdPc'[u].fd
    <3>1. \A u \in Threads : fdPc'[u].call = "untrack" => fdPc'[u] = fdPc[u]
      BY <1>11
    <3> QED BY <1>2, <3>1 DEF FdInv, TrackedWhileOpen
  <2> QED BY <2>1, <2>2 DEF TrackedWhileOpen
<1>15. SlotsRight'
  <2>1. \A s \in Tracking : slots[s].fd # -1 => slots[s].fd \in Fds
    BY <1>3 DEF FdTypes, Buffered
  <2> QED BY <1>2, <1>6, <1>7, <2>1 DEF FdInv, SlotsRight, BlockOf
<1>16. \A u \in Threads : \A x \in fdMine[u] : x \in Fds /\ x # fd
  BY <1>3, <1>6 DEF FdTypes
<1>17. PlainRight'
  <2>1. \A u \in Threads : \A x \in fdMine[u] :
          is'[x] # "socket" /\ (\A s \in Tracking : slots[s].fd # x) => pos[x] = fdView[x]
    BY <1>7, <1>16 DEF FdInv, PlainRight
  <2>2. \A u \in Threads : fdPc'[u].call = "open" =>
          pos[fdPc'[u].fd] = 0 /\ fdView[fdPc'[u].fd] = 0
    <3>1. \A u \in Threads : fdPc'[u].call = "open" => fdPc'[u] = fdPc[u]
      BY <1>11
    <3> QED BY <3>1 DEF FdInv, PlainRight
  <2>3. pos' = pos /\ slots' = slots /\ fdMine' = fdMine /\ fdView' = fdView
    BY <1>2
  <2> QED BY <2>1, <2>2, <2>3 DEF PlainRight
<1>18. MarksRight'
  <2>1. \A x \in marks' : \E u \in Threads :
          x \in fdMine'[u] \/ (fdPc'[u].call \in {"untrack", "forget"} /\ fdPc'[u].fd = x)
    BY <1>2, <1>12 DEF FdInv, MarksRight
  <2>2. \A u \in Threads : \A x \in fdMine'[u] : x \in marks' <=> is'[x] = "socket"
    BY <1>2, <1>7, <1>16 DEF FdInv, MarksRight
  <2> QED BY <2>1, <2>2 DEF MarksRight
<1> QED BY <1>8, <1>10, <1>13, <1>14, <1>15, <1>17, <1>18 DEF FdInv

\* A read or a seek leaves the thread's descriptor at v: in its slot, or in the
\* libc where it has none.
LEMMA FdMoves ==
  ASSUME FdInv, NEW t \in Threads, NEW fd \in fdMine[t], NEW v \in Nat,
         fdView' = [fdView EXCEPT ![fd] = v],
         UNCHANGED <<is, marks, fdPc, fdMine>>,
         pos' \in [Fds -> Int], \A x \in Fds : x # fd => pos'[x] = pos[x],
         (\A s \in Tracking : slots[s].fd # fd) => pos'[fd] = v,
         slots' \in [Tracking -> Buffered],
         \A s \in Tracking : slots[s].fd # fd => slots'[s] = slots[s],
         \A s \in Tracking : slots[s].fd = fd =>
           slots'[s].fd = fd /\ slots'[s].pos = v /\ BlockOf(slots'[s], is[fd])
  PROVE  FdInv'
<1>1. FdTypes /\ fd \in Fds
  BY DEF FdInv, FdTypes
<1>2. fdView'[fd] = v /\ \A x \in Fds : x # fd => fdView'[x] = fdView[x]
  BY <1>1, Zenon DEF FdTypes
<1>3. FdTypes'
  <2>1. fdView' \in [Fds -> Nat]
    BY <1>1 DEF FdTypes
  <2> QED BY <1>1, <2>1 DEF FdTypes
<1>4. \A s \in Tracking : slots'[s].fd = slots[s].fd
  OBVIOUS
<1>5. FdsApart' /\ MarksRight'
  <2>1. FdsApart /\ MarksRight
    BY DEF FdInv
  <2>2. FdsApart'
    <3>1. \A u \in Threads : \A x \in Fds : Theirs(u, x)' <=> Theirs(u, x)
      BY DEF Theirs, InCallFor
    <3>2. \A u \in Threads : fdPc'[u].call # "" => fdPc'[u].fd \in Fds \ fdMine'[u]
      BY <2>1 DEF FdsApart
    <3>3. is' = is
      OBVIOUS
    <3> QED BY <2>1, <3>1, <3>2, <3>3, Zenon DEF FdsApart
  <2>3. MarksRight'
    BY <2>1 DEF MarksRight
  <2> QED BY <2>2, <2>3
<1>6. OneSlotEachFd' /\ TrackedWhileOpen'
  BY <1>4 DEF FdInv, OneSlotEachFd, TrackedWhileOpen
<1>7. SlotsRight'
  <2> SUFFICES ASSUME NEW s \in Tracking, slots'[s].fd # -1
               PROVE  /\ is'[slots'[s].fd] \in Archives
                      /\ slots'[s].pos = fdView'[slots'[s].fd]
                      /\ BlockOf(slots'[s], is'[slots'[s].fd])
    BY DEF SlotsRight, BlockOf
  <2>1. is[slots[s].fd] \in Archives /\ slots[s].pos = fdView[slots[s].fd]
        /\ BlockOf(slots[s], is[slots[s].fd]) /\ slots[s].fd \in Fds
    BY <1>1, <1>4 DEF FdInv, SlotsRight, FdTypes, Buffered
  <2>2. CASE slots[s].fd = fd
    BY <1>2, <2>1, <2>2
  <2>3. CASE slots[s].fd # fd
    <3>1. slots'[s] = slots[s] /\ fdView'[slots[s].fd] = fdView[slots[s].fd]
      BY <1>2, <2>1, <2>3
    <3> QED BY <2>1, <3>1
  <2> QED BY <2>2, <2>3
<1>8. PlainRight'
  <2>1. ASSUME NEW u \in Threads, NEW x \in fdMine[u], is[x] # "socket",
               \A s \in Tracking : slots'[s].fd # x
        PROVE  pos'[x] = fdView'[x]
    <3>1. x \in Fds /\ \A s \in Tracking : slots[s].fd # x
      BY <1>1, <1>4, <2>1 DEF FdTypes
    <3>2. CASE x = fd
      BY <1>2, <3>1, <3>2
    <3>3. CASE x # fd
      BY <1>2, <2>1, <3>1, <3>3 DEF FdInv, PlainRight
    <3> QED BY <3>2, <3>3
  <2>2. ASSUME NEW u \in Threads, fdPc[u].call = "open"
        PROVE  pos'[fdPc[u].fd] = 0 /\ fdView'[fdPc[u].fd] = 0
    <3>1. fdPc[u].fd \in Fds /\ fdPc[u].fd # fd
      BY <2>2, CallsOwn
    <3> QED BY <1>2, <2>2, <3>1 DEF FdInv, PlainRight
  <2> QED BY <2>1, <2>2 DEF PlainRight
<1> QED BY <1>3, <1>5, <1>6, <1>7, <1>8 DEF FdInv

\* read() and read_fake move a position by what there is to read.
LEMMA ViewMoves ==
  ASSUME NEW i \in Nat, NEW n \in Nat
  PROVE  /\ i + There(i, n) \in Nat
         /\ (IF i < ArchiveSize THEN Fd!Least(i + n, ArchiveSize) ELSE i) = i + There(i, n)
<1>1. ArchiveSize \in Nat
  BY DescriptorNumbers
<1> QED BY <1>1 DEF There, Fd!Least

LEMMA FdReadStep ==
  ASSUME FdInv, NEW t \in Threads, NEW fd \in fdMine[t], NEW n \in Nat, Fd!Read(t, fd, n)
  PROVE  FdInv'
<1>1. FdTypes /\ fd \in Fds
  BY DEF FdInv, FdTypes
<1>2. PICK i \in Nat : i = fdView[fd]
  BY <1>1 DEF FdTypes
<1>3. PICK v \in Nat : v = i + There(i, n)
  BY ViewMoves
<1>4. fdView' = [fdView EXCEPT ![fd] = v]
  <2>1. (IF fdView[fd] < ArchiveSize THEN Fd!Least(fdView[fd] + n, ArchiveSize) ELSE fdView[fd]) = v
    BY <1>2, <1>3, ViewMoves
  <2>2. fdView' = [fdView EXCEPT ![fd] = IF fdView[fd] < ArchiveSize
                                         THEN Fd!Least(fdView[fd] + n, ArchiveSize) ELSE fdView[fd]]
    BY DEF Fd!Read
  <2> QED BY <2>1, <2>2
<1>5. is[fd] # "socket" /\ UNCHANGED <<is, marks, fdPc, fdMine>>
  BY DEF Fd!Read, Fd!Socket
<1>6. slots \in [Tracking -> Buffered] /\ pos \in [Fds -> Int]
  BY <1>1 DEF FdTypes
<1>7. CASE \A s \in Tracking : slots[s].fd # fd
  <2>1. Fd!Tracked(fd) = {}
    BY <1>1, <1>7, TrackedIs
  <2>2. pos' = [pos EXCEPT ![fd] = pos[fd] + Len(Fd!Content(is[fd], pos[fd], n))] /\ slots' = slots
    BY <2>1 DEF Fd!Read
  <2>3. pos[fd] = i
    BY <1>2, <1>5, <1>7 DEF FdInv, PlainRight
  <2>4. Len(Fd!Content(is[fd], i, n)) = There(i, n)
    <3>1. PICK c \in Nat : c = There(i, n)
      BY ThereIs
    <3>2. Fd!Content(is[fd], i, n) = [k \in 1..c |-> <<is[fd], i + k - 1>>]
      BY <3>1, ThereIs DEF Fd!Content
    <3> QED BY <3>1, <3>2
  <2>5. pos' = [pos EXCEPT ![fd] = v]
    BY <1>3, <2>2, <2>3, <2>4
  <2>6. pos' \in [Fds -> Int] /\ pos'[fd] = v /\ \A x \in Fds : x # fd => pos'[x] = pos[x]
    BY <1>1, <1>6, <2>5
  <2>7. \A s \in Tracking : slots[s].fd = fd =>
          slots'[s].fd = fd /\ slots'[s].pos = v /\ BlockOf(slots'[s], is[fd])
    BY <1>7
  <2>8. /\ slots' \in [Tracking -> Buffered]
        /\ \A s \in Tracking : slots[s].fd # fd => slots'[s] = slots[s]
    BY <1>6, <2>2
  <2>9. (\A s \in Tracking : slots[s].fd # fd) => pos'[fd] = v
    BY <2>6
  <2> QED BY <1>3, <1>4, <1>5, <2>6, <2>7, <2>8, <2>9, FdMoves, Zenon
<1>8. CASE ~(\A s \in Tracking : slots[s].fd # fd)
  <2>1. PICK s \in Tracking : slots[s].fd = fd
    BY <1>8
  <2>2. Fd!Tracked(fd) = {s}
    BY <1>1, <2>1, TrackedIs
  <2>3. fd # -1
    BY <1>1, DescriptorNumbers, Zenon
  <2>4. /\ is[fd] \in Archives /\ slots[s].pos = i /\ BlockOf(slots[s], is[fd])
        /\ slots[s] \in Buffered
    BY <1>2, <1>6, <2>1, <2>3 DEF FdInv, SlotsRight
  <2>5. PICK r : r = Fd!Served(slots[s], is[fd], n)
    OBVIOUS
  <2>6. ServedSoFar(r, slots[s], is[fd], i, n)
    BY <2>4, <2>5, ServedIs
  <2>7. r.slot \in Buffered /\ r.slot.fd = fd /\ BlockOf(r.slot, is[fd]) /\ r.slot.pos = v
    BY <1>3, <2>1, <2>6 DEF ServedSoFar
  <2>8. {s} # {} /\ \A k \in {s} : k = s
    OBVIOUS
  <2>9. /\ slots' = [slots EXCEPT ![s] = r.slot]
        /\ pos' = [pos EXCEPT ![fd] = IF r.slot.seqNext = -1 THEN pos[fd] ELSE r.slot.seqNext]
    BY <2>2, <2>5, <2>8 DEF Fd!Read
  <2>10. pos' \in [Fds -> Int] /\ \A x \in Fds : x # fd => pos'[x] = pos[x]
    <3>1. (IF r.slot.seqNext = -1 THEN pos[fd] ELSE r.slot.seqNext) \in Int
      BY <1>1, <1>6, <2>7 DEF Buffered
    <3> QED BY <1>1, <1>6, <2>9, <3>1, Zenon
  <2>11. /\ slots' \in [Tracking -> Buffered] /\ slots'[s] = r.slot
         /\ \A k \in Tracking : k # s => slots'[k] = slots[k]
    BY <1>6, <2>7, <2>9, Zenon
  <2>12. \A k \in Tracking : slots[k].fd = fd => k = s
    BY <2>1, <2>3 DEF FdInv, OneSlotEachFd
  <2>13. \A k \in Tracking : slots[k].fd = fd =>
           slots'[k].fd = fd /\ slots'[k].pos = v /\ BlockOf(slots'[k], is[fd])
    BY <2>7, <2>11, <2>12, Zenon
  <2>14. \A k \in Tracking : slots[k].fd # fd => slots'[k] = slots[k]
    BY <2>1, <2>11
  <2>15. (\A k \in Tracking : slots[k].fd # fd) => pos'[fd] = v
    BY <1>8
  <2> QED BY <1>3, <1>4, <1>5, <2>10, <2>11, <2>13, <2>14, <2>15, FdMoves, Zenon
<1> QED BY <1>7, <1>8

LEMMA FdSeekStep ==
  ASSUME FdInv, NEW t \in Threads, NEW fd \in fdMine[t],
         NEW whence \in {"set", "cur", "end"}, NEW n \in Int, Fd!Seek(t, fd, whence, n)
  PROVE  FdInv'
<1>1. FdTypes /\ fd \in Fds
  BY DEF FdInv, FdTypes
<1>2. PICK i \in Nat : i = fdView[fd]
  BY <1>1 DEF FdTypes
<1> DEFINE from(cur) == CASE whence = "set" -> 0 [] whence = "cur" -> cur [] OTHER -> ArchiveSize
           to(cur) == IF from(cur) + n < 0 THEN 0 ELSE from(cur) + n
<1>3. PICK v : v = to(i)
  OBVIOUS
<1>4. v \in Nat
  <2>1. from(i) \in Int
    BY DescriptorNumbers
  <2>2. PICK m \in Int : m = from(i) + n
    BY <2>1
  <2> QED BY <1>3, <2>2
<1>5. fdView' = [fdView EXCEPT ![fd] = to(fdView[fd])]
  BY DEF Fd!Seek
<1>6. is[fd] # "socket" /\ UNCHANGED <<is, marks, fdPc, fdMine>>
  BY DEF Fd!Seek, Fd!Socket
<1>7. IF Fd!Tracked(fd) = {}
      THEN pos' = [pos EXCEPT ![fd] = to(pos[fd])] /\ UNCHANGED slots
      ELSE /\ slots' = [s \in Tracking |-> IF s \in Fd!Tracked(fd)
                                           THEN [slots[s] EXCEPT !.pos = to(slots[s].pos)] ELSE slots[s]]
           /\ UNCHANGED pos
  BY DEF Fd!Seek, Fd!Slots, Tracking
<1> HIDE DEF to, from
<1>8. fdView' = [fdView EXCEPT ![fd] = v]
  BY <1>2, <1>3, <1>5
<1>9. slots \in [Tracking -> Buffered] /\ pos \in [Fds -> Int]
  BY <1>1 DEF FdTypes
<1>10. CASE \A s \in Tracking : slots[s].fd # fd
  <2>1. Fd!Tracked(fd) = {}
    BY <1>1, <1>10, TrackedIs
  <2>2. pos[fd] = i
    BY <1>2, <1>6, <1>10 DEF FdInv, PlainRight
  <2>3. pos' = [pos EXCEPT ![fd] = v] /\ slots' = slots
    BY <1>3, <1>7, <2>1, <2>2
  <2>4. pos' \in [Fds -> Int] /\ pos'[fd] = v /\ \A x \in Fds : x # fd => pos'[x] = pos[x]
    BY <1>1, <1>4, <1>9, <2>3
  <2>5. \A s \in Tracking : slots[s].fd = fd =>
          slots'[s].fd = fd /\ slots'[s].pos = v /\ BlockOf(slots'[s], is[fd])
    BY <1>10
  <2>6. /\ slots' \in [Tracking -> Buffered]
        /\ \A s \in Tracking : slots[s].fd # fd => slots'[s] = slots[s]
    BY <1>9, <2>3
  <2>7. (\A s \in Tracking : slots[s].fd # fd) => pos'[fd] = v
    BY <2>4
  <2> QED BY <1>4, <1>6, <1>8, <2>4, <2>5, <2>6, <2>7, FdMoves, Zenon
<1>11. CASE ~(\A s \in Tracking : slots[s].fd # fd)
  <2>1. PICK s \in Tracking : slots[s].fd = fd
    BY <1>11
  <2>2. Fd!Tracked(fd) = {s}
    BY <1>1, <2>1, TrackedIs
  <2>3. fd # -1
    BY <1>1, DescriptorNumbers, Zenon
  <2>4. /\ slots[s].pos = i /\ BlockOf(slots[s], is[fd]) /\ slots[s] \in Buffered
    BY <1>2, <1>9, <2>1, <2>3 DEF FdInv, SlotsRight
  <2>5. PICK r : r = [slots[s] EXCEPT !.pos = v]
    OBVIOUS
  <2>6. r \in Buffered /\ r.fd = fd /\ r.pos = v /\ r.buf = slots[s].buf /\ r.start = slots[s].start
    BY <1>4, <2>1, <2>4, <2>5 DEF Buffered
  <2>7. BlockOf(r, is[fd])
    BY <2>4, <2>6, Zenon DEF BlockOf
  <2>8. /\ slots' = [k \in Tracking |-> IF k \in {s} THEN [slots[k] EXCEPT !.pos = to(slots[k].pos)]
                                        ELSE slots[k]]
        /\ pos' = pos
    <3>1. {s} # {}
      OBVIOUS
    <3> QED BY <1>7, <2>2, <3>1, Zenon
  <2>9. \A k \in Tracking : slots'[k] = IF k = s THEN r ELSE slots[k]
    <3>1. \A k \in Tracking : slots'[k] = IF k \in {s} THEN [slots[k] EXCEPT !.pos = to(slots[k].pos)]
                                          ELSE slots[k]
      BY <2>8, Zenon
    <3>2. r = [slots[s] EXCEPT !.pos = to(slots[s].pos)]
      BY <1>3, <2>4, <2>5
    <3> QED BY <3>1, <3>2, Zenon
  <2>10. slots' \in [Tracking -> Buffered]
    <3>1. DOMAIN slots' = Tracking /\ slots' = [k \in Tracking |-> slots'[k]]
      BY <2>8, Zenon
    <3>2. \A k \in Tracking : slots'[k] \in Buffered
      BY <1>9, <2>6, <2>9
    <3> QED BY <3>1, <3>2, Zenon
  <2>11. \A k \in Tracking : slots[k].fd = fd => k = s
    BY <2>1, <2>3 DEF FdInv, OneSlotEachFd
  <2>12. \A k \in Tracking : slots[k].fd = fd =>
           slots'[k].fd = fd /\ slots'[k].pos = v /\ BlockOf(slots'[k], is[fd])
    BY <2>6, <2>7, <2>9, <2>11, Zenon
  <2>13. \A k \in Tracking : slots[k].fd # fd => slots'[k] = slots[k]
    BY <2>1, <2>9
  <2>14. pos' \in [Fds -> Int] /\ \A x \in Fds : x # fd => pos'[x] = pos[x]
    BY <1>9, <2>8
  <2>15. (\A k \in Tracking : slots[k].fd # fd) => pos'[fd] = v
    BY <1>11
  <2> QED BY <1>4, <1>6, <1>8, <2>10, <2>12, <2>13, <2>14, <2>15, FdMoves, Zenon
<1> QED BY <1>10, <1>11

LEMMA FdStep == FdInv /\ [Fd!Next]_(Fd!vars) => FdInv'
<1> SUFFICES ASSUME FdInv, [Fd!Next]_(Fd!vars) PROVE FdInv'
  OBVIOUS
<1>1. CASE UNCHANGED Fd!vars
  BY <1>1, FdKept
<1>2. ASSUME NEW t \in Threads, NEW what \in Archives \cup {Fd!Socket, Fd!Loose}, Fd!Open(t, what)
      PROVE  FdInv'
  BY <1>2, FdOpenStep
<1>3. ASSUME NEW t \in Threads, Fd!Opened(t) \/ Fd!Untrack(t) \/ Fd!Forget(t) \/ Fd!Closes(t)
      PROVE  FdInv'
  BY <1>3, FdOpenedStep, FdUntrackStep, FdForgetStep, FdClosesStep
<1>4. ASSUME NEW t \in Threads, NEW fd \in fdMine[t], Fd!Close(t, fd) PROVE FdInv'
  BY <1>4, FdCloseStep
<1>5. ASSUME NEW t \in Threads, NEW fd \in fdMine[t], NEW n \in Fd!Reads, Fd!Read(t, fd, n)
      PROVE  FdInv'
  <2>1. n \in Nat
    BY DescriptorNumbers DEF Fd!Reads
  <2> QED BY <1>5, <2>1, FdReadStep
<1>6. ASSUME NEW t \in Threads, NEW fd \in fdMine[t],
             Fd!Seek(t, fd, "set", 1) \/ Fd!Seek(t, fd, "cur", Page) \/ Fd!Seek(t, fd, "end", -1)
      PROVE  FdInv'
  <2>1. 1 \in Int /\ Page \in Int /\ -1 \in Int
    BY DescriptorNumbers
  <2>2. "set" \in {"set", "cur", "end"} /\ "cur" \in {"set", "cur", "end"} /\ "end" \in {"set", "cur", "end"}
    OBVIOUS
  <2> QED BY <1>6, <2>1, <2>2, FdSeekStep, Zenon
<1>7. ASSUME NEW t \in Readers, Fd!Reader(t) PROVE FdInv'
  <2>1. t \in Threads
    BY DescriptorAssumption
  <2> QED BY <1>5, <1>6, <1>7, <2>1, Zenon DEF Fd!Reader
<1> QED BY <1>1, <1>2, <1>3, <1>4, <1>7, Zenon DEF Fd!Next

LEMMA FdReads == FdInv => ReadsLikeAFile
<1> SUFFICES ASSUME FdInv, NEW t \in Threads, NEW fd \in fdMine[t]
             PROVE  /\ fd \in marks <=> is[fd] = "socket"
                    /\ is[fd] # "socket" => \A n \in Fd!Reads :
                         Fd!Answer(fd, n) = Fd!Content(is[fd], fdView[fd], n)
  BY Zenon DEF ReadsLikeAFile, Fd!ReadsLikeAFile, Fd!Socket
<1>1. fd \in marks <=> is[fd] = "socket"
  BY DEF FdInv, MarksRight
<1>2. FdTypes /\ fd \in Fds
  BY DEF FdInv, FdTypes
<1>3. ASSUME is[fd] # "socket", NEW n \in Fd!Reads
      PROVE  Fd!Answer(fd, n) = Fd!Content(is[fd], fdView[fd], n)
  <2>1. n \in Nat
    BY DescriptorNumbers DEF Fd!Reads
  <2>2. PICK i \in Nat : i = fdView[fd]
    BY <1>2 DEF FdTypes
  <2>3. CASE \A s \in Tracking : slots[s].fd # fd
    <3>1. Fd!Tracked(fd) = {}
      BY <1>2, <2>3, TrackedIs
    <3>2. pos[fd] = fdView[fd]
      BY <1>3, <2>3 DEF FdInv, PlainRight
    <3> QED BY <3>1, <3>2 DEF Fd!Answer
  <2>4. CASE ~(\A s \in Tracking : slots[s].fd # fd)
    <3>1. PICK s \in Tracking : slots[s].fd = fd
      BY <2>4
    <3>2. Fd!Tracked(fd) = {s}
      BY <1>2, <3>1, TrackedIs
    <3>3. fd # -1
      BY <1>2, DescriptorNumbers, Zenon
    <3>4. /\ is[fd] \in Archives /\ slots[s].pos = i /\ BlockOf(slots[s], is[fd])
          /\ slots[s] \in Buffered
      BY <1>2, <2>2, <3>1, <3>3 DEF FdInv, SlotsRight, FdTypes
    <3>5. ServedSoFar(Fd!Served(slots[s], is[fd], n), slots[s], is[fd], i, n)
      BY <2>1, <3>4, ServedIs
    <3>6. {s} # {} /\ (CHOOSE k \in {s} : TRUE) = s
      OBVIOUS
    <3>7. Fd!Answer(fd, n) = Fd!Served(slots[s], is[fd], n).out
      BY <3>2, <3>6 DEF Fd!Answer
    <3>8. Fd!Content(is[fd], i, n) = [j \in 1..There(i, n) |-> <<is[fd], i + j - 1>>]
      BY <2>1, <3>4, ContentIs
    <3> QED BY <2>2, <3>5, <3>7, <3>8 DEF ServedSoFar
  <2> QED BY <2>3, <2>4
<1> QED BY <1>1, <1>3

\* However many threads open, read, seek and close whatever archives, files and
\* sockets, under the same numbers again and with as many read-ahead slots as
\* there are: a read answers with the file's content at the caller's position
\* (read_fake, lseek_fake, obb_track to obb_untrack of libc_shim.c), and what is
\* taken for a socket is one (s_sock_bits of net_shim.c).
THEOREM DescriptorsReadTheirFile == Fd!Spec => []ReadsLikeAFile
<1> QED
  BY FdInit, FdStep, FdReads, PTL DEF Fd!Spec

----------------------------------------------------------------------------
(* FileNames.                                                              *)

\* The two sides agree; what is on the card is named by GameFiles, and each
\* file there is in a directory that is there.
NamesInv ==
  /\ AsOnAndroid
  /\ data = [f \in GameFiles |-> data[f]]
  /\ \A f \in GameFiles : data[f] # Name!Absent => Name!IsIn(dirs, f)

LEMMA NamesInit == Name!Init => NamesInv
  BY DEF Name!Init, NamesInv, AsOnAndroid, Name!AsOnAndroid

LEMMA Sides == ASSUME NamesInv PROVE sdirs = dirs /\ sdata = data /\ scwd = cwd
  BY DEF NamesInv, AsOnAndroid, Name!AsOnAndroid

LEMMA SameName == ASSUME NamesInv, NEW n PROVE Name!Meant(n) = Name!Real(n)
  BY Sides DEF Name!Meant, Name!Real

\* The four bits of open()'s flags come out as the same four.
LEMMA BitsTranslated ==
  ASSUME NEW word, NEW k \in {"creat", "excl", "trunc", "append"}
  PROVE  Name!Newlib[k] \in Name!Translated(word) <=> Name!Bionic[k] \in word
<1>1. DOMAIN Name!Bionic = {"creat", "excl", "trunc", "append"}
  BY DEF Name!Bionic
<1>2. \A b \in {"creat", "excl", "trunc", "append"} : Name!Newlib[b] = Name!Newlib[k] => b = k
  BY DEF Name!Newlib
<1>3. Name!Translated(word)
        = {Name!Newlib[b] : b \in {c \in {"creat", "excl", "trunc", "append"} : Name!Bionic[c] \in word}}
  BY <1>1 DEF Name!Translated
<1> QED BY <1>2, <1>3, Zenon

LEMMA WrittenAlike ==
  ASSUME NEW S, NEW p, NEW old, NEW word
  PROVE  Name!Written(S, p, old, Name!Translated(word), Name!Newlib)
           = Name!Written(S, p, old, word, Name!Bionic)
<1>1. /\ Name!Newlib["creat"] \in Name!Translated(word) <=> Name!Bionic["creat"] \in word
      /\ Name!Newlib["excl"] \in Name!Translated(word) <=> Name!Bionic["excl"] \in word
      /\ Name!Newlib["trunc"] \in Name!Translated(word) <=> Name!Bionic["trunc"] \in word
      /\ Name!Newlib["append"] \in Name!Translated(word) <=> Name!Bionic["append"] \in word
  BY BitsTranslated
<1>2. {Name!Newlib["excl"], Name!Newlib["creat"]} \subseteq Name!Translated(word)
        <=> {Name!Bionic["excl"], Name!Bionic["creat"]} \subseteq word
  BY <1>1
<1> QED BY <1>1, <1>2 DEF Name!Written

\* What is not there cannot be written into where there is no directory.
LEMMA WrittenWhere ==
  ASSUME NEW S, NEW p, NEW old, NEW word, NEW bit, ~Name!IsIn(S, p)
  PROVE  Name!Written(S, p, old, word, bit) = old
  BY DEF Name!Written

LEMMA DirsStep ==
  ASSUME NamesInv, NEW n, Name!MakeDir(n) \/ Name!ChangeDir(n) \/ Name!RemoveDir(n)
  PROVE  NamesInv'
<1>1. /\ sdirs = dirs /\ sdata = data /\ scwd = cwd /\ Name!Meant(n) = Name!Real(n)
      /\ data = [f \in GameFiles |-> data[f]]
      /\ \A f \in GameFiles : data[f] # Name!Absent => Name!IsIn(dirs, f)
  BY Sides, SameName DEF NamesInv
<1>2. CASE Name!MakeDir(n)
  <2>1. sdirs' = dirs' /\ dirs \subseteq dirs' /\ UNCHANGED <<data, sdata, cwd, scwd>>
    BY <1>1, <1>2 DEF Name!MakeDir
  <2>2. \A f \in GameFiles : Name!IsIn(dirs, f) => Name!IsIn(dirs', f)
    BY <2>1 DEF Name!IsIn
  <2> QED BY <1>1, <2>1, <2>2 DEF NamesInv, AsOnAndroid, Name!AsOnAndroid, Name!IsIn
<1>3. CASE Name!ChangeDir(n)
  <2>1. scwd' = cwd' /\ UNCHANGED <<dirs, data, sdirs, sdata>>
    BY <1>1, <1>3 DEF Name!ChangeDir, Name!card
  <2> QED BY <1>1, <2>1 DEF NamesInv, AsOnAndroid, Name!AsOnAndroid, Name!IsIn
<1>4. CASE Name!RemoveDir(n)
  <2> DEFINE Empty == \A q \in dirs \cup {f \in GameFiles : data[f] # Name!Absent} :
                        q # <<>> => Name!DirOf(q) # Name!Real(n)
  <2>1. /\ dirs' = IF Empty THEN dirs \ {Name!Real(n)} ELSE dirs
        /\ sdirs' = IF Empty THEN dirs \ {Name!Real(n)} ELSE dirs
        /\ UNCHANGED <<data, sdata, cwd, scwd>>
    BY <1>1, <1>4 DEF Name!RemoveDir
  <2>2. ASSUME NEW f \in GameFiles, data[f] # Name!Absent
        PROVE  f = <<>> \/ Name!DirOf(f) \in dirs'
    <3>1. f = <<>> \/ Name!DirOf(f) \in dirs
      BY <1>1, <2>2 DEF Name!IsIn
    <3>2. CASE Empty
      <4>1. f # <<>> => Name!DirOf(f) # Name!Real(n)
        BY <2>2, <3>2
      <4> HIDE DEF Empty
      <4> QED BY <2>1, <3>1, <3>2, <4>1
    <3>3. CASE ~Empty
      <4> HIDE DEF Empty
      <4> QED BY <2>1, <3>1, <3>3
    <3> QED BY <3>2, <3>3
  <2> HIDE DEF Empty
  <2>3. sdirs' = dirs'
    BY <2>1
  <2> QED BY <1>1, <2>1, <2>2, <2>3 DEF NamesInv, AsOnAndroid, Name!AsOnAndroid, Name!IsIn
<1> QED BY <1>2, <1>3, <1>4

LEMMA GameFilesStep ==
  ASSUME NamesInv, NEW n, NEW word, Name!Remove(n) \/ Name!Read(n) \/ Name!Write(n, word)
  PROVE  NamesInv'
<1>1. /\ sdirs = dirs /\ sdata = data /\ scwd = cwd /\ Name!Meant(n) = Name!Real(n)
      /\ data = [f \in GameFiles |-> data[f]]
      /\ \A f \in GameFiles : data[f] # Name!Absent => Name!IsIn(dirs, f)
  BY Sides, SameName DEF NamesInv
<1>2. PICK p : p = Name!Real(n)
  OBVIOUS
<1>3. ASSUME NEW new, data' = [data EXCEPT ![p] = new], sdata' = [data EXCEPT ![p] = new],
             UNCHANGED <<dirs, sdirs, cwd, scwd>>, new # Name!Absent => Name!IsIn(dirs, p)
      PROVE  NamesInv'
  <2>1. \A f \in GameFiles : data'[f] = IF f = p THEN new ELSE data[f]
    BY <1>1, <1>3
  <2>2. data' = [f \in GameFiles |-> data'[f]]
    BY <1>1, <1>3
  <2>3. \A f \in GameFiles : data'[f] # Name!Absent => Name!IsIn(dirs, f)
    BY <1>1, <1>3, <2>1
  <2>4. dirs' = dirs
    BY <1>3
  <2>5. \A f \in GameFiles : data'[f] # Name!Absent => Name!IsIn(dirs', f)
    BY <2>3, <2>4
  <2>6. AsOnAndroid'
    BY <1>1, <1>3 DEF AsOnAndroid, Name!AsOnAndroid
  <2> QED BY <2>2, <2>5, <2>6 DEF NamesInv, Name!IsIn
<1>4. CASE Name!Remove(n)
  <2>1. /\ data' = [data EXCEPT ![p] = Name!Absent] /\ sdata' = [data EXCEPT ![p] = Name!Absent]
        /\ UNCHANGED <<dirs, sdirs, cwd, scwd>>
    BY <1>1, <1>2, <1>4 DEF Name!Remove
  <2> QED BY <1>3, <2>1
<1>5. CASE Name!Read(n)
  <2>1. UNCHANGED <<dirs, data, sdirs, sdata, scwd, cwd>>
    BY <1>5 DEF Name!Read, Name!card, Name!android
  <2> QED BY <1>1, <2>1 DEF NamesInv, AsOnAndroid, Name!AsOnAndroid, Name!IsIn
<1>6. CASE Name!Write(n, word)
  <2>1. PICK new : new = Name!Written(dirs, p, data[p], word, Name!Bionic)
    OBVIOUS
  <2>2. Name!Written(dirs, p, data[p], Name!Translated(word), Name!Newlib) = new
    BY <2>1, WrittenAlike, Zenon
  <2>3. /\ data' = [data EXCEPT ![p] = new] /\ sdata' = [data EXCEPT ![p] = new]
        /\ p \in GameFiles /\ UNCHANGED <<dirs, sdirs, cwd, scwd>>
    BY <1>1, <1>2, <1>6, <2>1, <2>2 DEF Name!Write
  <2>4. new # Name!Absent => Name!IsIn(dirs, p)
    BY <1>1, <2>1, <2>3, WrittenWhere
  <2> QED BY <1>3, <2>3, <2>4
<1> QED BY <1>4, <1>5, <1>6

\* On the card a rename does not replace, so it is made twice; it comes to one
\* that does, for what is there is in a directory that is there.
LEMMA RenamedAlike ==
  ASSUME NamesInv, NEW p \in GameFiles, NEW q \in GameFiles, p # q, data[p] # Name!Absent
  PROVE  LET once == Name!Renamed(data, dirs, p, q)
         IN (IF once # data \/ data[q] = Name!Absent THEN once
             ELSE Name!Renamed([data EXCEPT ![q] = Name!Absent], dirs, p, q))
              = Name!Replaced(data, dirs, p, q)
<1>1. /\ data = [f \in GameFiles |-> data[f]]
      /\ \A f \in GameFiles : data[f] # Name!Absent => Name!IsIn(dirs, f)
  BY DEF NamesInv
<1>2. PICK once : once = Name!Renamed(data, dirs, p, q)
  OBVIOUS
<1>3. CASE ~Name!IsIn(dirs, q)
  <2>1. data[q] = Name!Absent
    BY <1>1, <1>3
  <2>2. once = data /\ Name!Replaced(data, dirs, p, q) = data
    BY <1>2, <1>3 DEF Name!Renamed, Name!Replaced
  <2> QED BY <1>2, <2>1, <2>2
<1>4. CASE Name!IsIn(dirs, q) /\ data[q] = Name!Absent
  <2>1. once = Name!Replaced(data, dirs, p, q)
    BY <1>2, <1>4 DEF Name!Renamed, Name!Replaced
  <2> QED BY <1>2, <1>4, <2>1
<1>5. CASE Name!IsIn(dirs, q) /\ data[q] # Name!Absent
  <2>1. once = data
    BY <1>2, <1>5 DEF Name!Renamed
  <2>2. PICK D : D = [data EXCEPT ![q] = Name!Absent]
    OBVIOUS
  <2>3. D[p] = data[p] /\ D[q] = Name!Absent
    BY <1>1, <2>2
  <2>4. Name!Renamed(D, dirs, p, q) = [D EXCEPT ![q] = data[p], ![p] = Name!Absent]
    BY <1>5, <2>3 DEF Name!Renamed
  <2>5. [D EXCEPT ![q] = data[p], ![p] = Name!Absent]
          = [data EXCEPT ![q] = data[p], ![p] = Name!Absent]
    BY <1>1, <2>2
  <2>6. Name!Replaced(data, dirs, p, q) = [data EXCEPT ![q] = data[p], ![p] = Name!Absent]
    BY <1>5 DEF Name!Replaced
  <2> QED BY <1>2, <1>5, <2>1, <2>2, <2>4, <2>5, <2>6
<1> QED BY <1>3, <1>4, <1>5

LEMMA RenameStep == ASSUME NamesInv, NEW n, NEW m, Name!Rename(n, m) PROVE NamesInv'
<1>1. /\ sdirs = dirs /\ sdata = data /\ scwd = cwd
      /\ Name!Meant(n) = Name!Real(n) /\ Name!Meant(m) = Name!Real(m)
      /\ data = [f \in GameFiles |-> data[f]]
      /\ \A f \in GameFiles : data[f] # Name!Absent => Name!IsIn(dirs, f)
  BY Sides, SameName DEF NamesInv
<1>2. PICK p \in GameFiles, q \in GameFiles : p = Name!Real(n) /\ q = Name!Real(m) /\ p # q
  BY DEF Name!Rename
<1>3. data[p] # Name!Absent
  BY <1>2 DEF Name!Rename
<1>4. PICK once : once = Name!Renamed(data, dirs, p, q)
  OBVIOUS
<1>5. /\ data' = IF once # data \/ data[q] = Name!Absent THEN once
                 ELSE Name!Renamed([data EXCEPT ![q] = Name!Absent], dirs, p, q)
      /\ sdata' = Name!Replaced(data, dirs, p, q)
      /\ UNCHANGED <<dirs, sdirs, cwd, scwd>>
  BY <1>1, <1>2, <1>4 DEF Name!Rename
<1>6. data' = Name!Replaced(data, dirs, p, q)
  BY <1>2, <1>3, <1>4, <1>5, RenamedAlike
<1>7. \/ data' = data
      \/ Name!IsIn(dirs, q) /\ data' = [data EXCEPT ![q] = data[p], ![p] = Name!Absent]
  BY <1>6 DEF Name!Replaced
<1>8. data' = [f \in GameFiles |-> data'[f]]
  BY <1>1, <1>7
<1>9. \A f \in GameFiles : data'[f] # Name!Absent => Name!IsIn(dirs, f)
  <2>1. CASE data' = data
    BY <1>1, <2>1
  <2>2. CASE Name!IsIn(dirs, q) /\ data' = [data EXCEPT ![q] = data[p], ![p] = Name!Absent]
    <3>1. \A f \in GameFiles : data'[f] = IF f = p THEN Name!Absent ELSE IF f = q THEN data[p] ELSE data[f]
      BY <1>1, <1>2, <2>2
    <3> QED BY <1>1, <2>2, <3>1
  <2> QED BY <1>7, <2>1, <2>2
<1>10. \A f \in GameFiles : data'[f] # Name!Absent => Name!IsIn(dirs', f)
  <2>1. dirs' = dirs
    BY <1>5
  <2> QED BY <1>9, <2>1
<1>11. AsOnAndroid'
  BY <1>1, <1>5, <1>6 DEF AsOnAndroid, Name!AsOnAndroid
<1> QED BY <1>8, <1>10, <1>11 DEF NamesInv, Name!IsIn

LEMMA NamesStep == NamesInv /\ [Name!Next]_(Name!vars) => NamesInv'
<1> SUFFICES ASSUME NamesInv, [Name!Next]_(Name!vars) PROVE NamesInv'
  OBVIOUS
<1>1. CASE UNCHANGED Name!vars
  <2>1. UNCHANGED <<dirs, data, cwd, sdirs, sdata, scwd>>
    BY <1>1 DEF Name!vars, Name!card, Name!android
  <2> QED BY <2>1 DEF NamesInv, AsOnAndroid, Name!AsOnAndroid, Name!IsIn
<1>2. ASSUME NEW n, Name!MakeDir(n) \/ Name!ChangeDir(n) \/ Name!RemoveDir(n) PROVE NamesInv'
  BY <1>2, DirsStep
<1>3. ASSUME NEW n, Name!Remove(n) \/ Name!Read(n) PROVE NamesInv'
  BY <1>3, GameFilesStep
<1>4. ASSUME NEW n, NEW word, Name!Write(n, word) PROVE NamesInv'
  BY <1>4, GameFilesStep
<1>5. ASSUME NEW n, NEW m, Name!Rename(n, m) PROVE NamesInv'
  BY <1>5, RenameStep
<1> QED BY <1>1, <1>2, <1>3, <1>4, <1>5, Zenon DEF Name!Next

\* Whatever directories and files the game has, and whatever it makes, enters,
\* removes, writes and renames under whichever form of their names: the save
\* folder and the current directory are what the same calls make on Android
\* (sandbox_path, chdir_fake, oflags_bionic_to_newlib, rename_fake of
\* libc_shim.c).
THEOREM CallsMeanWhatTheyDidOnAndroid == Name!Spec => []AsOnAndroid
<1>1. NamesInv => AsOnAndroid
  BY DEF NamesInv
<1> QED
  BY NamesInit, NamesStep, <1>1, PTL DEF Name!Spec

=============================================================================
