--------------------------- MODULE ThreadsProofs ---------------------------
(***************************************************************************)
(* What the locks and the one-time initialisers guarantee, for any threads *)
(* and objects, and tables of any size.  They share no state.              *)
(*                                                                         *)
(* BionicLocks: the threads that meet an uninitialised lock at once end up *)
(* with one object, of the kind the engine declared, and with one thread   *)
(* inside.  Once: every initialiser has run once for whoever comes back.   *)
(***************************************************************************)
EXTENDS BionicLocks, Once, TLAPS, FiniteSetTheorems, SequenceTheorems

----------------------------------------------------------------------------
(* Once.                                                                   *)

\* A call that is running its initialiser, or has run it and not said so.
Running(call) == call.at \in {"init", "publish"}

\* The calls of a stack are the engine's, one inside the other, or it is a
\* single one of the driver's, which waits for the lock or has it.
Layered ==
  \A t \in Callers : \A i \in 1..Len(stack[t]) :
    /\ stack[t][i].at \in {"spin", "publish"} => stack[t][i].once \in Controls
    /\ stack[t][i].once \in Flags => Len(stack[t]) = 1
    /\ stack[t][i].once \in Flags /\ Running(stack[t][i]) => holder = t

\* Who has won the swap of a control is alone inside until it publishes.
OneWinner ==
  \A t \in Callers : \A i \in 1..Len(stack[t]) :
    Running(stack[t][i]) /\ stack[t][i].once \in Controls =>
      /\ control[stack[t][i].once] = 1
      /\ \A u \in Callers : \A j \in 1..Len(stack[u]) :
           Running(stack[u][j]) /\ stack[u][j].once = stack[t][i].once => u = t /\ j = i

\* The control word says how far its initialiser is.
WordIsRight ==
  /\ \A c \in Controls : /\ control[c] = 0 => started[c] = 0
                         /\ started[c] <= 1
                         /\ control[c] = 2 => finished[c] > 0
  /\ \A t \in Callers : \A i \in 1..Len(stack[t]) :
       stack[t][i].at = "publish" => finished[stack[t][i].once] > 0

\* A flag goes into the table the first time there is room for it, and it is
\* run by then or the holder of the lock is running it.
TableIsRight ==
  /\ \A f \in done : /\ started[f] <= 1
                     /\ \/ finished[f] > 0
                        \/ /\ holder \in Callers
                           /\ stack[holder] = <<[once |-> f, at |-> "init"]>>
  /\ Cardinality(done) < MaxFlags => \A f \in Flags \ done : started[f] = 0

BackIsDone == \A t \in Callers : \A c \in back[t] : finished[c] > 0

OnceInv == /\ OnceTypeOK /\ Layered /\ OneWinner
           /\ WordIsRight /\ TableIsRight /\ BackIsDone

LEMMA Safe == OnceInv => InitialisedOnce
  BY DEF OnceInv, WordIsRight, TableIsRight, BackIsDone, InitialisedOnce

LEMMA InitHolds == OnceInit => OnceInv
  BY OnceAssumption, FS_EmptySet
  DEF OnceInit, OnceInv, OnceTypeOK, Layered, OneWinner, WordIsRight, TableIsRight, BackIsDone

----------------------------------------------------------------------------
(* What the operators on stacks do                                         *)

LEMMA Pushed ==
  ASSUME OnceTypeOK, NEW t \in Callers, NEW c \in Controls \cup Flags
  PROVE  LET s == Push(t, c)
             new == [once |-> c, at |-> "call"]
         IN /\ s \in [Callers -> Seq(OnceCalls)]
            /\ \A u \in Callers \ {t} : s[u] = stack[u]
            /\ Len(s[t]) = Len(stack[t]) + 1
            /\ \A i \in 1..Len(stack[t]) : s[t][i] = stack[t][i]
            /\ s[t][Len(stack[t]) + 1] = new
<1> DEFINE new == [once |-> c, at |-> "call"]
<1>1. stack \in [Callers -> Seq(OnceCalls)] /\ new \in OnceCalls
  BY DEF OnceTypeOK, OnceCalls
<1>2. Push(t, c) = [stack EXCEPT ![t] = Append(stack[t], new)]
  BY DEF Push
<1> HIDE DEF new
<1>3. /\ Append(stack[t], new) \in Seq(OnceCalls)
      /\ Len(Append(stack[t], new)) = Len(stack[t]) + 1
      /\ \A i \in 1..Len(stack[t]) : Append(stack[t], new)[i] = stack[t][i]
      /\ Append(stack[t], new)[Len(stack[t]) + 1] = new
  BY <1>1
<1>4. QED
  BY <1>1, <1>2, <1>3 DEF new

\* A sequence without its last element.
LEMMA FrontOf ==
  ASSUME NEW S, NEW s \in Seq(S), s # <<>>
  PROVE  LET f == SubSeq(s, 1, Len(s) - 1)
         IN /\ f \in Seq(S)
            /\ Len(f) = Len(s) - 1
            /\ \A i \in 1..Len(f) : f[i] = s[i]
<1>1. Len(s) \in Nat \ {0}
  OBVIOUS
<1> DEFINE m == 1  n == Len(s) - 1
<1>2. m \in Int /\ n \in Int /\ n >= 0 /\ \A i \in m..n : s[i] \in S
  BY <1>1
<1> HIDE DEF m, n
<1>3. /\ SubSeq(s, m, n) \in Seq(S)
      /\ Len(SubSeq(s, m, n)) = IF m <= n THEN n - m + 1 ELSE 0
      /\ \A i \in 1..(n - m + 1) : SubSeq(s, m, n)[i] = s[m + i - 1]
  BY <1>2, SubSeqProperties
<1>4. SubSeq(s, m, n) \in Seq(S) /\ Len(SubSeq(s, m, n)) = n
  BY <1>2, <1>3 DEF m
<1>5. ASSUME NEW i \in 1..n PROVE SubSeq(s, m, n)[i] = s[i]
  <2>1. i \in 1..(n - m + 1) /\ m + i - 1 = i
    BY <1>2 DEF m
  <2> QED
    BY <1>3, <2>1
<1>6. QED
  BY <1>4, <1>5 DEF m, n

LEMMA Popped ==
  ASSUME OnceTypeOK, NEW t \in Callers, stack[t] # <<>>
  PROVE  LET s == Pop(t)
         IN /\ s \in [Callers -> Seq(OnceCalls)]
            /\ \A u \in Callers \ {t} : s[u] = stack[u]
            /\ Len(s[t]) = Len(stack[t]) - 1
            /\ \A i \in 1..Len(s[t]) : s[t][i] = stack[t][i]
<1>1. stack \in [Callers -> Seq(OnceCalls)] /\ Len(stack[t]) \in Nat \ {0}
  BY DEF OnceTypeOK
<1> DEFINE rest == SubSeq(stack[t], 1, Len(stack[t]) - 1)
<1>2. /\ rest \in Seq(OnceCalls)
      /\ Len(rest) = Len(stack[t]) - 1
      /\ \A i \in 1..Len(rest) : rest[i] = stack[t][i]
  BY <1>1, FrontOf
<1>3. Pop(t) = [stack EXCEPT ![t] = rest]
  BY DEF Pop
<1> HIDE DEF rest
<1>4. QED
  BY <1>1, <1>2, <1>3

LEMMA Moved ==
  ASSUME OnceTypeOK, NEW t \in Callers, stack[t] # <<>>,
         NEW place \in {"call", "spin", "init", "publish"}
  PROVE  LET s == Move(t, place)
         IN /\ s \in [Callers -> Seq(OnceCalls)]
            /\ \A u \in Callers \ {t} : s[u] = stack[u]
            /\ Len(s[t]) = Len(stack[t])
            /\ \A i \in 1..(Len(stack[t]) - 1) : s[t][i] = stack[t][i]
            /\ s[t][Len(stack[t])] = [once |-> Top(t).once, at |-> place]
<1>1. /\ stack \in [Callers -> Seq(OnceCalls)] /\ Len(stack[t]) \in Nat \ {0}
      /\ Top(t) \in OnceCalls
  BY DEF OnceTypeOK, Top
<1> DEFINE last == [once |-> Top(t).once, at |-> place]
           moved == [stack[t] EXCEPT ![Len(stack[t])] = last]
<1>2. last \in OnceCalls
  BY <1>1 DEF OnceCalls
<1>3. [Top(t) EXCEPT !.at = place] = last
  BY <1>1 DEF OnceCalls
<1>4. Move(t, place) = [stack EXCEPT ![t] = moved]
  BY <1>3 DEF Move, Top
<1> HIDE DEF last
<1>5. /\ moved \in Seq(OnceCalls) /\ Len(moved) = Len(stack[t])
      /\ \A i \in 1..(Len(stack[t]) - 1) : moved[i] = stack[t][i]
      /\ moved[Len(stack[t])] = last
  BY <1>1, <1>2
<1> HIDE DEF moved
<1>6. QED
  BY <1>1, <1>4, <1>5 DEF last

----------------------------------------------------------------------------
(* Each step keeps the invariant                                           *)

\* Nobody wins a control in a step that lets nobody inside.
LEMMA NobodyWins ==
  ASSUME OneWinner,
         \A u \in Callers : \A i \in 1..Len(stack'[u]) :
           Running(stack'[u][i]) /\ stack'[u][i].once \in Controls =>
             /\ i \in 1..Len(stack[u]) /\ Running(stack[u][i])
             /\ stack[u][i].once = stack'[u][i].once
             /\ control'[stack[u][i].once] = 1
  PROVE  OneWinner'
<1> SUFFICES ASSUME NEW u \in Callers, NEW i \in 1..Len(stack'[u]),
                    Running(stack'[u][i]), stack'[u][i].once \in Controls
             PROVE  /\ control'[stack'[u][i].once] = 1
                    /\ \A v \in Callers : \A j \in 1..Len(stack'[v]) :
                         Running(stack'[v][j]) /\ stack'[v][j].once = stack'[u][i].once
                           => v = u /\ j = i
  BY DEF OneWinner, Running
<1> HIDE DEF Running
<1>1. /\ i \in 1..Len(stack[u]) /\ Running(stack[u][i])
      /\ stack[u][i].once = stack'[u][i].once
      /\ control'[stack'[u][i].once] = 1
  OBVIOUS
<1>2. ASSUME NEW v \in Callers, NEW j \in 1..Len(stack'[v]),
             Running(stack'[v][j]), stack'[v][j].once = stack'[u][i].once
      PROVE  v = u /\ j = i
  <2>1. /\ j \in 1..Len(stack[v]) /\ Running(stack[v][j])
        /\ stack[v][j].once = stack[u][i].once
    BY <1>1, <1>2
  <2> QED
    BY <1>1, <2>1, SMTT(30) DEF OneWinner
<1> QED
  BY <1>1, <1>2

LEMMA CallHolds ==
  ASSUME OnceInv, NEW t \in Callers, CallOnce(t)
  PROVE  OnceInv'
<1> USE OnceAssumption DEF OnceInv
<1>1. PICK c \in Controls \cup Flags :
        /\ stack' = Push(t, c)
        /\ \/ stack[t] = <<>>
           \/ stack[t] # <<>> /\ Top(t).once \in Controls /\ c \in Controls
  BY DEF CallOnce, TopAt, OnceTypeOK
<1>2. /\ stack' \in [Callers -> Seq(OnceCalls)]
      /\ \A u \in Callers \ {t} : stack'[u] = stack[u]
      /\ Len(stack'[t]) = Len(stack[t]) + 1
      /\ \A i \in 1..Len(stack[t]) : stack'[t][i] = stack[t][i]
      /\ stack'[t][Len(stack[t]) + 1] = [once |-> c, at |-> "call"]
  BY <1>1, Pushed
<1>3. UNCHANGED <<control, done, holder, started, finished, back>>
  BY DEF CallOnce
<1>4. \A u \in Callers : Len(stack[u]) \in Nat
  BY DEF OnceTypeOK
<1>5. OnceTypeOK'
  BY <1>2, <1>3 DEF OnceTypeOK, OnceCalls
<1>6. ASSUME NEW u \in Callers, NEW i \in 1..Len(stack'[u])
      PROVE  \/ i \in 1..Len(stack[u]) /\ stack'[u][i] = stack[u][i]
             \/ u = t /\ i = Len(stack'[t]) /\ stack'[u][i] = [once |-> c, at |-> "call"]
  BY <1>2, <1>4
<1>7. Layered'
  <2>1. ASSUME NEW i \in 1..Len(stack[t]) PROVE stack[t][i].once \notin Flags
    BY <1>1, <1>4 DEF Layered, Top
  <2>2. SUFFICES ASSUME NEW u \in Callers, NEW i \in 1..Len(stack'[u])
                 PROVE  /\ stack'[u][i].at \in {"spin", "publish"} => stack'[u][i].once \in Controls
                        /\ stack'[u][i].once \in Flags => Len(stack'[u]) = 1
                        /\ stack'[u][i].once \in Flags /\ Running(stack'[u][i]) => holder' = u
    BY DEF Layered, Running
  <2>3. CASE i \in 1..Len(stack[u]) /\ stack'[u][i] = stack[u][i]
    BY <2>1, <2>3, <1>2, <1>3 DEF Layered
  <2>4. CASE u = t /\ i = Len(stack'[t]) /\ stack'[u][i] = [once |-> c, at |-> "call"]
    BY <2>1, <2>4, <1>1, <1>2, <1>4 DEF Running, OnceTypeOK
  <2> QED
    BY <2>3, <2>4, <1>6
<1>8. OneWinner' /\ WordIsRight'
  <2>1. \A u \in Callers : \A i \in 1..Len(stack'[u]) : Running(stack'[u][i]) =>
          i \in 1..Len(stack[u]) /\ stack'[u][i] = stack[u][i]
    BY <1>6 DEF Running
  <2>2. OneWinner'
    <3>1. ASSUME NEW u \in Callers, NEW i \in 1..Len(stack'[u]), Running(stack'[u][i]),
               stack'[u][i].once \in Controls
          PROVE  /\ i \in 1..Len(stack[u]) /\ Running(stack[u][i])
                 /\ stack[u][i].once = stack'[u][i].once
                 /\ control'[stack[u][i].once] = 1
      BY <2>1, <3>1, <1>3 DEF OneWinner
    <3> QED
      BY <3>1, NobodyWins
  <2>3. WordIsRight'
    BY <2>1, <1>3 DEF WordIsRight, Running
  <2> QED
    BY <2>2, <2>3
<1>9. TableIsRight'
  <2>1. ASSUME NEW f \in done, holder = t,
               stack[holder] = <<[once |-> f, at |-> "init"]>>
        PROVE  FALSE
    <3>1. f \in Flags /\ Top(t).once = f /\ stack[t] # <<>>
      BY <2>1 DEF Top, OnceTypeOK
    <3> QED
      BY <1>1, <3>1
  <2> QED
    BY <1>2, <1>3, <2>1 DEF TableIsRight
<1>10. BackIsDone'
  BY <1>3 DEF BackIsDone
<1> QED
  BY <1>5, <1>7, <1>8, <1>9, <1>10

\* The top of a stack is one of its calls.
LEMMA TopIsACall ==
  ASSUME OnceTypeOK, NEW t \in Callers, stack[t] # <<>>
  PROVE  /\ Len(stack[t]) \in 1..Len(stack[t]) /\ Top(t) = stack[t][Len(stack[t])]
         /\ Top(t) \in OnceCalls /\ Top(t).once \in Controls \cup Flags
<1>1. Top(t) \in OnceCalls /\ Len(stack[t]) \in 1..Len(stack[t])
  BY DEF OnceTypeOK, Top
<1>2. Top(t).once \in Controls \cup Flags
  BY <1>1 DEF OnceCalls
<1> QED
  BY <1>1, <1>2 DEF Top

\* What a return leaves of the stacks.
LEMMA Returned ==
  ASSUME OnceInv, NEW t \in Callers, stack[t] # <<>>, Return(t)
  PROVE  /\ stack' \in [Callers -> Seq(OnceCalls)]
         /\ back' \in [Callers -> SUBSET (Controls \cup Flags)]
         /\ \A u \in Callers \ {t} : stack'[u] = stack[u]
         /\ \A u \in Callers : \A i \in 1..Len(stack'[u]) :
              /\ i \in 1..Len(stack[u]) /\ stack'[u][i] = stack[u][i]
              /\ u = t => i # Len(stack[t]) /\ stack[t][i].once \notin Flags
         /\ \A u \in Callers : \A c \in back'[u] : c \in back[u] \/ c = Top(t).once
<1> USE DEF OnceInv
<1>1. /\ stack' \in [Callers -> Seq(OnceCalls)]
      /\ \A u \in Callers \ {t} : stack'[u] = stack[u]
      /\ Len(stack'[t]) = Len(stack[t]) - 1
      /\ \A i \in 1..Len(stack'[t]) : stack'[t][i] = stack[t][i]
  BY Popped DEF Return
<1>2. \A u \in Callers : Len(stack[u]) \in Nat
  BY DEF OnceTypeOK
<1>3. \A u \in Callers : \A i \in 1..Len(stack'[u]) :
        /\ i \in 1..Len(stack[u]) /\ stack'[u][i] = stack[u][i]
        /\ u = t => i # Len(stack[t])
  BY <1>1, <1>2
<1>4. ASSUME NEW i \in 1..Len(stack'[t]) PROVE stack[t][i].once \notin Flags
  BY <1>1, <1>2 DEF Layered
<1>5. Top(t).once \in Controls \cup Flags
  BY TopIsACall
<1>6. /\ back' \in [Callers -> SUBSET (Controls \cup Flags)]
      /\ \A u \in Callers : \A c \in back'[u] : c \in back[u] \/ c = Top(t).once
  BY <1>5 DEF Return, OnceTypeOK
<1> QED
  BY <1>1, <1>3, <1>4, <1>6

LEMMA SpinHolds ==
  ASSUME OnceInv, NEW t \in Callers, Spin(t)
  PROVE  OnceInv'
<1> USE OnceAssumption DEF OnceInv
<1>1. stack[t] # <<>> /\ Top(t).at = "spin" /\ control[Top(t).once] = 2 /\ Return(t)
  BY DEF Spin, TopAt
<1>2. UNCHANGED <<control, done, holder, started, finished>>
  BY DEF Spin
<1>3. /\ stack' \in [Callers -> Seq(OnceCalls)]
      /\ back' \in [Callers -> SUBSET (Controls \cup Flags)]
      /\ \A u \in Callers \ {t} : stack'[u] = stack[u]
      /\ \A u \in Callers : \A i \in 1..Len(stack'[u]) :
           /\ i \in 1..Len(stack[u]) /\ stack'[u][i] = stack[u][i]
           /\ u = t => i # Len(stack[t]) /\ stack[t][i].once \notin Flags
      /\ \A u \in Callers : \A c \in back'[u] : c \in back[u] \/ c = Top(t).once
  BY <1>1, Returned
<1>4. Top(t).once \in Controls
  BY <1>1, TopIsACall DEF Layered
<1>5. OnceTypeOK'
  BY <1>2, <1>3 DEF OnceTypeOK
<1>6. Layered'
  BY <1>2, <1>3 DEF Layered, Running
<1>7. OneWinner'
  <2>1. ASSUME NEW u \in Callers, NEW i \in 1..Len(stack'[u]), Running(stack'[u][i]),
               stack'[u][i].once \in Controls
        PROVE  /\ i \in 1..Len(stack[u]) /\ Running(stack[u][i])
               /\ stack[u][i].once = stack'[u][i].once
               /\ control'[stack[u][i].once] = 1
    BY <2>1, <1>2, <1>3 DEF OneWinner
  <2> QED
    BY <2>1, NobodyWins
<1>8. WordIsRight'
  BY <1>2, <1>3 DEF WordIsRight
<1>9. TableIsRight'
  <2>1. ASSUME NEW f \in done, holder = t,
               stack[holder] = <<[once |-> f, at |-> "init"]>>
        PROVE  FALSE
    BY <1>1, <2>1 DEF Top
  <2> QED
    BY <1>2, <1>3, <2>1 DEF TableIsRight
<1>10. BackIsDone'
  BY <1>1, <1>2, <1>3, <1>4 DEF BackIsDone, WordIsRight
<1> QED
  BY <1>5, <1>6, <1>7, <1>8, <1>9, <1>10

LEMMA PublishHolds ==
  ASSUME OnceInv, NEW t \in Callers, Publish(t)
  PROVE  OnceInv'
<1> USE OnceAssumption DEF OnceInv
<1> DEFINE c == Top(t).once
<1>1. stack[t] # <<>> /\ Top(t).at = "publish" /\ Return(t)
  BY DEF Publish, TopAt
<1>2. control' = [control EXCEPT ![c] = 2] /\ UNCHANGED <<done, holder, started, finished>>
  BY DEF Publish
<1>3. /\ stack' \in [Callers -> Seq(OnceCalls)]
      /\ back' \in [Callers -> SUBSET (Controls \cup Flags)]
      /\ \A u \in Callers \ {t} : stack'[u] = stack[u]
      /\ \A u \in Callers : \A i \in 1..Len(stack'[u]) :
           /\ i \in 1..Len(stack[u]) /\ stack'[u][i] = stack[u][i]
           /\ u = t => i # Len(stack[t]) /\ stack[t][i].once \notin Flags
      /\ \A u \in Callers : \A d \in back'[u] : d \in back[u] \/ d = c
  BY <1>1, Returned
<1>4. c \in Controls /\ finished[c] > 0
  BY <1>1, TopIsACall DEF Layered, WordIsRight
<1> HIDE DEF c
<1>5. OnceTypeOK'
  BY <1>2, <1>3, <1>4 DEF OnceTypeOK
<1>6. Layered'
  BY <1>2, <1>3 DEF Layered, Running
<1>7. OneWinner'
  <2>1. ASSUME NEW u \in Callers, NEW i \in 1..Len(stack'[u]), Running(stack'[u][i]),
               stack'[u][i].once = c
        PROVE  FALSE
    <3>1. /\ i \in 1..Len(stack[u]) /\ stack[u][i].once = c /\ Running(stack[u][i])
          /\ u = t => i # Len(stack[t])
      BY <2>1, <1>3
    <3>2. /\ Len(stack[t]) \in 1..Len(stack[t]) /\ Running(stack[t][Len(stack[t])])
          /\ stack[t][Len(stack[t])].once = c
      BY <1>1, TopIsACall DEF Running, c
    <3> QED
      BY <3>1, <3>2, <1>4 DEF OneWinner
  <2>2. ASSUME NEW u \in Callers, NEW i \in 1..Len(stack'[u]), Running(stack'[u][i]),
               stack'[u][i].once \in Controls
        PROVE  /\ i \in 1..Len(stack[u]) /\ Running(stack[u][i])
               /\ stack[u][i].once = stack'[u][i].once
               /\ control'[stack[u][i].once] = 1
    BY <2>1, <2>2, <1>2, <1>3 DEF OneWinner, OnceTypeOK
  <2> QED
    BY <2>2, NobodyWins
<1>8. WordIsRight'
  BY <1>2, <1>3, <1>4, SMTT(30) DEF WordIsRight, OnceTypeOK
<1>9. TableIsRight'
  <2>1. ASSUME NEW f \in done, holder = t,
               stack[holder] = <<[once |-> f, at |-> "init"]>>
        PROVE  FALSE
    BY <1>1, <2>1 DEF Top
  <2> QED
    BY <1>2, <1>3, <2>1 DEF TableIsRight
<1>10. BackIsDone'
  BY <1>2, <1>3, <1>4 DEF BackIsDone
<1> QED
  BY <1>5, <1>6, <1>7, <1>8, <1>9, <1>10

\* What a move changes in the stacks: the place of one call.
LEMMA MovedOn ==
  ASSUME OnceInv, NEW t \in Callers, stack[t] # <<>>,
         NEW place \in {"call", "spin", "init", "publish"}, stack' = Move(t, place)
  PROVE  /\ stack' \in [Callers -> Seq(OnceCalls)]
         /\ \A u \in Callers \ {t} : stack'[u] = stack[u]
         /\ \A u \in Callers : Len(stack'[u]) = Len(stack[u])
         /\ \A u \in Callers : \A i \in 1..Len(stack'[u]) :
              /\ i \in 1..Len(stack[u]) /\ stack'[u][i].once = stack[u][i].once
              /\ \/ stack'[u][i] = stack[u][i] /\ (u = t => i # Len(stack[t]))
                 \/ /\ u = t /\ i = Len(stack[t])
                    /\ stack'[u][i].at = place /\ stack[u][i] = Top(t)
<1> USE DEF OnceInv
<1>1. /\ stack' \in [Callers -> Seq(OnceCalls)]
      /\ \A u \in Callers \ {t} : stack'[u] = stack[u]
      /\ Len(stack'[t]) = Len(stack[t])
      /\ \A i \in 1..(Len(stack[t]) - 1) : stack'[t][i] = stack[t][i]
      /\ stack'[t][Len(stack[t])] = [once |-> Top(t).once, at |-> place]
  BY Moved
<1>2. /\ Len(stack[t]) \in 1..Len(stack[t]) /\ Top(t) = stack[t][Len(stack[t])]
  BY TopIsACall
<1>3. ASSUME NEW u \in Callers, NEW i \in 1..Len(stack'[u])
      PROVE  /\ i \in 1..Len(stack[u]) /\ stack'[u][i].once = stack[u][i].once
             /\ \/ stack'[u][i] = stack[u][i] /\ (u = t => i # Len(stack[t]))
                \/ /\ u = t /\ i = Len(stack[t])
                   /\ stack'[u][i].at = place /\ stack[u][i] = Top(t)
  <2>1. CASE u # t
    BY <1>1, <2>1
  <2>2. CASE u = t /\ i = Len(stack[t])
    BY <1>1, <1>2, <2>2
  <2>3. CASE u = t /\ i # Len(stack[t])
    <3>1. i \in 1..(Len(stack[t]) - 1)
      BY <1>1, <1>2, <2>3
    <3> QED
      BY <1>1, <2>3, <3>1
  <2> QED
    BY <2>1, <2>2, <2>3
<1> QED
  BY <1>1, <1>3

LEMMA SwapHolds ==
  ASSUME OnceInv, NEW t \in Callers, SwapControl(t)
  PROVE  OnceInv'
<1> USE OnceAssumption DEF OnceInv
<1> DEFINE c == Top(t).once
           won == control[c] = 0
           place == IF won THEN "init" ELSE "spin"
<1>1. stack[t] # <<>> /\ Top(t).at = "call" /\ c \in Controls
  BY DEF SwapControl, TopAt
<1>2. /\ stack' = Move(t, place)
      /\ control' = IF won THEN [control EXCEPT ![c] = 1] ELSE control
      /\ started' = IF won THEN [started EXCEPT ![c] = @ + 1] ELSE started
      /\ UNCHANGED <<done, holder, finished, back>>
  BY DEF SwapControl, Begin
<1> HIDE DEF c
<1>3. /\ stack' \in [Callers -> Seq(OnceCalls)]
      /\ \A u \in Callers \ {t} : stack'[u] = stack[u]
      /\ \A u \in Callers : Len(stack'[u]) = Len(stack[u])
      /\ \A u \in Callers : \A i \in 1..Len(stack'[u]) :
           /\ i \in 1..Len(stack[u]) /\ stack'[u][i].once = stack[u][i].once
           /\ \/ stack'[u][i] = stack[u][i] /\ (u = t => i # Len(stack[t]))
              \/ /\ u = t /\ i = Len(stack[t])
                 /\ stack'[u][i].at = place /\ stack[u][i] = Top(t)
  BY <1>1, <1>2, MovedOn
<1> HIDE DEF place
<1>4. OnceTypeOK'
  BY <1>1, <1>2, <1>3 DEF OnceTypeOK
<1>5. ASSUME NEW u \in Callers, NEW i \in 1..Len(stack'[u])
      PROVE  \/ stack'[u][i] = stack[u][i]
             \/ u = t /\ i = Len(stack[t]) /\ stack'[u][i].once = c /\ stack'[u][i].at = place
  BY <1>3 DEF c
<1>6. Layered'
  BY <1>1, <1>2, <1>3, <1>5 DEF Layered, Running
<1>7. OneWinner'
  <2>1. CASE ~won
    <3>1. ASSUME NEW u \in Callers, NEW i \in 1..Len(stack'[u]), Running(stack'[u][i]),
               stack'[u][i].once \in Controls
          PROVE  /\ i \in 1..Len(stack[u]) /\ Running(stack[u][i])
                 /\ stack[u][i].once = stack'[u][i].once
                 /\ control'[stack[u][i].once] = 1
      <4>1. stack'[u][i] = stack[u][i]
        BY <1>5, <2>1, <3>1 DEF Running, place
      <4> QED
        BY <1>2, <1>3, <2>1, <3>1, <4>1 DEF OneWinner
    <3> QED
      BY <3>1, NobodyWins
  <2>2. CASE won
    <3>1. ASSUME NEW u \in Callers, NEW i \in 1..Len(stack[u]), Running(stack[u][i])
          PROVE  stack[u][i].once # c
      BY <1>1, <2>2, <3>1 DEF OneWinner
    <3>2. ASSUME NEW u \in Callers, NEW i \in 1..Len(stack'[u]), Running(stack'[u][i])
          PROVE  \/ u = t /\ i = Len(stack[t]) /\ stack'[u][i].once = c
                 \/ /\ i \in 1..Len(stack[u]) /\ Running(stack[u][i])
                    /\ stack'[u][i].once = stack[u][i].once /\ stack'[u][i].once # c
      BY <1>3, <1>5, <3>1, <3>2
    <3>3. control' = [control EXCEPT ![c] = 1] /\ control'[c] = 1
      BY <1>1, <1>2, <2>2 DEF OnceTypeOK
    <3>4. SUFFICES ASSUME NEW u \in Callers, NEW i \in 1..Len(stack'[u]),
                          Running(stack'[u][i]), stack'[u][i].once \in Controls
                   PROVE  /\ control'[stack'[u][i].once] = 1
                          /\ \A v \in Callers : \A j \in 1..Len(stack'[v]) :
                               Running(stack'[v][j]) /\ stack'[v][j].once = stack'[u][i].once
                                 => v = u /\ j = i
      BY DEF OneWinner, Running
    <3>5. control'[stack'[u][i].once] = 1
      <4>1. CASE stack'[u][i].once # c
        <5>1. control[stack'[u][i].once] = 1
          BY <3>2, <3>4, <4>1 DEF OneWinner
        <5> QED
          BY <3>3, <3>4, <4>1, <5>1 DEF OnceTypeOK
      <4> QED
        BY <3>3, <4>1
    <3>6. ASSUME NEW v \in Callers, NEW j \in 1..Len(stack'[v]),
                 Running(stack'[v][j]), stack'[v][j].once = stack'[u][i].once
          PROVE  v = u /\ j = i
      <4>1. CASE stack'[u][i].once = c
        BY <3>2, <3>4, <3>6, <4>1
      <4>2. CASE stack'[u][i].once # c
        <5>1. /\ i \in 1..Len(stack[u]) /\ Running(stack[u][i])
              /\ stack'[u][i].once = stack[u][i].once
              /\ j \in 1..Len(stack[v]) /\ Running(stack[v][j])
              /\ stack'[v][j].once = stack[v][j].once
          BY <3>2, <3>4, <3>6, <4>2
        <5> QED
          BY <3>4, <3>6, <5>1 DEF OneWinner
      <4> QED
        BY <4>1, <4>2
    <3> QED
      BY <3>5, <3>6
  <2> QED
    BY <2>1, <2>2
<1>8. WordIsRight'
  <2>1. \A d \in Controls : /\ control'[d] = 0 => started'[d] = 0
                            /\ started'[d] <= 1
                            /\ control'[d] = 2 => finished'[d] > 0
    BY <1>1, <1>2 DEF WordIsRight, OnceTypeOK
  <2>2. ASSUME NEW u \in Callers, NEW i \in 1..Len(stack'[u]), stack'[u][i].at = "publish"
        PROVE  finished'[stack'[u][i].once] > 0
    BY <1>2, <1>3, <1>5, <2>2 DEF WordIsRight, place
  <2> QED
    BY <2>1, <2>2 DEF WordIsRight
<1>9. TableIsRight'
  <2>1. ASSUME NEW f \in done, holder = t,
               stack[holder] = <<[once |-> f, at |-> "init"]>>
        PROVE  FALSE
    BY <1>1, <2>1 DEF Top
  <2>2. \A f \in Flags : started'[f] = started[f]
    BY <1>1, <1>2 DEF OnceTypeOK
  <2> QED
    BY <1>2, <1>3, <2>1, <2>2 DEF TableIsRight, OnceTypeOK
<1>10. BackIsDone'
  BY <1>2 DEF BackIsDone
<1> QED
  BY <1>4, <1>6, <1>7, <1>8, <1>9, <1>10

LEMMA EnterHolds ==
  ASSUME OnceInv, NEW t \in Callers, EnterTable(t)
  PROVE  OnceInv'
<1> USE OnceAssumption DEF OnceInv
<1> DEFINE f == Top(t).once
<1>1. /\ stack[t] # <<>> /\ Top(t).at = "call" /\ f \in Flags
      /\ holder = NoHolder /\ holder \notin Callers /\ UNCHANGED control
  BY DEF EnterTable, TopAt
<1>2. \A g \in done : finished[g] > 0
  BY <1>1 DEF TableIsRight
<1>3. CASE f \in done
  <2>1. Return(t) /\ UNCHANGED <<done, holder, started, finished>>
    BY <1>3 DEF EnterTable
  <2>2. /\ stack' \in [Callers -> Seq(OnceCalls)]
        /\ back' \in [Callers -> SUBSET (Controls \cup Flags)]
        /\ \A u \in Callers \ {t} : stack'[u] = stack[u]
        /\ \A u \in Callers : \A i \in 1..Len(stack'[u]) :
             /\ i \in 1..Len(stack[u]) /\ stack'[u][i] = stack[u][i]
             /\ u = t => i # Len(stack[t]) /\ stack[t][i].once \notin Flags
        /\ \A u \in Callers : \A c \in back'[u] : c \in back[u] \/ c = f
    BY <1>1, <2>1, Returned
  <2>3. OnceTypeOK'
    BY <1>1, <2>1, <2>2 DEF OnceTypeOK
  <2>4. Layered'
    BY <2>1, <2>2 DEF Layered, Running
  <2>5. OneWinner'
    <3>1. ASSUME NEW u \in Callers, NEW i \in 1..Len(stack'[u]), Running(stack'[u][i]),
               stack'[u][i].once \in Controls
          PROVE  /\ i \in 1..Len(stack[u]) /\ Running(stack[u][i])
                 /\ stack[u][i].once = stack'[u][i].once
                 /\ control'[stack[u][i].once] = 1
      BY <3>1, <1>1, <2>2 DEF OneWinner
    <3> QED
      BY <3>1, NobodyWins
  <2>6. WordIsRight'
    BY <1>1, <2>1, <2>2 DEF WordIsRight
  <2>7. TableIsRight'
    BY <1>2, <2>1 DEF TableIsRight
  <2>8. BackIsDone'
    BY <1>2, <1>3, <2>1, <2>2 DEF BackIsDone
  <2> QED
    BY <2>3, <2>4, <2>5, <2>6, <2>7, <2>8
<1>4. CASE f \notin done
  <2>1. /\ done' = IF Cardinality(done) < MaxFlags THEN done \cup {f} ELSE done
        /\ holder' = t /\ stack' = Move(t, "init")
        /\ started' = [started EXCEPT ![f] = @ + 1]
        /\ UNCHANGED <<finished, back>>
    BY <1>4 DEF EnterTable, Begin
  <2>2. /\ stack' \in [Callers -> Seq(OnceCalls)]
        /\ \A u \in Callers \ {t} : stack'[u] = stack[u]
        /\ \A u \in Callers : Len(stack'[u]) = Len(stack[u])
        /\ \A u \in Callers : \A i \in 1..Len(stack'[u]) :
             /\ i \in 1..Len(stack[u]) /\ stack'[u][i].once = stack[u][i].once
             /\ \/ stack'[u][i] = stack[u][i] /\ (u = t => i # Len(stack[t]))
                \/ /\ u = t /\ i = Len(stack[t])
                   /\ stack'[u][i].at = "init" /\ stack[u][i] = Top(t)
    BY <1>1, <2>1, MovedOn
  <2>3. Len(stack[t]) = 1 /\ stack[t][1] = Top(t)
    BY <1>1, TopIsACall DEF Layered
  <2>4. stack'[t] = <<[once |-> f, at |-> "init"]>>
    <3>1. stack'[t] \in Seq(OnceCalls) /\ Len(stack'[t]) = 1 /\ stack'[t][1] \in OnceCalls
      BY <2>2, <2>3
    <3>2. stack'[t][1].once = f /\ stack'[t][1].at = "init"
      BY <2>2, <2>3
    <3>3. stack'[t][1] = [once |-> f, at |-> "init"]
      BY <3>1, <3>2 DEF OnceCalls
    <3> HIDE DEF f
    <3> QED
      BY <3>1, <3>3
  <2> HIDE DEF f
  <2>5. IsFiniteSet(done') /\ Cardinality(done) \in Nat
        /\ (Cardinality(done) < MaxFlags => Cardinality(done') = Cardinality(done) + 1)
    BY <1>4, <2>1, FS_AddElement, FS_CardinalityType DEF OnceTypeOK
  <2>6. OnceTypeOK'
    BY <1>1, <2>1, <2>2, <2>5 DEF OnceTypeOK
  <2>7. ASSUME NEW u \in Callers, NEW i \in 1..Len(stack'[u]), Running(stack'[u][i]),
               stack'[u][i].once \in Controls
        PROVE  /\ i \in 1..Len(stack[u]) /\ stack'[u][i] = stack[u][i]
    BY <1>1, <2>2, <2>3, <2>7 DEF f
  <2>8. Layered'
    <3>1. ASSUME NEW u \in Callers, NEW i \in 1..Len(stack'[u])
          PROVE  /\ stack'[u][i].at \in {"spin", "publish"} => stack'[u][i].once \in Controls
                 /\ stack'[u][i].once \in Flags => Len(stack'[u]) = 1
                 /\ stack'[u][i].once \in Flags /\ Running(stack'[u][i]) => holder' = u
      BY <1>1, <2>1, <2>2, <2>3 DEF Layered, Running
    <3> QED
      BY <3>1 DEF Layered, Running
  <2>9. OneWinner'
    <3>1. ASSUME NEW u \in Callers, NEW i \in 1..Len(stack'[u]), Running(stack'[u][i]),
                 stack'[u][i].once \in Controls
          PROVE  /\ i \in 1..Len(stack[u]) /\ Running(stack[u][i])
                 /\ stack[u][i].once = stack'[u][i].once
                 /\ control'[stack[u][i].once] = 1
      BY <1>1, <2>7, <3>1 DEF OneWinner
    <3> QED
      BY <3>1, NobodyWins
  <2>10. WordIsRight'
    <3>1. \A c \in Controls : started'[c] = started[c]
      BY <1>1, <2>1 DEF OnceTypeOK
    <3>2. ASSUME NEW u \in Callers, NEW i \in 1..Len(stack'[u]), stack'[u][i].at = "publish"
          PROVE  finished'[stack'[u][i].once] > 0
      BY <2>1, <2>2, <3>2, SMTT(30) DEF WordIsRight
    <3> QED
      BY <1>1, <2>1, <3>1, <3>2 DEF WordIsRight
  <2>11. TableIsRight'
    <3>1. started'[f] = started[f] + 1 /\ \A g \in Flags \ {f} : started'[g] = started[g]
      BY <1>1, <2>1 DEF OnceTypeOK
    <3>2. ASSUME NEW g \in done'
          PROVE  /\ started'[g] <= 1
                 /\ \/ finished'[g] > 0
                    \/ holder' \in Callers /\ stack'[holder'] = <<[once |-> g, at |-> "init"]>>
      <4>1. CASE g = f
        BY <1>1, <1>4, <2>1, <2>4, <3>1, <3>2, <4>1 DEF TableIsRight, OnceTypeOK
      <4>2. CASE g # f
        BY <1>2, <2>1, <3>1, <3>2, <4>2 DEF TableIsRight, OnceTypeOK
      <4> QED
        BY <4>1, <4>2
    <3>3. ASSUME Cardinality(done') < MaxFlags, NEW g \in Flags \ done'
          PROVE  started'[g] = 0
      <4>1. Cardinality(done) < MaxFlags
        BY <2>1, <2>5, <3>3
      <4> QED
        BY <2>1, <3>1, <3>3, <4>1 DEF TableIsRight
    <3> QED
      BY <3>2, <3>3 DEF TableIsRight
  <2>12. BackIsDone'
    BY <2>1 DEF BackIsDone
  <2> QED
    BY <2>6, <2>8, <2>9, <2>10, <2>11, <2>12
<1> QED
  BY <1>3, <1>4

LEMMA EndHolds ==
  ASSUME OnceInv, NEW t \in Callers, End(t)
  PROVE  OnceInv'
<1> USE OnceAssumption DEF OnceInv
<1> DEFINE c == Top(t).once
<1>1. /\ stack[t] # <<>> /\ Top(t).at = "init" /\ c \in Controls \cup Flags
      /\ finished' = [finished EXCEPT ![c] = @ + 1]
      /\ UNCHANGED <<control, done, started>>
  BY TopIsACall DEF End, TopAt
<1>2. /\ finished' \in [Controls \cup Flags -> Nat] /\ finished'[c] > 0
      /\ \A d \in Controls \cup Flags : finished[d] > 0 => finished'[d] > 0
  <2> HIDE DEF c
  <2> QED
    BY <1>1 DEF OnceTypeOK
<1>3. CASE c \in Controls
  <2>1. stack' = Move(t, "publish") /\ UNCHANGED <<holder, back>>
    BY <1>3 DEF End
  <2>2. /\ stack' \in [Callers -> Seq(OnceCalls)]
        /\ \A u \in Callers \ {t} : stack'[u] = stack[u]
        /\ \A u \in Callers : Len(stack'[u]) = Len(stack[u])
        /\ \A u \in Callers : \A i \in 1..Len(stack'[u]) :
             /\ i \in 1..Len(stack[u]) /\ stack'[u][i].once = stack[u][i].once
             /\ \/ stack'[u][i] = stack[u][i] /\ (u = t => i # Len(stack[t]))
                \/ /\ u = t /\ i = Len(stack[t])
                   /\ stack'[u][i].at = "publish" /\ stack[u][i] = Top(t)
    BY <1>1, <2>1, MovedOn
  <2>3. OnceTypeOK'
    BY <1>1, <1>2, <2>1, <2>2 DEF OnceTypeOK
  <2>4. Layered'
    <3>1. ASSUME NEW u \in Callers, NEW i \in 1..Len(stack'[u])
          PROVE  /\ stack'[u][i].at \in {"spin", "publish"} => stack'[u][i].once \in Controls
                 /\ stack'[u][i].once \in Flags => Len(stack'[u]) = 1
                 /\ stack'[u][i].once \in Flags /\ Running(stack'[u][i]) => holder' = u
      BY <1>3, <2>1, <2>2 DEF Layered, Running
    <3> QED
      BY <3>1 DEF Layered, Running
  <2>5. OneWinner'
    <3>1. ASSUME NEW u \in Callers, NEW i \in 1..Len(stack'[u]), Running(stack'[u][i]),
                 stack'[u][i].once \in Controls
          PROVE  /\ i \in 1..Len(stack[u]) /\ Running(stack[u][i])
                 /\ stack[u][i].once = stack'[u][i].once
                 /\ control'[stack[u][i].once] = 1
      <4>1. /\ i \in 1..Len(stack[u]) /\ Running(stack[u][i])
            /\ stack[u][i].once = stack'[u][i].once
        BY <1>1, <2>2, <3>1 DEF Running
      <4> QED
        BY <1>1, <3>1, <4>1 DEF OneWinner
    <3> QED
      BY <3>1, NobodyWins
  <2>6. WordIsRight'
    <3>1. ASSUME NEW u \in Callers, NEW i \in 1..Len(stack'[u]), stack'[u][i].at = "publish"
          PROVE  finished'[stack'[u][i].once] > 0
      <4>1. CASE stack'[u][i] = stack[u][i]
        BY <1>2, <2>2, <3>1, <4>1 DEF WordIsRight, Layered
      <4>2. CASE stack'[u][i] # stack[u][i]
        BY <1>2, <2>2, <4>2
      <4> QED
        BY <4>1, <4>2
    <3> QED
      BY <1>1, <1>2, <3>1 DEF WordIsRight
  <2>7. TableIsRight'
    <3>1. ASSUME NEW f \in done, holder = t,
                 stack[holder] = <<[once |-> f, at |-> "init"]>>
          PROVE  FALSE
      <4>1. f \in Flags /\ c = f
        BY <3>1 DEF Top, OnceTypeOK
      <4> QED
        BY <1>3, <4>1
    <3> QED
      BY <1>1, <1>2, <2>1, <2>2, <3>1 DEF TableIsRight, OnceTypeOK
  <2>8. BackIsDone'
    BY <1>2, <2>1 DEF BackIsDone, OnceTypeOK
  <2> QED
    BY <2>3, <2>4, <2>5, <2>6, <2>7, <2>8
<1>4. CASE c \in Flags
  <2>1. holder' = NoHolder /\ Return(t)
    BY <1>4 DEF End
  <2>2. /\ stack' \in [Callers -> Seq(OnceCalls)]
        /\ back' \in [Callers -> SUBSET (Controls \cup Flags)]
        /\ \A u \in Callers \ {t} : stack'[u] = stack[u]
        /\ \A u \in Callers : \A i \in 1..Len(stack'[u]) :
             /\ i \in 1..Len(stack[u]) /\ stack'[u][i] = stack[u][i]
             /\ u = t => i # Len(stack[t]) /\ stack[t][i].once \notin Flags
        /\ \A u \in Callers : \A d \in back'[u] : d \in back[u] \/ d = c
    BY <1>1, <2>1, Returned
  <2>3. holder = t /\ stack[t][1] = Top(t)
    BY <1>1, <1>4, TopIsACall DEF Layered, Running
  <2>4. OnceTypeOK'
    BY <1>1, <1>2, <2>1, <2>2 DEF OnceTypeOK
  <2>5. Layered'
    <3>1. ASSUME NEW u \in Callers, NEW i \in 1..Len(stack'[u])
          PROVE  /\ stack'[u][i].at \in {"spin", "publish"} => stack'[u][i].once \in Controls
                 /\ stack'[u][i].once \in Flags => Len(stack'[u]) = 1
                 /\ stack'[u][i].once \in Flags /\ Running(stack'[u][i]) => holder' = u
      <4>1. CASE u = t
        BY <2>2, <4>1 DEF Layered
      <4>2. CASE u # t
        BY <2>2, <2>3, <4>2 DEF Layered
      <4> QED
        BY <4>1, <4>2
    <3> QED
      BY <3>1 DEF Layered, Running
  <2>6. OneWinner'
    <3>1. ASSUME NEW u \in Callers, NEW i \in 1..Len(stack'[u]), Running(stack'[u][i]),
                 stack'[u][i].once \in Controls
          PROVE  /\ i \in 1..Len(stack[u]) /\ Running(stack[u][i])
                 /\ stack[u][i].once = stack'[u][i].once
                 /\ control'[stack[u][i].once] = 1
      BY <3>1, <1>1, <2>2 DEF OneWinner
    <3> QED
      BY <3>1, NobodyWins
  <2>7. WordIsRight'
    <3>1. ASSUME NEW u \in Callers, NEW i \in 1..Len(stack'[u]), stack'[u][i].at = "publish"
          PROVE  finished'[stack'[u][i].once] > 0
      <4>1. i \in 1..Len(stack[u]) /\ stack'[u][i] = stack[u][i]
        BY <2>2
      <4>2. stack[u][i].once \in Controls /\ finished[stack[u][i].once] > 0
        BY <3>1, <4>1 DEF WordIsRight, Layered
      <4> QED
        BY <1>2, <4>1, <4>2
    <3> QED
      BY <1>1, <1>2, <3>1 DEF WordIsRight
  <2>8. TableIsRight'
    <3>1. ASSUME NEW f \in done, stack[t] = <<[once |-> f, at |-> "init"]>>
          PROVE  f = c
      BY <3>1 DEF Top
    <3> QED
      BY <1>1, <1>2, <2>3, <3>1 DEF TableIsRight, OnceTypeOK
  <2>9. BackIsDone'
    BY <1>2, <2>2 DEF BackIsDone, OnceTypeOK
  <2> QED
    BY <2>4, <2>5, <2>6, <2>7, <2>8, <2>9
<1> QED
  BY <1>1, <1>3, <1>4

----------------------------------------------------------------------------
LEMMA NextHolds == OnceInv /\ [OnceNext]_onceVars => OnceInv'
<1>1. ASSUME OnceInv, UNCHANGED onceVars PROVE OnceInv'
  BY <1>1 DEF onceVars, OnceInv, OnceTypeOK, Layered, OneWinner, WordIsRight, TableIsRight,
              BackIsDone, Running
<1> QED
  BY <1>1, CallHolds, SwapHolds, PublishHolds, SpinHolds, EnterHolds, EndHolds DEF OnceNext

\* The stacks hold calls, the table flags, and the control words 0, 1 or 2.
THEOREM TypeCorrect == OnceSpec => []OnceTypeOK
<1>1. OnceInv => OnceTypeOK
  BY DEF OnceInv
<1>2. QED
  BY <1>1, InitHolds, NextHolds, PTL DEF OnceSpec

\* pthread_once_fake and call_once: however the calls of the threads overlap
\* and nest, who comes back finds an initialiser that has run, and but for the
\* flags that found the table full it has begun once.
THEOREM RunsOnce == OnceSpec => []InitialisedOnce
  BY InitHolds, NextHolds, Safe, PTL DEF OnceSpec

----------------------------------------------------------------------------
(* BionicLocks.                                                            *)

----------------------------------------------------------------------------
(* The inductive invariant.                                                *)

AllDone == \A t \in Threads : pc[t] = At("done")

\* What a slot points to is of the right kind, and what a mutex slot holds
\* before it does says which kind that is, until the locks are destroyed.
SlotsRight ==
  /\ Ours(slot["mutex"]) => object[slot["mutex"]] = declared
  /\ Ours(slot["cond"]) => object[slot["cond"]] = "cond"
  /\ slot["mutex"] = RecursiveMark => declared = "recursive"
  /\ slot["mutex"] = Zero => declared = "plain" \/ AllDone

\* A thread in ensure_* read what the slot holds, if nobody has stored a
\* pointer since, and the object it made is its own; of the right kind only as
\* long as nobody has stored one, for the mark is gone then.
Making(t) ==
  /\ pc[t].at \in {"make", "swap"} =>
       read[t] \in Empty /\ slot[SlotFor(pc[t].call)] \in Objects \cup {read[t]}
  /\ pc[t].at = "swap" =>
       /\ made[t] \in Objects /\ object[made[t]] # "free"
       /\ \A s \in Slots : slot[s] # made[t]
       /\ SlotFor(pc[t].call) = "cond" => object[made[t]] = "cond"
       /\ SlotFor(pc[t].call) = "mutex" =>
            Ours(slot["mutex"]) \/ object[made[t]] = declared

OwnObjects ==
  \A t, u \in Threads :
    pc[t].at = "swap" /\ pc[u].at = "swap" /\ made[t] = made[u] => t = u

\* A call goes on with the object of its slot, and so does a wait.
Calling(t) ==
  /\ pc[t].at = "call" => Ours(read[t]) /\ read[t] = slot[SlotFor(pc[t].call)]
  /\ pc[t].call \in {"unlock", "waitMutex"} => pc[t].at = "call"
  /\ pc[t].call = "waitMutex" \/ pc[t].at = "asleep" =>
       Ours(made[t]) /\ made[t] = slot["cond"]
  /\ pc[t].at \in {"asleep", "woken"} => Ours(read[t]) /\ read[t] = slot["mutex"]

\* Which threads hold the mutex, by where they are.  A thread in a call to lock
\* may or may not.
Outside(t) == \/ pc[t].at \in {"out", "posted", "asleep", "woken", "done"}
              \/ pc[t].call \in {"timedlock", "signal", "broadcast"}
Inside(t)  == pc[t].at = "in" \/ pc[t].call \in {"unlock", "wait", "waitMutex"}

Holding(t) ==
  /\ held[t] # 0 => /\ held[t] = slot["mutex"]
                    /\ owner[held[t]] = t /\ depth[held[t]] >= 1
  /\ Outside(t) => held[t] = 0
  /\ Inside(t) => held[t] # 0

Owned == \A o \in Objects : IF owner[o] = Nobody THEN depth[o] = 0 ELSE held[owner[o]] = o

Sleepers ==
  \A o \in Objects, t \in Threads :
    t \in waiters[o] <=> pc[t].at = "asleep" /\ slot["cond"] = o

\* No object is left that nothing points to.
Reachable ==
  \A o \in Objects :
    \/ object[o] = "free"
    \/ \E s \in Slots : slot[s] = o
    \/ \E t \in Threads : pc[t].at = "swap" /\ made[t] = o

Counted == items <= posted /\ (AllDone => items = 0)

IInv == /\ TypeOK /\ SlotsRight
        /\ \A t \in Threads : Making(t) /\ Calling(t) /\ Holding(t)
        /\ OwnObjects /\ Owned /\ Sleepers /\ Reachable /\ Counted

----------------------------------------------------------------------------
(* Places and calls.                                                       *)

Places == [at : {"out", "in", "posted", "asleep", "woken", "done"}, call : {""}]
            \cup [at : {"make", "swap", "call"}, call : Calls]

LEMMA CallType ==
  ASSUME TypeOK, NEW t \in Threads, NEW call \in Calls, Call(t, call)
  PROVE  /\ read' \in [Threads -> Empty \cup Objects] /\ pc' \in [Threads -> Places]
         /\ pc'[t] \in [at : {"make", "call"}, call : {call}]
         /\ pc'[t].at = "call" <=> Ours(slot[SlotFor(call)])
         /\ read'[t] = slot[SlotFor(call)]
         /\ \A u \in Threads \ {t} : pc'[u] = pc[u] /\ read'[u] = read[u]
<1>1. slot[SlotFor(call)] \in Empty \cup Objects
  BY DEF TypeOK, Slots, SlotFor
<1>2. read' = [read EXCEPT ![t] = slot[SlotFor(call)]]
  BY DEF Call
<1> DEFINE place == [at |-> IF Ours(slot[SlotFor(call)]) THEN "call" ELSE "make", call |-> call]
<1>3. pc' = [pc EXCEPT ![t] = place] /\ place \in Places
  BY DEF Call, Places
<1>4. pc \in [Threads -> Places] /\ read \in [Threads -> Empty \cup Objects]
  BY DEF TypeOK, Places
<1>5. place \in [at : {"make", "call"}, call : {call}]
  OBVIOUS
<1>6. place.at = "call" <=> Ours(slot[SlotFor(call)])
  OBVIOUS
<1> HIDE DEF place
<1> QED
  BY <1>1, <1>2, <1>3, <1>4, <1>5, <1>6

\* A call of the engine's: the storage stays as it is.
LEMMA CallStep ==
  ASSUME IInv, NEW t \in Threads, NEW call \in Calls \ {"waitMutex"}, Call(t, call),
         pc[t].at \in {"out", "in", "posted"},
         call \in {"timedlock", "signal", "broadcast"} => held[t] = 0,
         call \in {"unlock", "wait"} => held[t] # 0,
         UNCHANGED <<lockVars, made, held>>
  PROVE  /\ SlotsRight' /\ OwnObjects' /\ Owned' /\ Sleepers' /\ Reachable' /\ ~AllDone'
         /\ \A u \in Threads : Making(u)' /\ Calling(u)' /\ Holding(u)'
<1> USE DEF IInv, lockVars
<1>1. /\ pc'[t] \in [at : {"make", "call"}, call : {call}]
      /\ pc'[t].at = "call" <=> Ours(slot[SlotFor(call)])
      /\ read'[t] = slot[SlotFor(call)]
      /\ \A u \in Threads \ {t} : pc'[u] = pc[u] /\ read'[u] = read[u]
  BY CallType
<1>2. pc'[t].at \in {"make", "call"} /\ pc'[t].call = call
  BY <1>1
<1>3. ~AllDone /\ ~AllDone'
  <2>1. At("done").at = "done"
    BY DEF At
  <2>2. pc[t] # At("done") /\ pc'[t] # At("done")
    BY <1>2, <2>1
  <2>3. At("done")' = At("done")
    BY DEF At
  <2> QED
    BY <2>2, <2>3 DEF AllDone
<1>4. SlotsRight'
  BY <1>3 DEF SlotsRight
<1>5. OwnObjects' /\ Reachable'
  BY <1>1, <1>2 DEF OwnObjects, Reachable
<1>6. Owned' /\ Sleepers'
  BY <1>1, <1>2 DEF Owned, Sleepers
<1>7. ASSUME NEW u \in Threads \ {t} PROVE Making(u)' /\ Calling(u)' /\ Holding(u)'
  BY <1>1 DEF Making, Calling, Holding, Outside, Inside
<1>8. Making(t)'
  <2>1. slot[SlotFor(call)] \in Empty \cup Objects
    BY DEF TypeOK, Slots, SlotFor
  <2> QED
    BY <1>1, <1>2, <2>1 DEF Making, Ours
<1>9. Calling(t)'
  <2>1. held[t] # 0 => Ours(slot["mutex"])
    BY DEF Holding, TypeOK, Ours
  <2>2. call = "unlock" => pc'[t].at = "call"
    BY <1>1, <2>1 DEF SlotFor
  <2> QED
    BY <1>1, <1>2, <2>2 DEF Calling
<1>10. Holding(t)'
  BY <1>2 DEF Holding, Outside, Inside
<1> QED
  BY <1>3, <1>4, <1>5, <1>6, <1>7, <1>8, <1>9, <1>10

\* The engine's steps.
LEMMA EngineStep ==
  ASSUME IInv, NEW t \in Threads, Engine(t) \/ Again(t)
  PROVE  IInv'
<1> USE DEF IInv, lockVars, engineVars
<1> DEFINE Counters == /\ items' \in 0..MaxItems /\ posted' \in 0..MaxItems
                       /\ life' = life /\ items' <= posted'
<1>1. ASSUME NEW call \in Calls \ {"waitMutex"}, Call(t, call),
             pc[t].at \in {"out", "in", "posted"},
             call \in {"timedlock", "signal", "broadcast"} => held[t] = 0,
             call \in {"unlock", "wait"} => held[t] # 0,
             UNCHANGED <<lockVars, made, held>>, Counters
      PROVE  IInv'
  <2>1. TypeOK'
    BY <1>1, CallType DEF TypeOK, Places
  <2> QED
    BY <1>1, <2>1, CallStep DEF Counted
<1>2. At("out").at = "out" /\ At("in").at = "in" /\ At("posted").at = "posted"
  BY DEF At
<1>3. Calls = {"lock", "timedlock", "unlock", "wait", "waitMutex", "signal", "broadcast"}
  BY DEF Calls
<1>4. /\ items \in 0..MaxItems /\ posted \in 0..MaxItems /\ items <= posted
      /\ MaxItems \in Nat
  BY LocksAssumption DEF TypeOK, Counted
<1>5. /\ pc[t].at \in {"out", "posted"} => held[t] = 0
      /\ pc[t].at = "in" => held[t] # 0
  BY DEF Holding, Outside, Inside
<1>6. CASE Enter(t)
  <2>1. PICK call \in {"lock", "timedlock"} : Call(t, call)
    BY <1>6 DEF Enter
  <2> QED
    BY <1>1, <1>2, <1>3, <1>4, <1>5, <1>6, <2>1 DEF Enter
<1>7. CASE Again(t)
  BY <1>1, <1>2, <1>3, <1>4, <1>5, <1>7 DEF Again
<1>8. CASE Post(t)
  BY <1>1, <1>2, <1>3, <1>4, <1>5, <1>8 DEF Post
<1>9. CASE NothingToPost(t)
  BY <1>1, <1>2, <1>3, <1>4, <1>5, <1>9 DEF NothingToPost
<1>10. CASE Posted(t)
  <2>1. PICK call \in {"signal", "broadcast"} : Call(t, call)
    BY <1>10 DEF Posted
  <2> QED
    BY <1>1, <1>2, <1>3, <1>4, <1>5, <1>10, <2>1 DEF Posted
<1>11. CASE Consume(t)
  BY <1>1, <1>2, <1>3, <1>4, <1>5, <1>11 DEF Consume
<1>12. CASE Await(t)
  BY <1>1, <1>2, <1>3, <1>4, <1>5, <1>12 DEF Await
<1>13. CASE Leave(t)
  BY <1>1, <1>2, <1>3, <1>4, <1>5, <1>13 DEF Leave
<1>14. CASE Finish(t)
  <2>1. pc' = [pc EXCEPT ![t] = At("done")] /\ pc[t].at = "out" /\ items = 0
    BY <1>2, <1>14 DEF Finish, Goto
  <2>2. At("done").at = "done" /\ At("done").call = "" /\ At("done") \in Places
    BY DEF At, Places
  <2>3. pc'[t] = At("done") /\ \A u \in Threads \ {t} : pc'[u] = pc[u]
    BY <2>1 DEF TypeOK
  <2>4. UNCHANGED <<lockVars, read, made, held, engineVars>>
    BY <1>14 DEF Finish
  <2>5. pc' \in [Threads -> Places]
    BY <2>1, <2>2 DEF TypeOK, Places
  <2>6. TypeOK'
    BY <2>4, <2>5 DEF TypeOK, Places
  <2>7. AllDone => AllDone'
    BY <2>1, <2>2, <2>3 DEF AllDone, At
  <2>8. SlotsRight' /\ Counted'
    BY <2>1, <2>4, <2>7 DEF SlotsRight, Counted
  <2>9. OwnObjects' /\ Reachable' /\ Sleepers' /\ Owned'
    <3>1. \A u \in Threads, place \in {"swap", "asleep"} :
            pc'[u].at = place <=> pc[u].at = place
      BY <2>1, <2>2, <2>3
    <3>2. OwnObjects' /\ Reachable'
      BY <2>4, <3>1 DEF OwnObjects, Reachable
    <3>3. Sleepers' /\ Owned'
      BY <2>4, <3>1 DEF Sleepers, Owned
    <3> QED
      BY <3>2, <3>3
  <2>10. ASSUME NEW u \in Threads \ {t} PROVE Making(u)' /\ Calling(u)' /\ Holding(u)'
    BY <2>3, <2>4 DEF Making, Calling, Holding, Outside, Inside
  <2>11. Making(t)' /\ Calling(t)' /\ Holding(t)'
    BY <1>5, <2>1, <2>2, <2>3, <2>4 DEF Making, Calling, Holding, Outside, Inside
  <2> QED
    BY <2>6, <2>8, <2>9, <2>10, <2>11
<1> QED
  BY <1>6, <1>7, <1>8, <1>9, <1>10, <1>11, <1>12, <1>13, <1>14 DEF Engine

----------------------------------------------------------------------------
(* ensure_mutex and ensure_cond: the race for a slot.                      *)

LEMMA MakeStep ==
  ASSUME IInv, NEW t \in Threads, NEW call \in Calls, Make(t, call)
  PROVE  IInv'
<1> USE DEF IInv, engineVars
<1>1. PICK o \in Objects :
        /\ object[o] = "free"
        /\ object' = [object EXCEPT ![o] =
             CASE SlotFor(call) = "cond" -> "cond"
               [] SlotFor(call) = "mutex" /\ slot["mutex"] = RecursiveMark -> "recursive"
               [] OTHER -> "plain"]
        /\ owner' = [owner EXCEPT ![o] = Nobody]
        /\ depth' = [depth EXCEPT ![o] = 0]
        /\ waiters' = [waiters EXCEPT ![o] = {}]
        /\ made' = [made EXCEPT ![t] = o]
  BY DEF Make
<1>2. /\ pc[t].at = "make" /\ pc[t].call = call
      /\ pc' = [pc EXCEPT ![t] = [at |-> "swap", call |-> call]]
      /\ UNCHANGED <<slot, declared, read, held, engineVars>>
  BY DEF Make, In, Go
<1>3. /\ pc'[t].at = "swap" /\ pc'[t].call = call
      /\ \A u \in Threads \ {t} : pc'[u] = pc[u]
  BY <1>2 DEF TypeOK
<1>4. ~AllDone /\ ~AllDone'
  <2>1. At("done").at = "done" /\ At("done")' = At("done")
    BY DEF At
  <2> QED
    BY <1>2, <1>3, <2>1 DEF AllDone
<1>5. \A s \in Slots : slot[s] # o
  BY <1>1 DEF SlotsRight, Slots, TypeOK, Ours
<1>6. object'[o] \in {"plain", "recursive", "cond"} /\ \A p \in Objects \ {o} : object'[p] = object[p]
  BY <1>1 DEF TypeOK
<1>7. TypeOK'
  BY <1>1, <1>2, <1>6 DEF TypeOK
<1>8. SlotsRight'
  BY <1>2, <1>4, <1>5, <1>6 DEF SlotsRight, Ours, Slots
<1>9. Counted'
  BY <1>2, <1>4 DEF Counted
<1>10. made'[t] = o /\ \A u \in Threads \ {t} : made'[u] = made[u]
  BY <1>1 DEF TypeOK
<1>11. \A u \in Threads : pc[u].at = "swap" => made[u] # o
  BY <1>1 DEF Making
<1>12. OwnObjects'
  BY <1>3, <1>10, <1>11 DEF OwnObjects
<1>13. Owned'
  BY <1>1, <1>2 DEF Owned, TypeOK
<1>14. Sleepers'
  <2>1. waiters'[o] = {} /\ \A p \in Objects \ {o} : waiters'[p] = waiters[p]
    BY <1>1 DEF TypeOK
  <2>2. slot'["cond"] = slot["cond"] /\ slot["cond"] # o
    BY <1>2, <1>5 DEF Slots
  <2>3. \A u \in Threads : pc'[u].at = "asleep" <=> pc[u].at = "asleep"
    BY <1>2, <1>3
  <2> QED
    BY <2>1, <2>2, <2>3 DEF Sleepers
<1>15. Reachable'
  BY <1>2, <1>3, <1>6, <1>10 DEF Reachable
<1>16. ASSUME NEW u \in Threads PROVE Holding(u)'
  <2>1. held[u] # 0 => held[u] # o /\ held[u] \in Objects
    BY <1>5 DEF Holding, Slots, TypeOK
  <2>2. held[u] # 0 => owner'[held[u]] = owner[held[u]] /\ depth'[held[u]] = depth[held[u]]
    BY <1>1, <2>1 DEF TypeOK
  <2>3. (Outside(u)' => Outside(u)) /\ (Inside(u)' => Inside(u))
    BY <1>2, <1>3 DEF Outside, Inside
  <2> QED
    BY <1>2, <2>2, <2>3 DEF Holding
<1>17. ASSUME NEW u \in Threads \ {t} PROVE Making(u)' /\ Calling(u)'
  <2>1. pc[u].at = "swap" => object'[made[u]] = object[made[u]]
    BY <1>6, <1>11 DEF Making
  <2> QED
    BY <1>2, <1>3, <1>10, <2>1 DEF Making, Calling
<1>18. Making(t)'
  <2>1. call \in Calls => SlotFor(call) \in {"mutex", "cond"}
    BY DEF SlotFor
  <2>2. SlotFor(call) = "cond" => object'[o] = "cond"
    BY <1>1 DEF TypeOK
  <2>3. SlotFor(call) = "mutex" => Ours(slot["mutex"]) \/ object'[o] = declared
    BY <1>1, <1>4 DEF TypeOK, SlotsRight, Slots, Empty, Ours
  <2> QED
    BY <1>2, <1>3, <1>5, <1>6, <1>10, <2>1, <2>2, <2>3 DEF Making, Ours
<1>19. Calling(t)'
  BY <1>2, <1>3 DEF Calling
<1> QED
  BY <1>7, <1>8, <1>9, <1>12, <1>13, <1>14, <1>15, <1>16, <1>17, <1>18, <1>19

LEMMA SwapStep ==
  ASSUME IInv, NEW t \in Threads, NEW call \in Calls, Swap(t, call)
  PROVE  IInv'
<1> USE DEF IInv, engineVars
<1> DEFINE s == SlotFor(call)
<1>1. /\ pc[t].at = "swap" /\ pc[t].call = call
      /\ pc' = [pc EXCEPT ![t] = [at |-> "call", call |-> call]]
      /\ made' = [made EXCEPT ![t] = 0]
      /\ UNCHANGED <<declared, owner, depth, waiters, held, engineVars>>
  BY DEF Swap, In, Go
<1>2. /\ pc'[t].at = "call" /\ pc'[t].call = call
      /\ \A u \in Threads \ {t} : pc'[u] = pc[u] /\ made'[u] = made[u]
  BY <1>1 DEF TypeOK
<1>3. ~AllDone /\ ~AllDone'
  <2>1. At("done").at = "done" /\ At("done")' = At("done")
    BY DEF At
  <2> QED
    BY <1>1, <1>2, <2>1 DEF AllDone
<1>4. s \in Slots /\ s \in {"mutex", "cond"}
  BY DEF SlotFor, Slots
<1>5. call \notin {"unlock", "waitMutex"}
  BY <1>1 DEF Calling
<1>6. /\ made[t] \in Objects /\ object[made[t]] # "free" /\ \A r \in Slots : slot[r] # made[t]
      /\ s = "cond" => object[made[t]] = "cond"
      /\ s = "mutex" => Ours(slot["mutex"]) \/ object[made[t]] = declared
      /\ read[t] \in Empty /\ slot[s] \in Objects \cup {read[t]}
  BY <1>1 DEF Making
<1>7. \A u \in Threads \ {t} : pc[u].at = "swap" => made[u] # made[t]
  BY <1>1 DEF OwnObjects
<1>8. Counted' /\ OwnObjects'
  BY <1>1, <1>2, <1>3 DEF Counted, OwnObjects
<1> HIDE DEF s
<1>9. CASE slot[s] = read[t]
  <2>1. /\ slot' = [slot EXCEPT ![s] = made[t]]
        /\ object' = object
        /\ read' = [read EXCEPT ![t] = made[t]]
    BY <1>9, <1>6 DEF Swap, TypeOK, s
  <2>2. slot'[s] = made[t] /\ \A r \in Slots \ {s} : slot'[r] = slot[r]
    BY <1>4, <2>1 DEF TypeOK
  <2>3. read'[t] = made[t] /\ \A u \in Threads \ {t} : read'[u] = read[u]
    BY <2>1 DEF TypeOK
  <2>4. ~Ours(slot[s])
    BY <1>6, <1>9 DEF Ours, Empty, Zero, RecursiveMark, Objects
  <2>5. TypeOK'
    BY <1>1, <1>4, <1>6, <2>1 DEF TypeOK
  <2>6. SlotsRight'
    BY <1>1, <1>3, <1>4, <1>6, <2>1, <2>2, <2>4 DEF SlotsRight, Slots, Ours, Empty, Zero, RecursiveMark, Objects
  <2>7. Owned'
    BY <1>1 DEF Owned
  <2>8. Sleepers'
    <3>1. s = "cond" => \A u \in Threads : pc[u].at # "asleep"
      BY <2>4 DEF Calling
    <3>2. s # "cond" => slot'["cond"] = slot["cond"]
      BY <2>2 DEF Slots
    <3>3. \A u \in Threads : pc'[u].at = "asleep" <=> pc[u].at = "asleep"
      BY <1>1, <1>2
    <3> QED
      BY <1>1, <3>1, <3>2, <3>3 DEF Sleepers
  <2>9. Reachable'
    BY <1>1, <1>2, <1>4, <1>6, <2>1, <2>2, <2>4 DEF Reachable, Ours
  <2>10. ASSUME NEW u \in Threads PROVE Holding(u)'
    <3>1. held[u] # 0 => slot'["mutex"] = slot["mutex"]
      <4>1. held[u] # 0 => Ours(slot["mutex"])
        BY DEF Holding, TypeOK, Ours
      <4> QED
        BY <1>4, <2>2, <2>4, <4>1 DEF Slots
    <3>2. (Outside(u)' => Outside(u)) /\ (Inside(u)' => Inside(u))
      BY <1>1, <1>2 DEF Outside, Inside
    <3> QED
      BY <1>1, <3>1, <3>2 DEF Holding
  <2>11. ASSUME NEW u \in Threads \ {t} PROVE Making(u)' /\ Calling(u)'
    <3>1. pc[u].at \in {"make", "swap"} => slot'[SlotFor(pc[u].call)] \in Objects \cup {read[u]}
      BY <1>6, <2>2 DEF Making, SlotFor, Slots
    <3>2. pc[u].at = "swap" => \A r \in Slots : slot'[r] # made[u]
      BY <1>4, <1>7, <2>2 DEF Making
    <3>3. Making(u)'
      BY <1>1, <1>2, <1>4, <1>6, <2>1, <2>2, <2>3, <3>1, <3>2 DEF Making, Ours, Slots
    <3>4. \A r \in Slots : Ours(slot[r]) => slot'[r] = slot[r]
      BY <2>2, <2>4
    <3>5. Calling(u)'
      BY <1>2, <2>3, <3>4 DEF Calling, SlotFor, Slots
    <3> QED
      BY <3>3, <3>5
  <2>12. Making(t)' /\ Calling(t)'
    BY <1>2, <1>4, <1>5, <1>6, <2>2, <2>3 DEF Making, Calling, Ours, s
  <2> QED
    BY <1>8, <2>5, <2>6, <2>7, <2>8, <2>9, <2>10, <2>11, <2>12
<1>10. CASE slot[s] # read[t]
  <2>1. /\ slot' = slot
        /\ object' = [object EXCEPT ![made[t]] = "free"]
        /\ read' = [read EXCEPT ![t] = slot[s]]
    BY <1>4, <1>10 DEF Swap, TypeOK, s
  <2>2. object'[made[t]] = "free" /\ \A o \in Objects \ {made[t]} : object'[o] = object[o]
    BY <1>6, <2>1 DEF TypeOK
  <2>3. read'[t] = slot[s] /\ \A u \in Threads \ {t} : read'[u] = read[u]
    BY <2>1 DEF TypeOK
  <2>4. Ours(slot[s])
    BY <1>6, <1>10 DEF Ours
  <2>5. TypeOK'
    BY <1>1, <1>4, <1>6, <2>1 DEF TypeOK
  <2>6. SlotsRight'
    BY <1>1, <1>3, <1>6, <2>1, <2>2 DEF SlotsRight, Ours, Slots
  <2>7. Owned'
    BY <1>1 DEF Owned
  <2>8. Sleepers'
    <3>1. \A u \in Threads : pc'[u].at = "asleep" <=> pc[u].at = "asleep"
      BY <1>1, <1>2
    <3> QED
      BY <1>1, <2>1, <3>1 DEF Sleepers
  <2>9. Reachable'
    BY <1>1, <1>2, <1>6, <2>1, <2>2 DEF Reachable
  <2>10. ASSUME NEW u \in Threads PROVE Holding(u)'
    <3>1. (Outside(u)' => Outside(u)) /\ (Inside(u)' => Inside(u))
      BY <1>1, <1>2 DEF Outside, Inside
    <3> QED
      BY <1>1, <2>1, <3>1 DEF Holding
  <2>11. ASSUME NEW u \in Threads \ {t} PROVE Making(u)' /\ Calling(u)'
    <3>1. pc[u].at = "swap" => object'[made[u]] = object[made[u]]
      BY <1>7, <2>2 DEF Making
    <3> QED
      BY <1>1, <1>2, <2>1, <2>3, <3>1 DEF Making, Calling
  <2>12. Making(t)' /\ Calling(t)'
    BY <1>2, <1>4, <1>5, <2>1, <2>3, <2>4 DEF Making, Calling, s
  <2> QED
    BY <1>8, <2>5, <2>6, <2>7, <2>8, <2>9, <2>10, <2>11, <2>12
<1> QED
  BY <1>9, <1>10

----------------------------------------------------------------------------
(* The calls on the objects.                                               *)

\* What a step leaves of the invariant that changes neither slots nor objects,
\* and moves one thread from a place to another that is no race for a slot.
Moves(t, p) ==
  /\ pc' = [pc EXCEPT ![t] = p]
  /\ p \in Places /\ p.at \notin {"make", "swap", "done"}
  /\ UNCHANGED <<slot, declared, object, engineVars>>

LEMMA MoveStep ==
  ASSUME IInv, NEW t \in Threads, NEW p, Moves(t, p), pc[t].at \notin {"swap", "done"},
         \A u \in Threads \ {t} : read'[u] = read[u] /\ made'[u] = made[u]
  PROVE  /\ SlotsRight' /\ OwnObjects' /\ Reachable' /\ Counted' /\ Making(t)'
         /\ pc'[t] = p /\ \A u \in Threads \ {t} : pc'[u] = pc[u]
         /\ \A u \in Threads \ {t} : Making(u)' /\ Calling(u)'
<1> USE DEF IInv, Moves
<1>1. pc'[t] = p /\ \A u \in Threads \ {t} : pc'[u] = pc[u]
  BY DEF TypeOK
<1>2. ~AllDone /\ ~AllDone'
  <2>1. At("done").at = "done" /\ At("done")' = At("done")
    BY DEF At
  <2> QED
    BY <1>1, <2>1 DEF AllDone
<1>3. SlotsRight' /\ Counted'
  BY <1>2 DEF SlotsRight, Counted, engineVars
<1>4. OwnObjects' /\ Reachable' /\ Making(t)'
  BY <1>1 DEF OwnObjects, Reachable, Making
<1>5. ASSUME NEW u \in Threads \ {t} PROVE Making(u)' /\ Calling(u)'
  BY <1>1 DEF Making, Calling
<1> QED
  BY <1>1, <1>3, <1>4, <1>5

LEMMA ObjectsType == 0 \notin Objects
  BY DEF Objects

\* Who holds the mutex after thread t has let go of object o for good.
LEMMA LetGo ==
  ASSUME IInv, NEW t \in Threads, NEW o \in Objects, owner[o] = t,
         owner' = [owner EXCEPT ![o] = Nobody], depth' = [depth EXCEPT ![o] = 0],
         held' = [held EXCEPT ![t] = 0], UNCHANGED slot,
         ~Inside(t)', \A u \in Threads \ {t} : pc'[u] = pc[u]
  PROVE  Owned' /\ \A u \in Threads : Holding(u)'
<1> USE DEF IInv
<1>1. held[t] = o /\ o # 0
  BY ObjectsType, LocksAssumption DEF Owned
<1>2. \A u \in Threads \ {t} : held[u] = 0
  <2>1. ASSUME NEW u \in Threads \ {t}, held[u] # 0 PROVE FALSE
    <3>1. held[u] = slot["mutex"] /\ owner[held[u]] = u
      BY <2>1 DEF Holding
    <3>2. held[t] = slot["mutex"]
      BY <1>1 DEF Holding
    <3> QED
      BY <1>1, <3>1, <3>2
  <2> QED
    BY <2>1
<1>3. held'[t] = 0 /\ \A u \in Threads \ {t} : held'[u] = 0
  BY <1>2 DEF TypeOK
<1>4. \A p \in Objects \ {o} : owner[p] = Nobody /\ depth[p] = 0
  <2>1. ASSUME NEW p \in Objects \ {o}, owner[p] # Nobody PROVE FALSE
    <3>1. owner[p] \in Threads
      BY <2>1 DEF TypeOK
    <3>2. held[owner[p]] = p /\ p # 0
      BY <2>1, ObjectsType DEF Owned
    <3> QED
      BY <1>1, <1>2, <3>1, <3>2
  <2> QED
    BY <2>1 DEF Owned
<1>5. Owned'
  BY <1>4 DEF Owned, TypeOK
<1>6. ASSUME NEW u \in Threads \ {t} PROVE Holding(u)'
  BY <1>2, <1>3 DEF Holding, Outside, Inside
<1> QED
  BY <1>3, <1>5, <1>6 DEF Holding

\* And after it has taken it.
LEMMA TakeIt ==
  ASSUME IInv, NEW t \in Threads, NEW o \in Objects, slot["mutex"] = o,
         Free(t, o), Take(t, o), UNCHANGED slot,
         ~Outside(t)', \A u \in Threads \ {t} : pc'[u] = pc[u]
  PROVE  Owned' /\ \A u \in Threads : Holding(u)'
<1> USE DEF IInv
<1>1. owner[o] = Nobody \/ owner[o] = t
  BY DEF Free
<1>2. \A u \in Threads \ {t} : held[u] = 0
  BY <1>1, LocksAssumption DEF Holding
<1>3. /\ owner'[o] = t /\ depth'[o] = depth[o] + 1 /\ held'[t] = o
      /\ \A u \in Threads \ {t} : held'[u] = 0
      /\ \A p \in Objects \ {o} : owner'[p] = owner[p] /\ depth'[p] = depth[p]
  BY <1>2 DEF Take, TypeOK
<1>4. \A p \in Objects \ {o} : owner[p] = Nobody /\ depth[p] = 0
  <2>1. ASSUME NEW p \in Objects \ {o}, owner[p] # Nobody PROVE FALSE
    <3>1. owner[p] \in Threads /\ held[owner[p]] = p /\ p # 0
      <4>1. owner[p] \in Threads
        BY <2>1 DEF TypeOK
      <4> QED
        BY <2>1, <4>1, ObjectsType DEF Owned
    <3>2. held[owner[p]] = slot["mutex"]
      BY <3>1 DEF Holding
    <3> QED
      BY <3>1, <3>2
  <2> QED
    BY <2>1 DEF Owned
<1>5. Owned'
  BY <1>3, <1>4, LocksAssumption DEF Owned
<1>6. depth'[o] >= 1 /\ o # 0
  <2>1. depth[o] \in Nat
    BY DEF TypeOK
  <2> QED
    BY <1>3, <2>1, ObjectsType
<1>7. Holding(t)'
  BY <1>3, <1>6 DEF Holding
<1>8. ASSUME NEW u \in Threads \ {t} PROVE Holding(u)'
  BY <1>2, <1>3 DEF Holding, Outside, Inside
<1> QED
  BY <1>5, <1>7, <1>8

LEMMA PlaceType ==
  /\ \A at \in {"out", "in", "posted", "asleep", "woken", "done"} :
       At(at) \in Places /\ At(at).at = at /\ At(at).call = ""
  /\ \A at \in {"make", "swap", "call"}, call \in Calls :
       [at |-> at, call |-> call] \in Places
  BY DEF At, Places

LEMMA TakeType ==
  ASSUME TypeOK, NEW t \in Threads, NEW o \in Objects, Take(t, o)
  PROVE  /\ owner' \in [Objects -> Threads \cup {Nobody}]
         /\ depth' \in [Objects -> Nat] /\ held' \in [Threads -> {0} \cup Objects]
<1>1. owner' \in [Objects -> Threads \cup {Nobody}]
  BY DEF TypeOK, Take
<1>2. depth' \in [Objects -> Nat]
  <2>1. depth \in [Objects -> Nat]
    BY DEF TypeOK
  <2>2. depth[o] + 1 \in Nat
    BY <2>1
  <2> QED
    BY <2>1, <2>2 DEF Take
<1>3. held' \in [Threads -> {0} \cup Objects]
  BY DEF TypeOK, Take
<1> QED
  BY <1>1, <1>2, <1>3

LEMMA LockStep == ASSUME IInv, NEW t \in Threads, Lock(t) PROVE IInv'
<1> USE DEF IInv
<1>1. PICK call \in {"lock", "timedlock"} : In(t, "call", call)
  BY DEF Lock
<1>2. pc[t].at = "call" /\ pc[t].call = call
  BY <1>1 DEF In
<1>3. read[t] \in Objects /\ read[t] = slot["mutex"]
  BY <1>2 DEF Calling, SlotFor, Ours
<1>4. /\ Free(t, read[t]) /\ Take(t, read[t])
      /\ pc' = [pc EXCEPT ![t] = At("in")]
      /\ read' = [read EXCEPT ![t] = Zero]
      /\ UNCHANGED <<slot, declared, object, waiters, made, engineVars>>
  BY DEF Lock, Goto, Forget
<1>5. \A u \in Threads \ {t} : read'[u] = read[u] /\ made'[u] = made[u]
  BY <1>4 DEF TypeOK
<1>6. Moves(t, At("in"))
  BY <1>4, PlaceType DEF Moves
<1>7. /\ SlotsRight' /\ OwnObjects' /\ Reachable' /\ Counted' /\ Making(t)'
      /\ pc'[t] = At("in") /\ \A u \in Threads \ {t} : pc'[u] = pc[u]
      /\ \A u \in Threads \ {t} : Making(u)' /\ Calling(u)'
  BY <1>2, <1>5, <1>6, MoveStep
<1>8. pc'[t].at = "in" /\ pc'[t].call = ""
  BY <1>7, PlaceType
<1>9. Owned' /\ \A u \in Threads : Holding(u)'
  BY <1>3, <1>4, <1>7, <1>8, TakeIt DEF Outside
<1>10. Calling(t)'
  BY <1>8 DEF Calling
<1>11. Sleepers'
  BY <1>2, <1>4, <1>7, <1>8 DEF Sleepers
<1>12. TypeOK'
  <2>1. pc' \in [Threads -> Places]
    BY <1>4, PlaceType DEF TypeOK, Places
  <2>2. /\ owner' \in [Objects -> Threads \cup {Nobody}]
        /\ depth' \in [Objects -> Nat] /\ held' \in [Threads -> {0} \cup Objects]
    BY <1>3, <1>4, TakeType
  <2>3. read' \in [Threads -> Empty \cup Objects]
    BY <1>4 DEF TypeOK, Empty
  <2> QED
    BY <1>4, <2>1, <2>2, <2>3 DEF TypeOK, engineVars, Places
<1> QED
  BY <1>7, <1>9, <1>10, <1>11, <1>12

LEMMA RelockStep == ASSUME IInv, NEW t \in Threads, Relock(t) PROVE IInv'
<1> USE DEF IInv
<1>1. pc[t].at = "woken"
  BY PlaceType DEF Relock
<1>2. read[t] \in Objects /\ read[t] = slot["mutex"]
  BY <1>1 DEF Calling, Ours
<1>3. /\ Free(t, read[t]) /\ Take(t, read[t])
      /\ pc' = [pc EXCEPT ![t] = At("in")]
      /\ read' = [read EXCEPT ![t] = Zero] /\ made' = [made EXCEPT ![t] = 0]
      /\ UNCHANGED <<slot, declared, object, waiters, engineVars>>
  BY DEF Relock, Goto, Forget
<1>4. \A u \in Threads \ {t} : read'[u] = read[u] /\ made'[u] = made[u]
  BY <1>3 DEF TypeOK
<1>5. Moves(t, At("in"))
  BY <1>3, PlaceType DEF Moves
<1>6. /\ SlotsRight' /\ OwnObjects' /\ Reachable' /\ Counted' /\ Making(t)'
      /\ pc'[t] = At("in") /\ \A u \in Threads \ {t} : pc'[u] = pc[u]
      /\ \A u \in Threads \ {t} : Making(u)' /\ Calling(u)'
  BY <1>1, <1>4, <1>5, MoveStep
<1>7. pc'[t].at = "in" /\ pc'[t].call = ""
  BY <1>6, PlaceType
<1>8. Owned' /\ \A u \in Threads : Holding(u)'
  BY <1>2, <1>3, <1>6, <1>7, TakeIt DEF Outside
<1>9. Calling(t)'
  BY <1>7 DEF Calling
<1>10. Sleepers'
  BY <1>1, <1>3, <1>6, <1>7 DEF Sleepers
<1>11. TypeOK'
  <2>1. pc' \in [Threads -> Places]
    BY <1>3, PlaceType DEF TypeOK, Places
  <2>2. /\ owner' \in [Objects -> Threads \cup {Nobody}]
        /\ depth' \in [Objects -> Nat] /\ held' \in [Threads -> {0} \cup Objects]
    BY <1>2, <1>3, TakeType
  <2>3. /\ read' \in [Threads -> Empty \cup Objects]
        /\ made' \in [Threads -> {0} \cup Objects]
    BY <1>3 DEF TypeOK, Empty
  <2> QED
    BY <1>3, <2>1, <2>2, <2>3 DEF TypeOK, engineVars, Places
<1> QED
  BY <1>6, <1>8, <1>9, <1>10, <1>11

LEMMA LockTimesOutStep == ASSUME IInv, NEW t \in Threads, LockTimesOut(t) PROVE IInv'
<1> USE DEF IInv, lockVars
<1>1. pc[t].at = "call" /\ pc[t].call = "timedlock"
  BY DEF LockTimesOut, In
<1>2. /\ pc' = [pc EXCEPT ![t] = At("out")]
      /\ read' = [read EXCEPT ![t] = Zero]
      /\ UNCHANGED <<lockVars, made, held, engineVars>>
  BY DEF LockTimesOut, Goto, Forget
<1>3. \A u \in Threads \ {t} : read'[u] = read[u] /\ made'[u] = made[u]
  BY <1>2 DEF TypeOK
<1>4. Moves(t, At("out"))
  BY <1>2, PlaceType DEF Moves
<1>5. /\ SlotsRight' /\ OwnObjects' /\ Reachable' /\ Counted' /\ Making(t)'
      /\ pc'[t] = At("out") /\ \A u \in Threads \ {t} : pc'[u] = pc[u]
      /\ \A u \in Threads \ {t} : Making(u)' /\ Calling(u)'
  BY <1>1, <1>3, <1>4, MoveStep
<1>6. pc'[t].at = "out" /\ pc'[t].call = ""
  BY <1>5, PlaceType
<1>7. Owned' /\ \A u \in Threads : Holding(u)'
  <2>1. Owned' /\ \A u \in Threads \ {t} : Holding(u)'
    BY <1>2, <1>5 DEF Owned, Holding, Outside, Inside
  <2>2. held[t] = 0
    BY <1>1 DEF Holding, Outside
  <2>3. Holding(t)'
    BY <1>2, <1>6, <2>2 DEF Holding, Inside
  <2> QED
    BY <2>1, <2>3
<1>8. Calling(t)'
  BY <1>6 DEF Calling
<1>9. Sleepers'
  BY <1>1, <1>2, <1>5, <1>6 DEF Sleepers
<1>10. TypeOK'
  <2>1. pc' \in [Threads -> Places]
    BY <1>2, PlaceType DEF TypeOK, Places
  <2>2. read' \in [Threads -> Empty \cup Objects]
    BY <1>2 DEF TypeOK, Empty
  <2> QED
    BY <1>2, <2>1, <2>2 DEF TypeOK, engineVars, Places
<1> QED
  BY <1>5, <1>7, <1>8, <1>9, <1>10

LEMMA UnlockStep == ASSUME IInv, NEW t \in Threads, Unlock(t) PROVE IInv'
<1> USE DEF IInv
<1> DEFINE p == IF depth[read[t]] > 1 THEN At("in")
                ELSE IF t \in Producers THEN At("posted") ELSE At("out")
<1>1. pc[t].at = "call" /\ pc[t].call = "unlock"
  BY DEF Unlock, In
<1>2. read[t] \in Objects /\ read[t] = slot["mutex"]
  BY <1>1 DEF Calling, SlotFor, Ours
<1>3. /\ owner[read[t]] = t /\ Release(t, read[t])
      /\ held' = [held EXCEPT ![t] = IF depth[read[t]] = 1 THEN 0 ELSE @]
      /\ pc' = [pc EXCEPT ![t] = p]
      /\ read' = [read EXCEPT ![t] = Zero]
      /\ UNCHANGED <<slot, declared, object, waiters, made, engineVars>>
  BY DEF Unlock, Goto, Forget
<1>4. p \in Places /\ p.at \in {"in", "posted", "out"} /\ p.call = ""
  BY PlaceType
<1>5. depth[read[t]] > 1 => p.at = "in"
  BY PlaceType
<1>6. depth[read[t]] = 1 => p.at # "in"
  <2>1. depth[read[t]] = 1 => p \in {At("posted"), At("out")}
    OBVIOUS
  <2>2. At("posted").at = "posted" /\ At("out").at = "out"
    BY DEF At
  <2> QED
    BY <2>1, <2>2
<1> HIDE DEF p
<1>7. \A u \in Threads \ {t} : read'[u] = read[u] /\ made'[u] = made[u]
  BY <1>3 DEF TypeOK
<1>8. Moves(t, p)
  BY <1>3, <1>4 DEF Moves
<1>9. /\ SlotsRight' /\ OwnObjects' /\ Reachable' /\ Counted' /\ Making(t)'
      /\ pc'[t] = p /\ \A u \in Threads \ {t} : pc'[u] = pc[u]
      /\ \A u \in Threads \ {t} : Making(u)' /\ Calling(u)'
  BY <1>1, <1>7, <1>8, MoveStep
<1>10. held[t] = read[t] /\ depth[read[t]] \in Nat \ {0}
  <2>1. held[t] = read[t] /\ read[t] # 0
    BY <1>2, <1>3, ObjectsType, LocksAssumption DEF Owned
  <2>2. depth[read[t]] >= 1
    BY <2>1 DEF Holding
  <2>3. depth \in [Objects -> Nat]
    BY DEF TypeOK
  <2> QED
    BY <1>2, <2>1, <2>2, <2>3
<1>11. /\ owner' \in [Objects -> Threads \cup {Nobody}]
       /\ depth' \in [Objects -> Nat] /\ held' \in [Threads -> {0} \cup Objects]
  <2>1. depth \in [Objects -> Nat] /\ held \in [Threads -> {0} \cup Objects]
    BY DEF TypeOK
  <2>2. depth[read[t]] - 1 \in Nat
    BY <1>10
  <2>3. depth' \in [Objects -> Nat]
    BY <1>3, <2>1, <2>2 DEF Release
  <2>4. owner' \in [Objects -> Threads \cup {Nobody}]
    BY <1>3 DEF Release, TypeOK
  <2>5. held' \in [Threads -> {0} \cup Objects]
    BY <1>3, <2>1
  <2> QED
    BY <2>3, <2>4, <2>5
<1>12. Owned' /\ \A u \in Threads : Holding(u)'
  <2>1. CASE depth[read[t]] = 1
    <3>1. owner' = [owner EXCEPT ![read[t]] = Nobody]
      BY <1>3, <2>1 DEF Release
    <3>2. depth' = [depth EXCEPT ![read[t]] = 0]
      BY <1>3, <2>1 DEF Release
    <3>3. held' = [held EXCEPT ![t] = 0]
      BY <1>3, <2>1
    <3>4. ~Inside(t)'
      BY <1>4, <1>6, <1>9, <2>1 DEF Inside
    <3> QED
      BY <1>2, <1>3, <1>9, <3>1, <3>2, <3>3, <3>4, LetGo
  <2>2. CASE depth[read[t]] > 1
    <3>1. owner' = owner /\ held' = held
      <4>1. depth[read[t]] # 1
        BY <2>2
      <4>2. owner' = [owner EXCEPT ![read[t]] = owner[read[t]]]
        BY <1>3, <4>1 DEF Release
      <4>3. held' = [held EXCEPT ![t] = held[t]]
        BY <1>3, <4>1
      <4> QED
        BY <4>2, <4>3 DEF TypeOK
    <3>2. /\ depth'[read[t]] = depth[read[t]] - 1
          /\ \A o \in Objects \ {read[t]} : depth'[o] = depth[o]
      BY <1>2, <1>3 DEF Release, TypeOK
    <3>3. depth[read[t]] - 1 >= 1
      BY <1>10, <2>2
    <3>4. Owned'
      BY <1>2, <1>3, <3>1, <3>2, LocksAssumption DEF Owned
    <3>5. ASSUME NEW u \in Threads \ {t} PROVE Holding(u)'
      <4>1. held[u] = 0
        BY <1>2, <1>3, <1>10 DEF Holding
      <4> QED
        BY <1>9, <3>1, <4>1 DEF Holding, Outside, Inside
    <3>6. Holding(t)'
      <4>1. ~Outside(t)'
        BY <1>4, <1>5, <1>9, <2>2 DEF Outside
      <4>2. held[t] # 0 /\ depth'[held[t]] >= 1 /\ owner[held[t]] = t
        BY <1>2, <1>3, <1>10, <3>2, <3>3, ObjectsType
      <4> QED
        BY <1>2, <1>3, <1>10, <3>1, <4>1, <4>2 DEF Holding
    <3> QED
      BY <3>4, <3>5, <3>6
  <2> QED
    BY <1>10, <2>1, <2>2
<1>13. Calling(t)'
  BY <1>4, <1>9 DEF Calling
<1>14. Sleepers'
  BY <1>1, <1>3, <1>4, <1>9 DEF Sleepers
<1>15. TypeOK'
  <2>1. pc' \in [Threads -> Places]
    BY <1>3, <1>4 DEF TypeOK, Places
  <2>2. read' \in [Threads -> Empty \cup Objects]
    BY <1>3 DEF TypeOK, Empty
  <2> QED
    BY <1>3, <1>11, <2>1, <2>2 DEF TypeOK, engineVars, Places
<1> QED
  BY <1>9, <1>12, <1>13, <1>14, <1>15

LEMMA WaitFindsCondStep ==
  ASSUME IInv, NEW t \in Threads, WaitFindsCond(t) PROVE IInv'
<1> USE DEF IInv, lockVars
<1> DEFINE p == [at |-> "call", call |-> "waitMutex"]
<1>1. pc[t].at = "call" /\ pc[t].call = "wait"
  BY DEF WaitFindsCond, In
<1>2. read[t] \in Objects /\ read[t] = slot["cond"]
  BY <1>1 DEF Calling, SlotFor, Ours
<1>3. held[t] # 0 /\ Ours(slot["mutex"])
  BY <1>1, ZenonT(40) DEF Holding, Inside, TypeOK, Ours
<1>4. /\ made' = [made EXCEPT ![t] = read[t]] /\ Call(t, "waitMutex")
      /\ UNCHANGED <<lockVars, held, engineVars>>
  BY DEF WaitFindsCond
<1>5. pc' = [pc EXCEPT ![t] = p] /\ read' = [read EXCEPT ![t] = slot["mutex"]]
  BY <1>3, <1>4 DEF Call, SlotFor
<1>6. p \in Places /\ p.at = "call" /\ p.call = "waitMutex"
  BY DEF Places, Calls
<1> HIDE DEF p
<1>7. \A u \in Threads \ {t} : read'[u] = read[u] /\ made'[u] = made[u]
  BY <1>4, <1>5 DEF TypeOK
<1>8. Moves(t, p)
  BY <1>4, <1>5, <1>6 DEF Moves
<1>9. /\ SlotsRight' /\ OwnObjects' /\ Reachable' /\ Counted' /\ Making(t)'
      /\ pc'[t] = p /\ \A u \in Threads \ {t} : pc'[u] = pc[u]
      /\ \A u \in Threads \ {t} : Making(u)' /\ Calling(u)'
  BY <1>1, <1>7, <1>8, MoveStep
<1>10. Owned' /\ \A u \in Threads \ {t} : Holding(u)'
  BY <1>4, <1>9 DEF Owned, Holding, Outside, Inside
<1>11. Holding(t)'
  BY <1>3, <1>4, <1>6, <1>9 DEF Holding, Outside
<1>12. Calling(t)'
  <2>1. made'[t] = read[t] /\ read'[t] = slot["mutex"]
    BY <1>4, <1>5 DEF TypeOK
  <2> QED
    BY <1>2, <1>3, <1>4, <1>6, <1>9, <2>1 DEF Calling, SlotFor, Ours
<1>13. Sleepers'
  BY <1>1, <1>4, <1>6, <1>9 DEF Sleepers
<1>14. TypeOK'
  <2>1. pc' \in [Threads -> Places]
    BY <1>5, <1>6 DEF TypeOK, Places
  <2>2. /\ read' \in [Threads -> Empty \cup Objects]
        /\ made' \in [Threads -> {0} \cup Objects]
    BY <1>2, <1>3, <1>4, <1>5 DEF TypeOK, Ours
  <2> QED
    BY <1>4, <2>1, <2>2 DEF TypeOK, engineVars, Places
<1> QED
  BY <1>9, <1>10, <1>11, <1>12, <1>13, <1>14

LEMMA WaitStep == ASSUME IInv, NEW t \in Threads, Wait(t) PROVE IInv'
<1> USE DEF IInv
<1>1. pc[t].at = "call" /\ pc[t].call = "waitMutex"
  BY DEF Wait, In
<1>2. /\ read[t] \in Objects /\ read[t] = slot["mutex"]
      /\ made[t] \in Objects /\ made[t] = slot["cond"]
  BY <1>1 DEF Calling, SlotFor, Ours
<1>3. /\ waiters' = [waiters EXCEPT ![made[t]] = @ \cup {t}]
      /\ owner' = [owner EXCEPT ![read[t]] = Nobody]
      /\ depth' = [depth EXCEPT ![read[t]] = 0]
      /\ held' = [held EXCEPT ![t] = 0]
      /\ pc' = [pc EXCEPT ![t] = At("asleep")]
      /\ UNCHANGED <<slot, declared, object, read, made, engineVars>>
  BY DEF Wait, Goto
<1>4. owner[read[t]] = t
  BY <1>1, <1>2 DEF Holding, Inside
<1>5. Moves(t, At("asleep"))
  BY <1>3, PlaceType DEF Moves
<1>6. /\ SlotsRight' /\ OwnObjects' /\ Reachable' /\ Counted' /\ Making(t)'
      /\ pc'[t] = At("asleep") /\ \A u \in Threads \ {t} : pc'[u] = pc[u]
      /\ \A u \in Threads \ {t} : Making(u)' /\ Calling(u)'
  BY <1>1, <1>3, <1>5, MoveStep
<1>7. pc'[t].at = "asleep" /\ pc'[t].call = ""
  BY <1>6, PlaceType
<1>8. Owned' /\ \A u \in Threads : Holding(u)'
  <2>1. ~Inside(t)'
    BY <1>7 DEF Inside
  <2> QED
    BY <1>2, <1>3, <1>4, <1>6, <2>1, LetGo
<1>9. Calling(t)'
  BY <1>2, <1>3, <1>7 DEF Calling, Ours
<1>10. Sleepers'
  <2>1. /\ waiters'[made[t]] = waiters[made[t]] \cup {t}
        /\ \A o \in Objects \ {made[t]} : waiters'[o] = waiters[o]
    BY <1>2, <1>3 DEF TypeOK
  <2>2. slot'["cond"] = slot["cond"]
    BY <1>3
  <2>3. ASSUME NEW o \in Objects, NEW u \in Threads \ {t}
        PROVE  u \in waiters'[o] <=> pc'[u].at = "asleep" /\ slot'["cond"] = o
    <3>1. u \in waiters'[o] <=> u \in waiters[o]
      BY <2>1
    <3> QED
      BY <1>6, <2>2, <3>1 DEF Sleepers
  <2>4. ASSUME NEW o \in Objects
        PROVE  t \in waiters'[o] <=> pc'[t].at = "asleep" /\ slot'["cond"] = o
    BY <1>1, <1>2, <1>6, <1>7, <2>1, <2>2 DEF Sleepers
  <2> QED
    BY <2>3, <2>4 DEF Sleepers
<1>11. TypeOK'
  <2>1. pc' \in [Threads -> Places]
    BY <1>3, PlaceType DEF TypeOK, Places
  <2>2. /\ owner' \in [Objects -> Threads \cup {Nobody}]
        /\ depth' \in [Objects -> Nat] /\ held' \in [Threads -> {0} \cup Objects]
        /\ waiters' \in [Objects -> SUBSET Threads]
    BY <1>2, <1>3 DEF TypeOK
  <2> QED
    BY <1>3, <2>1, <2>2 DEF TypeOK, engineVars, Places
<1> QED
  BY <1>6, <1>8, <1>9, <1>10, <1>11

LEMMA WaitTimesOutStep ==
  ASSUME IInv, NEW t \in Threads, WaitTimesOut(t) PROVE IInv'
<1> USE DEF IInv
<1>1. pc[t].at = "asleep"
  BY PlaceType DEF WaitTimesOut
<1>2. made[t] \in Objects /\ made[t] = slot["cond"]
  BY <1>1 DEF Calling, Ours
<1>3. /\ waiters' = [waiters EXCEPT ![made[t]] = @ \ {t}]
      /\ pc' = [pc EXCEPT ![t] = At("woken")]
      /\ UNCHANGED <<slot, declared, object, owner, depth, read, made, held, engineVars>>
  BY DEF WaitTimesOut, Goto
<1>4. Moves(t, At("woken"))
  BY <1>3, PlaceType DEF Moves
<1>5. /\ SlotsRight' /\ OwnObjects' /\ Reachable' /\ Counted' /\ Making(t)'
      /\ pc'[t] = At("woken") /\ \A u \in Threads \ {t} : pc'[u] = pc[u]
      /\ \A u \in Threads \ {t} : Making(u)' /\ Calling(u)'
  BY <1>1, <1>3, <1>4, MoveStep
<1>6. pc'[t].at = "woken" /\ pc'[t].call = ""
  BY <1>5, PlaceType
<1>7. Owned' /\ \A u \in Threads \ {t} : Holding(u)'
  BY <1>3, <1>5 DEF Owned, Holding, Outside, Inside
<1>8. Holding(t)'
  BY <1>1, <1>3, <1>6 DEF Holding, Outside, Inside
<1>9. Calling(t)'
  BY <1>1, <1>3, <1>6 DEF Calling
<1>10. Sleepers'
  <2>1. /\ waiters'[made[t]] = waiters[made[t]] \ {t}
        /\ \A o \in Objects \ {made[t]} : waiters'[o] = waiters[o]
    BY <1>2, <1>3 DEF TypeOK
  <2>2. slot'["cond"] = slot["cond"]
    BY <1>3
  <2>3. ASSUME NEW o \in Objects, NEW u \in Threads \ {t}
        PROVE  u \in waiters'[o] <=> pc'[u].at = "asleep" /\ slot'["cond"] = o
    <3>1. u \in waiters'[o] <=> u \in waiters[o]
      <4>1. CASE o = read[t]
        BY <2>1, <4>1
      <4>2. CASE o # read[t]
        BY <2>1, <4>2
      <4> QED
        BY <4>1, <4>2
    <3>2. pc'[u] = pc[u]
      BY <1>5
    <3>3. u \in waiters[o] <=> pc[u].at = "asleep" /\ slot["cond"] = o
      BY DEF Sleepers
    <3> QED
      BY <2>2, <3>1, <3>2, <3>3
  <2>4. ASSUME NEW o \in Objects
        PROVE  t \in waiters'[o] <=> pc'[t].at = "asleep" /\ slot'["cond"] = o
    BY <1>1, <1>2, <1>5, <1>6, <2>1, <2>2 DEF Sleepers
  <2> QED
    BY <2>3, <2>4 DEF Sleepers
<1>11. TypeOK'
  <2>1. pc' \in [Threads -> Places]
    BY <1>3, PlaceType DEF TypeOK, Places
  <2>2. waiters' \in [Objects -> SUBSET Threads]
    BY <1>2, <1>3 DEF TypeOK
  <2> QED
    BY <1>3, <2>1, <2>2 DEF TypeOK, engineVars, Places
<1> QED
  BY <1>5, <1>7, <1>8, <1>9, <1>10, <1>11

\* A signal or a broadcast wakes threads that are all asleep in the condition.
LEMMA WakeUpStep ==
  ASSUME IInv, NEW t \in Threads, NEW S, WakeUp(t, S), S \subseteq waiters[read[t]],
         pc[t].at = "call", pc[t].call \in {"signal", "broadcast"}
  PROVE  IInv'
<1> USE DEF IInv
<1>1. read[t] \in Objects /\ read[t] = slot["cond"]
  BY DEF Calling, SlotFor, Ours
<1>2. /\ waiters' = [waiters EXCEPT ![read[t]] = @ \ S]
      /\ pc' = [u \in Threads |-> IF u \in S THEN At("woken")
                                  ELSE IF u = t THEN At("out") ELSE pc[u]]
      /\ read' = [read EXCEPT ![t] = Zero]
      /\ UNCHANGED <<slot, declared, object, owner, depth, made, held, engineVars>>
  BY DEF WakeUp, Forget
<1>3. S \subseteq Threads /\ \A u \in S : pc[u].at = "asleep"
  BY <1>1 DEF Sleepers, TypeOK
<1>4. t \notin S
  BY <1>3
<1>5. /\ pc'[t].at = "out" /\ pc'[t].call = ""
      /\ \A u \in S : pc'[u].at = "woken" /\ pc'[u].call = ""
      /\ \A u \in Threads \ (S \cup {t}) : pc'[u] = pc[u]
  BY <1>2, <1>3, <1>4, PlaceType
<1>6. read'[t] = Zero /\ \A u \in Threads \ {t} : read'[u] = read[u]
  BY <1>2 DEF TypeOK
<1>7. ~AllDone /\ ~AllDone'
  <2>1. At("done").at = "done" /\ At("done")' = At("done")
    BY DEF At
  <2> QED
    BY <1>5, <2>1 DEF AllDone
<1>8. SlotsRight' /\ Counted'
  BY <1>2, <1>7 DEF SlotsRight, Counted, engineVars
<1>9. \A u \in Threads : pc'[u].at \in {"make", "swap"} <=> u \notin S /\ pc[u].at \in {"make", "swap"}
  BY <1>3, <1>5
<1>10. \A u \in Threads : pc'[u].at = "swap" <=> pc[u].at = "swap"
  BY <1>3, <1>5
<1>11. OwnObjects' /\ Reachable' /\ Owned'
  <2>1. OwnObjects'
    BY <1>2, <1>10 DEF OwnObjects
  <2>2. Reachable'
    BY <1>2, <1>10 DEF Reachable
  <2>3. Owned'
    BY <1>2 DEF Owned
  <2> QED
    BY <2>1, <2>2, <2>3
<1>12. ASSUME NEW u \in Threads \ (S \cup {t}) PROVE Making(u)' /\ Calling(u)' /\ Holding(u)'
  <2>1. u \in Threads /\ pc'[u] = pc[u] /\ read'[u] = read[u] /\ Making(u) /\ Calling(u) /\ Holding(u)
    BY <1>5, <1>6
  <2>2. Making(u)'
    BY <1>2, <2>1 DEF Making
  <2>3. Calling(u)'
    BY <1>2, <2>1 DEF Calling
  <2>4. Holding(u)'
    BY <1>2, <2>1 DEF Holding, Outside, Inside
  <2> QED
    BY <2>2, <2>3, <2>4
<1>13. ASSUME NEW u \in S PROVE Making(u)' /\ Calling(u)' /\ Holding(u)'
  <2>1. u \in Threads /\ u # t /\ pc[u].at = "asleep"
    BY <1>3, <1>4
  <2>2. held[u] = 0 /\ Ours(read[u]) /\ read[u] = slot["mutex"]
    BY <2>1 DEF Holding, Outside, Calling
  <2>3. pc'[u].at = "woken" /\ pc'[u].call = "" /\ read'[u] = read[u]
    BY <1>5, <1>6, <2>1
  <2>4. Making(u)' /\ Calling(u)'
    BY <1>2, <2>2, <2>3 DEF Making, Calling, Ours
  <2>5. Holding(u)'
    BY <1>2, <2>2, <2>3 DEF Holding, Inside
  <2> QED
    BY <2>4, <2>5
<1>14. Making(t)' /\ Calling(t)' /\ Holding(t)'
  <2>1. held[t] = 0
    BY DEF Holding, Outside
  <2> QED
    BY <1>2, <1>5, <2>1 DEF Making, Calling, Holding, Outside, Inside
<1>15. Sleepers'
  <2>1. /\ waiters'[read[t]] = waiters[read[t]] \ S
        /\ \A o \in Objects \ {read[t]} : waiters'[o] = waiters[o]
    BY <1>1, <1>2 DEF TypeOK
  <2>2. slot'["cond"] = slot["cond"]
    BY <1>2
  <2>3. ASSUME NEW o \in Objects, NEW u \in S
        PROVE  u \notin waiters'[o] /\ pc'[u].at # "asleep"
    <3>1. u \in Threads /\ pc'[u].at = "woken"
      BY <1>3, <1>5
    <3>2. o # read[t] => u \notin waiters[o]
      BY <1>1, <3>1 DEF Sleepers
    <3> QED
      BY <2>1, <3>1, <3>2
  <2>4. ASSUME NEW o \in Objects
        PROVE  t \notin waiters'[o] /\ pc'[t].at # "asleep"
    BY <1>5, <2>1 DEF Sleepers
  <2>5. ASSUME NEW o \in Objects, NEW u \in Threads \ (S \cup {t})
        PROVE  u \in waiters'[o] <=> pc'[u].at = "asleep" /\ slot'["cond"] = o
    <3>1. u \in waiters'[o] <=> u \in waiters[o]
      <4>1. CASE o = read[t]
        BY <2>1, <4>1
      <4>2. CASE o # read[t]
        BY <2>1, <4>2
      <4> QED
        BY <4>1, <4>2
    <3>2. pc'[u] = pc[u]
      BY <1>5
    <3>3. u \in waiters[o] <=> pc[u].at = "asleep" /\ slot["cond"] = o
      BY DEF Sleepers
    <3> QED
      BY <2>2, <3>1, <3>2, <3>3
  <2> QED
    BY <2>3, <2>4, <2>5 DEF Sleepers
<1>16. TypeOK'
  <2>1. pc' \in [Threads -> Places]
    BY <1>2, PlaceType DEF TypeOK, Places
  <2>2. waiters' \in [Objects -> SUBSET Threads]
    BY <1>1, <1>2 DEF TypeOK
  <2>3. read' \in [Threads -> Empty \cup Objects]
    BY <1>2 DEF TypeOK, Empty
  <2> QED
    BY <1>2, <2>1, <2>2, <2>3 DEF TypeOK, engineVars, Places
<1> QED
  BY <1>8, <1>11, <1>12, <1>13, <1>14, <1>15, <1>16

LEMMA SignalStep ==
  ASSUME IInv, NEW t \in Threads, Signal(t) \/ Broadcast(t) PROVE IInv'
<1>1. pc[t].at = "call" /\ pc[t].call \in {"signal", "broadcast"}
  BY DEF Signal, Broadcast, In
<1>2. PICK S \in SUBSET waiters[read[t]] : WakeUp(t, S)
  BY DEF Signal, Broadcast
<1> QED
  BY <1>1, <1>2, WakeUpStep

LEMMA ShimStep == ASSUME IInv, NEW t \in Threads, Shim(t) \/ WaitTimesOut(t) PROVE IInv'
  BY MakeStep, SwapStep, LockStep, LockTimesOutStep, UnlockStep, WaitFindsCondStep, WaitStep,
     RelockStep, SignalStep, WaitTimesOutStep DEF Shim

----------------------------------------------------------------------------
(* The end of the locks, and their next life.                              *)

\* When all threads are done with the locks nobody holds or waits for one.
LEMMA AllIdle ==
  ASSUME IInv, AllDone
  PROVE  /\ \A t \in Threads : pc[t].at = "done" /\ pc[t].call = "" /\ held[t] = 0
         /\ \A o \in Objects : owner[o] = Nobody /\ depth[o] = 0 /\ waiters[o] = {}
         /\ \A o \in Objects : object[o] = "free" \/ \E s \in Slots : slot[s] = o
<1> USE DEF IInv
<1>1. \A t \in Threads : pc[t].at = "done" /\ pc[t].call = ""
  BY PlaceType DEF AllDone
<1>2. \A t \in Threads : held[t] = 0
  BY <1>1 DEF Holding, Outside
<1>3. \A o \in Objects : owner[o] = Nobody /\ depth[o] = 0
  <2>1. ASSUME NEW o \in Objects, owner[o] # Nobody PROVE FALSE
    <3>1. owner[o] \in Threads
      BY <2>1 DEF TypeOK
    <3>2. held[owner[o]] = o /\ o # 0
      BY <2>1, ObjectsType DEF Owned
    <3> QED
      BY <1>2, <3>1, <3>2
  <2> QED
    BY <2>1 DEF Owned
<1>4. \A o \in Objects : waiters[o] = {}
  <2>1. \A o \in Objects : waiters[o] \subseteq Threads
    BY DEF TypeOK
  <2> QED
    BY <1>1, <2>1 DEF Sleepers
<1>5. \A o \in Objects : object[o] = "free" \/ \E s \in Slots : slot[s] = o
  BY <1>1 DEF Reachable
<1> QED
  BY <1>1, <1>2, <1>3, <1>4, <1>5

LEMMA DestroyStep == ASSUME IInv, Destroy PROVE IInv'
<1> USE DEF IInv, threadVars, engineVars
<1>1. AllDone
  BY DEF Destroy, AllDone
<1>2. /\ \A t \in Threads : pc[t].at = "done" /\ pc[t].call = "" /\ held[t] = 0
      /\ \A o \in Objects : owner[o] = Nobody /\ depth[o] = 0 /\ waiters[o] = {}
      /\ \A o \in Objects : object[o] = "free" \/ \E s \in Slots : slot[s] = o
  BY <1>1, AllIdle
<1>3. /\ object' = [o \in Objects |->
                      IF \E s \in Slots : slot[s] = o THEN "free" ELSE object[o]]
      /\ slot' = [s \in Slots |-> Zero]
      /\ UNCHANGED <<declared, owner, depth, waiters, threadVars, engineVars>>
  BY DEF Destroy
<1>4. /\ \A o \in Objects : object'[o] = "free"
      /\ slot'["mutex"] = Zero /\ slot'["cond"] = Zero /\ Zero \notin Objects
      /\ Zero # RecursiveMark
  <2>1. \A o \in Objects : object'[o] = "free"
    BY <1>2, <1>3
  <2>2. slot'["mutex"] = Zero /\ slot'["cond"] = Zero
    BY <1>3 DEF Slots
  <2> QED
    BY <2>1, <2>2, ObjectsType DEF Zero, RecursiveMark
<1>5. AllDone'
  BY <1>1, <1>3 DEF AllDone, At
<1>6. SlotsRight' /\ Counted'
  BY <1>1, <1>3, <1>4, <1>5 DEF SlotsRight, Counted, Ours
<1>7. OwnObjects' /\ Owned' /\ Sleepers' /\ Reachable'
  BY <1>2, <1>3, <1>4 DEF OwnObjects, Owned, Sleepers, Reachable
<1>8. ASSUME NEW t \in Threads PROVE Making(t)' /\ Calling(t)' /\ Holding(t)'
  <2>1. pc'[t].at = "done" /\ pc'[t].call = "" /\ held'[t] = 0
    BY <1>2, <1>3
  <2> QED
    BY <2>1 DEF Making, Calling, Holding, Inside
<1>9. TypeOK'
  <2>1. object' \in [Objects -> {"free", "plain", "recursive", "cond"}]
    BY <1>3 DEF TypeOK
  <2>2. slot' \in [Slots -> Empty \cup Objects]
    BY <1>3 DEF Empty
  <2> QED
    BY <1>3, <2>1, <2>2 DEF TypeOK
<1> QED
  BY <1>6, <1>7, <1>8, <1>9

LEMMA InitAgainStep == ASSUME IInv, InitAgain PROVE IInv'
<1> USE DEF IInv
<1>1. AllDone /\ slot["mutex"] = Zero /\ slot["cond"] = Zero
  BY DEF InitAgain, AllDone, Slots
<1>2. /\ \A t \in Threads : pc[t].at = "done" /\ pc[t].call = "" /\ held[t] = 0
      /\ \A o \in Objects : owner[o] = Nobody /\ depth[o] = 0 /\ waiters[o] = {}
      /\ \A o \in Objects : object[o] = "free" \/ \E s \in Slots : slot[s] = o
  BY <1>1, AllIdle
<1>3. /\ declared' \in {"plain", "recursive"}
      /\ object' = [object EXCEPT ![1] = declared', ![2] = "cond"]
      /\ slot' = [mutex |-> 1, cond |-> 2]
      /\ pc' = [t \in Threads |-> At("out")]
      /\ posted' = 0 /\ life' = life + 1 /\ life < Lives
      /\ UNCHANGED <<owner, depth, waiters, read, made, held, items>>
  BY DEF InitAgain
<1>4. 1 \in Objects /\ 2 \in Objects
  BY LocksAssumption DEF Objects
<1>5. \A o \in Objects : object[o] = "free"
  <2>1. \A o \in Objects, s \in Slots : slot[s] # o
    BY <1>1, ObjectsType DEF Slots, Zero
  <2> QED
    BY <1>2, <2>1
<1>6. /\ object'[1] = declared' /\ object'[2] = "cond"
      /\ \A o \in Objects \ {1, 2} : object'[o] = "free"
  <2>1. object \in [Objects -> {"free", "plain", "recursive", "cond"}]
    BY DEF TypeOK
  <2> DEFINE first == [object EXCEPT ![1] = declared']
  <2>2. first \in [Objects -> {"free", "plain", "recursive", "cond"}]
    BY <1>3, <2>1
  <2>3. first[1] = declared' /\ \A o \in Objects \ {1} : first[o] = "free"
    BY <1>4, <1>5, <2>1
  <2>4. object' = [first EXCEPT ![2] = "cond"]
    BY <1>3
  <2> HIDE DEF first
  <2> QED
    BY <1>4, <2>2, <2>3, <2>4
<1>7. slot'["mutex"] = 1 /\ slot'["cond"] = 2 /\ slot' \in [Slots -> Objects]
  BY <1>3, <1>4 DEF Slots
<1>8. \A t \in Threads : pc'[t].at = "out" /\ pc'[t].call = ""
  BY <1>3, PlaceType
<1>9. SlotsRight'
  BY <1>6, <1>7 DEF SlotsRight, Zero, RecursiveMark
<1>10. Counted' /\ items' = 0
  <2>1. items = 0
    BY <1>1 DEF Counted
  <2> QED
    BY <1>3, <2>1 DEF Counted
<1>11. OwnObjects' /\ Owned' /\ Sleepers'
  BY <1>2, <1>3, <1>8 DEF OwnObjects, Owned, Sleepers
<1>12. Reachable'
  BY <1>6, <1>7 DEF Reachable, Slots
<1>13. ASSUME NEW t \in Threads PROVE Making(t)' /\ Calling(t)' /\ Holding(t)'
  BY <1>2, <1>3, <1>8 DEF Making, Calling, Holding, Inside
<1>14. TypeOK'
  <2>1. object' \in [Objects -> {"free", "plain", "recursive", "cond"}]
    BY <1>3 DEF TypeOK
  <2>2. pc' \in [Threads -> Places]
    BY <1>3, PlaceType
  <2>3. posted' \in 0..MaxItems /\ life' \in 1..Lives /\ items' \in 0..MaxItems
    <3>1. life \in 1..Lives /\ Lives \in Nat /\ MaxItems \in Nat
      BY LocksAssumption DEF TypeOK
    <3> QED
      BY <1>3, <1>10, <3>1
  <2> QED
    BY <1>3, <1>7, <2>1, <2>2, <2>3 DEF TypeOK, Places
<1> QED
  BY <1>9, <1>10, <1>11, <1>12, <1>13, <1>14

LEMMA InitIInv == ASSUME Init PROVE IInv
<1> USE DEF Init
<1>1. \A t \in Threads : pc[t].at = "out" /\ pc[t].call = ""
  BY PlaceType
<1>2. slot["mutex"] \in Empty /\ slot["cond"] = Zero /\ Empty \cap Objects = {}
  BY ObjectsType DEF Slots, Empty, Zero, RecursiveMark, Objects
<1>3. SlotsRight
  BY <1>2 DEF SlotsRight, Ours, Empty, Zero, RecursiveMark
<1>4. ASSUME NEW t \in Threads PROVE Making(t) /\ Calling(t) /\ Holding(t)
  BY <1>1 DEF Making, Calling, Holding, Inside
<1>5. OwnObjects /\ Owned /\ Sleepers /\ Reachable /\ Counted
  <2>1. OwnObjects
    BY <1>1 DEF OwnObjects
  <2>2. Counted
    BY DEF Counted
  <2>3. Owned /\ Reachable
    BY DEF Owned, Reachable
  <2>4. Sleepers
    BY <1>1 DEF Sleepers
  <2> QED
    BY <2>1, <2>2, <2>3, <2>4
<1>6. TypeOK
  <2>1. pc \in [Threads -> Places]
    BY PlaceType
  <2>2. read \in [Threads -> Empty \cup Objects]
    BY DEF Empty
  <2>3. items \in 0..MaxItems /\ posted \in 0..MaxItems /\ life \in 1..Lives
    BY LocksAssumption
  <2> QED
    BY <2>1, <2>2, <2>3 DEF TypeOK, Places
<1> QED
  BY <1>3, <1>4, <1>5, <1>6 DEF IInv

----------------------------------------------------------------------------
(* The theorems.                                                           *)

LEMMA StepIInv == ASSUME IInv, [Next]_vars PROVE IInv'
<1>1. CASE UNCHANGED vars
  <2> USE <1>1 DEF IInv, vars, lockVars, threadVars, engineVars
  <2>1. TypeOK'
    BY DEF TypeOK
  <2>2. OwnObjects' /\ Owned'
    BY DEF OwnObjects, Owned
  <2>3. Sleepers' /\ Reachable'
    BY DEF Sleepers, Reachable
  <2>4. SlotsRight' /\ Counted'
    BY DEF SlotsRight, Counted, AllDone, At
  <2>5. ASSUME NEW t \in Threads PROVE Making(t)' /\ Calling(t)' /\ Holding(t)'
    BY DEF Making, Calling, Holding, Outside, Inside
  <2> QED
    BY <2>1, <2>2, <2>3, <2>4, <2>5
<1> QED
  BY <1>1, EngineStep, ShimStep, DestroyStep, InitAgainStep DEF Next

LEMMA InvariantIInv == Spec => []IInv
<1>1. Init => IInv
  BY InitIInv
<1>2. IInv /\ [Next]_vars => IInv'
  BY StepIInv
<1> QED
  BY <1>1, <1>2, PTL DEF Spec

\* The type invariant: a slot holds what the engine put there or an object, and
\* a lock's depth never goes below zero.
THEOREM TypeSafety == Spec => []TypeOK
  BY InvariantIInv, PTL DEF IInv

\* Whatever threads race to use an uninitialised lock first, and however often
\* its storage is used again: one object serves all of them, of the kind the
\* engine declared; one thread at a time is inside; a sleeper waits on the
\* condition that is signalled; and the losers of the race leave nothing behind.
THEOREM OneLockForAll == Spec => []OneLock
<1>1. ASSUME IInv PROVE OneLock
  <2> USE <1>1 DEF IInv
  <2>1. ASSUME NEW t \in Threads, NEW u \in Threads, held[t] # 0, held[u] # 0 PROVE t = u
    <3>1. /\ held[t] = slot["mutex"] /\ owner[held[t]] = t
          /\ held[u] = slot["mutex"] /\ owner[held[u]] = u
      BY <2>1 DEF Holding
    <3> QED
      BY <3>1
  <2>2. ASSUME NEW t \in Threads, held[t] # 0
        PROVE  slot["mutex"] = held[t] /\ object[held[t]] = declared
    BY <2>2 DEF Holding, SlotsRight, TypeOK, Ours
  <2>3. ASSUME NEW t \in Threads, pc[t].at = "asleep" PROVE t \in waiters[slot["cond"]]
    BY <2>3 DEF Calling, Sleepers, Ours
  <2>4. (\A t \in Threads : pc[t].at = "done") =>
          {o \in Objects : object[o] # "free"} \subseteq {slot[s] : s \in Slots}
    BY DEF Reachable
  <2> QED
    BY <2>1, <2>2, <2>3, <2>4 DEF OneLock
<1> QED
  BY <1>1, InvariantIInv, PTL

=============================================================================
