--------------------------- MODULE FrameworkProofs ---------------------------
(***************************************************************************)
(* Proofs about TaskSelector, for every set of tasks and every finite set  *)
(* of instances, and about Framework, which uses it, for every start list, *)
(* every set of addresses and of commands and any number of messages and   *)
(* commands.                                                               *)
(***************************************************************************)
EXTENDS Framework, FiniteSetTheorems, TLAPS

-----------------------------------------------------------------------------
(* The selector: the inductive invariant.                                  *)

\* The functions and records the tables are made of.
Tables ==
    /\ DOMAIN mTaskList \subseteq Task
    /\ mTaskList \in [DOMAIN mTaskList -> [inst : Seq(Inst), instpos : Nat]]
    /\ DOMAIN mInstList \subseteq Inst
    /\ mInstList \in [DOMAIN mInstList -> [taskid : Task, shuttingDown : BOOLEAN]]
    /\ waited \in [Inst -> Nat]

\* No instance is twice on the list of a task.
Distinct(s) == \A p, q \in 1 .. Len(s) : s[p] = s[q] => p = q

\* ListsAgree without cardinalities.
Agreement ==
    /\ \A i \in DOMAIN mInstList : exists(mInstList[i].taskid)
    /\ \A t \in DOMAIN mTaskList :
          /\ Distinct(mTaskList[t].inst)
          /\ \A p \in 1 .. Len(mTaskList[t].inst) :
                LET i == mTaskList[t].inst[p]
                IN  i \in DOMAIN mInstList /\ mInstList[i].taskid = t
          /\ \A i \in DOMAIN mInstList : mInstList[i].taskid = t =>
                \E p \in 1 .. Len(mTaskList[t].inst) : mTaskList[t].inst[p] = i

\* How far the turn is past the place p, counted from 0.
Behind(ts, p) ==
    IF ts.instpos >= Len(ts.inst) THEN 0
    ELSE IF ts.instpos >= p THEN ts.instpos - p ELSE ts.instpos - p + Len(ts.inst)

\* An available instance has waited no longer than the turn is past it.
Turns ==
    \A t \in DOMAIN mTaskList : \A p \in 1 .. Len(mTaskList[t].inst) :
        Available(mTaskList[t].inst[p]) =>
            waited[mTaskList[t].inst[p]] <= Behind(mTaskList[t], p - 1)

\* The bounds of SelectorTypeOK.
Bounds ==
    /\ \A t \in DOMAIN mTaskList : mTaskList[t].instpos < Cardinality(Inst)
    /\ \A i \in Inst : waited[i] <= Cardinality(Inst)

\* What the outcome says, in terms of the tables.
OutcomeOK ==
    outcome # NoOutcome =>
        /\ outcome \in [msg : Address, reached : SUBSET Inst,
                        accepted : BOOLEAN, deleted : {0, 1}]
        /\ RefusedOnlyWhenNoneLeft
        /\ MulticastMissesFirstOnly

SelectorIInv == Tables /\ Agreement /\ Turns /\ Bounds /\ OutcomeOK

-----------------------------------------------------------------------------
(* The selector: lists.                                                    *)

\* The elements of a list are its places' entries.
LEMMA RangeOfList ==
    ASSUME NEW s \in Seq(Inst)
    PROVE  Range(s) = {s[p] : p \in 1 .. Len(s)}
BY DEF Range

\* A list without repetition has as many elements as places, and no more
\* than there are instances.
LEMMA LengthOfList ==
    ASSUME NEW s \in Seq(Inst), Distinct(s)
    PROVE  /\ Cardinality(Range(s)) = Len(s)
           /\ Len(s) <= Cardinality(Inst)
           /\ Cardinality(Inst) \in Nat
<1>1. /\ Len(s) \in Nat /\ DOMAIN s = 1 .. Len(s)
      /\ s \in [1 .. Len(s) -> Inst]
    OBVIOUS
<1>2. Range(s) = {s[p] : p \in 1 .. Len(s)} /\ Range(s) \subseteq Inst
    BY <1>1 DEF Range
<1>3. s \in [1 .. Len(s) -> Range(s)]
    BY <1>1, <1>2
<1>4. \A p, q \in 1 .. Len(s) : s[p] = s[q] => p = q
    BY DEF Distinct
<1>5. s \in Bijection(1 .. Len(s), Range(s))
    BY <1>1, <1>2, <1>3, <1>4 DEF Bijection, Injection, Surjection, IsInjective
<1>6. Cardinality(Range(s)) = Len(s)
    BY <1>1, <1>5, FS_CountingElements DEF ExistsBijection
<1>7. Cardinality(Range(s)) <= Cardinality(Inst) /\ Cardinality(Inst) \in Nat
    BY <1>2, FS_Subset, FS_CardinalityType, SelectorAssumption
<1> QED BY <1>6, <1>7

\* Removing the instance at the place p.
LEMMA RemovedAt ==
    ASSUME NEW s \in Seq(Inst), Distinct(s), NEW p \in 1 .. Len(s)
    PROVE  /\ Removed(s, s[p]) \in Seq(Inst)
           /\ Len(Removed(s, s[p])) = Len(s) - 1
           /\ \A q \in 1 .. Len(s) - 1 :
                 Removed(s, s[p])[q] = IF q < p THEN s[q] ELSE s[q + 1]
<1>1. Len(s) \in Nat /\ DOMAIN s = 1 .. Len(s) /\ s \in [1 .. Len(s) -> Inst]
    OBVIOUS
<1>2. (CHOOSE q \in DOMAIN s : s[q] = s[p]) = p
    BY <1>1 DEF Distinct
<1>3. Removed(s, s[p]) = [q \in 1 .. Len(s) - 1 |-> IF q < p THEN s[q] ELSE s[q + 1]]
    BY <1>2 DEF Removed
<1>4. \A q \in 1 .. Len(s) - 1 : (IF q < p THEN s[q] ELSE s[q + 1]) \in Inst
    BY <1>1
<1>5. Len(s) - 1 \in Nat
    BY <1>1
<1>6. Removed(s, s[p]) \in [1 .. Len(s) - 1 -> Inst]
    BY <1>3, <1>4
<1>7. Removed(s, s[p]) \in Seq(Inst) /\ Len(Removed(s, s[p])) = Len(s) - 1
    BY <1>5, <1>6
<1> QED BY <1>3, <1>7

\* It removes that one and keeps the others, still without repetition.
LEMMA RemovedKeeps ==
    ASSUME NEW s \in Seq(Inst), Distinct(s), NEW p \in 1 .. Len(s)
    PROVE  /\ Distinct(Removed(s, s[p]))
           /\ \A q \in 1 .. Len(s) - 1 : \E r \in 1 .. Len(s) :
                 r # p /\ Removed(s, s[p])[q] = s[r]
           /\ \A r \in 1 .. Len(s) : r # p =>
                 \E q \in 1 .. Len(s) - 1 : Removed(s, s[p])[q] = s[r]
<1> DEFINE u == Removed(s, s[p])
<1>1. Len(s) \in Nat /\ Len(u) = Len(s) - 1 /\ u \in Seq(Inst)
    BY RemovedAt
<1>2. \A q \in 1 .. Len(s) - 1 : u[q] = IF q < p THEN s[q] ELSE s[q + 1]
    BY RemovedAt
<1> HIDE DEF u
<1>3. Distinct(u)
    BY <1>1, <1>2, SMTT(30) DEF Distinct
<1>4. \A q \in 1 .. Len(s) - 1 : \E r \in 1 .. Len(s) : r # p /\ u[q] = s[r]
  <2> SUFFICES ASSUME NEW q \in 1 .. Len(s) - 1
               PROVE  \E r \in 1 .. Len(s) : r # p /\ u[q] = s[r]
      OBVIOUS
  <2>1. CASE q < p
      BY <1>1, <1>2, <2>1
  <2>2. CASE ~(q < p)
    <3>1. q + 1 \in 1 .. Len(s) /\ q + 1 # p /\ u[q] = s[q + 1]
        BY <1>1, <1>2, <2>2
    <3> QED BY <3>1
  <2> QED BY <2>1, <2>2
<1>5. \A r \in 1 .. Len(s) : r # p => \E q \in 1 .. Len(s) - 1 : u[q] = s[r]
  <2> SUFFICES ASSUME NEW r \in 1 .. Len(s), r # p
               PROVE  \E q \in 1 .. Len(s) - 1 : u[q] = s[r]
      OBVIOUS
  <2>1. CASE r < p
      BY <1>1, <1>2, <2>1
  <2>2. CASE ~(r < p)
    <3>1. r - 1 \in 1 .. Len(s) - 1 /\ ~(r - 1 < p) /\ (r - 1) + 1 = r
        BY <1>1, <2>2
    <3> QED BY <1>2, <3>1
  <2> QED BY <2>1, <2>2
<1> QED BY <1>3, <1>4, <1>5 DEF u

-----------------------------------------------------------------------------
(* The selector: the search by turns.                                      *)

\* Where a search of a list of n places begins.
First(ts) == IF ts.instpos + 1 >= Len(ts.inst) THEN 0 ELSE ts.instpos + 1

\* A sum of two places wraps at most once.
LEMMA Wrap ==
    ASSUME NEW n \in Nat \ {0}, NEW a \in 0 .. 2 * n - 1
    PROVE  a % n = IF a < n THEN a ELSE a - n
<1>1. CASE a < n
    BY <1>1
<1>2. CASE a >= n
  <2>1. a = 1 * n + (a - n) /\ a - n \in 0 .. n - 1
      BY <1>2
  <2> QED BY <1>2, <2>1
<1> QED BY <1>1, <1>2

\* The place of the k-th try.
LEMMA PositionOfTry ==
    ASSUME NEW ts \in [inst : Seq(Inst), instpos : Nat], NEW k \in 1 .. Len(ts.inst)
    PROVE  /\ First(ts) \in 0 .. Len(ts.inst) - 1
           /\ Position(ts, k) = IF First(ts) + k - 1 < Len(ts.inst)
                                THEN First(ts) + k - 1
                                ELSE First(ts) + k - 1 - Len(ts.inst)
           /\ Position(ts, k) \in 0 .. Len(ts.inst) - 1
<1>1. ts.instpos \in Nat /\ Len(ts.inst) \in Nat /\ Len(ts.inst) >= 1
    OBVIOUS
<1>2. First(ts) \in 0 .. Len(ts.inst) - 1
    BY <1>1 DEF First
<1>3. First(ts) + k - 1 \in 0 .. 2 * Len(ts.inst) - 1 /\ Len(ts.inst) \in Nat \ {0}
    BY <1>1, <1>2
<1>4. Position(ts, k) = (First(ts) + k - 1) % Len(ts.inst)
    BY DEF Position, First
<1>5. Position(ts, k) = IF First(ts) + k - 1 < Len(ts.inst)
                        THEN First(ts) + k - 1
                        ELSE First(ts) + k - 1 - Len(ts.inst)
  <2> DEFINE a == First(ts) + k - 1
             n == Len(ts.inst)
  <2>1. a \in 0 .. 2 * n - 1 /\ n \in Nat \ {0}
      BY <1>3
  <2>2. a % n = IF a < n THEN a ELSE a - n
    <3> HIDE DEF a, n
    <3> QED BY <2>1, Wrap
  <2>3. Position(ts, k) = a % n
      BY <1>4
  <2>4. Position(ts, k) = IF a < n THEN a ELSE a - n
    <3> HIDE DEF a, n
    <3> QED BY <2>2, <2>3
  <2> QED BY <1>1, <1>2, <2>4
<1> QED BY <1>1, <1>2, <1>5

\* Every place is tried.
LEMMA EveryPlaceTried ==
    ASSUME NEW ts \in [inst : Seq(Inst), instpos : Nat], NEW p \in 1 .. Len(ts.inst)
    PROVE  \E k \in 1 .. Len(ts.inst) : Position(ts, k) + 1 = p
<1> DEFINE n == Len(ts.inst)
           k == IF p - 1 >= First(ts) THEN p - First(ts) ELSE p - First(ts) + n
<1>1. n \in Nat /\ p \in 1 .. n
    OBVIOUS
<1>2. First(ts) \in 0 .. n - 1
    BY PositionOfTry
<1>3. k \in 1 .. n
    BY <1>1, <1>2
<1>4. Position(ts, k) = IF First(ts) + k - 1 < n THEN First(ts) + k - 1
                        ELSE First(ts) + k - 1 - n
    BY <1>3, PositionOfTry
<1>5. Position(ts, k) + 1 = p
    BY <1>1, <1>2, <1>4
<1> QED BY <1>3, <1>5

\* A turn that goes to the k-th try falls further behind every place that
\* would have been tried later.
LEMMA LaterPlacesWait ==
    ASSUME NEW ts \in [inst : Seq(Inst), instpos : Nat],
           NEW k \in 1 .. Len(ts.inst), NEW l \in 1 .. Len(ts.inst), k < l
    PROVE  Behind(ts, Position(ts, l)) + 1
              <= Behind([ts EXCEPT !.instpos = Position(ts, k)], Position(ts, l))
<1> DEFINE n == Len(ts.inst)
           at == Position(ts, k)
           p == Position(ts, l)
           us == [ts EXCEPT !.instpos = at]
<1>1. n \in Nat /\ ts.instpos \in Nat
    OBVIOUS
<1>2. /\ First(ts) \in 0 .. n - 1
      /\ at = IF First(ts) + k - 1 < n THEN First(ts) + k - 1 ELSE First(ts) + k - 1 - n
      /\ p = IF First(ts) + l - 1 < n THEN First(ts) + l - 1 ELSE First(ts) + l - 1 - n
      /\ at \in 0 .. n - 1 /\ p \in 0 .. n - 1
    BY PositionOfTry
<1>3. us.instpos = at /\ us.inst = ts.inst
    OBVIOUS
<1>4. Behind(us, p) = IF at >= p THEN at - p ELSE at - p + n
    BY <1>1, <1>2, <1>3 DEF Behind
<1>5. First(ts) = IF ts.instpos + 1 >= n THEN 0 ELSE ts.instpos + 1
    BY DEF First
<1>6. Behind(ts, p) = IF ts.instpos >= n THEN 0
                      ELSE IF ts.instpos >= p THEN ts.instpos - p ELSE ts.instpos - p + n
    BY DEF Behind
<1>7. k \in 1 .. n /\ l \in 1 .. n /\ k < l
    OBVIOUS
<1> DEFINE pos == ts.instpos
           first == First(ts)
<1>8. /\ n \in Nat /\ pos \in Nat /\ first \in 0 .. n - 1
      /\ first = IF pos + 1 >= n THEN 0 ELSE pos + 1
      /\ at = IF first + k - 1 < n THEN first + k - 1 ELSE first + k - 1 - n
      /\ p = IF first + l - 1 < n THEN first + l - 1 ELSE first + l - 1 - n
      /\ at \in 0 .. n - 1 /\ p \in 0 .. n - 1
    BY <1>1, <1>2, <1>5
<1>9. (IF pos >= n THEN 0 ELSE IF pos >= p THEN pos - p ELSE pos - p + n) + 1
         <= (IF at >= p THEN at - p ELSE at - p + n)
  <2> HIDE DEF n, at, p, us, pos, first
  <2>1. CASE pos + 1 >= n
      BY <1>7, <1>8, <2>1
  <2>2. CASE ~(pos + 1 >= n)
      BY <1>7, <1>8, <2>2
  <2> QED BY <2>1, <2>2
<1> QED BY <1>4, <1>6, <1>9

-----------------------------------------------------------------------------
(* The selector: the steps.                                                *)

\* How far a turn can be past a place.
LEMMA BehindBound ==
    ASSUME NEW ts \in [inst : Seq(Inst), instpos : Nat],
           NEW p \in 0 .. Len(ts.inst) - 1
    PROVE  Behind(ts, p) \in 0 .. Len(ts.inst) - 1
<1>1. Len(ts.inst) \in Nat /\ ts.instpos \in Nat /\ p \in 0 .. Len(ts.inst) - 1
    OBVIOUS
<1> QED BY <1>1 DEF Behind

\* The tables of a task and of its instances, for use in the steps.
LEMMA OfTask ==
    ASSUME Tables, Agreement, NEW t \in DOMAIN mTaskList
    PROVE  LET s == mTaskList[t].inst IN
           /\ mTaskList[t] \in [inst : Seq(Inst), instpos : Nat]
           /\ s \in Seq(Inst) /\ Len(s) \in Nat /\ DOMAIN s = 1 .. Len(s)
           /\ Distinct(s)
           /\ Listed(t) = {s[p] : p \in 1 .. Len(s)}
           /\ \A p \in 1 .. Len(s) :
                 s[p] \in Inst /\ s[p] \in DOMAIN mInstList /\ mInstList[s[p]].taskid = t
           /\ Listed(t) = {i \in DOMAIN mInstList : mInstList[i].taskid = t}
<1> DEFINE s == mTaskList[t].inst
<1>1. mTaskList[t] \in [inst : Seq(Inst), instpos : Nat]
    BY DEF Tables
<1>2. s \in Seq(Inst) /\ Len(s) \in Nat /\ DOMAIN s = 1 .. Len(s)
    BY <1>1
<1>3. \A p \in 1 .. Len(s) : s[p] \in Inst
    BY <1>2
<1>4. Distinct(s) /\ \A p \in 1 .. Len(s) :
                        s[p] \in DOMAIN mInstList /\ mInstList[s[p]].taskid = t
    BY DEF Agreement
<1>5. Listed(t) = {s[p] : p \in 1 .. Len(s)}
    BY <1>2 DEF Listed, Range
<1>6. Listed(t) = {i \in DOMAIN mInstList : mInstList[i].taskid = t}
    BY <1>4, <1>5 DEF Agreement
<1> QED BY <1>1, <1>2, <1>3, <1>4, <1>5, <1>6

\* A new instance of a registered task.
LEMMA RegisterMore ==
    ASSUME SelectorIInv, NEW t \in Task, NEW i \in Inst, RegisterTask(t, i), exists(t)
    PROVE  Tables' /\ Agreement' /\ Turns' /\ Bounds'
<1> DEFINE s == mTaskList[t].inst
<1>1. /\ mTaskList[t] \in [inst : Seq(Inst), instpos : Nat]
      /\ s \in Seq(Inst) /\ Len(s) \in Nat
      /\ \A p \in 1 .. Len(s) :
            s[p] \in Inst /\ s[p] \in DOMAIN mInstList /\ mInstList[s[p]].taskid = t
      /\ Distinct(s)
    BY OfTask DEF SelectorIInv, exists
<1>2. /\ i \notin DOMAIN mInstList
      /\ mInstList' = With(mInstList, i, [taskid |-> t, shuttingDown |-> FALSE])
      /\ mTaskList' = [mTaskList EXCEPT ![t].inst = Append(s, i)]
      /\ waited' = [waited EXCEPT ![i] = 0]
    BY DEF RegisterTask
<1>3. /\ Append(s, i) \in Seq(Inst) /\ Len(Append(s, i)) = Len(s) + 1
      /\ Append(s, i)[Len(s) + 1] = i
      /\ \A p \in 1 .. Len(s) : Append(s, i)[p] = s[p]
    BY <1>1
<1>4. /\ DOMAIN mTaskList' = DOMAIN mTaskList
      /\ mTaskList'[t] = [inst |-> Append(s, i), instpos |-> mTaskList[t].instpos]
      /\ \A u \in DOMAIN mTaskList : u # t => mTaskList'[u] = mTaskList[u]
    BY <1>1, <1>2 DEF exists, Tables, SelectorIInv
<1>5. /\ DOMAIN mInstList' = DOMAIN mInstList \union {i}
      /\ mInstList'[i] = [taskid |-> t, shuttingDown |-> FALSE]
      /\ \A j \in DOMAIN mInstList : mInstList'[j] = mInstList[j]
    BY <1>2 DEF With
<1>6. /\ waited'[i] = 0 /\ waited' \in [Inst -> Nat] /\ waited \in [Inst -> Nat]
      /\ \A j \in Inst : j # i => waited'[j] = waited[j]
    BY <1>2 DEF Tables, SelectorIInv
<1>7. Tables'
  <2>1. mTaskList'[t] \in [inst : Seq(Inst), instpos : Nat]
      BY <1>1, <1>3, <1>4
  <2>2. \A u \in DOMAIN mTaskList : mTaskList'[u] \in [inst : Seq(Inst), instpos : Nat]
      BY <2>1, <1>4 DEF Tables, SelectorIInv
  <2>3. mTaskList' = [u \in DOMAIN mTaskList |-> mTaskList'[u]]
      BY <1>2 DEF Tables, SelectorIInv
  <2>4. mInstList' = [j \in DOMAIN mInstList' |-> mInstList'[j]]
      BY <1>2 DEF With
  <2>5. \A j \in DOMAIN mInstList' :
            mInstList'[j] \in [taskid : Task, shuttingDown : BOOLEAN]
    <3>1. \A j \in DOMAIN mInstList :
              mInstList'[j] \in [taskid : Task, shuttingDown : BOOLEAN]
        BY <1>5 DEF Tables, SelectorIInv
    <3>2. mInstList'[i] \in [taskid : Task, shuttingDown : BOOLEAN]
        BY <1>5
    <3> QED BY <3>1, <3>2, <1>5
  <2>6. DOMAIN mTaskList' \subseteq Task /\ DOMAIN mInstList' \subseteq Inst
      BY <1>4, <1>5 DEF Tables, SelectorIInv
  <2>7. mTaskList' \in [DOMAIN mTaskList' -> [inst : Seq(Inst), instpos : Nat]]
      BY <2>2, <2>3, <1>4
  <2>8. mInstList' \in [DOMAIN mInstList' -> [taskid : Task, shuttingDown : BOOLEAN]]
      BY <2>4, <2>5
  <2> QED BY <2>6, <2>7, <2>8, <1>6 DEF Tables
<1>8. Agreement'
  <2>1. \A j \in DOMAIN mInstList' : mInstList'[j].taskid \in DOMAIN mTaskList'
      BY <1>4, <1>5 DEF Agreement, SelectorIInv, exists
  <2>2. Distinct(Append(s, i))
      BY <1>1, <1>2, <1>3 DEF Distinct
  <2>3. ASSUME NEW u \in DOMAIN mTaskList'
        PROVE  /\ Distinct(mTaskList'[u].inst)
               /\ \A p \in 1 .. Len(mTaskList'[u].inst) :
                     /\ mTaskList'[u].inst[p] \in DOMAIN mInstList'
                     /\ mInstList'[mTaskList'[u].inst[p]].taskid = u
               /\ \A j \in DOMAIN mInstList' : mInstList'[j].taskid = u =>
                     \E p \in 1 .. Len(mTaskList'[u].inst) : mTaskList'[u].inst[p] = j
    <3>1. CASE u = t
      <4>1. \A p \in 1 .. Len(s) + 1 :
                /\ Append(s, i)[p] \in DOMAIN mInstList'
                /\ mInstList'[Append(s, i)[p]].taskid = t
          BY <1>1, <1>3, <1>5
      <4>2. \A j \in DOMAIN mInstList' : mInstList'[j].taskid = t =>
                \E p \in 1 .. Len(s) + 1 : Append(s, i)[p] = j
        <5> SUFFICES ASSUME NEW j \in DOMAIN mInstList', mInstList'[j].taskid = t
                     PROVE  \E p \in 1 .. Len(s) + 1 : Append(s, i)[p] = j
            OBVIOUS
        <5>1. CASE j = i
            BY <5>1, <1>1, <1>3
        <5>2. CASE j # i
          <6>1. j \in DOMAIN mInstList /\ mInstList[j].taskid = t
              BY <5>2, <1>5
          <6>2. PICK p \in 1 .. Len(s) : s[p] = j
              BY <6>1 DEF Agreement, SelectorIInv, exists
          <6> QED BY <6>2, <1>1, <1>3
        <5> QED BY <5>1, <5>2
      <4> QED BY <3>1, <4>1, <4>2, <2>2, <1>3, <1>4
    <3>2. CASE u # t
      <4>1. u \in DOMAIN mTaskList /\ mTaskList'[u] = mTaskList[u]
          BY <3>2, <1>4
      <4>2. /\ Distinct(mTaskList[u].inst)
            /\ \A p \in 1 .. Len(mTaskList[u].inst) :
                  /\ mTaskList[u].inst[p] \in DOMAIN mInstList
                  /\ mInstList[mTaskList[u].inst[p]].taskid = u
            /\ \A j \in DOMAIN mInstList : mInstList[j].taskid = u =>
                  \E p \in 1 .. Len(mTaskList[u].inst) : mTaskList[u].inst[p] = j
          BY <4>1 DEF Agreement, SelectorIInv
      <4>3. \A j \in DOMAIN mInstList' : mInstList'[j].taskid = u => j \in DOMAIN mInstList
          BY <3>2, <1>5
      <4> QED BY <4>1, <4>2, <4>3, <1>5
    <3> QED BY <3>1, <3>2
  <2> QED BY <2>1, <2>3 DEF Agreement, exists
<1>9. Turns'
  <2> SUFFICES ASSUME NEW u \in DOMAIN mTaskList', NEW p \in 1 .. Len(mTaskList'[u].inst),
                      Available(mTaskList[u].inst[p])'
               PROVE  waited'[mTaskList'[u].inst[p]] <= Behind(mTaskList'[u], p - 1)
      BY DEF Turns
  <2>1. CASE u # t
    <3>1. /\ mTaskList'[u] = mTaskList[u] /\ u \in DOMAIN mTaskList
          /\ mTaskList[u].inst[p] \in DOMAIN mInstList /\ mTaskList[u].inst[p] # i
          /\ mTaskList[u].inst[p] \in Inst
        BY <2>1, <1>2, <1>4 DEF Agreement, Tables, SelectorIInv
    <3>2. Available(mTaskList[u].inst[p])
        BY <3>1, <1>5 DEF Available
    <3>3. waited[mTaskList[u].inst[p]] <= Behind(mTaskList[u], p - 1)
        BY <3>1, <3>2 DEF Turns, SelectorIInv
    <3> QED BY <3>1, <3>3, <1>6
  <2>2. CASE u = t /\ p \in 1 .. Len(s)
    <3>1. /\ s[p] \in DOMAIN mInstList /\ s[p] # i /\ s[p] \in Inst
          /\ mTaskList'[u].inst[p] = s[p]
        BY <2>2, <1>1, <1>2, <1>3, <1>4
    <3>2. Available(s[p])
        BY <3>1, <1>5 DEF Available
    <3>3. waited[s[p]] <= Behind(mTaskList[t], p - 1)
        BY <3>2, <2>2 DEF Turns, SelectorIInv, exists
    <3>4. Behind(mTaskList[t], p - 1) <= Behind(mTaskList'[t], p - 1)
        BY <2>2, <1>1, <1>3, <1>4 DEF Behind
    <3>5. waited'[s[p]] = waited[s[p]] /\ waited[s[p]] \in Nat
        BY <3>1, <1>6
    <3>6. Behind(mTaskList[t], p - 1) \in Int /\ Behind(mTaskList'[t], p - 1) \in Int
        BY <2>2, <1>1, <1>3, <1>4 DEF Behind
    <3> QED BY <2>2, <3>1, <3>3, <3>4, <3>5, <3>6
  <2>3. CASE u = t /\ p = Len(s) + 1
    <3>1. waited'[mTaskList'[u].inst[p]] = 0
        BY <2>3, <1>3, <1>4, <1>6
    <3>2. 0 <= Behind(mTaskList'[t], p - 1)
        BY <2>3, <1>1, <1>3, <1>4 DEF Behind
    <3> QED BY <2>3, <3>1, <3>2
  <2> QED BY <2>1, <2>2, <2>3, <1>1, <1>3, <1>4
<1>10. Bounds'
  <2>1. Cardinality(Inst) \in Nat
      BY FS_CardinalityType, SelectorAssumption
  <2>2. \A u \in DOMAIN mTaskList' : mTaskList'[u].instpos = mTaskList[u].instpos
      BY <1>4
  <2>3. \A u \in DOMAIN mTaskList' : mTaskList'[u].instpos < Cardinality(Inst)
      BY <2>2, <1>4 DEF Bounds, SelectorIInv
  <2>4. \A j \in Inst : waited'[j] <= Cardinality(Inst)
    <3>1. \A j \in Inst : waited[j] <= Cardinality(Inst)
        BY DEF Bounds, SelectorIInv
    <3> QED BY <2>1, <3>1, <1>6
  <2> QED BY <2>3, <2>4 DEF Bounds
<1> QED BY <1>7, <1>8, <1>9, <1>10

\* The first instance of a task.
LEMMA RegisterFirst ==
    ASSUME SelectorIInv, NEW t \in Task, NEW i \in Inst, RegisterTask(t, i), ~exists(t)
    PROVE  Tables' /\ Agreement' /\ Turns' /\ Bounds'
<1>1. /\ i \notin DOMAIN mInstList /\ t \notin DOMAIN mTaskList
      /\ mInstList' = With(mInstList, i, [taskid |-> t, shuttingDown |-> FALSE])
      /\ mTaskList' = With(mTaskList, t, [inst |-> <<i>>, instpos |-> 0])
      /\ waited' = [waited EXCEPT ![i] = 0]
    BY DEF RegisterTask, exists
<1>2. /\ DOMAIN mTaskList' = DOMAIN mTaskList \union {t}
      /\ mTaskList'[t] = [inst |-> <<i>>, instpos |-> 0]
      /\ \A u \in DOMAIN mTaskList : u # t /\ mTaskList'[u] = mTaskList[u]
      /\ mTaskList' = [u \in DOMAIN mTaskList' |-> mTaskList'[u]]
    BY <1>1 DEF With
<1>3. /\ DOMAIN mInstList' = DOMAIN mInstList \union {i}
      /\ mInstList'[i] = [taskid |-> t, shuttingDown |-> FALSE]
      /\ \A j \in DOMAIN mInstList : j # i /\ mInstList'[j] = mInstList[j]
      /\ mInstList' = [j \in DOMAIN mInstList' |-> mInstList'[j]]
    BY <1>1 DEF With
<1>4. /\ waited'[i] = 0 /\ waited' \in [Inst -> Nat]
      /\ \A j \in Inst : j # i => waited'[j] = waited[j]
    BY <1>1 DEF Tables, SelectorIInv
<1>5. <<i>> \in Seq(Inst) /\ Len(<<i>>) = 1 /\ <<i>>[1] = i
    OBVIOUS
<1>6. Tables'
  <2>1. \A u \in DOMAIN mTaskList' : mTaskList'[u] \in [inst : Seq(Inst), instpos : Nat]
    <3>1. \A u \in DOMAIN mTaskList : mTaskList'[u] \in [inst : Seq(Inst), instpos : Nat]
        BY <1>2 DEF Tables, SelectorIInv
    <3>2. mTaskList'[t] \in [inst : Seq(Inst), instpos : Nat]
        BY <1>2, <1>5
    <3> QED BY <3>1, <3>2, <1>2
  <2>2. \A j \in DOMAIN mInstList' :
            mInstList'[j] \in [taskid : Task, shuttingDown : BOOLEAN]
    <3>1. \A j \in DOMAIN mInstList :
              mInstList'[j] \in [taskid : Task, shuttingDown : BOOLEAN]
        BY <1>3 DEF Tables, SelectorIInv
    <3>2. mInstList'[i] \in [taskid : Task, shuttingDown : BOOLEAN]
        BY <1>3
    <3> QED BY <3>1, <3>2, <1>3
  <2>3. DOMAIN mTaskList' \subseteq Task /\ DOMAIN mInstList' \subseteq Inst
      BY <1>2, <1>3 DEF Tables, SelectorIInv
  <2>4. mTaskList' \in [DOMAIN mTaskList' -> [inst : Seq(Inst), instpos : Nat]]
      BY <2>1, <1>2
  <2>5. mInstList' \in [DOMAIN mInstList' -> [taskid : Task, shuttingDown : BOOLEAN]]
      BY <2>2, <1>3
  <2> QED BY <2>3, <2>4, <2>5, <1>4 DEF Tables
<1>7. Agreement'
  <2>1. \A j \in DOMAIN mInstList' : mInstList'[j].taskid \in DOMAIN mTaskList'
      BY <1>2, <1>3 DEF Agreement, SelectorIInv, exists
  <2>2. ASSUME NEW u \in DOMAIN mTaskList'
        PROVE  /\ Distinct(mTaskList'[u].inst)
               /\ \A p \in 1 .. Len(mTaskList'[u].inst) :
                     /\ mTaskList'[u].inst[p] \in DOMAIN mInstList'
                     /\ mInstList'[mTaskList'[u].inst[p]].taskid = u
               /\ \A j \in DOMAIN mInstList' : mInstList'[j].taskid = u =>
                     \E p \in 1 .. Len(mTaskList'[u].inst) : mTaskList'[u].inst[p] = j
    <3>1. CASE u = t
      <4>1. Distinct(<<i>>)
          BY <1>5 DEF Distinct
      <4>2. \A j \in DOMAIN mInstList : mInstList[j].taskid # t
          BY <1>1 DEF Agreement, SelectorIInv, exists
      <4>3. \A j \in DOMAIN mInstList' : mInstList'[j].taskid = t => j = i
          BY <4>2, <1>3
      <4> QED BY <3>1, <4>1, <4>3, <1>2, <1>3, <1>5
    <3>2. CASE u # t
      <4>1. u \in DOMAIN mTaskList /\ mTaskList'[u] = mTaskList[u]
          BY <3>2, <1>2
      <4>2. /\ Distinct(mTaskList[u].inst)
            /\ \A p \in 1 .. Len(mTaskList[u].inst) :
                  /\ mTaskList[u].inst[p] \in DOMAIN mInstList
                  /\ mInstList[mTaskList[u].inst[p]].taskid = u
            /\ \A j \in DOMAIN mInstList : mInstList[j].taskid = u =>
                  \E p \in 1 .. Len(mTaskList[u].inst) : mTaskList[u].inst[p] = j
          BY <4>1 DEF Agreement, SelectorIInv
      <4>3. \A j \in DOMAIN mInstList' : mInstList'[j].taskid = u => j \in DOMAIN mInstList
          BY <3>2, <1>3
      <4> QED BY <4>1, <4>2, <4>3, <1>3
    <3> QED BY <3>1, <3>2
  <2> QED BY <2>1, <2>2 DEF Agreement, exists
<1>8. Turns'
  <2> SUFFICES ASSUME NEW u \in DOMAIN mTaskList', NEW p \in 1 .. Len(mTaskList'[u].inst),
                      Available(mTaskList[u].inst[p])'
               PROVE  waited'[mTaskList'[u].inst[p]] <= Behind(mTaskList'[u], p - 1)
      BY DEF Turns
  <2>1. CASE u # t
    <3>1. /\ mTaskList'[u] = mTaskList[u] /\ u \in DOMAIN mTaskList
          /\ mTaskList[u].inst[p] \in DOMAIN mInstList /\ mTaskList[u].inst[p] # i
          /\ mTaskList[u].inst[p] \in Inst
        BY <2>1, <1>1, <1>2 DEF Agreement, Tables, SelectorIInv
    <3>2. Available(mTaskList[u].inst[p])
        BY <3>1, <1>3 DEF Available
    <3>3. waited[mTaskList[u].inst[p]] <= Behind(mTaskList[u], p - 1)
        BY <3>1, <3>2 DEF Turns, SelectorIInv
    <3> QED BY <3>1, <3>3, <1>4
  <2>2. CASE u = t
    <3>1. p = 1 /\ mTaskList'[u].inst[p] = i
        BY <2>2, <1>2, <1>5
    <3>2. 0 <= Behind(mTaskList'[t], 0)
        BY <1>2, <1>5 DEF Behind
    <3> QED BY <2>2, <3>1, <3>2, <1>4
  <2> QED BY <2>1, <2>2
<1>9. Bounds'
  <2>1. Cardinality(Inst) \in Nat /\ Cardinality(Inst) >= 1
    <3>1. Distinct(<<i>>)
        BY <1>5 DEF Distinct
    <3> QED BY <3>1, <1>5, LengthOfList
  <2>2. \A u \in DOMAIN mTaskList' : mTaskList'[u].instpos < Cardinality(Inst)
      BY <2>1, <1>2 DEF Bounds, SelectorIInv
  <2>3. \A j \in Inst : waited'[j] <= Cardinality(Inst)
    <3>1. \A j \in Inst : waited[j] <= Cardinality(Inst)
        BY DEF Bounds, SelectorIInv
    <3> QED BY <2>1, <3>1, <1>4
  <2> QED BY <2>2, <2>3 DEF Bounds
<1> QED BY <1>6, <1>7, <1>8, <1>9

\* Instances are marked as shutting down.
LEMMA ShutdownKeeps ==
    ASSUME SelectorIInv, NEW S, Shutdown(S), UNCHANGED <<mTaskList, waited>>
    PROVE  Tables' /\ Agreement' /\ Turns' /\ Bounds'
<1>1. /\ DOMAIN mInstList' = DOMAIN mInstList
      /\ mInstList' \in [DOMAIN mInstList' -> [taskid : Task, shuttingDown : BOOLEAN]]
      /\ \A j \in DOMAIN mInstList : mInstList'[j].taskid = mInstList[j].taskid
      /\ \A j \in DOMAIN mInstList :
            mInstList[j].shuttingDown => mInstList'[j].shuttingDown
    BY DEF Shutdown, Tables, SelectorIInv
<1>2. mTaskList' = mTaskList /\ waited' = waited
    OBVIOUS
<1>3. Tables' /\ Bounds'
    BY <1>1, <1>2 DEF Tables, Bounds, SelectorIInv
<1>4. Agreement'
    BY <1>1, <1>2 DEF Agreement, SelectorIInv, exists
<1>5. \A j : Available(j)' => Available(j)
    BY <1>1 DEF Available
<1>6. Turns'
    BY <1>2, <1>5 DEF Turns, SelectorIInv
<1> QED BY <1>3, <1>4, <1>6

\* An instance leaves: the turns of its task start anew.
LEMMA UnregisterInstKeeps ==
    ASSUME SelectorIInv, NEW i \in Inst, UnregisterInst(i)
    PROVE  Tables' /\ Agreement' /\ Turns' /\ Bounds'
<1> DEFINE t == mInstList[i].taskid
           s == mTaskList[t].inst
<1>1. i \in DOMAIN mInstList /\ t \in DOMAIN mTaskList
    BY DEF UnregisterInst, Agreement, SelectorIInv, exists
<1>2. /\ mTaskList[t] \in [inst : Seq(Inst), instpos : Nat]
      /\ s \in Seq(Inst) /\ Len(s) \in Nat /\ Distinct(s)
      /\ Listed(t) = {s[p] : p \in 1 .. Len(s)}
      /\ \A p \in 1 .. Len(s) :
            s[p] \in Inst /\ s[p] \in DOMAIN mInstList /\ mInstList[s[p]].taskid = t
    BY <1>1, OfTask DEF SelectorIInv
<1>3. PICK p \in 1 .. Len(s) : s[p] = i
    BY <1>1 DEF Agreement, SelectorIInv
<1> DEFINE r == Removed(s, i)
<1>4. /\ r \in Seq(Inst) /\ Len(r) = Len(s) - 1 /\ Distinct(r)
      /\ \A q \in 1 .. Len(r) : \E k \in 1 .. Len(s) : k # p /\ r[q] = s[k]
      /\ \A k \in 1 .. Len(s) : k # p => \E q \in 1 .. Len(r) : r[q] = s[k]
  <2>1. r = Removed(s, s[p])
      BY <1>3
  <2>2. s \in Seq(Inst) /\ Distinct(s) /\ p \in 1 .. Len(s)
      BY <1>2
  <2> HIDE DEF s, r
  <2>3. r \in Seq(Inst) /\ Len(r) = Len(s) - 1
      BY <2>1, <2>2, RemovedAt
  <2>4. /\ Distinct(r)
        /\ \A q \in 1 .. Len(s) - 1 : \E k \in 1 .. Len(s) : k # p /\ r[q] = s[k]
        /\ \A k \in 1 .. Len(s) : k # p => \E q \in 1 .. Len(s) - 1 : r[q] = s[k]
      BY <2>1, <2>2, RemovedKeeps, ZenonT(40)
  <2> QED BY <2>3, <2>4
<1> HIDE DEF r
<1>5. ASSUME NEW q \in 1 .. Len(r)
      PROVE  /\ r[q] \in Listed(t) /\ r[q] # i /\ r[q] \in Inst
             /\ r[q] \in DOMAIN mInstList /\ mInstList[r[q]].taskid = t
  <2>1. PICK k \in 1 .. Len(s) : k # p /\ r[q] = s[k]
      BY <1>4
  <2>2. s[k] # i
      BY <1>2, <1>3, <2>1 DEF Distinct
  <2> QED BY <1>2, <2>1, <2>2
<1>6. /\ mTaskList' = [mTaskList EXCEPT ![t].inst = r]
      /\ mInstList' = [j \in DOMAIN mInstList \ {i} |-> mInstList[j]]
      /\ waited' = [j \in Inst |-> IF j \in Listed(t) THEN 0 ELSE waited[j]]
  <2>1. mTaskList' = [mTaskList EXCEPT ![t].inst = r]
      BY DEF UnregisterInst, r
  <2>2. mInstList' = [j \in DOMAIN mInstList \ {i} |-> mInstList[j]]
      BY DEF UnregisterInst, Without, Restrict
  <2>3. waited' = [j \in Inst |-> IF j \in Listed(t) THEN 0 ELSE waited[j]]
      BY DEF UnregisterInst, Restart
  <2> QED BY <2>1, <2>2, <2>3
<1>7. /\ DOMAIN mTaskList' = DOMAIN mTaskList
      /\ mTaskList'[t] = [inst |-> r, instpos |-> mTaskList[t].instpos]
      /\ \A u \in DOMAIN mTaskList : u # t => mTaskList'[u] = mTaskList[u]
      /\ mTaskList' = [u \in DOMAIN mTaskList' |-> mTaskList'[u]]
    BY <1>1, <1>2, <1>6 DEF Tables, SelectorIInv
<1>8. Tables'
  <2>1. mTaskList'[t] \in [inst : Seq(Inst), instpos : Nat]
    <3>1. r \in Seq(Inst)
        BY <1>4
    <3>2. mTaskList[t].instpos \in Nat
        BY <1>2 DEF Tables, SelectorIInv
    <3>3. mTaskList'[t] = [inst |-> r, instpos |-> mTaskList[t].instpos]
        BY <1>7
    <3> QED BY <3>1, <3>2, <3>3
  <2>2. \A u \in DOMAIN mTaskList' : mTaskList'[u] \in [inst : Seq(Inst), instpos : Nat]
      BY <2>1, <1>7 DEF Tables, SelectorIInv
  <2>3. mTaskList' \in [DOMAIN mTaskList' -> [inst : Seq(Inst), instpos : Nat]]
      BY <2>2, <1>7
  <2>4. /\ DOMAIN mInstList' \subseteq Inst
        /\ mInstList' \in [DOMAIN mInstList' -> [taskid : Task, shuttingDown : BOOLEAN]]
      BY <1>6 DEF Tables, SelectorIInv
  <2>5. waited' \in [Inst -> Nat] /\ DOMAIN mTaskList' \subseteq Task
      BY <1>6, <1>7 DEF Tables, SelectorIInv
  <2> QED BY <2>3, <2>4, <2>5 DEF Tables
<1>9. Agreement'
  <2>1. \A j \in DOMAIN mInstList' : mInstList'[j].taskid \in DOMAIN mTaskList'
      BY <1>6, <1>7 DEF Agreement, SelectorIInv, exists
  <2>2. ASSUME NEW u \in DOMAIN mTaskList'
        PROVE  /\ Distinct(mTaskList'[u].inst)
               /\ \A q \in 1 .. Len(mTaskList'[u].inst) :
                     /\ mTaskList'[u].inst[q] \in DOMAIN mInstList'
                     /\ mInstList'[mTaskList'[u].inst[q]].taskid = u
               /\ \A j \in DOMAIN mInstList' : mInstList'[j].taskid = u =>
                     \E q \in 1 .. Len(mTaskList'[u].inst) : mTaskList'[u].inst[q] = j
    <3>1. CASE u = t
      <4>1. \A q \in 1 .. Len(r) : r[q] \in DOMAIN mInstList' /\ mInstList'[r[q]].taskid = t
          BY <1>5, <1>6
      <4>2. \A j \in DOMAIN mInstList' : mInstList'[j].taskid = t =>
                \E q \in 1 .. Len(r) : r[q] = j
        <5> SUFFICES ASSUME NEW j \in DOMAIN mInstList', mInstList'[j].taskid = t
                     PROVE  \E q \in 1 .. Len(r) : r[q] = j
            OBVIOUS
        <5>1. j \in DOMAIN mInstList /\ j # i /\ mInstList[j].taskid = t
            BY <1>6
        <5>2. PICK k \in 1 .. Len(s) : s[k] = j
            BY <5>1, <1>1 DEF Agreement, SelectorIInv
        <5> QED BY <5>1, <5>2, <1>3, <1>4
      <4>3. mTaskList'[u].inst = r
          BY <3>1, <1>7
      <4>4. \A q \in 1 .. Len(r) : r[q] \in DOMAIN mInstList' /\ mInstList'[r[q]].taskid = u
          BY <3>1, <4>1
      <4>5. \A j \in DOMAIN mInstList' : mInstList'[j].taskid = u =>
                \E q \in 1 .. Len(r) : r[q] = j
          BY <3>1, <4>2
      <4> HIDE DEF t
      <4> QED BY <4>3, <4>4, <4>5, <1>4
    <3>2. CASE u # t
      <4>1. u \in DOMAIN mTaskList /\ mTaskList'[u] = mTaskList[u]
          BY <3>2, <1>7
      <4>2. /\ Distinct(mTaskList[u].inst)
            /\ \A q \in 1 .. Len(mTaskList[u].inst) :
                  /\ mTaskList[u].inst[q] \in DOMAIN mInstList
                  /\ mInstList[mTaskList[u].inst[q]].taskid = u
            /\ \A j \in DOMAIN mInstList : mInstList[j].taskid = u =>
                  \E q \in 1 .. Len(mTaskList[u].inst) : mTaskList[u].inst[q] = j
          BY <4>1 DEF Agreement, SelectorIInv
      <4>3. \A j \in DOMAIN mInstList : mInstList[j].taskid = u => j # i
          BY <3>2
      <4> QED BY <4>1, <4>2, <4>3, <1>6
    <3> QED BY <3>1, <3>2
  <2> QED BY <2>1, <2>2 DEF Agreement, exists
<1>10. Turns'
  <2> SUFFICES ASSUME NEW u \in DOMAIN mTaskList', NEW q \in 1 .. Len(mTaskList'[u].inst),
                      Available(mTaskList[u].inst[q])'
               PROVE  waited'[mTaskList'[u].inst[q]] <= Behind(mTaskList'[u], q - 1)
      BY DEF Turns
  <2>1. CASE u # t
    <3>1. /\ mTaskList'[u] = mTaskList[u] /\ u \in DOMAIN mTaskList
          /\ mTaskList[u].inst[q] \in DOMAIN mInstList
          /\ mInstList[mTaskList[u].inst[q]].taskid = u
          /\ mTaskList[u].inst[q] \in Inst
        BY <2>1, <1>7 DEF Agreement, Tables, SelectorIInv
    <3>2. mTaskList[u].inst[q] \notin Listed(t)
        BY <3>1, <2>1, <1>2
    <3>3. Available(mTaskList[u].inst[q])
        BY <3>1, <1>6 DEF Available
    <3>4. waited[mTaskList[u].inst[q]] <= Behind(mTaskList[u], q - 1)
        BY <3>1, <3>3 DEF Turns, SelectorIInv
    <3> QED BY <3>1, <3>2, <3>4, <1>6
  <2>2. CASE u = t
    <3>1. q \in 1 .. Len(r) /\ waited'[r[q]] = 0 /\ mTaskList'[t].inst = r
        BY <2>2, <1>5, <1>6, <1>7
    <3>2. mTaskList'[t] \in [inst : Seq(Inst), instpos : Nat]
        BY <1>8, <1>1, <1>7 DEF Tables
    <3>3. q - 1 \in 0 .. Len(mTaskList'[t].inst) - 1
        BY <3>1, <1>4, SMTT(30)
    <3>4. Behind(mTaskList'[t], q - 1) \in 0 .. Len(mTaskList'[t].inst) - 1
        BY <3>2, <3>3, BehindBound
    <3> QED BY <2>2, <3>1, <3>4
  <2> QED BY <2>1, <2>2
<1>11. Bounds'
  <2>1. Cardinality(Inst) \in Nat
      BY FS_CardinalityType, SelectorAssumption
  <2>2. \A u \in DOMAIN mTaskList' : mTaskList'[u].instpos < Cardinality(Inst)
      BY <1>7 DEF Bounds, SelectorIInv
  <2>3. \A j \in Inst : waited'[j] <= Cardinality(Inst)
      BY <2>1, <1>6 DEF Bounds, SelectorIInv
  <2> QED BY <2>2, <2>3 DEF Bounds
<1> QED BY <1>8, <1>9, <1>10, <1>11

\* A task leaves with its instances.
LEMMA UnregisterTaskKeeps ==
    ASSUME SelectorIInv, NEW t \in Task, UnregisterTask(t)
    PROVE  Tables' /\ Agreement' /\ Turns' /\ Bounds'
<1>1. t \in DOMAIN mTaskList
    BY DEF UnregisterTask, exists
<1>2. Listed(t) = {i \in DOMAIN mInstList : mInstList[i].taskid = t}
    BY <1>1, OfTask DEF SelectorIInv
<1>3. /\ mTaskList' = [u \in DOMAIN mTaskList \ {t} |-> mTaskList[u]]
      /\ mInstList' = [j \in DOMAIN mInstList \ Listed(t) |-> mInstList[j]]
      /\ waited' = [j \in Inst |-> IF j \in Listed(t) THEN 0 ELSE waited[j]]
    BY DEF UnregisterTask, Without, Restrict, Restart
<1>4. Tables'
    BY <1>3 DEF Tables, SelectorIInv
<1>5. ASSUME NEW u \in DOMAIN mTaskList'
      PROVE  /\ u \in DOMAIN mTaskList /\ mTaskList'[u] = mTaskList[u]
             /\ \A p \in 1 .. Len(mTaskList[u].inst) :
                   /\ mTaskList[u].inst[p] \in Inst
                   /\ mTaskList[u].inst[p] \in DOMAIN mInstList'
                   /\ mTaskList[u].inst[p] \notin Listed(t)
  <2>1. u \in DOMAIN mTaskList /\ u # t /\ mTaskList'[u] = mTaskList[u]
      BY <1>3
  <2>2. \A p \in 1 .. Len(mTaskList[u].inst) :
            /\ mTaskList[u].inst[p] \in DOMAIN mInstList
            /\ mInstList[mTaskList[u].inst[p]].taskid = u
      BY <2>1 DEF Agreement, SelectorIInv
  <2>3. DOMAIN mInstList \subseteq Inst
      BY DEF Tables, SelectorIInv
  <2> QED BY <2>1, <2>2, <2>3, <1>2, <1>3
<1>6. Agreement'
  <2>1. \A j \in DOMAIN mInstList' : mInstList'[j].taskid \in DOMAIN mTaskList'
      BY <1>2, <1>3 DEF Agreement, SelectorIInv, exists
  <2>2. ASSUME NEW u \in DOMAIN mTaskList'
        PROVE  /\ Distinct(mTaskList'[u].inst)
               /\ \A q \in 1 .. Len(mTaskList'[u].inst) :
                     /\ mTaskList'[u].inst[q] \in DOMAIN mInstList'
                     /\ mInstList'[mTaskList'[u].inst[q]].taskid = u
               /\ \A j \in DOMAIN mInstList' : mInstList'[j].taskid = u =>
                     \E q \in 1 .. Len(mTaskList'[u].inst) : mTaskList'[u].inst[q] = j
    <3>1. /\ Distinct(mTaskList[u].inst)
          /\ \A p \in 1 .. Len(mTaskList[u].inst) :
                mInstList[mTaskList[u].inst[p]].taskid = u
          /\ \A j \in DOMAIN mInstList : mInstList[j].taskid = u =>
                \E p \in 1 .. Len(mTaskList[u].inst) : mTaskList[u].inst[p] = j
        BY <1>5 DEF Agreement, SelectorIInv
    <3> QED BY <3>1, <1>3, <1>5
  <2> QED BY <2>1, <2>2 DEF Agreement, exists
<1>7. Turns'
  <2> SUFFICES ASSUME NEW u \in DOMAIN mTaskList', NEW q \in 1 .. Len(mTaskList'[u].inst),
                      Available(mTaskList[u].inst[q])'
               PROVE  waited'[mTaskList'[u].inst[q]] <= Behind(mTaskList'[u], q - 1)
      BY DEF Turns
  <2>1. /\ u \in DOMAIN mTaskList /\ mTaskList'[u] = mTaskList[u]
        /\ mTaskList[u].inst[q] \in Inst
        /\ mTaskList[u].inst[q] \in DOMAIN mInstList'
        /\ mTaskList[u].inst[q] \notin Listed(t)
      BY <1>5
  <2>2. Available(mTaskList[u].inst[q])
      BY <2>1, <1>3 DEF Available
  <2>3. waited[mTaskList[u].inst[q]] <= Behind(mTaskList[u], q - 1)
      BY <2>1, <2>2 DEF Turns, SelectorIInv
  <2> QED BY <2>1, <2>3, <1>3
<1>8. Bounds'
  <2>1. Cardinality(Inst) \in Nat
      BY FS_CardinalityType, SelectorAssumption
  <2> QED BY <2>1, <1>3 DEF Bounds, SelectorIInv
<1> QED BY <1>4, <1>6, <1>7, <1>8

-----------------------------------------------------------------------------
(* The selector: dispatch.                                                 *)

\* The instances of a task that take new work are found by some try.
LEMMA EveryInstanceTried ==
    ASSUME Tables, Agreement, NEW t \in DOMAIN mTaskList,
           NEW p \in 1 .. Len(mTaskList[t].inst)
    PROVE  \E k \in Tries(t) : /\ Position(mTaskList[t], k) = p - 1
                               /\ Candidate(t, k) = mTaskList[t].inst[p]
<1>1. mTaskList[t] \in [inst : Seq(Inst), instpos : Nat]
    BY DEF Tables
<1>2. PICK k \in 1 .. Len(mTaskList[t].inst) : Position(mTaskList[t], k) + 1 = p
    BY <1>1, EveryPlaceTried
<1>3. Position(mTaskList[t], k) \in 0 .. Len(mTaskList[t].inst) - 1
    BY <1>1, PositionOfTry
<1>4. Position(mTaskList[t], k) = p - 1
    BY <1>2, <1>3
<1> QED BY <1>2, <1>4 DEF Tries, Candidate

\* What a try looks at is an instance of the task.
LEMMA TryOfTask ==
    ASSUME Tables, Agreement, NEW t \in DOMAIN mTaskList, NEW k \in Tries(t)
    PROVE  /\ Position(mTaskList[t], k) \in 0 .. Len(mTaskList[t].inst) - 1
           /\ Candidate(t, k) \in Listed(t)
           /\ Candidate(t, k) = mTaskList[t].inst[Position(mTaskList[t], k) + 1]
<1> DEFINE n == Len(mTaskList[t].inst)
           at == Position(mTaskList[t], k)
<1>1. mTaskList[t] \in [inst : Seq(Inst), instpos : Nat] /\ n \in Nat
    BY DEF Tables
<1>2. k \in 1 .. n
    BY DEF Tries
<1>3. at \in 0 .. n - 1
    BY <1>1, <1>2, PositionOfTry
<1>4. Candidate(t, k) = mTaskList[t].inst[at + 1]
    BY DEF Candidate
<1>5. at + 1 \in 1 .. n
  <2> HIDE DEF at, n
  <2> QED BY <1>1, <1>3
<1>6. Listed(t) = {mTaskList[t].inst[p] : p \in 1 .. n}
    BY OfTask
<1> QED BY <1>3, <1>4, <1>5, <1>6

\* The position of a task moves to one of its places, and nothing else of
\* the tables changes.
LEMMA TurnToKeeps ==
    ASSUME SelectorIInv, NEW t \in DOMAIN mTaskList, NEW k \in Tries(t),
           TurnTo(t, k), UNCHANGED mInstList, waited' \in [Inst -> Nat]
    PROVE  /\ Tables' /\ Agreement'
           /\ \A u \in DOMAIN mTaskList : mTaskList'[u].instpos < Cardinality(Inst)
           /\ DOMAIN mTaskList' = DOMAIN mTaskList
           /\ mTaskList'[t] = [mTaskList[t] EXCEPT !.instpos = Position(mTaskList[t], k)]
           /\ \A u \in DOMAIN mTaskList : u # t => mTaskList'[u] = mTaskList[u]
           /\ \A u \in DOMAIN mTaskList : mTaskList'[u].inst = mTaskList[u].inst
<1> DEFINE at == Position(mTaskList[t], k)
<1>1. /\ mTaskList[t] \in [inst : Seq(Inst), instpos : Nat]
      /\ mTaskList[t].inst \in Seq(Inst) /\ Distinct(mTaskList[t].inst)
      /\ at \in 0 .. Len(mTaskList[t].inst) - 1
      /\ Len(mTaskList[t].inst) \in Nat
    BY OfTask, TryOfTask DEF SelectorIInv
<1> HIDE DEF at
<1>2. at \in Nat /\ at < Cardinality(Inst)
    BY <1>1, LengthOfList
<1>3. mTaskList' = [mTaskList EXCEPT ![t].instpos = at]
    BY DEF TurnTo, at
<1>4. /\ DOMAIN mTaskList' = DOMAIN mTaskList
      /\ mTaskList'[t] = [mTaskList[t] EXCEPT !.instpos = at]
      /\ \A u \in DOMAIN mTaskList : u # t => mTaskList'[u] = mTaskList[u]
      /\ mTaskList' = [u \in DOMAIN mTaskList' |-> mTaskList'[u]]
    BY <1>3 DEF Tables, SelectorIInv
<1>5. /\ mTaskList'[t].inst = mTaskList[t].inst /\ mTaskList'[t].instpos = at
      /\ mTaskList'[t] \in [inst : Seq(Inst), instpos : Nat]
    BY <1>1, <1>2, <1>4
<1>6. \A u \in DOMAIN mTaskList : mTaskList'[u].inst = mTaskList[u].inst
    BY <1>4, <1>5
<1>7. \A u \in DOMAIN mTaskList : mTaskList'[u].instpos < Cardinality(Inst)
    BY <1>2, <1>4, <1>5 DEF Bounds, SelectorIInv
<1>8. Tables'
  <2>1. \A u \in DOMAIN mTaskList' : mTaskList'[u] \in [inst : Seq(Inst), instpos : Nat]
      BY <1>4, <1>5 DEF Tables, SelectorIInv
  <2> QED BY <2>1, <1>4 DEF Tables, SelectorIInv
<1>9. Agreement'
    BY <1>4, <1>6 DEF Agreement, SelectorIInv, exists
<1> QED BY <1>4, <1>6, <1>7, <1>8, <1>9 DEF at

\* A message handed to the k-th try: the other available instances wait one
\* message longer and the turn is one more past each of them.
LEMMA HandedOver ==
    ASSUME SelectorIInv, NEW t \in DOMAIN mTaskList, NEW k \in Tries(t),
           Available(Candidate(t, k)),
           \A l \in Tries(t) : Available(Candidate(t, l)) => k <= l,
           TurnTo(t, k), UNCHANGED mInstList,
           waited' = [j \in Inst |->
                         IF j = Candidate(t, k) THEN 0
                         ELSE IF j \in Listed(t) /\ Available(j)
                              THEN waited[j] + 1 ELSE waited[j]]
    PROVE  Tables' /\ Agreement' /\ Turns' /\ Bounds'
<1> DEFINE ts == mTaskList[t]
           us == [ts EXCEPT !.instpos = Position(ts, k)]
<1>1. waited' \in [Inst -> Nat]
    BY DEF Tables, SelectorIInv
<1>2. /\ Tables' /\ Agreement'
      /\ \A u \in DOMAIN mTaskList : mTaskList'[u].instpos < Cardinality(Inst)
      /\ DOMAIN mTaskList' = DOMAIN mTaskList
      /\ mTaskList'[t] = us
      /\ \A u \in DOMAIN mTaskList : u # t => mTaskList'[u] = mTaskList[u]
      /\ \A u \in DOMAIN mTaskList : mTaskList'[u].inst = mTaskList[u].inst
    BY <1>1, TurnToKeeps
<1>3. /\ ts \in [inst : Seq(Inst), instpos : Nat]
      /\ us \in [inst : Seq(Inst), instpos : Nat] /\ us.inst = ts.inst
      /\ ts.inst \in Seq(Inst) /\ Len(ts.inst) \in Nat /\ Distinct(ts.inst)
      /\ Listed(t) = {ts.inst[p] : p \in 1 .. Len(ts.inst)}
      /\ \A p \in 1 .. Len(ts.inst) :
            ts.inst[p] \in Inst /\ ts.inst[p] \in DOMAIN mInstList
            /\ mInstList[ts.inst[p]].taskid = t
  <2>1. ts \in [inst : Seq(Inst), instpos : Nat]
      BY DEF Tables, SelectorIInv
  <2>2. Position(ts, k) \in Nat
      BY TryOfTask DEF SelectorIInv
  <2>3. us \in [inst : Seq(Inst), instpos : Nat] /\ us.inst = ts.inst
      BY <2>1, <2>2
  <2> QED BY <2>1, <2>3, OfTask DEF SelectorIInv
<1>4. Candidate(t, k) \in Listed(t)
    BY TryOfTask DEF SelectorIInv
<1>5. ASSUME NEW p \in 1 .. Len(ts.inst), Available(ts.inst[p])
      PROVE  waited'[ts.inst[p]] <= Behind(us, p - 1)
  <2>1. Behind(us, p - 1) \in Nat
    <3>1. p - 1 \in 0 .. Len(us.inst) - 1
        BY <1>3
    <3>2. Behind(us, p - 1) \in 0 .. Len(us.inst) - 1
        BY <3>1, <1>3, BehindBound
    <3> HIDE DEF us, ts
    <3> QED BY <3>2, <1>3
  <2>2. CASE ts.inst[p] = Candidate(t, k)
    <3>1. waited'[ts.inst[p]] = 0
        BY <2>2, <1>3
    <3> QED BY <3>1, <2>1
  <2>3. CASE ts.inst[p] # Candidate(t, k)
    <3>1. PICK l \in Tries(t) : Position(ts, l) = p - 1 /\ Candidate(t, l) = ts.inst[p]
        BY EveryInstanceTried DEF SelectorIInv
    <3>2. k <= l /\ k # l
        BY <3>1, <1>5, <2>3
    <3>3. k \in 1 .. Len(ts.inst) /\ l \in 1 .. Len(ts.inst) /\ k < l
        BY <3>2, <1>3 DEF Tries
    <3>4. Behind(ts, p - 1) + 1 <= Behind(us, p - 1)
        BY <3>1, <3>3, <1>3, LaterPlacesWait
    <3>5. waited'[ts.inst[p]] = waited[ts.inst[p]] + 1
        BY <2>3, <1>3, <1>5
    <3>6. waited[ts.inst[p]] <= Behind(ts, p - 1)
        BY <1>5 DEF Turns, SelectorIInv
    <3>7. waited[ts.inst[p]] \in Nat
        BY <1>3 DEF Tables, SelectorIInv
    <3>8. Behind(ts, p - 1) \in Nat
      <4>1. p - 1 \in 0 .. Len(ts.inst) - 1
          BY <1>3
      <4>2. Behind(ts, p - 1) \in 0 .. Len(ts.inst) - 1
          BY <4>1, <1>3, BehindBound
      <4> HIDE DEF us, ts
      <4> QED BY <4>2, <1>3
    <3> HIDE DEF us, ts
    <3> QED BY <3>4, <3>5, <3>6, <3>7, <3>8, <2>1
  <2> QED BY <2>2, <2>3
<1>6. Turns'
  <2> SUFFICES ASSUME NEW u \in DOMAIN mTaskList', NEW p \in 1 .. Len(mTaskList'[u].inst),
                      Available(mTaskList[u].inst[p])'
               PROVE  waited'[mTaskList'[u].inst[p]] <= Behind(mTaskList'[u], p - 1)
      BY DEF Turns
  <2>1. Available(mTaskList[u].inst[p])
      BY <1>2 DEF Available
  <2>2. CASE u = t
      BY <2>1, <2>2, <1>2, <1>3, <1>5
  <2>3. CASE u # t
    <3>1. /\ u \in DOMAIN mTaskList /\ mTaskList'[u] = mTaskList[u]
          /\ mTaskList[u].inst[p] \in Inst /\ mTaskList[u].inst[p] \in DOMAIN mInstList
          /\ mInstList[mTaskList[u].inst[p]].taskid = u
        BY <2>3, <1>2 DEF Agreement, Tables, SelectorIInv
    <3>2. mTaskList[u].inst[p] \notin Listed(t)
        BY <2>3, <3>1, <1>3
    <3>3. waited'[mTaskList[u].inst[p]] = waited[mTaskList[u].inst[p]]
        BY <3>1, <3>2, <1>4
    <3>4. waited[mTaskList[u].inst[p]] <= Behind(mTaskList[u], p - 1)
        BY <3>1, <2>1 DEF Turns, SelectorIInv
    <3> QED BY <3>1, <3>3, <3>4
  <2> QED BY <2>2, <2>3
<1>7. Bounds'
  <2>1. \A u \in DOMAIN mTaskList' : mTaskList'[u].instpos < Cardinality(Inst)
      BY <1>2
  <2>2. Cardinality(Inst) \in Nat /\ Len(ts.inst) <= Cardinality(Inst)
      BY <1>3, LengthOfList
  <2>3. ASSUME NEW j \in Inst
        PROVE  waited'[j] <= Cardinality(Inst)
    <3>1. CASE j \in Listed(t) /\ Available(j)
      <4>1. PICK p \in 1 .. Len(ts.inst) : ts.inst[p] = j
          BY <3>1, <1>3
      <4>2. waited'[j] <= Behind(us, p - 1)
          BY <3>1, <4>1, <1>5
      <4>3. p - 1 \in 0 .. Len(us.inst) - 1
          BY <1>3
      <4>4. Behind(us, p - 1) \in 0 .. Len(us.inst) - 1
          BY <4>3, <1>3, BehindBound
      <4>5. waited'[j] \in Nat /\ Len(us.inst) = Len(ts.inst) /\ Len(ts.inst) \in Nat
          BY <1>1, <1>3
      <4> HIDE DEF us, ts
      <4> QED BY <4>2, <4>4, <4>5, <2>2
    <3>2. CASE ~(j \in Listed(t) /\ Available(j))
      <4>1. waited'[j] \in {0, waited[j]}
          BY <3>2
      <4> QED BY <4>1, <2>2 DEF Bounds, SelectorIInv
    <3> QED BY <3>1, <3>2
  <2> QED BY <2>1, <2>3 DEF Bounds
<1> QED BY <1>2, <1>6, <1>7

\* A message no instance takes: the position moves all the same.
LEMMA NoneTakesIt ==
    ASSUME SelectorIInv, NEW t \in DOMAIN mTaskList, NEW k \in Tries(t),
           \A l \in Tries(t) : ~Available(Candidate(t, l)),
           TurnTo(t, k), UNCHANGED <<mInstList, waited>>
    PROVE  Tables' /\ Agreement' /\ Turns' /\ Bounds'
<1>1. waited' \in [Inst -> Nat]
    BY DEF Tables, SelectorIInv
<1>2. /\ Tables' /\ Agreement'
      /\ \A u \in DOMAIN mTaskList : mTaskList'[u].instpos < Cardinality(Inst)
      /\ DOMAIN mTaskList' = DOMAIN mTaskList
      /\ \A u \in DOMAIN mTaskList : u # t => mTaskList'[u] = mTaskList[u]
      /\ \A u \in DOMAIN mTaskList : mTaskList'[u].inst = mTaskList[u].inst
    BY <1>1, TurnToKeeps
<1>3. Bounds'
    BY <1>2 DEF Bounds, SelectorIInv
<1>4. Turns'
  <2> SUFFICES ASSUME NEW u \in DOMAIN mTaskList', NEW p \in 1 .. Len(mTaskList'[u].inst),
                      Available(mTaskList[u].inst[p])'
               PROVE  waited'[mTaskList'[u].inst[p]] <= Behind(mTaskList'[u], p - 1)
      BY DEF Turns
  <2>1. Available(mTaskList[u].inst[p]) /\ u \in DOMAIN mTaskList
        /\ p \in 1 .. Len(mTaskList[u].inst)
      BY <1>2 DEF Available
  <2>2. u # t
    <3>1. ASSUME u = t PROVE FALSE
      <4>1. PICK l \in Tries(t) : Candidate(t, l) = mTaskList[t].inst[p]
          BY <2>1, <3>1, EveryInstanceTried DEF SelectorIInv
      <4> QED BY <2>1, <3>1, <4>1
    <3> QED BY <3>1
  <2> QED BY <2>1, <2>2, <1>2 DEF Turns, SelectorIInv
<1> QED BY <1>2, <1>3, <1>4

\* The messages that change no table.
LEMMA TablesStay ==
    ASSUME SelectorIInv, UNCHANGED <<mTaskList, mInstList, waited>>
    PROVE  Tables' /\ Agreement' /\ Turns' /\ Bounds'
BY DEF Tables, Agreement, Turns, Bounds, SelectorIInv, exists, Available

\* Every message leaves the tables and the turns in order.
LEMMA AddKeeps ==
    ASSUME SelectorIInv, NEW m \in Address, Add(m)
    PROVE  Tables' /\ Agreement' /\ Turns' /\ Bounds'
<1>1. UNCHANGED mInstList
    BY DEF Add
<1>2. CASE m.msgType = DIALOG_BROADCAST
  <2>1. broadcastMsgToTask(m)
      BY <1>2 DEF Add, DIALOG_BROADCAST, DIALOG_MULTICAST
  <2>2. UNCHANGED <<mTaskList, mInstList, waited>>
      BY <2>1, <1>1 DEF broadcastMsgToTask
  <2> QED BY <2>2, TablesStay
<1>3. CASE m.msgType = DIALOG_MULTICAST
  <2>1. multicastMsgToTask(m)
      BY <1>3 DEF Add, DIALOG_BROADCAST, DIALOG_MULTICAST
  <2>2. UNCHANGED <<mTaskList, mInstList, waited>>
      BY <2>1, <1>1 DEF multicastMsgToTask
  <2> QED BY <2>2, TablesStay
<1>4. CASE m.msgType # DIALOG_BROADCAST /\ m.msgType # DIALOG_MULTICAST
  <2>1. sendMsgToTask(m)
      BY <1>4 DEF Add
  <2>2. CASE ~exists(m.to) \/ m.inst # AnyInst
    <3>1. UNCHANGED <<mTaskList, mInstList, waited>>
        BY <2>1, <2>2, <1>1 DEF sendMsgToTask, AddressTo
    <3> QED BY <3>1, TablesStay
  <2>3. CASE exists(m.to) /\ m.inst = AnyInst
    <3> DEFINE t == m.to
    <3>1. t \in DOMAIN mTaskList /\ Share(m, t)
        BY <2>1, <2>3 DEF sendMsgToTask, exists
    <3> HIDE DEF t
    <3>2. CASE \E k \in Tries(t) : Available(Candidate(t, k))
      <4>1. PICK k \in Tries(t) :
               /\ Available(Candidate(t, k))
               /\ \A l \in Tries(t) : Available(Candidate(t, l)) => k <= l
               /\ TurnTo(t, k)
               /\ waited' = [j \in Inst |->
                                IF j = Candidate(t, k) THEN 0
                                ELSE IF j \in Listed(t) /\ Available(j)
                                     THEN waited[j] + 1 ELSE waited[j]]
          BY <3>1, <3>2 DEF Share
      <4> QED BY <4>1, <3>1, <1>1, HandedOver
    <3>3. CASE \A k \in Tries(t) : ~Available(Candidate(t, k))
      <4>1. /\ IF Tries(t) = {} THEN UNCHANGED mTaskList
                                ELSE TurnTo(t, Len(mTaskList[t].inst))
            /\ UNCHANGED waited
          BY <3>1, <3>3 DEF Share
      <4>2. CASE Tries(t) = {}
          BY <4>1, <4>2, <1>1, TablesStay
      <4>3. CASE Tries(t) # {}
        <5>1. Len(mTaskList[t].inst) \in Nat
            BY <3>1, OfTask DEF SelectorIInv
        <5>2. Len(mTaskList[t].inst) \in Tries(t)
            BY <5>1, <4>3 DEF Tries
        <5>3. TurnTo(t, Len(mTaskList[t].inst))
            BY <4>1, <4>3
        <5> QED BY <5>2, <5>3, <4>1, <3>1, <3>3, <1>1, NoneTakesIt
      <4> QED BY <4>2, <4>3
    <3> QED BY <3>2, <3>3
  <2> QED BY <2>2, <2>3
<1> QED BY <1>2, <1>3, <1>4

\* The outcome is a record of a message and of instances that exist.
LEMMA AddOutcome ==
    ASSUME SelectorIInv, NEW m \in Address, Add(m)
    PROVE  outcome' \in [msg : Address, reached : SUBSET Inst,
                         accepted : BOOLEAN, deleted : {0, 1}]
           /\ outcome'.msg = m
<1>1. DOMAIN mInstList \subseteq Inst
    BY DEF Tables, SelectorIInv
<1>2. ASSUME NEW S \in SUBSET Inst, NEW ok \in BOOLEAN, NEW n \in {0, 1},
             Result(m, S, ok, n)
      PROVE  outcome' \in [msg : Address, reached : SUBSET Inst,
                           accepted : BOOLEAN, deleted : {0, 1}]
             /\ outcome'.msg = m
    BY <1>2 DEF Result
<1>3. CASE m.msgType = DIALOG_BROADCAST
  <2>1. broadcastMsgToTask(m)
      BY <1>3 DEF Add, DIALOG_BROADCAST, DIALOG_MULTICAST
  <2>2. Result(m, DOMAIN mInstList, TRUE, 1)
      BY <2>1 DEF broadcastMsgToTask
  <2> QED BY <2>2, <1>1, <1>2
<1>4. CASE m.msgType = DIALOG_MULTICAST
  <2>1. multicastMsgToTask(m)
      BY <1>4 DEF Add, DIALOG_BROADCAST, DIALOG_MULTICAST
  <2>2. \/ Result(m, {}, FALSE, 1)
        \/ Result(m, Passed(mTaskList[m.to].inst) \intersect DOMAIN mInstList, TRUE, 1)
      BY <2>1 DEF multicastMsgToTask
  <2> QED BY <2>2, <1>1, <1>2
<1>5. CASE m.msgType # DIALOG_BROADCAST /\ m.msgType # DIALOG_MULTICAST
  <2>1. sendMsgToTask(m)
      BY <1>5 DEF Add
  <2>2. CASE ~exists(m.to) \/ m.inst # AnyInst
    <3>1. \/ Result(m, {}, FALSE, 0)
          \/ Result(m, {m.inst} \intersect DOMAIN mInstList, m.inst \in DOMAIN mInstList, 0)
        BY <2>1, <2>2 DEF sendMsgToTask, AddressTo
    <3>2. /\ {m.inst} \intersect DOMAIN mInstList \in SUBSET Inst
          /\ (m.inst \in DOMAIN mInstList) \in BOOLEAN
        BY <1>1
    <3>3. CASE Result(m, {}, FALSE, 0)
        BY <3>3, <1>2
    <3>4. CASE Result(m, {m.inst} \intersect DOMAIN mInstList, m.inst \in DOMAIN mInstList, 0)
        BY <3>2, <3>4, <1>2
    <3> QED BY <3>1, <3>3, <3>4
  <2>3. CASE exists(m.to) /\ m.inst = AnyInst
    <3>1. m.to \in DOMAIN mTaskList /\ Share(m, m.to)
        BY <2>1, <2>3 DEF sendMsgToTask, exists
    <3>2. \/ \E k \in Tries(m.to) : Result(m, {Candidate(m.to, k)}, TRUE, 0)
          \/ Result(m, {}, FALSE, 0)
        BY <3>1 DEF Share
    <3>3. \A k \in Tries(m.to) : Candidate(m.to, k) \in Inst
      <4>1. Listed(m.to) \subseteq Inst
          BY <3>1, <1>1, OfTask DEF SelectorIInv
      <4> QED BY <4>1, <3>1, TryOfTask DEF SelectorIInv
    <3> QED BY <3>2, <3>3, <1>2
  <2> QED BY <2>2, <2>3
<1> QED BY <1>3, <1>4, <1>5

\* A message for any instance of a task is refused only when none is left.
LEMMA AddRefuses ==
    ASSUME SelectorIInv, NEW m \in Address, Add(m)
    PROVE  RefusedOnlyWhenNoneLeft'
<1> SUFFICES ASSUME m.inst = AnyInst, m.msgType = ORDINARY
             PROVE  LET S == {i \in DOMAIN mInstList :
                                 mInstList[i].taskid = m.to /\ Available(i)}
                    IN  /\ outcome'.reached \subseteq S
                        /\ outcome'.accepted <=> S # {}
  <2>1. mInstList' = mInstList /\ outcome'.msg = m
      BY AddOutcome DEF Add
  <2> QED BY <2>1 DEF RefusedOnlyWhenNoneLeft, Available
<1> DEFINE t == m.to
           S == {i \in DOMAIN mInstList : mInstList[i].taskid = t /\ Available(i)}
<1>1. sendMsgToTask(m)
    BY DEF Add, ORDINARY, DIALOG_BROADCAST, DIALOG_MULTICAST
<1>2. CASE ~exists(t)
  <2>1. Result(m, {}, FALSE, 0)
      BY <1>1, <1>2 DEF sendMsgToTask
  <2>2. outcome'.reached = {} /\ outcome'.accepted = FALSE
      BY <2>1 DEF Result
  <2>3. S = {}
      BY <1>2, ZenonT(40) DEF Agreement, SelectorIInv
  <2> QED BY <2>2, <2>3
<1>3. CASE exists(t)
  <2>1. t \in DOMAIN mTaskList /\ Share(m, t)
      BY <1>1, <1>3 DEF sendMsgToTask, exists
  <2>2. \A k \in Tries(t) : Available(Candidate(t, k)) => Candidate(t, k) \in S
    <3>1. Listed(t) = {i \in DOMAIN mInstList : mInstList[i].taskid = t}
        BY <2>1, OfTask DEF SelectorIInv
    <3> QED BY <3>1, <2>1, TryOfTask DEF SelectorIInv
  <2>3. \A i \in S : \E k \in Tries(t) : Candidate(t, k) = i
    <3> SUFFICES ASSUME NEW i \in S PROVE \E k \in Tries(t) : Candidate(t, k) = i
        OBVIOUS
    <3>1. PICK p \in 1 .. Len(mTaskList[t].inst) : mTaskList[t].inst[p] = i
        BY <2>1 DEF Agreement, SelectorIInv
    <3> QED BY <3>1, <2>1, EveryInstanceTried DEF SelectorIInv
  <2>4. CASE \E k \in Tries(t) : Available(Candidate(t, k))
    <3>1. PICK k \in Tries(t) : /\ Available(Candidate(t, k))
                                /\ Result(m, {Candidate(t, k)}, TRUE, 0)
        BY <2>1, <2>4 DEF Share
    <3>2. outcome'.reached = {Candidate(t, k)} /\ outcome'.accepted = TRUE
        BY <3>1 DEF Result
    <3> QED BY <3>1, <3>2, <2>2
  <2>5. CASE \A k \in Tries(t) : ~Available(Candidate(t, k))
    <3>1. outcome'.reached = {} /\ outcome'.accepted = FALSE
        BY <2>1, <2>5 DEF Share, Result
    <3>2. S = {}
        BY <2>3, <2>5
    <3> QED BY <3>1, <3>2
  <2> QED BY <2>4, <2>5
<1> QED BY <1>2, <1>3

\* What a multicast passes over is the first of the list and no other.
LEMMA PassedButFirst ==
    ASSUME NEW s \in Seq(Inst), Distinct(s), s # <<>>
    PROVE  Passed(s) = Range(s) \ {Head(s)}
<1>1. Len(s) \in Nat /\ Len(s) >= 1 /\ Head(s) = s[1]
    OBVIOUS
<1>2. /\ Tail(s) \in Seq(Inst) /\ Len(Tail(s)) = Len(s) - 1
      /\ \A p \in 1 .. Len(s) - 1 : Tail(s)[p] = s[p + 1]
    BY <1>1
<1>3. Range(s) = {s[p] : p \in 1 .. Len(s)}
    BY RangeOfList
<1>4. Range(Tail(s)) = {Tail(s)[p] : p \in 1 .. Len(s) - 1}
    BY <1>2, RangeOfList
<1>5. ASSUME NEW p \in 1 .. Len(s) - 1
      PROVE  Tail(s)[p] \in Range(s) /\ Tail(s)[p] # Head(s)
  <2>1. p + 1 \in 1 .. Len(s) /\ 1 \in 1 .. Len(s) /\ p + 1 # 1
      BY <1>1
  <2> QED BY <2>1, <1>1, <1>2, <1>3 DEF Distinct
<1>6. ASSUME NEW p \in 1 .. Len(s), s[p] # Head(s)
      PROVE  s[p] \in Range(Tail(s))
  <2>1. p # 1
      BY <1>1, <1>6
  <2>2. p - 1 \in 1 .. Len(s) - 1 /\ (p - 1) + 1 = p
      BY <2>1, <1>1
  <2>3. Tail(s)[p - 1] = s[p]
      BY <2>2, <1>2
  <2> QED BY <2>2, <2>3, <1>4
<1>7. Passed(s) = Range(Tail(s))
    BY DEF Passed
<1> QED BY <1>3, <1>4, <1>5, <1>6, <1>7

\* A multicast reaches all instances of the task but the first.
LEMMA AddMulticast ==
    ASSUME SelectorIInv, NEW m \in Address, Add(m)
    PROVE  MulticastMissesFirstOnly'
<1> DEFINE t == m.to
           S == {i \in DOMAIN mInstList : mInstList[i].taskid = t}
<1> SUFFICES ASSUME m.msgType = DIALOG_MULTICAST
             PROVE  /\ mTaskList' = mTaskList
                    /\ outcome'.reached = S \ (IF S = {} THEN {}
                                               ELSE {Head(mTaskList[t].inst)})
  <2>1. mInstList' = mInstList /\ outcome'.msg = m
      BY AddOutcome DEF Add
  <2> QED BY <2>1 DEF MulticastMissesFirstOnly
<1>1. multicastMsgToTask(m)
    BY DEF Add, DIALOG_BROADCAST, DIALOG_MULTICAST
<1>2. mTaskList' = mTaskList
    BY <1>1 DEF multicastMsgToTask
<1>3. CASE ~exists(t)
  <2>1. Result(m, {}, FALSE, 1)
      BY <1>1, <1>3 DEF multicastMsgToTask
  <2>2. outcome'.reached = {}
      BY <2>1 DEF Result
  <2>3. S = {}
      BY <1>3, ZenonT(40) DEF Agreement, SelectorIInv
  <2> QED BY <2>2, <2>3, <1>2
<1>4. CASE exists(t)
  <2> DEFINE s == mTaskList[t].inst
  <2>1. outcome'.reached = Passed(s) \intersect DOMAIN mInstList
    <3>1. Result(m, Passed(s) \intersect DOMAIN mInstList, TRUE, 1)
        BY <1>1, <1>4 DEF multicastMsgToTask
    <3> QED BY <3>1 DEF Result
  <2>2. /\ s \in Seq(Inst) /\ Distinct(s) /\ Range(s) = S
      BY <1>4, OfTask DEF SelectorIInv, exists, Listed
  <2> HIDE DEF s
  <2>3. CASE s = <<>>
    <3>1. Range(s) = {}
      <4>1. Range(s) = {s[p] : p \in 1 .. Len(s)}
          BY <2>2, RangeOfList
      <4>2. 1 .. Len(s) = {}
          BY <2>3
      <4> QED BY <4>1, <4>2
    <3>2. Passed(s) = {}
        BY <2>3 DEF Passed
    <3> QED BY <3>1, <3>2, <2>1, <2>2, <1>2
  <2>4. CASE s # <<>>
    <3>1. Passed(s) = S \ {Head(s)}
        BY <2>2, <2>4, PassedButFirst
    <3>2. S # {}
      <4>1. 1 \in 1 .. Len(s)
          BY <2>2, <2>4
      <4> QED BY <4>1, <2>2, RangeOfList
    <3> QED BY <3>1, <3>2, <2>1, <1>2 DEF s
  <2> QED BY <2>3, <2>4
<1> QED BY <1>3, <1>4

-----------------------------------------------------------------------------
(* The selector: the specification.                                        *)

\* The empty tables.
LEMMA InitIInv == SelectorInit => SelectorIInv
<1> SUFFICES ASSUME SelectorInit PROVE SelectorIInv
    OBVIOUS
<1>1. /\ mTaskList = <<>> /\ mInstList = <<>>
      /\ DOMAIN mTaskList = {} /\ DOMAIN mInstList = {}
      /\ outcome = NoOutcome /\ waited = [i \in Inst |-> 0]
    BY DEF SelectorInit
<1>2. mTaskList = [t \in {} |-> 0] /\ mInstList = [t \in {} |-> 0]
    BY <1>1
<1>3. Tables
    BY <1>1, <1>2 DEF Tables
<1>4. Agreement /\ Turns
    BY <1>1 DEF Agreement, Turns
<1>5. Bounds
  <2>1. Cardinality(Inst) \in Nat
      BY FS_CardinalityType, SelectorAssumption
  <2> QED BY <2>1, <1>1 DEF Bounds
<1>6. OutcomeOK
    BY <1>1 DEF OutcomeOK
<1> QED BY <1>3, <1>4, <1>5, <1>6 DEF SelectorIInv

\* Every call of the interface keeps the invariant.
LEMMA NextIInv == SelectorIInv /\ [SelectorNext]_selectorVars => SelectorIInv'
<1> SUFFICES ASSUME SelectorIInv, [SelectorNext]_selectorVars PROVE SelectorIInv'
    OBVIOUS
<1>1. CASE Registration
  <2>1. OutcomeOK'
      BY <1>1 DEF Registration, OutcomeOK
  <2>2. ASSUME NEW t \in Task, NEW i \in Inst, RegisterTask(t, i)
        PROVE  Tables' /\ Agreement' /\ Turns' /\ Bounds'
      BY <2>2, RegisterMore, RegisterFirst
  <2>3. ASSUME NEW i \in Inst, ShutdownInst(i)
        PROVE  Tables' /\ Agreement' /\ Turns' /\ Bounds'
      BY <2>3, ShutdownKeeps DEF ShutdownInst
  <2>4. ASSUME NEW t \in Task, ShutdownTask(t)
        PROVE  Tables' /\ Agreement' /\ Turns' /\ Bounds'
      BY <2>4, ShutdownKeeps DEF ShutdownTask
  <2>5. ASSUME NEW i \in Inst, UnregisterInst(i)
        PROVE  Tables' /\ Agreement' /\ Turns' /\ Bounds'
      BY <2>5, UnregisterInstKeeps
  <2>6. ASSUME NEW t \in Task, UnregisterTask(t)
        PROVE  Tables' /\ Agreement' /\ Turns' /\ Bounds'
      BY <2>6, UnregisterTaskKeeps
  <2>7. Tables' /\ Agreement' /\ Turns' /\ Bounds'
      BY <1>1, <2>2, <2>3, <2>4, <2>5, <2>6 DEF Registration
  <2> QED BY <2>1, <2>7 DEF SelectorIInv
<1>2. ASSUME NEW m \in Address, Add(m)
      PROVE  SelectorIInv'
  <2>1. Tables' /\ Agreement' /\ Turns' /\ Bounds'
      BY <1>2, AddKeeps
  <2>2. outcome' \in [msg : Address, reached : SUBSET Inst,
                      accepted : BOOLEAN, deleted : {0, 1}]
      BY <1>2, AddOutcome
  <2>3. OutcomeOK'
      BY <1>2, <2>2, AddRefuses, AddMulticast DEF OutcomeOK
  <2> QED BY <2>1, <2>3 DEF SelectorIInv
<1>3. CASE UNCHANGED selectorVars
  <2>1. UNCHANGED <<mTaskList, mInstList, waited>> /\ outcome' = outcome
      BY <1>3 DEF selectorVars
  <2>2. Tables' /\ Agreement' /\ Turns' /\ Bounds'
      BY <2>1, TablesStay
  <2>3. OutcomeOK'
      BY <2>1 DEF OutcomeOK, SelectorIInv, RefusedOnlyWhenNoneLeft,
                  MulticastMissesFirstOnly, Available
  <2> QED BY <2>2, <2>3 DEF SelectorIInv
<1> QED BY <1>1, <1>2, <1>3 DEF SelectorNext

\* The invariant in every reachable state: the tables agree, the turn is never
\* behind an instance that waits, and the last outcome fits the tables.
THEOREM SelectorInvariance == SelectorSpec => []SelectorIInv
<1>1. SelectorInit => SelectorIInv
    BY InitIInv
<1>2. SelectorIInv /\ [SelectorNext]_selectorVars => SelectorIInv'
    BY NextIInv
<1> QED BY <1>1, <1>2, PTL DEF SelectorSpec

\* The types are part of the invariant.
LEMMA TypesOfInvariant == SelectorIInv => SelectorTypeOK
<1> SUFFICES ASSUME SelectorIInv PROVE SelectorTypeOK
    OBVIOUS
<1>1. Cardinality(Inst) \in Nat
    BY FS_CardinalityType, SelectorAssumption
<1>2. \A t \in DOMAIN mTaskList :
         /\ mTaskList[t].inst \in Seq(Inst)
         /\ mTaskList[t].instpos \in 0 .. Cardinality(Inst) - 1
    BY <1>1 DEF Tables, Bounds, SelectorIInv
<1>3. waited \in [Inst -> 0 .. Cardinality(Inst)]
  <2>1. waited \in [Inst -> Nat] /\ \A i \in Inst : waited[i] <= Cardinality(Inst)
      BY DEF Tables, Bounds, SelectorIInv
  <2>2. \A i \in Inst : waited[i] \in 0 .. Cardinality(Inst)
      BY <2>1, <1>1
  <2> QED BY <2>1, <2>2
<1>4. /\ DOMAIN mTaskList \subseteq Task /\ DOMAIN mInstList \subseteq Inst
      /\ \A i \in DOMAIN mInstList :
            mInstList[i] \in [taskid : Task, shuttingDown : BOOLEAN]
    BY DEF Tables, SelectorIInv
<1>5. outcome # NoOutcome =>
        outcome \in [msg : Address, reached : SUBSET Inst,
                     accepted : BOOLEAN, deleted : {0, 1}]
    BY DEF OutcomeOK, SelectorIInv
<1> QED BY <1>2, <1>3, <1>4, <1>5 DEF SelectorTypeOK

\* Every variable of the selector (taskselector.h 88-89) has its type, and the
\* position of a task never leaves the range of the instance ids.
THEOREM SelectorTypes == SelectorSpec => []SelectorTypeOK
BY TypesOfInvariant, SelectorInvariance, PTL

\* The table of tasks and the table of instances agree after any sequence of
\* calls, however many tasks and instances there are (taskselector.C 48-159).
THEOREM TablesAgree == SelectorSpec => []ListsAgree
<1>1. SelectorIInv => ListsAgree
  <2> SUFFICES ASSUME SelectorIInv PROVE ListsAgree
      OBVIOUS
  <2>1. \A i \in DOMAIN mInstList : exists(mInstList[i].taskid)
      BY DEF Agreement, SelectorIInv
  <2>2. ASSUME NEW t \in DOMAIN mTaskList
        PROVE  /\ Cardinality(Listed(t)) = Len(mTaskList[t].inst)
               /\ Listed(t) = {i \in DOMAIN mInstList : mInstList[i].taskid = t}
    <3>1. /\ mTaskList[t].inst \in Seq(Inst) /\ Distinct(mTaskList[t].inst)
          /\ Listed(t) = {i \in DOMAIN mInstList : mInstList[i].taskid = t}
        BY OfTask DEF SelectorIInv
    <3>2. Cardinality(Listed(t)) = Len(mTaskList[t].inst)
        BY <3>1, LengthOfList DEF Listed
    <3> QED BY <3>1, <3>2
  <2> QED BY <2>1, <2>2 DEF ListsAgree
<1> QED BY <1>1, SelectorInvariance, PTL

\* No available instance is passed over for more than a full turn
\* (TTaskSelector::getTask, taskselector.C 161-185), for any number of
\* instances: it waits no longer than the position is past it.
THEOREM TurnsAreShared == SelectorSpec => []SharedByTurns
<1>1. SelectorIInv => SharedByTurns
  <2> SUFFICES ASSUME SelectorIInv, NEW t \in DOMAIN mTaskList,
                      NEW i \in Listed(t), Available(i)
               PROVE  waited[i] < Len(mTaskList[t].inst)
      BY DEF SharedByTurns
  <2> DEFINE ts == mTaskList[t]
  <2>1. /\ ts \in [inst : Seq(Inst), instpos : Nat] /\ Len(ts.inst) \in Nat
        /\ Listed(t) = {ts.inst[p] : p \in 1 .. Len(ts.inst)}
        /\ \A p \in 1 .. Len(ts.inst) : ts.inst[p] \in Inst
      BY OfTask DEF SelectorIInv
  <2>2. PICK p \in 1 .. Len(ts.inst) : ts.inst[p] = i
      BY <2>1
  <2>3. waited[i] <= Behind(ts, p - 1)
      BY <2>2 DEF Turns, SelectorIInv
  <2>4. p - 1 \in 0 .. Len(ts.inst) - 1
      BY <2>1
  <2>5. Behind(ts, p - 1) \in 0 .. Len(ts.inst) - 1
      BY <2>1, <2>4, BehindBound
  <2>6. waited[i] \in Nat
      BY <2>1, <2>2 DEF Tables, SelectorIInv
  <2> HIDE DEF ts
  <2>7. waited[i] < Len(ts.inst)
      BY <2>1, <2>3, <2>5, <2>6
  <2> QED BY <2>7 DEF ts
<1> QED BY <1>1, SelectorInvariance, PTL

\* An unaddressed message is refused only when no instance of its task takes
\* new work, and goes to none that shuts down (taskselector.C 161-185, 217-238).
THEOREM NoneRefusedInVain == SelectorSpec => []RefusedOnlyWhenNoneLeft
<1>1. SelectorIInv => RefusedOnlyWhenNoneLeft
    BY DEF SelectorIInv, OutcomeOK, RefusedOnlyWhenNoneLeft
<1> QED BY <1>1, SelectorInvariance, PTL

\* A multicast reaches exactly the instances of its task but the first of the
\* list (taskselector.C 241-274).
THEOREM MulticastReach == SelectorSpec => []MulticastMissesFirstOnly
<1>1. SelectorIInv => MulticastMissesFirstOnly
    BY DEF SelectorIInv, OutcomeOK, MulticastMissesFirstOnly
<1> QED BY <1>1, SelectorInvariance, PTL

-----------------------------------------------------------------------------
(* The framework: the inductive invariant.                                 *)

Partner == Inst \union {Kernel}
EventRec == [kind : EventKinds, id : Nat]
MessageRec == [kind : {"message"}, id : Nat]
KernelRec == [kind : {"init", "message"}, id : Nat]
ReplyRec == [kind : EventKinds, id : Nat, from : Partner]

\* The functions, records and sequences the state is made of.
Shape ==
    /\ mng \in {"register", "kernel", "start", "poll", "recv", "dispatch"}
    /\ cursor \in Inst
    /\ socket \in Seq(Commands)
    /\ mng = "dispatch" => command \in Commands
    /\ running \subseteq Partner
    /\ asked \in Seq(Partner)
    /\ answered \in Seq(Nat) /\ Len(answered) = Len(asked)
    /\ sent \in Seq([from : Inst, address : Addresses])
    /\ deleted \in Seq(Nat) /\ Len(deleted) = Len(sent)
    /\ kernelFifo \in Seq(KernelRec)
    /\ mngFifo \in Seq(ReplyRec)
    /\ rxFifo \in [Inst -> Seq(EventRec \union MessageRec)]
    /\ handled \in [Inst -> Seq(Nat)]

\* The instances registered so far, each under its task; once all are, the
\* tables of the selector stay but for the turns.
Registered ==
    /\ DOMAIN mInstList = IF mng = "register" THEN 1 .. cursor - 1 ELSE Inst
    /\ \A i \in DOMAIN mInstList :
          mInstList[i] = [taskid |-> TaskOf[i], shuttingDown |-> FALSE]
    /\ DOMAIN mTaskList = {TaskOf[i] : i \in DOMAIN mInstList}

\* Nothing runs before the manager has started it.
Begun ==
    /\ mng \in {"register", "kernel"} => running = {} /\ outcome = NoOutcome
    /\ mng = "kernel" => cursor = 1
    /\ started \subseteq running
    /\ \A i \in Inst : handled[i] # <<>> => i \in running

\* The entries of the fifos name transactions and messages there are.
Named ==
    /\ \A p \in 1 .. Len(kernelFifo) :
          /\ kernelFifo[p].kind = "init" => kernelFifo[p].id \in Transactions
          /\ kernelFifo[p].kind = "message" => kernelFifo[p].id \in Ids
    /\ \A i \in Inst : \A p \in 1 .. Len(rxFifo[i]) :
          /\ rxFifo[i][p].kind \in EventKinds => rxFifo[i][p].id \in Transactions
          /\ rxFifo[i][p].kind = "message" => rxFifo[i][p].id \in Ids
    /\ \A k \in 1 .. Len(mngFifo) : mngFifo[k].id \in Transactions
    /\ \A i \in Inst : \A p \in 1 .. Len(handled[i]) : handled[i][p] \in Ids

\* Each instance has handled, and will take from its fifo and then from the
\* kernel's, messages in the order they were sent.
InOrder ==
    /\ \A p, q \in 1 .. Len(kernelFifo) :
          p < q /\ kernelFifo[p].kind = "message" /\ kernelFifo[q].kind = "message"
             => kernelFifo[p].id < kernelFifo[q].id
    /\ \A i \in Inst : \A p, q \in 1 .. Len(rxFifo[i]) :
          p < q /\ rxFifo[i][p].kind = "message" /\ rxFifo[i][q].kind = "message"
             => rxFifo[i][p].id < rxFifo[i][q].id
    /\ \A i \in Inst : \A p, q \in 1 .. Len(handled[i]) :
          p < q => handled[i][p] < handled[i][q]
    /\ \A i \in Inst : \A p \in 1 .. Len(rxFifo[i]), q \in 1 .. Len(kernelFifo) :
          rxFifo[i][p].kind = "message" /\ kernelFifo[q].kind = "message"
             => rxFifo[i][p].id < kernelFifo[q].id
    /\ \A i \in Inst : \A p \in 1 .. Len(handled[i]), q \in 1 .. Len(rxFifo[i]) :
          rxFifo[i][q].kind = "message" => handled[i][p] < rxFifo[i][q].id
    /\ \A i \in Inst : \A p \in 1 .. Len(handled[i]), q \in 1 .. Len(kernelFifo) :
          kernelFifo[q].kind = "message" => handled[i][p] < kernelFifo[q].id

\* Where a message is: before the kernel, before an instance, handled by it.
Waits(id) == \E p \in 1 .. Len(kernelFifo) : kernelFifo[p] = Message(id)
Holds(id, i) == \E p \in 1 .. Len(rxFifo[i]) : rxFifo[i][p] = Message(id)
Did(id, i) == \E p \in 1 .. Len(handled[i]) : handled[i][p] = id
Got(id, i) == Holds(id, i) \/ Did(id, i)

\* A message the kernel has routed, by its address.
Broadcast(id) == deleted[id] = 1 /\ \A i \in Inst : Got(id, i)

Multicast(id) ==
    /\ deleted[id] = IF DeletedTwice(sent[id].address) THEN 2 ELSE 1
    /\ \A i \in Inst : Got(id, i) => TaskOf[i] = sent[id].address.to

Single(id) ==
    /\ \A i \in Inst : Got(id, i) =>
          IF sent[id].address.inst # AnyInst THEN i = sent[id].address.inst
                                             ELSE TaskOf[i] = sent[id].address.to
    /\ \A i, j \in Inst : Got(id, i) /\ Got(id, j) => i = j
    /\ \A i \in Inst : Holds(id, i) => deleted[id] = 0
    /\ deleted[id] \in {0, 1}
    /\ deleted[id] = 0 => \E i \in Inst : Holds(id, i)

Routed(id) ==
    CASE sent[id].address.msgType = DIALOG_BROADCAST -> Broadcast(id)
      [] sent[id].address.msgType = DIALOG_MULTICAST -> Multicast(id)
      [] OTHER -> Single(id)

Placed == \A id \in Ids : IF Waits(id) THEN deleted[id] = 0 ELSE Routed(id)

\* An event, a reply: one of its transaction, with the partner asked, and only
\* while it is not answered.
Open(t, p) == asked[t] = p /\ answered[t] = 0

Answerable ==
    /\ \A p \in 1 .. Len(kernelFifo) :
          kernelFifo[p].kind = "init" => Open(kernelFifo[p].id, Kernel)
    /\ \A i \in Inst : \A p \in 1 .. Len(rxFifo[i]) :
          rxFifo[i][p].kind \in EventKinds => Open(rxFifo[i][p].id, i)
    /\ \A k \in 1 .. Len(mngFifo) : Open(mngFifo[k].id, mngFifo[k].from)

SameEvent(e, f) == e.kind \in EventKinds /\ f.kind \in EventKinds /\ e.id = f.id

Unique ==
    /\ \A p, q \in 1 .. Len(kernelFifo) :
          SameEvent(kernelFifo[p], kernelFifo[q]) => p = q
    /\ \A i \in Inst : \A p, q \in 1 .. Len(rxFifo[i]) :
          SameEvent(rxFifo[i][p], rxFifo[i][q]) => p = q
    /\ \A k, l \in 1 .. Len(mngFifo) : SameEvent(mngFifo[k], mngFifo[l]) => k = l
    /\ \A p \in 1 .. Len(kernelFifo), k \in 1 .. Len(mngFifo) :
          ~SameEvent(kernelFifo[p], mngFifo[k])
    /\ \A i \in Inst : \A p \in 1 .. Len(rxFifo[i]), k \in 1 .. Len(mngFifo) :
          ~SameEvent(rxFifo[i][p], mngFifo[k])

\* An unanswered transaction is before its partner or on its way back.
AskedKernel(t) == \E p \in 1 .. Len(kernelFifo) : kernelFifo[p] = Event("init", t)
AskedInst(t, i) == \E p \in 1 .. Len(rxFifo[i]) :
                      rxFifo[i][p].kind \in EventKinds /\ rxFifo[i][p].id = t
Replied(t) == \E k \in 1 .. Len(mngFifo) : mngFifo[k].id = t

Somewhere ==
    \A t \in Transactions :
       /\ answered[t] \in {0, 1}
       /\ answered[t] = 0 => \/ Replied(t)
                             \/ asked[t] = Kernel /\ AskedKernel(t)
                             \/ asked[t] \in Inst /\ AskedInst(t, asked[t])

\* The manager has sent an instance its first event.
Initiated(i) == \/ mng \in {"poll", "recv", "dispatch"}
                \/ mng = "start" /\ i < cursor

StartsAt(i, n) == \/ i \in started
                  \/ \E q \in 1 .. n : rxFifo[i][q].kind = "init"

\* The event that starts an instance is in front of all commands for it.
StartFirst ==
    /\ \A i \in Inst : Initiated(i) => StartsAt(i, Len(rxFifo[i]))
    /\ \A i \in Inst : \A p \in 1 .. Len(rxFifo[i]) :
          rxFifo[i][p].kind \in {"reload", "statues"} => StartsAt(i, p - 1)
    /\ \A k \in 1 .. Len(mngFifo) :
          mngFifo[k].from # Kernel /\ mngFifo[k].kind # "init"
             => mngFifo[k].from \in started

FrameworkIInv ==
    /\ SelectorIInv
    /\ Shape /\ Registered /\ Begun /\ Named
    /\ InOrder /\ Placed
    /\ Answerable /\ Unique /\ Somewhere /\ StartFirst

-----------------------------------------------------------------------------
(* Fifos.                                                                  *)

\* What adding to a fifo does.
LEMMA AppendFacts ==
    ASSUME NEW S, NEW s \in Seq(S), NEW e \in S
    PROVE  /\ Append(s, e) \in Seq(S)
           /\ Len(s) \in Nat /\ Len(Append(s, e)) = Len(s) + 1
           /\ Append(s, e)[Len(s) + 1] = e
           /\ \A p \in 1 .. Len(s) : Append(s, e)[p] = s[p]
OBVIOUS

\* What taking from a fifo does.
LEMMA TailFacts ==
    ASSUME NEW S, NEW s \in Seq(S), s # <<>>
    PROVE  /\ Tail(s) \in Seq(S)
           /\ Len(s) \in Nat \ {0} /\ Len(Tail(s)) = Len(s) - 1
           /\ Head(s) = s[1] /\ s[1] \in S
           /\ \A p \in 1 .. Len(s) - 1 : Tail(s)[p] = s[p + 1]
OBVIOUS

\* Where the entries of a fifo are once its head is taken.
LEMMA TailPlaces ==
    ASSUME NEW S, NEW s \in Seq(S), s # <<>>
    PROVE  /\ 1 \in 1 .. Len(s) /\ Len(Tail(s)) \in Nat
           /\ \A p \in 1 .. Len(Tail(s)) : p + 1 \in 1 .. Len(s) /\ Tail(s)[p] = s[p + 1]
           /\ \A p \in 1 .. Len(s) : p # 1 =>
                 p - 1 \in 1 .. Len(Tail(s)) /\ Tail(s)[p - 1] = s[p]
<1> DEFINE t == Tail(s)
<1>1. /\ Len(s) \in Nat \ {0} /\ Len(t) = Len(s) - 1
      /\ \A p \in 1 .. Len(s) - 1 : t[p] = s[p + 1]
    BY TailFacts
<1> HIDE DEF t
<1>2. \A p \in 1 .. Len(t) : p + 1 \in 1 .. Len(s) /\ t[p] = s[p + 1]
    BY <1>1
<1>3. ASSUME NEW p \in 1 .. Len(s), p # 1
      PROVE  p - 1 \in 1 .. Len(t) /\ t[p - 1] = s[p]
  <2>1. p - 1 \in 1 .. Len(s) - 1 /\ (p - 1) + 1 = p
      BY <1>1, <1>3
  <2> QED BY <1>1, <2>1
<1> QED BY <1>1, <1>2, <1>3 DEF t

\* The entries of a fifo that are of the given kinds are those of another,
\* moved by d places.
Moved(s, t, K, d) ==
    /\ \A p \in 1 .. Len(t) : t[p].kind \in K => p + d \in 1 .. Len(s) /\ t[p] = s[p + d]
    /\ \A p \in 1 .. Len(s) : s[p].kind \in K => p - d \in 1 .. Len(t) /\ t[p - d] = s[p]

Same(s, t, K) == \E d \in {0, 1} : Moved(s, t, K, d)

\* A fifo that does not change.
LEMMA SameRefl == ASSUME NEW S, NEW s \in Seq(S), NEW K PROVE Same(s, s, K)
<1>1. Len(s) \in Nat /\ \A p \in 1 .. Len(s) : p + 0 = p /\ p - 0 = p
    OBVIOUS
<1>2. Moved(s, s, K, 0)
    BY <1>1 DEF Moved
<1> QED BY <1>2 DEF Same

\* An entry of another kind is added, or taken.
LEMMA SameAppend ==
    ASSUME NEW S, NEW s \in Seq(S), NEW e \in S, NEW K, e.kind \notin K
    PROVE  Same(s, Append(s, e), K)
<1> DEFINE t == Append(s, e)
<1>1. /\ Len(s) \in Nat /\ Len(t) = Len(s) + 1 /\ t[Len(s) + 1] = e
      /\ \A p \in 1 .. Len(s) : t[p] = s[p]
    BY AppendFacts
<1> HIDE DEF t
<1>2. Moved(s, t, K, 0)
    BY <1>1 DEF Moved
<1> QED BY <1>2 DEF Same, t

\* The head is an entry of another kind.
LEMMA SameTail ==
    ASSUME NEW S, NEW s \in Seq(S), NEW K, s # <<>>, s[1].kind \notin K
    PROVE  Same(s, Tail(s), K)
<1> DEFINE t == Tail(s)
<1>1. /\ Len(s) \in Nat \ {0} /\ Len(t) = Len(s) - 1
      /\ \A p \in 1 .. Len(s) - 1 : t[p] = s[p + 1]
    BY TailFacts
<1> HIDE DEF t
<1>2. \A p \in 1 .. Len(t) : p + 1 \in 1 .. Len(s) /\ t[p] = s[p + 1]
    BY <1>1
<1>3. ASSUME NEW p \in 1 .. Len(s), s[p].kind \in K
      PROVE  p - 1 \in 1 .. Len(t) /\ t[p - 1] = s[p]
  <2>1. p # 1
      BY <1>3
  <2>2. p - 1 \in 1 .. Len(s) - 1 /\ (p - 1) + 1 = p
      BY <1>1, <2>1
  <2> QED BY <1>1, <2>2
<1>4. Moved(s, t, K, 1)
    BY <1>2, <1>3 DEF Moved
<1> QED BY <1>4 DEF Same, t

-----------------------------------------------------------------------------
(* A step that leaves the messages where they are, or the events.          *)

Msgs == {"message"}

\* Events may move: every message is where it was.
LEMMA MessagesKept ==
    ASSUME InOrder, Placed,
           Same(kernelFifo, kernelFifo', Msgs),
           \A i \in Inst : Same(rxFifo[i], rxFifo'[i], Msgs),
           UNCHANGED <<handled, deleted, sent>>,
           Len(kernelFifo) \in Nat, Len(kernelFifo') \in Nat,
           \A i \in Inst : Len(rxFifo[i]) \in Nat /\ Len(rxFifo'[i]) \in Nat
    PROVE  InOrder' /\ Placed'
<1>1. PICK d \in {0, 1} : Moved(kernelFifo, kernelFifo', Msgs, d)
    BY DEF Same
<1>2. /\ \A p \in 1 .. Len(kernelFifo') : kernelFifo'[p].kind = "message" =>
            p + d \in 1 .. Len(kernelFifo) /\ kernelFifo'[p] = kernelFifo[p + d]
      /\ \A p \in 1 .. Len(kernelFifo) : kernelFifo[p].kind = "message" =>
            p - d \in 1 .. Len(kernelFifo') /\ kernelFifo'[p - d] = kernelFifo[p]
    BY <1>1 DEF Moved, Msgs
<1>3. \A i \in Inst : \E c \in {0, 1} :
         /\ \A p \in 1 .. Len(rxFifo'[i]) : rxFifo'[i][p].kind = "message" =>
               p + c \in 1 .. Len(rxFifo[i]) /\ rxFifo'[i][p] = rxFifo[i][p + c]
         /\ \A p \in 1 .. Len(rxFifo[i]) : rxFifo[i][p].kind = "message" =>
               p - c \in 1 .. Len(rxFifo'[i]) /\ rxFifo'[i][p - c] = rxFifo[i][p]
    BY DEF Same, Moved, Msgs
<1>4. \A id : Message(id).kind = "message"
    BY DEF Message
<1>5. ASSUME NEW id PROVE Waits(id)' <=> Waits(id)
  <2>1. ASSUME NEW p \in 1 .. Len(kernelFifo), kernelFifo[p] = Message(id)
        PROVE  Waits(id)'
    <3>1. p - d \in 1 .. Len(kernelFifo') /\ kernelFifo'[p - d] = kernelFifo[p]
        BY <1>2, <1>4, <2>1
    <3> QED BY <2>1, <3>1 DEF Waits, Message
  <2>2. ASSUME NEW p \in 1 .. Len(kernelFifo'), kernelFifo'[p] = Message(id)
        PROVE  Waits(id)
    <3>1. p + d \in 1 .. Len(kernelFifo) /\ kernelFifo'[p] = kernelFifo[p + d]
        BY <1>2, <1>4, <2>2
    <3> QED BY <2>2, <3>1 DEF Waits
  <2> QED BY <2>1, <2>2 DEF Waits, Message
<1>6. ASSUME NEW id, NEW i \in Inst PROVE Holds(id, i)' <=> Holds(id, i)
  <2>0. PICK c \in {0, 1} :
         /\ \A p \in 1 .. Len(rxFifo'[i]) : rxFifo'[i][p].kind = "message" =>
               p + c \in 1 .. Len(rxFifo[i]) /\ rxFifo'[i][p] = rxFifo[i][p + c]
         /\ \A p \in 1 .. Len(rxFifo[i]) : rxFifo[i][p].kind = "message" =>
               p - c \in 1 .. Len(rxFifo'[i]) /\ rxFifo'[i][p - c] = rxFifo[i][p]
      BY <1>3
  <2>1. ASSUME NEW p \in 1 .. Len(rxFifo[i]), rxFifo[i][p] = Message(id)
        PROVE  Holds(id, i)'
    <3>1. p - c \in 1 .. Len(rxFifo'[i]) /\ rxFifo'[i][p - c] = rxFifo[i][p]
        BY <1>4, <2>0, <2>1
    <3> QED BY <2>1, <3>1 DEF Holds, Message
  <2>2. ASSUME NEW p \in 1 .. Len(rxFifo'[i]), rxFifo'[i][p] = Message(id)
        PROVE  Holds(id, i)
    <3>1. p + c \in 1 .. Len(rxFifo[i]) /\ rxFifo'[i][p] = rxFifo[i][p + c]
        BY <1>4, <2>0, <2>2
    <3> QED BY <2>2, <3>1 DEF Holds
  <2> QED BY <2>1, <2>2 DEF Holds, Message
<1>7. \A id : \A i \in Inst : Got(id, i)' <=> Got(id, i)
    BY <1>6 DEF Got, Did
<1>8. Placed'
  <2> SUFFICES ASSUME NEW id \in Ids
               PROVE  (IF Waits(id) THEN deleted[id] = 0 ELSE Routed(id))'
      BY DEF Placed, Ids
  <2>1. CASE Waits(id)
      BY <1>5, <2>1 DEF Placed
  <2>2. CASE ~Waits(id)
    <3>1. Routed(id)
        BY <2>2 DEF Placed
    <3>2. Broadcast(id) => Broadcast(id)'
        BY <1>7 DEF Broadcast
    <3>3. Multicast(id) => Multicast(id)'
        BY <1>7 DEF Multicast, DeletedTwice
    <3>4. Single(id) => Single(id)'
        BY <1>6, <1>7 DEF Single
    <3>5. Routed(id)'
        BY <3>1, <3>2, <3>3, <3>4 DEF Routed
    <3> QED BY <1>5, <2>2, <3>5
  <2> QED BY <2>1, <2>2
<1>9. InOrder'
  <2>1. \A p, q \in 1 .. Len(kernelFifo') :
          p < q /\ kernelFifo'[p].kind = "message" /\ kernelFifo'[q].kind = "message"
             => kernelFifo'[p].id < kernelFifo'[q].id
    <3> SUFFICES ASSUME NEW p \in 1 .. Len(kernelFifo'), NEW q \in 1 .. Len(kernelFifo'),
                        p < q, kernelFifo'[p].kind = "message",
                        kernelFifo'[q].kind = "message"
                 PROVE  kernelFifo'[p].id < kernelFifo'[q].id
        OBVIOUS
    <3>1. /\ p + d \in 1 .. Len(kernelFifo) /\ kernelFifo'[p] = kernelFifo[p + d]
          /\ q + d \in 1 .. Len(kernelFifo) /\ kernelFifo'[q] = kernelFifo[q + d]
        BY <1>2
    <3>2. p + d < q + d
        OBVIOUS
    <3> QED BY <3>1, <3>2 DEF InOrder
  <2>2. ASSUME NEW i \in Inst
        PROVE  /\ \A p, q \in 1 .. Len(rxFifo'[i]) :
                     p < q /\ rxFifo'[i][p].kind = "message" /\ rxFifo'[i][q].kind = "message"
                        => rxFifo'[i][p].id < rxFifo'[i][q].id
               /\ \A p \in 1 .. Len(rxFifo'[i]), q \in 1 .. Len(kernelFifo') :
                     rxFifo'[i][p].kind = "message" /\ kernelFifo'[q].kind = "message"
                        => rxFifo'[i][p].id < kernelFifo'[q].id
               /\ \A p \in 1 .. Len(handled[i]), q \in 1 .. Len(rxFifo'[i]) :
                     rxFifo'[i][q].kind = "message" => handled[i][p] < rxFifo'[i][q].id
               /\ \A p \in 1 .. Len(handled[i]), q \in 1 .. Len(kernelFifo') :
                     kernelFifo'[q].kind = "message" => handled[i][p] < kernelFifo'[q].id
    <3>1. PICK c \in {0, 1} :
             \A p \in 1 .. Len(rxFifo'[i]) : rxFifo'[i][p].kind = "message" =>
                p + c \in 1 .. Len(rxFifo[i]) /\ rxFifo'[i][p] = rxFifo[i][p + c]
        BY <1>3
    <3>2. ASSUME NEW p \in 1 .. Len(rxFifo'[i]), NEW q \in 1 .. Len(rxFifo'[i]),
                 p < q, rxFifo'[i][p].kind = "message", rxFifo'[i][q].kind = "message"
          PROVE  rxFifo'[i][p].id < rxFifo'[i][q].id
      <4>1. /\ p + c \in 1 .. Len(rxFifo[i]) /\ rxFifo'[i][p] = rxFifo[i][p + c]
            /\ q + c \in 1 .. Len(rxFifo[i]) /\ rxFifo'[i][q] = rxFifo[i][q + c]
          BY <3>1, <3>2
      <4>2. p + c < q + c
          BY <3>2
      <4> QED BY <3>2, <4>1, <4>2 DEF InOrder
    <3>3. ASSUME NEW p \in 1 .. Len(rxFifo'[i]), NEW q \in 1 .. Len(kernelFifo'),
                 rxFifo'[i][p].kind = "message", kernelFifo'[q].kind = "message"
          PROVE  rxFifo'[i][p].id < kernelFifo'[q].id
      <4>1. /\ p + c \in 1 .. Len(rxFifo[i]) /\ rxFifo'[i][p] = rxFifo[i][p + c]
            /\ q + d \in 1 .. Len(kernelFifo) /\ kernelFifo'[q] = kernelFifo[q + d]
          BY <1>2, <3>1, <3>3
      <4> QED BY <3>3, <4>1 DEF InOrder
    <3>4. \A p \in 1 .. Len(handled[i]), q \in 1 .. Len(rxFifo'[i]) :
             rxFifo'[i][q].kind = "message" => handled[i][p] < rxFifo'[i][q].id
        BY <3>1 DEF InOrder
    <3>5. \A p \in 1 .. Len(handled[i]), q \in 1 .. Len(kernelFifo') :
             kernelFifo'[q].kind = "message" => handled[i][p] < kernelFifo'[q].id
        BY <1>2 DEF InOrder
    <3> QED BY <3>2, <3>3, <3>4, <3>5
  <2>3. \A i \in Inst : \A p, q \in 1 .. Len(handled'[i]) :
           p < q => handled'[i][p] < handled'[i][q]
      BY DEF InOrder
  <2>4. handled' = handled
      OBVIOUS
  <2> QED BY <2>1, <2>2, <2>3, <2>4 DEF InOrder
<1> QED BY <1>8, <1>9

\* Messages may move: every event and every reply is where it was.
LEMMA EventsKept ==
    ASSUME Answerable, Unique, Somewhere, StartFirst,
           Same(kernelFifo, kernelFifo', EventKinds),
           \A i \in Inst : Same(rxFifo[i], rxFifo'[i], EventKinds),
           UNCHANGED <<asked, answered, mngFifo, started>>,
           \A i \in Inst : Initiated(i)' => Initiated(i),
           Len(kernelFifo) \in Nat, Len(kernelFifo') \in Nat,
           \A i \in Inst : Len(rxFifo[i]) \in Nat /\ Len(rxFifo'[i]) \in Nat
    PROVE  Answerable' /\ Unique' /\ Somewhere' /\ StartFirst'
<1>1. PICK d \in {0, 1} : Moved(kernelFifo, kernelFifo', EventKinds, d)
    BY DEF Same
<1>2. /\ \A p \in 1 .. Len(kernelFifo') : kernelFifo'[p].kind \in EventKinds =>
            p + d \in 1 .. Len(kernelFifo) /\ kernelFifo'[p] = kernelFifo[p + d]
      /\ \A p \in 1 .. Len(kernelFifo) : kernelFifo[p].kind \in EventKinds =>
            p - d \in 1 .. Len(kernelFifo') /\ kernelFifo'[p - d] = kernelFifo[p]
    BY <1>1 DEF Moved
<1>3. ASSUME NEW i \in Inst
      PROVE  \E c \in {0, 1} :
         /\ \A p \in 1 .. Len(rxFifo'[i]) : rxFifo'[i][p].kind \in EventKinds =>
               p + c \in 1 .. Len(rxFifo[i]) /\ rxFifo'[i][p] = rxFifo[i][p + c]
         /\ \A p \in 1 .. Len(rxFifo[i]) : rxFifo[i][p].kind \in EventKinds =>
               p - c \in 1 .. Len(rxFifo'[i]) /\ rxFifo'[i][p - c] = rxFifo[i][p]
    BY DEF Same, Moved
<1>4. "init" \in EventKinds /\ {"reload", "statues"} \subseteq EventKinds
    BY DEF EventKinds
<1>5. Answerable'
  <2>1. \A p \in 1 .. Len(kernelFifo') :
           kernelFifo'[p].kind = "init" => Open(kernelFifo'[p].id, Kernel)
      BY <1>2, <1>4 DEF Answerable
  <2>2. ASSUME NEW i \in Inst, NEW p \in 1 .. Len(rxFifo'[i]),
               rxFifo'[i][p].kind \in EventKinds
        PROVE  Open(rxFifo'[i][p].id, i)
    <3>1. PICK c \in {0, 1} : p + c \in 1 .. Len(rxFifo[i]) /\ rxFifo'[i][p] = rxFifo[i][p + c]
        BY <1>3, <2>2
    <3> QED BY <2>2, <3>1 DEF Answerable
  <2>3. \A k \in 1 .. Len(mngFifo) : Open(mngFifo[k].id, mngFifo[k].from)
      BY DEF Answerable
  <2> QED BY <2>1, <2>2, <2>3 DEF Answerable, Open
<1>6. Unique'
  <2>1. ASSUME NEW p \in 1 .. Len(kernelFifo'), NEW q \in 1 .. Len(kernelFifo'),
               SameEvent(kernelFifo'[p], kernelFifo'[q])
        PROVE  p = q
    <3>1. /\ p + d \in 1 .. Len(kernelFifo) /\ kernelFifo'[p] = kernelFifo[p + d]
          /\ q + d \in 1 .. Len(kernelFifo) /\ kernelFifo'[q] = kernelFifo[q + d]
        BY <1>2, <2>1 DEF SameEvent
    <3>2. p + d = q + d
        BY <2>1, <3>1 DEF Unique
    <3> QED BY <3>2
  <2>2. ASSUME NEW i \in Inst, NEW p \in 1 .. Len(rxFifo'[i]), NEW q \in 1 .. Len(rxFifo'[i]),
               SameEvent(rxFifo'[i][p], rxFifo'[i][q])
        PROVE  p = q
    <3>1. PICK c \in {0, 1} :
             \A r \in 1 .. Len(rxFifo'[i]) : rxFifo'[i][r].kind \in EventKinds =>
                r + c \in 1 .. Len(rxFifo[i]) /\ rxFifo'[i][r] = rxFifo[i][r + c]
        BY <1>3
    <3>2. /\ p + c \in 1 .. Len(rxFifo[i]) /\ rxFifo'[i][p] = rxFifo[i][p + c]
          /\ q + c \in 1 .. Len(rxFifo[i]) /\ rxFifo'[i][q] = rxFifo[i][q + c]
        BY <2>2, <3>1 DEF SameEvent
    <3>3. p + c = q + c
        BY <2>2, <3>2 DEF Unique
    <3> QED BY <3>3
  <2>3. ASSUME NEW p \in 1 .. Len(kernelFifo'), NEW k \in 1 .. Len(mngFifo),
               SameEvent(kernelFifo'[p], mngFifo[k])
        PROVE  FALSE
    <3>1. p + d \in 1 .. Len(kernelFifo) /\ kernelFifo'[p] = kernelFifo[p + d]
        BY <1>2, <2>3 DEF SameEvent
    <3> QED BY <2>3, <3>1 DEF Unique
  <2>4. ASSUME NEW i \in Inst, NEW p \in 1 .. Len(rxFifo'[i]), NEW k \in 1 .. Len(mngFifo),
               SameEvent(rxFifo'[i][p], mngFifo[k])
        PROVE  FALSE
    <3>1. PICK c \in {0, 1} : p + c \in 1 .. Len(rxFifo[i]) /\ rxFifo'[i][p] = rxFifo[i][p + c]
        BY <1>3, <2>4 DEF SameEvent
    <3> QED BY <2>4, <3>1 DEF Unique
  <2>5. \A k, l \in 1 .. Len(mngFifo) : SameEvent(mngFifo[k], mngFifo[l]) => k = l
      BY DEF Unique
  <2>6. mngFifo' = mngFifo
      OBVIOUS
  <2> QED BY <2>1, <2>2, <2>3, <2>4, <2>5, <2>6 DEF Unique, SameEvent
<1>7. Somewhere'
  <2>1. ASSUME NEW t, AskedKernel(t) PROVE AskedKernel(t)'
    <3>1. PICK p \in 1 .. Len(kernelFifo) : kernelFifo[p] = Event("init", t)
        BY <2>1 DEF AskedKernel
    <3>2. kernelFifo[p].kind = "init"
        BY <3>1 DEF Event
    <3>3. p - d \in 1 .. Len(kernelFifo') /\ kernelFifo'[p - d] = kernelFifo[p]
        BY <1>2, <1>4, <3>2
    <3> QED BY <3>1, <3>3 DEF AskedKernel, Event
  <2>2. ASSUME NEW t, NEW i \in Inst, AskedInst(t, i) PROVE AskedInst(t, i)'
    <3>1. PICK p \in 1 .. Len(rxFifo[i]) : rxFifo[i][p].kind \in EventKinds /\ rxFifo[i][p].id = t
        BY <2>2 DEF AskedInst
    <3>2. PICK c \in {0, 1} : p - c \in 1 .. Len(rxFifo'[i]) /\ rxFifo'[i][p - c] = rxFifo[i][p]
        BY <1>3, <3>1
    <3> QED BY <3>1, <3>2 DEF AskedInst
  <2>3. \A t : Replied(t) => Replied(t)'
      BY DEF Replied
  <2>4. asked' = asked /\ answered' = answered
      OBVIOUS
  <2> QED BY <2>1, <2>2, <2>3, <2>4 DEF Somewhere, Transactions
<1>8. StartFirst'
  <2>1. ASSUME NEW i \in Inst, NEW p \in 1 .. Len(rxFifo'[i]),
               rxFifo'[i][p].kind \in {"reload", "statues"}
        PROVE  StartsAt(i, p - 1)'
    <3>1. PICK c \in {0, 1} :
             /\ \A r \in 1 .. Len(rxFifo'[i]) : rxFifo'[i][r].kind \in EventKinds =>
                   r + c \in 1 .. Len(rxFifo[i]) /\ rxFifo'[i][r] = rxFifo[i][r + c]
             /\ \A r \in 1 .. Len(rxFifo[i]) : rxFifo[i][r].kind \in EventKinds =>
                   r - c \in 1 .. Len(rxFifo'[i]) /\ rxFifo'[i][r - c] = rxFifo[i][r]
        BY <1>3
    <3>2. p + c \in 1 .. Len(rxFifo[i]) /\ rxFifo'[i][p] = rxFifo[i][p + c]
        BY <1>4, <2>1, <3>1
    <3>3. StartsAt(i, p + c - 1)
        BY <2>1, <3>2 DEF StartFirst
    <3>4. CASE i \in started
        BY <3>4 DEF StartsAt
    <3>5. ASSUME NEW q \in 1 .. p + c - 1, rxFifo[i][q].kind = "init"
          PROVE  StartsAt(i, p - 1)'
      <4>1. q \in 1 .. Len(rxFifo[i])
          BY <3>2, <3>5
      <4>2. q - c \in 1 .. Len(rxFifo'[i]) /\ rxFifo'[i][q - c].kind = "init"
          BY <1>4, <3>1, <3>5, <4>1
      <4>3. q - c \in 1 .. p - 1
          BY <3>5, <4>2
      <4> QED BY <4>2, <4>3 DEF StartsAt
    <3> QED BY <3>3, <3>4, <3>5 DEF StartsAt
  <2>2. ASSUME NEW i \in Inst, Initiated(i)'
        PROVE  StartsAt(i, Len(rxFifo[i]))'
    <3>1. StartsAt(i, Len(rxFifo[i]))
        BY <2>2 DEF StartFirst
    <3>2. CASE i \in started
        BY <3>2 DEF StartsAt
    <3>3. ASSUME NEW q \in 1 .. Len(rxFifo[i]), rxFifo[i][q].kind = "init"
          PROVE  StartsAt(i, Len(rxFifo[i]))'
      <4>1. PICK c \in {0, 1} : q - c \in 1 .. Len(rxFifo'[i]) /\ rxFifo'[i][q - c] = rxFifo[i][q]
          BY <1>3, <1>4, <3>3
      <4> QED BY <3>3, <4>1 DEF StartsAt
    <3> QED BY <3>1, <3>2, <3>3 DEF StartsAt
  <2>3. \A k \in 1 .. Len(mngFifo') : mngFifo'[k].from # Kernel /\ mngFifo'[k].kind # "init"
                                         => mngFifo'[k].from \in started'
      BY DEF StartFirst
  <2> QED BY <2>1, <2>2, <2>3 DEF StartFirst
<1> QED BY <1>5, <1>6, <1>7, <1>8

\* The lengths and the entries of the fifos.
LEMMA FifoShape ==
    ASSUME Shape
    PROVE  /\ Len(kernelFifo) \in Nat
           /\ \A p \in 1 .. Len(kernelFifo) :
                 kernelFifo[p] \in KernelRec /\ kernelFifo[p].kind \in {"init", "message"}
           /\ Len(mngFifo) \in Nat /\ \A k \in 1 .. Len(mngFifo) : mngFifo[k] \in ReplyRec
           /\ \A i \in Inst :
                 /\ rxFifo[i] \in Seq(EventRec \union MessageRec) /\ Len(rxFifo[i]) \in Nat
                 /\ \A p \in 1 .. Len(rxFifo[i]) : rxFifo[i][p] \in EventRec \union MessageRec
                 /\ handled[i] \in Seq(Nat) /\ Len(handled[i]) \in Nat
                 /\ \A p \in 1 .. Len(handled[i]) : handled[i][p] \in Nat
<1>1. kernelFifo \in Seq(KernelRec) /\ mngFifo \in Seq(ReplyRec)
    BY DEF Shape
<1>2. \A p \in 1 .. Len(kernelFifo) : kernelFifo[p] \in KernelRec
    BY <1>1
<1>3. \A p \in 1 .. Len(kernelFifo) : kernelFifo[p].kind \in {"init", "message"}
    BY <1>2 DEF KernelRec
<1>4. \A k \in 1 .. Len(mngFifo) : mngFifo[k] \in ReplyRec
    BY <1>1
<1>5. ASSUME NEW i \in Inst
      PROVE  /\ rxFifo[i] \in Seq(EventRec \union MessageRec) /\ handled[i] \in Seq(Nat)
    BY DEF Shape
<1>6. ASSUME NEW i \in Inst
      PROVE  /\ Len(rxFifo[i]) \in Nat /\ Len(handled[i]) \in Nat
             /\ \A p \in 1 .. Len(rxFifo[i]) : rxFifo[i][p] \in EventRec \union MessageRec
             /\ \A p \in 1 .. Len(handled[i]) : handled[i][p] \in Nat
  <2> HIDE DEF EventRec, MessageRec
  <2> QED BY <1>5
<1> QED BY <1>1, <1>2, <1>3, <1>4, <1>5, <1>6

-----------------------------------------------------------------------------
(* A new transaction.                                                      *)

\* What was asked before stays as it was.
LEMMA AskFacts ==
    ASSUME Shape, NEW p \in Partner, Ask(p)
    PROVE  /\ Len(asked) \in Nat /\ Len(asked') = Len(asked) + 1
           /\ asked' \in Seq(Partner) /\ answered' \in Seq(Nat)
           /\ Len(answered') = Len(asked')
           /\ Transactions' = Transactions \union {Len(asked')}
           /\ Len(asked') \notin Transactions
           /\ asked'[Len(asked')] = p /\ answered'[Len(asked')] = 0
           /\ \A t \in Transactions : asked'[t] = asked[t] /\ answered'[t] = answered[t]
<1>1. /\ asked \in Seq(Partner) /\ answered \in Seq(Nat) /\ Len(answered) = Len(asked)
      /\ asked' = Append(asked, p) /\ answered' = Append(answered, 0)
    BY DEF Shape, Ask
<1>2. 0 \in Nat
    OBVIOUS
<1>3. /\ Len(asked) \in Nat /\ Len(asked') = Len(asked) + 1 /\ asked' \in Seq(Partner)
      /\ asked'[Len(asked) + 1] = p
      /\ \A t \in 1 .. Len(asked) : asked'[t] = asked[t]
    BY <1>1, AppendFacts
<1>4. /\ Len(answered') = Len(answered) + 1 /\ answered' \in Seq(Nat)
      /\ answered'[Len(answered) + 1] = 0
      /\ \A t \in 1 .. Len(answered) : answered'[t] = answered[t]
    BY <1>1, <1>2, AppendFacts
<1> QED BY <1>1, <1>3, <1>4 DEF Transactions

\* The event of a new transaction in the fifo of an instance.
LEMMA SendEventShape ==
    ASSUME Shape, NEW i \in Inst, NEW k \in EventKinds, SendEvent(k, i)
    PROVE  /\ rxFifo' \in [Inst -> Seq(EventRec \union MessageRec)]
           /\ \A j \in Inst \ {i} : rxFifo'[j] = rxFifo[j]
           /\ Len(rxFifo[i]) \in Nat /\ Len(rxFifo'[i]) = Len(rxFifo[i]) + 1
           /\ rxFifo'[i][Len(rxFifo[i]) + 1] = Event(k, Len(asked'))
           /\ \A p \in 1 .. Len(rxFifo[i]) : rxFifo'[i][p] = rxFifo[i][p]
           /\ Same(rxFifo[i], rxFifo'[i], Msgs)
<1> DEFINE e == Event(k, Len(asked'))
<1>1. Len(asked') \in Nat
    BY AskFacts DEF SendEvent, Partner
<1>2. /\ rxFifo \in [Inst -> Seq(EventRec \union MessageRec)]
      /\ rxFifo' = [rxFifo EXCEPT ![i] = Append(rxFifo[i], e)]
    BY DEF Shape, SendEvent, FifoAdd
<1>3. e \in EventRec \union MessageRec /\ e.kind = k /\ "message" \notin EventKinds
    BY <1>1 DEF Event, EventRec, EventKinds
<1> HIDE DEF e
<1>4. rxFifo[i] \in Seq(EventRec \union MessageRec)
    BY <1>2
<1>5. /\ Append(rxFifo[i], e) \in Seq(EventRec \union MessageRec)
      /\ Len(rxFifo[i]) \in Nat /\ Len(Append(rxFifo[i], e)) = Len(rxFifo[i]) + 1
      /\ Append(rxFifo[i], e)[Len(rxFifo[i]) + 1] = e
      /\ \A p \in 1 .. Len(rxFifo[i]) : Append(rxFifo[i], e)[p] = rxFifo[i][p]
    BY <1>3, <1>4, AppendFacts
<1>6. Same(rxFifo[i], Append(rxFifo[i], e), Msgs)
    BY <1>3, <1>4, SameAppend DEF Msgs
<1>7. rxFifo'[i] = Append(rxFifo[i], e)
    BY <1>2
<1> QED BY <1>2, <1>5, <1>6, <1>7 DEF e

\* An event for an instance: the new transaction is before its partner.
LEMMA SendEventKeeps ==
    ASSUME Shape, Named, Answerable, Unique, Somewhere, StartFirst,
           NEW i \in Inst, NEW k \in EventKinds, SendEvent(k, i),
           UNCHANGED <<kernelFifo, mngFifo, started>>,
           k # "init" => Initiated(i),
           \A j \in Inst : Initiated(j)' => Initiated(j) \/ (j = i /\ k = "init")
    PROVE  Answerable' /\ Unique' /\ Somewhere' /\ StartFirst'
<1>0. PICK n \in Nat, l \in Nat : n = Len(asked') /\ l = Len(rxFifo[i])
    BY AskFacts, FifoShape DEF SendEvent, Partner
<1>1. /\ Transactions' = Transactions \union {n} /\ n \notin Transactions
      /\ asked'[n] = i /\ answered'[n] = 0
      /\ \A t \in Transactions : asked'[t] = asked[t] /\ answered'[t] = answered[t]
    BY <1>0, AskFacts DEF SendEvent, Partner
<1>2. /\ \A j \in Inst \ {i} : rxFifo'[j] = rxFifo[j]
      /\ l \in Nat /\ Len(rxFifo'[i]) = l + 1
      /\ rxFifo'[i][l + 1] = Event(k, n)
      /\ \A p \in 1 .. l : rxFifo'[i][p] = rxFifo[i][p]
    BY <1>0, SendEventShape
<1>3. Event(k, n).kind = k /\ Event(k, n).id = n
    BY DEF Event
<1>4. kernelFifo' = kernelFifo /\ mngFifo' = mngFifo /\ started' = started
    OBVIOUS
<1>5. /\ \A p \in 1 .. Len(kernelFifo) :
            kernelFifo[p].kind \in EventKinds => kernelFifo[p].id \in Transactions
      /\ \A j \in Inst : \A p \in 1 .. Len(rxFifo[j]) :
            rxFifo[j][p].kind \in EventKinds => rxFifo[j][p].id \in Transactions
      /\ \A m \in 1 .. Len(mngFifo) : mngFifo[m].id \in Transactions
  <2>1. \A p \in 1 .. Len(kernelFifo) : kernelFifo[p].kind \in {"init", "message"}
      BY FifoShape
  <2> QED BY <2>1 DEF Named, EventKinds
<1>6. \A j \in Inst : \A p \in 1 .. Len(rxFifo'[j]) :
         (j = i /\ p = l + 1) \/ (p \in 1 .. Len(rxFifo[j]) /\ rxFifo'[j][p] = rxFifo[j][p])
    BY <1>0, <1>2
<1>7. Event(k, n).kind \in EventKinds /\ "init" \in EventKinds
    BY <1>3 DEF EventKinds
<1>9. Answerable'
  <2>1. \A p \in 1 .. Len(kernelFifo) :
           kernelFifo[p].kind = "init" =>
              asked'[kernelFifo[p].id] = Kernel /\ answered'[kernelFifo[p].id] = 0
      BY <1>1, <1>5, <1>7 DEF Answerable, Open
  <2>2. ASSUME NEW j \in Inst, NEW p \in 1 .. Len(rxFifo'[j]), rxFifo'[j][p].kind \in EventKinds
        PROVE  asked'[rxFifo'[j][p].id] = j /\ answered'[rxFifo'[j][p].id] = 0
    <3>1. CASE j = i /\ p = l + 1
        BY <1>1, <1>2, <1>3, <3>1
    <3>2. CASE p \in 1 .. Len(rxFifo[j]) /\ rxFifo'[j][p] = rxFifo[j][p]
        BY <1>1, <1>5, <2>2, <3>2 DEF Answerable, Open
    <3> QED BY <1>6, <3>1, <3>2
  <2>3. \A m \in 1 .. Len(mngFifo) :
           asked'[mngFifo[m].id] = mngFifo[m].from /\ answered'[mngFifo[m].id] = 0
      BY <1>1, <1>5 DEF Answerable, Open
  <2> QED BY <1>4, <2>1, <2>2, <2>3 DEF Answerable, Open
<1>10. Unique'
  <2>1. \A p, q \in 1 .. Len(kernelFifo') :
           SameEvent(kernelFifo'[p], kernelFifo'[q]) => p = q
      BY <1>4 DEF Unique
  <2>2. ASSUME NEW j \in Inst, NEW p \in 1 .. Len(rxFifo'[j]), NEW q \in 1 .. Len(rxFifo'[j]),
               SameEvent(rxFifo'[j][p], rxFifo'[j][q])
        PROVE  p = q
    <3>1. CASE (j = i /\ p = l + 1) /\ (j = i /\ q = l + 1)
        BY <3>1
    <3>2. CASE (j = i /\ p = l + 1) /\ (q \in 1 .. Len(rxFifo[j]) /\ rxFifo'[j][q] = rxFifo[j][q])
        BY <1>1, <1>2, <1>3, <1>5, <2>2, <3>2 DEF SameEvent
    <3>3. CASE (p \in 1 .. Len(rxFifo[j]) /\ rxFifo'[j][p] = rxFifo[j][p]) /\ (j = i /\ q = l + 1)
        BY <1>1, <1>2, <1>3, <1>5, <2>2, <3>3 DEF SameEvent
    <3>4. CASE /\ p \in 1 .. Len(rxFifo[j]) /\ rxFifo'[j][p] = rxFifo[j][p]
               /\ q \in 1 .. Len(rxFifo[j]) /\ rxFifo'[j][q] = rxFifo[j][q]
        BY <2>2, <3>4 DEF Unique
    <3> QED BY <1>6, <3>1, <3>2, <3>3, <3>4
  <2>3. ASSUME NEW j \in Inst, NEW p \in 1 .. Len(rxFifo'[j]), NEW m \in 1 .. Len(mngFifo),
               SameEvent(rxFifo'[j][p], mngFifo[m])
        PROVE  FALSE
    <3>1. CASE j = i /\ p = l + 1
        BY <1>1, <1>2, <1>3, <1>5, <2>3, <3>1 DEF SameEvent
    <3>2. CASE p \in 1 .. Len(rxFifo[j]) /\ rxFifo'[j][p] = rxFifo[j][p]
        BY <2>3, <3>2 DEF Unique
    <3> QED BY <1>6, <3>1, <3>2
  <2>4. /\ \A m1, m2 \in 1 .. Len(mngFifo) : SameEvent(mngFifo[m1], mngFifo[m2]) => m1 = m2
        /\ \A p \in 1 .. Len(kernelFifo), m \in 1 .. Len(mngFifo) :
              ~SameEvent(kernelFifo[p], mngFifo[m])
      BY DEF Unique
  <2> QED BY <1>4, <2>1, <2>2, <2>3, <2>4 DEF Unique, SameEvent
<1>11. Somewhere'
  <2>1. ASSUME NEW t \in Transactions, NEW j \in Inst, AskedInst(t, j) PROVE AskedInst(t, j)'
    <3>1. PICK p \in 1 .. Len(rxFifo[j]) : rxFifo[j][p].kind \in EventKinds /\ rxFifo[j][p].id = t
        BY <2>1 DEF AskedInst
    <3>2. p \in 1 .. Len(rxFifo'[j]) /\ rxFifo'[j][p] = rxFifo[j][p]
      <4>1. CASE j = i
          BY <1>0, <1>2, <4>1
      <4>2. CASE j # i
          BY <1>2, <4>2
      <4> QED BY <4>1, <4>2
    <3> QED BY <3>1, <3>2 DEF AskedInst
  <2>2. \A t \in Transactions : /\ Replied(t) => Replied(t)'
                                /\ AskedKernel(t) => AskedKernel(t)'
      BY <1>4 DEF Replied, AskedKernel, Event
  <2>3. AskedInst(n, i)'
    <3>1. l + 1 \in 1 .. Len(rxFifo'[i])
        BY <1>2
    <3> QED BY <1>2, <1>3, <1>7, <3>1 DEF AskedInst
  <2>4. ASSUME NEW t \in Transactions
        PROVE  /\ answered'[t] \in {0, 1}
               /\ answered'[t] = 0 => \/ Replied(t)'
                                      \/ asked'[t] = Kernel /\ AskedKernel(t)'
                                      \/ asked'[t] \in Inst /\ AskedInst(t, asked[t])'
    <3>1. answered'[t] = answered[t] /\ asked'[t] = asked[t]
        BY <1>1
    <3> QED BY <2>1, <2>2, <3>1 DEF Somewhere
  <2>5. ASSUME NEW t \in Transactions', answered'[t] = 0 \/ answered'[t] \notin {0, 1}
        PROVE  \/ Replied(t)'
               \/ asked'[t] = Kernel /\ AskedKernel(t)'
               \/ /\ asked'[t] \in Inst
                  /\ \E p \in 1 .. Len(rxFifo'[asked'[t]]) :
                        /\ rxFifo'[asked'[t]][p].kind \in EventKinds
                        /\ rxFifo'[asked'[t]][p].id = t
    <3>1. CASE t = n
        BY <1>1, <2>3, <3>1 DEF AskedInst
    <3>2. CASE t \in Transactions
      <4>1. asked'[t] = asked[t]
          BY <1>1, <3>2
      <4> QED BY <2>4, <2>5, <3>2, <4>1 DEF AskedInst
    <3> QED BY <1>1, <3>1, <3>2
  <2>6. \A t \in Transactions' : answered'[t] \in {0, 1}
      BY <1>1, <2>4
  <2> QED BY <2>5, <2>6 DEF Somewhere, AskedInst
<1>12. StartFirst'
  <2>1. ASSUME NEW j \in Inst, NEW m \in 0 .. Len(rxFifo[j]), StartsAt(j, m)
        PROVE  StartsAt(j, m)'
    <3>1. Len(rxFifo[j]) \in Nat /\ \A q \in 1 .. Len(rxFifo[j]) : rxFifo'[j][q] = rxFifo[j][q]
        BY <1>0, <1>2, FifoShape
    <3> QED BY <1>4, <2>1, <3>1 DEF StartsAt
  <2>2. ASSUME NEW j \in Inst, Initiated(j)' PROVE StartsAt(j, Len(rxFifo[j]))'
    <3>1. /\ Len(rxFifo[j]) \in Nat /\ Len(rxFifo'[j]) \in Nat
          /\ Len(rxFifo[j]) <= Len(rxFifo'[j])
        BY <1>0, <1>2, FifoShape
    <3>2. CASE Initiated(j)
      <4>1. StartsAt(j, Len(rxFifo[j]))
          BY <3>2 DEF StartFirst
      <4>2. j \in started' \/ \E q \in 1 .. Len(rxFifo[j]) : rxFifo'[j][q].kind = "init"
          BY <2>1, <3>1, <4>1, <1>0, <1>2, <1>4 DEF StartsAt
      <4> QED BY <3>1, <4>2 DEF StartsAt
    <3>3. CASE j = i /\ k = "init"
      <4>1. l + 1 \in 1 .. Len(rxFifo'[j]) /\ rxFifo'[j][l + 1].kind = "init"
          BY <1>2, <1>3, <3>3
      <4> QED BY <4>1 DEF StartsAt
    <3> QED BY <2>2, <3>2, <3>3
  <2>3. ASSUME NEW j \in Inst, NEW p \in 1 .. Len(rxFifo'[j]),
               rxFifo'[j][p].kind \in {"reload", "statues"}
        PROVE  StartsAt(j, p - 1)'
    <3>1. CASE j = i /\ p = l + 1
      <4>1. k # "init"
          BY <1>2, <1>3, <2>3, <3>1
      <4>2. StartsAt(i, l)
          BY <4>1, <1>0 DEF StartFirst
      <4>3. l \in 0 .. Len(rxFifo[i]) /\ p - 1 = l
          BY <1>0, <3>1
      <4>4. StartsAt(i, l)'
          BY <2>1, <4>2, <4>3
      <4>5. j \in started' \/ \E q \in 1 .. p - 1 : rxFifo'[j][q].kind = "init"
          BY <3>1, <4>3, <4>4 DEF StartsAt
      <4> QED BY <4>5 DEF StartsAt
    <3>2. CASE p \in 1 .. Len(rxFifo[j]) /\ rxFifo'[j][p] = rxFifo[j][p]
      <4>1. StartsAt(j, p - 1)
          BY <2>3, <3>2 DEF StartFirst
      <4>2. p \in Nat /\ Len(rxFifo[j]) \in Nat
          BY <3>2, FifoShape
      <4>3. p - 1 \in 0 .. Len(rxFifo[j])
          BY <3>2, <4>2
      <4> QED BY <2>1, <4>1, <4>3
    <3> QED BY <1>6, <3>1, <3>2
  <2>4. \A m \in 1 .. Len(mngFifo) : mngFifo[m].from # Kernel /\ mngFifo[m].kind # "init"
                                        => mngFifo[m].from \in started
      BY DEF StartFirst
  <2> QED BY <1>4, <2>2, <2>3, <2>4 DEF StartFirst
<1> QED BY <1>9, <1>10, <1>11, <1>12

\* The event that starts the kernel.
LEMMA StartKernelShape ==
    ASSUME Shape, StartKernel
    PROVE  /\ kernelFifo' \in Seq(KernelRec)
           /\ Len(kernelFifo') = Len(kernelFifo) + 1
           /\ kernelFifo'[Len(kernelFifo) + 1] = Event("init", Len(asked'))
           /\ \A p \in 1 .. Len(kernelFifo) : kernelFifo'[p] = kernelFifo[p]
           /\ Same(kernelFifo, kernelFifo', Msgs)
<1> DEFINE e == Event("init", Len(asked'))
<1>1. Len(asked') \in Nat
    BY AskFacts DEF StartKernel, Partner
<1>2. kernelFifo \in Seq(KernelRec) /\ kernelFifo' = Append(kernelFifo, e)
    BY DEF Shape, StartKernel, FifoAdd
<1>3. e \in KernelRec /\ e.kind = "init"
    BY <1>1 DEF Event, KernelRec
<1> HIDE DEF e
<1>4. Same(kernelFifo, kernelFifo', Msgs)
    BY <1>2, <1>3, SameAppend DEF Msgs
<1>5. /\ kernelFifo' \in Seq(KernelRec) /\ Len(kernelFifo') = Len(kernelFifo) + 1
      /\ kernelFifo'[Len(kernelFifo) + 1] = e
      /\ \A p \in 1 .. Len(kernelFifo) : kernelFifo'[p] = kernelFifo[p]
    BY <1>2, <1>3, AppendFacts
<1> QED BY <1>4, <1>5 DEF e

\* That event is the transaction before the kernel.
LEMMA StartKernelKeeps ==
    ASSUME Shape, Begun, Named, Answerable, Unique, Somewhere, StartFirst, StartKernel
    PROVE  Answerable' /\ Unique' /\ Somewhere' /\ StartFirst'
<1>0. PICK n \in Nat, l \in Nat : n = Len(asked') /\ l = Len(kernelFifo)
    BY AskFacts, FifoShape DEF StartKernel, Partner
<1>1. /\ Transactions' = Transactions \union {n} /\ n \notin Transactions
      /\ asked'[n] = Kernel /\ answered'[n] = 0
      /\ \A t \in Transactions : asked'[t] = asked[t] /\ answered'[t] = answered[t]
    BY <1>0, AskFacts DEF StartKernel, Partner
<1>2. /\ Len(kernelFifo') = l + 1
      /\ kernelFifo'[l + 1] = Event("init", n)
      /\ \A p \in 1 .. l : kernelFifo'[p] = kernelFifo[p]
    BY <1>0, StartKernelShape
<1>3. Event("init", n).kind = "init" /\ Event("init", n).id = n /\ "init" \in EventKinds
    BY DEF Event, EventKinds
<1>4. rxFifo' = rxFifo /\ mngFifo' = mngFifo /\ started' = started
    BY DEF StartKernel
<1>5. /\ \A p \in 1 .. Len(kernelFifo) :
            kernelFifo[p].kind \in EventKinds => kernelFifo[p].id \in Transactions
      /\ \A j \in Inst : \A p \in 1 .. Len(rxFifo[j]) :
            rxFifo[j][p].kind \in EventKinds => rxFifo[j][p].id \in Transactions
      /\ \A m \in 1 .. Len(mngFifo) : mngFifo[m].id \in Transactions
  <2>1. \A p \in 1 .. Len(kernelFifo) : kernelFifo[p].kind \in {"init", "message"}
      BY FifoShape
  <2> QED BY <2>1 DEF Named, EventKinds
<1>6. \A p \in 1 .. Len(kernelFifo') :
         p = l + 1 \/ (p \in 1 .. Len(kernelFifo) /\ kernelFifo'[p] = kernelFifo[p])
    BY <1>0, <1>2
<1>9. Answerable'
  <2>1. ASSUME NEW p \in 1 .. Len(kernelFifo'), kernelFifo'[p].kind = "init"
        PROVE  asked'[kernelFifo'[p].id] = Kernel /\ answered'[kernelFifo'[p].id] = 0
    <3>1. CASE p = l + 1
        BY <1>1, <1>2, <1>3, <3>1 DEF Open
    <3>2. CASE p \in 1 .. Len(kernelFifo) /\ kernelFifo'[p] = kernelFifo[p]
        BY <1>1, <1>3, <1>5, <2>1, <3>2 DEF Answerable, Open
    <3> QED BY <1>6, <3>1, <3>2
  <2>2. \A j \in Inst : \A p \in 1 .. Len(rxFifo[j]) :
           rxFifo[j][p].kind \in EventKinds =>
              asked'[rxFifo[j][p].id] = j /\ answered'[rxFifo[j][p].id] = 0
      BY <1>1, <1>5 DEF Answerable, Open
  <2>3. \A m \in 1 .. Len(mngFifo) :
           asked'[mngFifo[m].id] = mngFifo[m].from /\ answered'[mngFifo[m].id] = 0
      BY <1>1, <1>5 DEF Answerable, Open
  <2> QED BY <1>4, <2>1, <2>2, <2>3 DEF Answerable, Open
<1>10. Unique'
  <2>1. ASSUME NEW p \in 1 .. Len(kernelFifo'), NEW q \in 1 .. Len(kernelFifo'),
               SameEvent(kernelFifo'[p], kernelFifo'[q])
        PROVE  p = q
    <3>1. CASE p = l + 1 /\ q = l + 1
        BY <3>1
    <3>2. CASE p = l + 1 /\ (q \in 1 .. Len(kernelFifo) /\ kernelFifo'[q] = kernelFifo[q])
        BY <1>1, <1>2, <1>3, <1>5, <2>1, <3>2 DEF SameEvent
    <3>3. CASE (p \in 1 .. Len(kernelFifo) /\ kernelFifo'[p] = kernelFifo[p]) /\ q = l + 1
        BY <1>1, <1>2, <1>3, <1>5, <2>1, <3>3 DEF SameEvent
    <3>4. CASE /\ p \in 1 .. Len(kernelFifo) /\ kernelFifo'[p] = kernelFifo[p]
               /\ q \in 1 .. Len(kernelFifo) /\ kernelFifo'[q] = kernelFifo[q]
        BY <2>1, <3>4 DEF Unique
    <3> QED BY <1>6, <3>1, <3>2, <3>3, <3>4
  <2>2. ASSUME NEW p \in 1 .. Len(kernelFifo'), NEW m \in 1 .. Len(mngFifo),
               SameEvent(kernelFifo'[p], mngFifo[m])
        PROVE  FALSE
    <3>1. CASE p = l + 1
        BY <1>1, <1>2, <1>3, <1>5, <2>2, <3>1 DEF SameEvent
    <3>2. CASE p \in 1 .. Len(kernelFifo) /\ kernelFifo'[p] = kernelFifo[p]
        BY <2>2, <3>2 DEF Unique
    <3> QED BY <1>6, <3>1, <3>2
  <2> QED BY <1>4, <2>1, <2>2 DEF Unique, SameEvent
<1>11. Somewhere'
  <2>1. ASSUME NEW t, AskedKernel(t) PROVE AskedKernel(t)'
    <3>1. PICK p \in 1 .. Len(kernelFifo) : kernelFifo[p] = Event("init", t)
        BY <2>1 DEF AskedKernel
    <3>2. p \in 1 .. Len(kernelFifo') /\ kernelFifo'[p] = kernelFifo[p]
        BY <1>0, <1>2
    <3> QED BY <3>1, <3>2 DEF AskedKernel, Event
  <2>2. ASSUME NEW t
        PROVE  /\ Replied(t) => Replied(t)'
               /\ \A j \in Inst : AskedInst(t, j) => AskedInst(t, j)'
      BY <1>4 DEF Replied, AskedInst
  <2>3. AskedKernel(n)'
    <3>1. l + 1 \in 1 .. Len(kernelFifo')
        BY <1>2
    <3> QED BY <1>2, <3>1 DEF AskedKernel, Event
  <2>4. ASSUME NEW t \in Transactions', t \in Transactions
        PROVE  /\ answered'[t] \in {0, 1}
               /\ answered'[t] = 0 => \/ Replied(t)'
                                      \/ asked'[t] = Kernel /\ AskedKernel(t)'
                                      \/ \E j \in Inst : asked'[t] = j /\ AskedInst(t, j)'
    <3>1. answered'[t] = answered[t] /\ asked'[t] = asked[t]
        BY <1>1, <2>4
    <3> QED BY <2>1, <2>2, <2>4, <3>1 DEF Somewhere
  <2>5. ASSUME NEW t \in Transactions'
        PROVE  /\ answered'[t] \in {0, 1}
               /\ answered'[t] = 0 => \/ Replied(t)'
                                      \/ asked'[t] = Kernel /\ AskedKernel(t)'
                                      \/ \E j \in Inst : asked'[t] = j /\ AskedInst(t, j)'
      BY <1>1, <2>3, <2>4
  <2> QED BY <2>5 DEF Somewhere, AskedInst
<1>12. StartFirst'
  <2>1. ASSUME NEW j \in Inst PROVE ~Initiated(j)'
    <3>1. mng' = "start" /\ cursor' = 1
        BY DEF StartKernel, Begun
    <3>2. j \in Nat /\ j > 0
        BY SelectorAssumption
    <3> QED BY <3>1, <3>2 DEF Initiated
  <2>2. ASSUME NEW j \in Inst, NEW m, StartsAt(j, m)
        PROVE  StartsAt(j, m)'
      BY <1>4, <2>2 DEF StartsAt
  <2>3. \A j \in Inst : \A p \in 1 .. Len(rxFifo[j]) :
           rxFifo[j][p].kind \in {"reload", "statues"} => StartsAt(j, p - 1)'
      BY <2>2 DEF StartFirst
  <2> QED BY <1>4, <2>1, <2>3 DEF StartFirst
<1> QED BY <1>9, <1>10, <1>11, <1>12

-----------------------------------------------------------------------------
(* A reply is read.                                                        *)

\* The transaction whose reply is read is answered, and nowhere else.
LEMMA PollKeeps ==
    ASSUME Shape, Named, Answerable, Unique, Somewhere, StartFirst, Poll
    PROVE  /\ Answerable' /\ Unique' /\ Somewhere' /\ StartFirst'
           /\ answered' \in Seq(Nat) /\ Len(answered') = Len(answered)
           /\ mngFifo' \in Seq(ReplyRec) /\ Named'
<1>1. /\ kernelFifo' = kernelFifo /\ rxFifo' = rxFifo /\ asked' = asked
      /\ started' = started /\ mng = "poll" /\ mng' = "recv"
      /\ UNCHANGED <<sent, handled>>
    BY DEF Poll
<1>2. /\ Len(mngFifo) \in Nat /\ \A k \in 1 .. Len(mngFifo) : mngFifo[k] \in ReplyRec
      /\ mngFifo \in Seq(ReplyRec)
      /\ answered \in Seq(Nat) /\ Len(answered) = Len(asked)
    BY FifoShape DEF Shape
<1>3. CASE mngFifo = <<>> /\ UNCHANGED <<answered, mngFifo>>
  <2>1. \A j \in Inst : Initiated(j)' => Initiated(j)
      BY <1>1 DEF Initiated
  <2>2. Answerable' /\ Unique' /\ Somewhere' /\ Named'
      BY <1>1, <1>3 DEF Answerable, Open, Unique, SameEvent, Somewhere, Transactions,
                        Replied, AskedKernel, AskedInst, Named, Ids, Event
  <2>3. StartFirst'
      BY <1>1, <1>3, <2>1 DEF StartFirst, StartsAt
  <2> QED BY <1>2, <1>3, <2>2, <2>3
<1>4. CASE /\ mngFifo # <<>>
           /\ answered' = [answered EXCEPT ![Head(mngFifo).id] = @ + 1]
           /\ mngFifo' = Tail(mngFifo)
  <2>1. PICK t \in Transactions : t = mngFifo[1].id
    <3>1. 1 \in 1 .. Len(mngFifo)
        BY <1>2, <1>4
    <3> QED BY <3>1 DEF Named
  <2>2. /\ mngFifo' \in Seq(ReplyRec) /\ Len(mngFifo') = Len(mngFifo) - 1
        /\ \A k \in 1 .. Len(mngFifo) - 1 : mngFifo'[k] = mngFifo[k + 1]
        /\ Len(mngFifo) >= 1 /\ Head(mngFifo) = mngFifo[1]
    <3> HIDE DEF ReplyRec
    <3> QED BY <1>2, <1>4, TailFacts
  <2>3. t \in 1 .. Len(answered) /\ answered[t] \in Nat /\ answered[t] = 0
    <3>1. 1 \in 1 .. Len(mngFifo)
        BY <1>2, <2>2
    <3>2. answered[t] = 0
        BY <2>1, <3>1 DEF Answerable, Open
    <3> QED BY <1>2, <2>1, <3>2 DEF Transactions
  <2>4. answered' = [answered EXCEPT ![t] = 1]
    <3>1. Head(mngFifo).id = t /\ answered[t] + 1 = 1
        BY <2>1, <2>2, <2>3
    <3>2. answered' = [answered EXCEPT ![t] = answered[t] + 1]
        BY <1>4, <3>1
    <3> QED BY <3>1, <3>2
  <2>5. /\ answered' \in Seq(Nat) /\ Len(answered') = Len(answered)
        /\ answered'[t] = 1 /\ \A u \in Transactions : u # t => answered'[u] = answered[u]
      BY <1>2, <2>3, <2>4 DEF Transactions
  <2>6. \A k \in 1 .. Len(mngFifo') : /\ k + 1 \in 1 .. Len(mngFifo)
                                      /\ mngFifo'[k] = mngFifo[k + 1]
      BY <1>2, <2>2
  <2>7. \A k \in 1 .. Len(mngFifo) : k # 1 => /\ k - 1 \in 1 .. Len(mngFifo')
                                              /\ mngFifo'[k - 1] = mngFifo[k]
    <3> SUFFICES ASSUME NEW k \in 1 .. Len(mngFifo), k # 1
                 PROVE  k - 1 \in 1 .. Len(mngFifo') /\ mngFifo'[k - 1] = mngFifo[k]
        OBVIOUS
    <3>1. k - 1 \in 1 .. Len(mngFifo) - 1 /\ (k - 1) + 1 = k
        BY <1>2
    <3> QED BY <2>2, <3>1
  <2>8. \A k \in 1 .. Len(mngFifo) : mngFifo[k].kind \in EventKinds
      BY <1>2 DEF ReplyRec
  <2>9. /\ 1 \in 1 .. Len(mngFifo)
        /\ \A k \in 1 .. Len(mngFifo) : k # 1 => mngFifo[k].id # t
      BY <1>2, <2>1, <2>2, <2>8 DEF Unique, SameEvent
  <2>10. /\ \A p \in 1 .. Len(kernelFifo) : kernelFifo[p].kind = "init" => kernelFifo[p].id # t
         /\ \A j \in Inst : \A p \in 1 .. Len(rxFifo[j]) :
               rxFifo[j][p].kind \in EventKinds => rxFifo[j][p].id # t
    <3>1. "init" \in EventKinds
        BY DEF EventKinds
    <3> QED BY <2>1, <2>8, <2>9, <3>1 DEF Unique, SameEvent
  <2>11. Named'
      BY <1>1, <2>6 DEF Named, Transactions, Ids
  <2>12. Answerable'
    <3>1. \A p \in 1 .. Len(kernelFifo) :
             kernelFifo[p].kind = "init" =>
                asked[kernelFifo[p].id] = Kernel /\ answered'[kernelFifo[p].id] = 0
        BY <2>5, <2>10 DEF Answerable, Open, Named
    <3>2. \A j \in Inst : \A p \in 1 .. Len(rxFifo[j]) :
             rxFifo[j][p].kind \in EventKinds =>
                asked[rxFifo[j][p].id] = j /\ answered'[rxFifo[j][p].id] = 0
        BY <2>5, <2>10 DEF Answerable, Open, Named
    <3>3. ASSUME NEW k \in 1 .. Len(mngFifo')
          PROVE  asked[mngFifo'[k].id] = mngFifo'[k].from /\ answered'[mngFifo'[k].id] = 0
      <4>1. k + 1 \in 1 .. Len(mngFifo) /\ mngFifo'[k] = mngFifo[k + 1] /\ k + 1 # 1
          BY <2>6
      <4>2. mngFifo[k + 1].id # t /\ mngFifo[k + 1].id \in Transactions
          BY <2>9, <4>1 DEF Named
      <4> QED BY <2>5, <4>1, <4>2 DEF Answerable, Open
    <3> QED BY <1>1, <3>1, <3>2, <3>3 DEF Answerable, Open
  <2>13. Unique'
    <3>1. ASSUME NEW k \in 1 .. Len(mngFifo'), NEW l \in 1 .. Len(mngFifo'),
                 SameEvent(mngFifo'[k], mngFifo'[l])
          PROVE  k = l
      <4>1. k + 1 = l + 1
          BY <2>6, <3>1 DEF Unique
      <4> QED BY <4>1
    <3>2. /\ \A p \in 1 .. Len(kernelFifo), k \in 1 .. Len(mngFifo') :
                ~SameEvent(kernelFifo[p], mngFifo'[k])
          /\ \A i \in Inst : \A p \in 1 .. Len(rxFifo[i]), k \in 1 .. Len(mngFifo') :
                ~SameEvent(rxFifo[i][p], mngFifo'[k])
        BY <2>6 DEF Unique
    <3>3. /\ \A p, q \in 1 .. Len(kernelFifo) :
                SameEvent(kernelFifo[p], kernelFifo[q]) => p = q
          /\ \A i \in Inst : \A p, q \in 1 .. Len(rxFifo[i]) :
                SameEvent(rxFifo[i][p], rxFifo[i][q]) => p = q
        BY DEF Unique
    <3> QED BY <1>1, <3>1, <3>2, <3>3 DEF Unique, SameEvent
  <2>14. Somewhere'
    <3>1. ASSUME NEW u, u # t, Replied(u) PROVE Replied(u)'
      <4>1. PICK k \in 1 .. Len(mngFifo) : mngFifo[k].id = u
          BY <3>1 DEF Replied
      <4>2. k - 1 \in 1 .. Len(mngFifo') /\ mngFifo'[k - 1] = mngFifo[k]
          BY <2>1, <2>7, <3>1, <4>1
      <4> QED BY <4>1, <4>2 DEF Replied
    <3>2. \A u : /\ AskedKernel(u) => AskedKernel(u)'
                 /\ \A j \in Inst : AskedInst(u, j) => AskedInst(u, j)'
        BY <1>1 DEF AskedKernel, AskedInst, Event
    <3>3. ASSUME NEW u \in Transactions
          PROVE  /\ answered'[u] \in {0, 1}
                 /\ answered'[u] = 0 => \/ Replied(u)'
                                        \/ asked[u] = Kernel /\ AskedKernel(u)'
                                        \/ \E j \in Inst : asked[u] = j /\ AskedInst(u, j)'
        BY <2>5, <3>1, <3>2, SMTT(30) DEF Somewhere
    <3> QED BY <1>1, <3>3 DEF Somewhere, AskedInst, Transactions
  <2>15. StartFirst'
    <3>1. \A j \in Inst : Initiated(j)' => Initiated(j)
        BY <1>1 DEF Initiated
    <3>2. \A j : \A m : StartsAt(j, m) => StartsAt(j, m)'
        BY <1>1 DEF StartsAt
    <3>3. \A k \in 1 .. Len(mngFifo') : mngFifo'[k].from # Kernel /\ mngFifo'[k].kind # "init"
                                           => mngFifo'[k].from \in started
        BY <2>6 DEF StartFirst
    <3> QED BY <1>1, <3>1, <3>2, <3>3 DEF StartFirst, StartsAt
  <2> QED BY <2>2, <2>5, <2>11, <2>12, <2>13, <2>14, <2>15
<1> QED BY <1>3, <1>4 DEF Poll

-----------------------------------------------------------------------------
(* A partner replies: its event becomes a reply.                           *)

\* The reply behind those that wait for the manager.
LEMMA ReplyShape ==
    ASSUME Shape, NEW k \in EventKinds, NEW t \in Nat, NEW p \in Partner,
           mngFifo' = FifoAdd(mngFifo, Reply(k, t, p))
    PROVE  /\ mngFifo' \in Seq(ReplyRec) /\ Len(mngFifo') = Len(mngFifo) + 1
           /\ Len(mngFifo) \in Nat
           /\ mngFifo'[Len(mngFifo) + 1] = Reply(k, t, p)
           /\ \A m \in 1 .. Len(mngFifo) : mngFifo'[m] = mngFifo[m]
           /\ \A m \in 1 .. Len(mngFifo') :
                 \/ m = Len(mngFifo) + 1
                 \/ m \in 1 .. Len(mngFifo) /\ mngFifo'[m] = mngFifo[m]
<1>1. mngFifo \in Seq(ReplyRec) /\ Reply(k, t, p) \in ReplyRec
    BY DEF Shape, Reply, ReplyRec
<1>2. mngFifo' = Append(mngFifo, Reply(k, t, p))
    BY DEF FifoAdd
<1>3. /\ mngFifo' \in Seq(ReplyRec) /\ Len(mngFifo') = Len(mngFifo) + 1
      /\ Len(mngFifo) \in Nat
      /\ mngFifo'[Len(mngFifo) + 1] = Reply(k, t, p)
      /\ \A m \in 1 .. Len(mngFifo) : mngFifo'[m] = mngFifo[m]
    BY <1>1, <1>2, AppendFacts
<1> QED BY <1>3

\* The transaction of the kernel moves to the fifo of the manager.
LEMMA KernelReplies ==
    ASSUME Shape, Named, Answerable, Unique, Somewhere, StartFirst,
           kernelFifo # <<>>, KernelEvent, kernelFifo' = Tail(kernelFifo),
           UNCHANGED <<asked, answered, started, mng, cursor, sent, handled>>
    PROVE  /\ Answerable' /\ Unique' /\ Somewhere' /\ StartFirst' /\ Named'
           /\ mngFifo' \in Seq(ReplyRec) /\ kernelFifo' \in Seq(KernelRec)
           /\ Same(kernelFifo, kernelFifo', Msgs)
<1>0. kernelFifo \in Seq(KernelRec)
    BY DEF Shape
<1>1. /\ Len(kernelFifo) \in Nat \ {0} /\ Head(kernelFifo) = kernelFifo[1]
      /\ kernelFifo[1] \in KernelRec /\ kernelFifo' \in Seq(KernelRec)
    BY <1>0, TailFacts
<1>2. /\ 1 \in 1 .. Len(kernelFifo) /\ Len(kernelFifo') \in Nat
      /\ \A p \in 1 .. Len(kernelFifo') : p + 1 \in 1 .. Len(kernelFifo)
                                          /\ kernelFifo'[p] = kernelFifo[p + 1]
      /\ \A p \in 1 .. Len(kernelFifo) : p # 1 =>
            p - 1 \in 1 .. Len(kernelFifo') /\ kernelFifo'[p - 1] = kernelFifo[p]
    BY <1>0, TailPlaces
<1>3. PICK t \in Transactions : t = kernelFifo[1].id
    BY <1>1, <1>2 DEF KernelEvent, Named
<1>4. /\ kernelFifo[1].kind = "init" /\ t \in Nat
      /\ mngFifo' = FifoAdd(mngFifo, Reply("init", t, Kernel))
      /\ rxFifo' = rxFifo /\ asked' = asked /\ answered' = answered /\ started' = started
    BY <1>1, <1>3 DEF KernelEvent, KernelRec
<1>5. "init" \in EventKinds /\ Kernel \in Partner /\ "message" # "init"
    BY DEF EventKinds, Partner
<1>6. PICK l \in Nat : l = Len(mngFifo)
    BY FifoShape
<1>7. /\ mngFifo' \in Seq(ReplyRec) /\ Len(mngFifo') = l + 1
      /\ mngFifo'[l + 1] = Reply("init", t, Kernel)
      /\ \A m \in 1 .. Len(mngFifo') :
            m = l + 1 \/ (m \in 1 .. Len(mngFifo) /\ mngFifo'[m] = mngFifo[m])
      /\ \A m \in 1 .. l : mngFifo'[m] = mngFifo[m]
    BY <1>4, <1>5, <1>6, ReplyShape
<1>8. /\ Reply("init", t, Kernel).kind = "init" /\ Reply("init", t, Kernel).id = t
      /\ Reply("init", t, Kernel).from = Kernel
    BY DEF Reply
<1>9. asked[t] = Kernel /\ answered[t] = 0
    BY <1>2, <1>3, <1>4 DEF Answerable, Open
<1>10. Same(kernelFifo, kernelFifo', Msgs)
    BY <1>0, <1>4, <1>5, SameTail DEF Msgs
<1>11. Named'
    BY <1>2, <1>3, <1>4, <1>7, <1>8 DEF Named, Transactions, Ids
<1>12. Answerable'
  <2>1. ASSUME NEW m \in 1 .. Len(mngFifo')
        PROVE  asked[mngFifo'[m].id] = mngFifo'[m].from /\ answered[mngFifo'[m].id] = 0
      BY <1>7, <1>8, <1>9 DEF Answerable, Open
  <2>2. /\ \A p \in 1 .. Len(kernelFifo') :
              kernelFifo'[p].kind = "init" =>
                 asked[kernelFifo'[p].id] = Kernel /\ answered[kernelFifo'[p].id] = 0
        /\ \A j \in Inst : \A p \in 1 .. Len(rxFifo[j]) :
              rxFifo[j][p].kind \in EventKinds =>
                 asked[rxFifo[j][p].id] = j /\ answered[rxFifo[j][p].id] = 0
      BY <1>2 DEF Answerable, Open
  <2> QED BY <1>4, <2>1, <2>2 DEF Answerable, Open
<1>13. Unique'
  <2>1. ASSUME NEW p \in 1 .. Len(kernelFifo'), NEW q \in 1 .. Len(kernelFifo'),
               SameEvent(kernelFifo'[p], kernelFifo'[q])
        PROVE  p = q
    <3>1. p + 1 = q + 1
        BY <1>2, <2>1 DEF Unique
    <3> QED BY <3>1
  <2>2. ASSUME NEW m \in 1 .. Len(mngFifo'), NEW k \in 1 .. Len(mngFifo'),
               SameEvent(mngFifo'[m], mngFifo'[k])
        PROVE  m = k
    <3>1. \A p \in 1 .. Len(mngFifo) : ~SameEvent(kernelFifo[1], mngFifo[p])
        BY <1>2 DEF Unique
    <3>2. \A p \in 1 .. Len(mngFifo) : mngFifo[p].kind \in EventKinds => mngFifo[p].id # t
        BY <1>3, <1>4, <1>5, <3>1 DEF SameEvent
    <3> QED BY <1>7, <1>8, <2>2, <3>2 DEF Unique, SameEvent
  <2>3. ASSUME NEW p \in 1 .. Len(kernelFifo'), NEW m \in 1 .. Len(mngFifo'),
               SameEvent(kernelFifo'[p], mngFifo'[m])
        PROVE  FALSE
    <3>1. p + 1 \in 1 .. Len(kernelFifo) /\ kernelFifo'[p] = kernelFifo[p + 1] /\ p + 1 # 1
        BY <1>2
    <3>2. CASE m = l + 1
      <4>1. SameEvent(kernelFifo[p + 1], kernelFifo[1])
          BY <1>3, <1>4, <1>5, <1>7, <1>8, <2>3, <3>1, <3>2 DEF SameEvent
      <4> QED BY <1>2, <3>1, <4>1 DEF Unique
    <3>3. CASE m \in 1 .. Len(mngFifo) /\ mngFifo'[m] = mngFifo[m]
        BY <2>3, <3>1, <3>3 DEF Unique
    <3> QED BY <1>7, <3>2, <3>3
  <2>4. ASSUME NEW j \in Inst, NEW p \in 1 .. Len(rxFifo[j]), NEW m \in 1 .. Len(mngFifo'),
               SameEvent(rxFifo[j][p], mngFifo'[m])
        PROVE  FALSE
    <3>1. CASE m = l + 1
      <4>1. asked[t] = j
          BY <1>7, <1>8, <2>4, <3>1 DEF Answerable, Open, SameEvent
      <4> QED BY <1>9, <4>1, SelectorAssumption DEF Kernel
    <3>2. CASE m \in 1 .. Len(mngFifo) /\ mngFifo'[m] = mngFifo[m]
        BY <2>4, <3>2 DEF Unique
    <3> QED BY <1>7, <3>1, <3>2
  <2>5. \A j \in Inst : \A p, q \in 1 .. Len(rxFifo[j]) :
           SameEvent(rxFifo[j][p], rxFifo[j][q]) => p = q
      BY DEF Unique
  <2> QED BY <1>4, <2>1, <2>2, <2>3, <2>4, <2>5 DEF Unique, SameEvent
<1>14. Somewhere'
  <2>1. ASSUME NEW u, Replied(u) PROVE Replied(u)'
    <3>1. PICK m \in 1 .. Len(mngFifo) : mngFifo[m].id = u
        BY <2>1 DEF Replied
    <3>2. m \in 1 .. Len(mngFifo') /\ mngFifo'[m] = mngFifo[m]
        BY <1>6, <1>7
    <3> QED BY <3>1, <3>2 DEF Replied
  <2>2. Replied(t)'
    <3>1. l + 1 \in 1 .. Len(mngFifo')
        BY <1>7
    <3> QED BY <1>7, <1>8, <3>1 DEF Replied
  <2>3. ASSUME NEW u, u # t, AskedKernel(u) PROVE AskedKernel(u)'
    <3>1. PICK p \in 1 .. Len(kernelFifo) : kernelFifo[p] = Event("init", u)
        BY <2>3 DEF AskedKernel
    <3>2. p # 1
        BY <1>3, <2>3, <3>1 DEF Event
    <3>3. p - 1 \in 1 .. Len(kernelFifo') /\ kernelFifo'[p - 1] = kernelFifo[p]
        BY <1>2, <3>2
    <3> QED BY <3>1, <3>3 DEF AskedKernel, Event
  <2>4. \A u : \A j \in Inst : AskedInst(u, j) => AskedInst(u, j)'
      BY <1>4 DEF AskedInst
  <2>5. ASSUME NEW u \in Transactions
        PROVE  /\ answered[u] \in {0, 1}
               /\ answered[u] = 0 => \/ Replied(u)'
                                     \/ asked[u] = Kernel /\ AskedKernel(u)'
                                     \/ \E j \in Inst : asked[u] = j /\ AskedInst(u, j)'
      BY <2>1, <2>2, <2>3, <2>4 DEF Somewhere
  <2> QED BY <1>4, <2>5 DEF Somewhere, AskedInst, Transactions
<1>15. StartFirst'
  <2>1. \A j \in Inst : Initiated(j)' => Initiated(j)
      BY DEF Initiated
  <2>2. \A j : \A m : StartsAt(j, m) => StartsAt(j, m)'
      BY <1>4 DEF StartsAt
  <2>3. \A m \in 1 .. Len(mngFifo') : mngFifo'[m].from # Kernel /\ mngFifo'[m].kind # "init"
                                         => mngFifo'[m].from \in started
      BY <1>7, <1>8 DEF StartFirst
  <2> QED BY <1>4, <2>1, <2>2, <2>3 DEF StartFirst, StartsAt
<1> QED BY <1>1, <1>7, <1>10, <1>11, <1>12, <1>13, <1>14, <1>15

\* The fifo of an instance that takes its head.
LEMMA TakeShape ==
    ASSUME Shape, NEW i \in Inst, rxFifo[i] # <<>>,
           rxFifo' = [rxFifo EXCEPT ![i] = Tail(@)]
    PROVE  /\ rxFifo' \in [Inst -> Seq(EventRec \union MessageRec)]
           /\ \A j \in Inst \ {i} : rxFifo'[j] = rxFifo[j]
           /\ rxFifo'[i] = Tail(rxFifo[i])
           /\ 1 \in 1 .. Len(rxFifo[i]) /\ Len(rxFifo[i]) \in Nat
           /\ Len(rxFifo'[i]) \in Nat /\ Len(rxFifo'[i]) = Len(rxFifo[i]) - 1
           /\ Head(rxFifo[i]) = rxFifo[i][1]
           /\ \A p \in 1 .. Len(rxFifo'[i]) : p + 1 \in 1 .. Len(rxFifo[i])
                                              /\ rxFifo'[i][p] = rxFifo[i][p + 1]
           /\ \A p \in 1 .. Len(rxFifo[i]) : p # 1 =>
                 p - 1 \in 1 .. Len(rxFifo'[i]) /\ rxFifo'[i][p - 1] = rxFifo[i][p]
<1> DEFINE S == EventRec \union MessageRec
<1>1. rxFifo \in [Inst -> Seq(S)] /\ rxFifo[i] \in Seq(S)
    BY FifoShape DEF Shape
<1> HIDE DEF S
<1>2. /\ Tail(rxFifo[i]) \in Seq(S) /\ Head(rxFifo[i]) = rxFifo[i][1]
      /\ Len(rxFifo[i]) \in Nat /\ Len(Tail(rxFifo[i])) = Len(rxFifo[i]) - 1
    BY <1>1, TailFacts
<1>3. /\ 1 \in 1 .. Len(rxFifo[i]) /\ Len(Tail(rxFifo[i])) \in Nat
      /\ \A p \in 1 .. Len(Tail(rxFifo[i])) :
            p + 1 \in 1 .. Len(rxFifo[i]) /\ Tail(rxFifo[i])[p] = rxFifo[i][p + 1]
      /\ \A p \in 1 .. Len(rxFifo[i]) : p # 1 =>
            p - 1 \in 1 .. Len(Tail(rxFifo[i])) /\ Tail(rxFifo[i])[p - 1] = rxFifo[i][p]
    BY <1>1, TailPlaces
<1>4. /\ rxFifo' \in [Inst -> Seq(S)] /\ rxFifo'[i] = Tail(rxFifo[i])
      /\ \A j \in Inst \ {i} : rxFifo'[j] = rxFifo[j]
    BY <1>1, <1>2
<1> QED BY <1>2, <1>3, <1>4 DEF S

\* The transaction of an instance moves to the fifo of the manager.
LEMMA InstReplies ==
    ASSUME Shape, Named, Answerable, Unique, Somewhere, StartFirst,
           NEW i \in Inst, rxFifo[i] # <<>>, HandleEvent(i, Head(rxFifo[i])),
           rxFifo' = [rxFifo EXCEPT ![i] = Tail(@)],
           UNCHANGED <<kernelFifo, asked, answered, mng, cursor, sent>>
    PROVE  /\ Answerable' /\ Unique' /\ Somewhere' /\ StartFirst' /\ Named'
           /\ mngFifo' \in Seq(ReplyRec)
           /\ Same(rxFifo[i], rxFifo'[i], Msgs)
<1>1. /\ \A j \in Inst \ {i} : rxFifo'[j] = rxFifo[j]
      /\ 1 \in 1 .. Len(rxFifo[i]) /\ Len(rxFifo[i]) \in Nat
      /\ Len(rxFifo'[i]) \in Nat /\ Head(rxFifo[i]) = rxFifo[i][1]
      /\ \A p \in 1 .. Len(rxFifo'[i]) : p + 1 \in 1 .. Len(rxFifo[i])
                                         /\ rxFifo'[i][p] = rxFifo[i][p + 1]
      /\ \A p \in 1 .. Len(rxFifo[i]) : p # 1 =>
            p - 1 \in 1 .. Len(rxFifo'[i]) /\ rxFifo'[i][p - 1] = rxFifo[i][p]
    BY TakeShape
<1>2. PICK e \in EventRec \union MessageRec : e = rxFifo[i][1]
    BY <1>1, FifoShape
<1>3. /\ e.kind \in EventKinds /\ e.id \in Transactions /\ e.id \in Nat
      /\ started' = IF e.kind = "init" THEN started \union {i} ELSE started
      /\ mngFifo' = FifoAdd(mngFifo, Reply(e.kind, e.id, i))
      /\ deleted' = deleted /\ handled' = handled
    BY <1>1, <1>2 DEF HandleEvent, Named, EventRec, MessageRec
<1>4. kernelFifo' = kernelFifo /\ asked' = asked /\ answered' = answered
    OBVIOUS
<1>5. PICK t \in Transactions : t = e.id
    BY <1>3
<1>6. PICK l \in Nat : l = Len(mngFifo)
    BY FifoShape
<1>7. /\ mngFifo' \in Seq(ReplyRec) /\ Len(mngFifo') = l + 1
      /\ mngFifo'[l + 1] = Reply(e.kind, t, i)
      /\ \A m \in 1 .. Len(mngFifo') :
            m = l + 1 \/ (m \in 1 .. Len(mngFifo) /\ mngFifo'[m] = mngFifo[m])
      /\ \A m \in 1 .. l : mngFifo'[m] = mngFifo[m]
    BY <1>3, <1>5, <1>6, ReplyShape DEF Partner
<1>8. /\ Reply(e.kind, t, i).kind = e.kind /\ Reply(e.kind, t, i).id = t
      /\ Reply(e.kind, t, i).from = i
    BY DEF Reply
<1>9. asked[t] = i /\ answered[t] = 0
    BY <1>1, <1>2, <1>3, <1>5 DEF Answerable, Open
<1>10. Same(rxFifo[i], rxFifo'[i], Msgs)
  <2>1. rxFifo[i] \in Seq(EventRec \union MessageRec) /\ rxFifo'[i] = Tail(rxFifo[i])
      BY FifoShape, TakeShape
  <2>2. rxFifo[i][1].kind \notin Msgs
      BY <1>2, <1>3 DEF Msgs, EventKinds
  <2> HIDE DEF EventRec, MessageRec
  <2> QED BY <2>1, <2>2, SameTail
<1>11. \A j \in Inst : \A p \in 1 .. Len(rxFifo'[j]) :
          \/ j # i /\ p \in 1 .. Len(rxFifo[j]) /\ rxFifo'[j][p] = rxFifo[j][p]
          \/ j = i /\ p + 1 \in 1 .. Len(rxFifo[j]) /\ rxFifo'[j][p] = rxFifo[j][p + 1]
    BY <1>1
<1>12. Named'
  <2>1. \A j \in Inst : \A p \in 1 .. Len(rxFifo'[j]) :
           /\ rxFifo'[j][p].kind \in EventKinds => rxFifo'[j][p].id \in Transactions
           /\ rxFifo'[j][p].kind = "message" => rxFifo'[j][p].id \in Ids
      BY <1>11 DEF Named
  <2>2. \A m \in 1 .. Len(mngFifo') : mngFifo'[m].id \in Transactions
      BY <1>7, <1>8 DEF Named
  <2> QED BY <1>3, <1>4, <2>1, <2>2 DEF Named, Transactions, Ids
<1>13. Answerable'
  <2>1. ASSUME NEW m \in 1 .. Len(mngFifo')
        PROVE  asked[mngFifo'[m].id] = mngFifo'[m].from /\ answered[mngFifo'[m].id] = 0
      BY <1>7, <1>8, <1>9 DEF Answerable, Open
  <2>2. \A j \in Inst : \A p \in 1 .. Len(rxFifo'[j]) :
           rxFifo'[j][p].kind \in EventKinds =>
              asked[rxFifo'[j][p].id] = j /\ answered[rxFifo'[j][p].id] = 0
      BY <1>11 DEF Answerable, Open
  <2>3. \A p \in 1 .. Len(kernelFifo) :
           kernelFifo[p].kind = "init" =>
              asked[kernelFifo[p].id] = Kernel /\ answered[kernelFifo[p].id] = 0
      BY DEF Answerable, Open
  <2> QED BY <1>4, <2>1, <2>2, <2>3 DEF Answerable, Open
<1>14. Unique'
  <2>1. ASSUME NEW j \in Inst, NEW p \in 1 .. Len(rxFifo'[j]), NEW q \in 1 .. Len(rxFifo'[j]),
               SameEvent(rxFifo'[j][p], rxFifo'[j][q])
        PROVE  p = q
    <3>1. CASE j = i
      <4>1. p + 1 = q + 1
          BY <1>1, <2>1, <3>1 DEF Unique
      <4> QED BY <4>1
    <3>2. CASE j # i
        BY <1>1, <2>1, <3>2 DEF Unique
    <3> QED BY <3>1, <3>2
  <2>2. ASSUME NEW m \in 1 .. Len(mngFifo'), NEW k \in 1 .. Len(mngFifo'),
               SameEvent(mngFifo'[m], mngFifo'[k])
        PROVE  m = k
    <3>1. \A p \in 1 .. Len(mngFifo) : ~SameEvent(rxFifo[i][1], mngFifo[p])
        BY <1>1 DEF Unique
    <3>2. \A p \in 1 .. Len(mngFifo) : mngFifo[p].kind \in EventKinds => mngFifo[p].id # t
        BY <1>2, <1>3, <1>5, <3>1 DEF SameEvent
    <3> QED BY <1>7, <1>8, <2>2, <3>2 DEF Unique, SameEvent
  <2>3. ASSUME NEW j \in Inst, NEW p \in 1 .. Len(rxFifo'[j]), NEW m \in 1 .. Len(mngFifo'),
               SameEvent(rxFifo'[j][p], mngFifo'[m])
        PROVE  FALSE
    <3>1. CASE m \in 1 .. Len(mngFifo) /\ mngFifo'[m] = mngFifo[m]
        BY <1>11, <2>3, <3>1 DEF Unique
    <3>2. CASE m = l + 1
      <4>1. asked[t] = j
        <5>1. rxFifo'[j][p].kind \in EventKinds /\ rxFifo'[j][p].id = t
            BY <1>7, <1>8, <2>3, <3>2 DEF SameEvent
        <5>2. PICK r \in 1 .. Len(rxFifo[j]) : rxFifo'[j][p] = rxFifo[j][r]
            BY <1>11
        <5> QED BY <5>1, <5>2 DEF Answerable, Open
      <4>2. p + 1 \in 1 .. Len(rxFifo[i]) /\ rxFifo'[j][p] = rxFifo[i][p + 1] /\ p + 1 # 1
          BY <1>1, <1>9, <4>1
      <4>3. SameEvent(rxFifo[i][p + 1], rxFifo[i][1])
          BY <1>2, <1>3, <1>5, <1>7, <1>8, <2>3, <3>2, <4>2 DEF SameEvent
      <4> QED BY <1>1, <4>2, <4>3 DEF Unique
    <3> QED BY <1>7, <3>1, <3>2
  <2>4. ASSUME NEW p \in 1 .. Len(kernelFifo), NEW m \in 1 .. Len(mngFifo'),
               SameEvent(kernelFifo[p], mngFifo'[m])
        PROVE  FALSE
    <3>1. CASE m = l + 1
      <4>1. kernelFifo[p].kind = "init" /\ kernelFifo[p].id = t
          BY <1>7, <1>8, <2>4, <3>1, FifoShape DEF SameEvent, EventKinds
      <4>2. asked[t] = Kernel
          BY <4>1 DEF Answerable, Open
      <4> QED BY <1>9, <4>2, SelectorAssumption DEF Kernel
    <3>2. CASE m \in 1 .. Len(mngFifo) /\ mngFifo'[m] = mngFifo[m]
        BY <2>4, <3>2 DEF Unique
    <3> QED BY <1>7, <3>1, <3>2
  <2>5. \A p, q \in 1 .. Len(kernelFifo) : SameEvent(kernelFifo[p], kernelFifo[q]) => p = q
      BY DEF Unique
  <2> QED BY <1>4, <2>1, <2>2, <2>3, <2>4, <2>5 DEF Unique, SameEvent
<1>15. Somewhere'
  <2>1. ASSUME NEW u, Replied(u) PROVE Replied(u)'
    <3>1. PICK m \in 1 .. Len(mngFifo) : mngFifo[m].id = u
        BY <2>1 DEF Replied
    <3>2. m \in 1 .. Len(mngFifo') /\ mngFifo'[m] = mngFifo[m]
        BY <1>6, <1>7
    <3> QED BY <3>1, <3>2 DEF Replied
  <2>2. Replied(t)'
    <3>1. l + 1 \in 1 .. Len(mngFifo')
        BY <1>7
    <3> QED BY <1>7, <1>8, <3>1 DEF Replied
  <2>3. ASSUME NEW u, u # t, NEW j \in Inst, AskedInst(u, j) PROVE AskedInst(u, j)'
    <3>1. PICK p \in 1 .. Len(rxFifo[j]) : rxFifo[j][p].kind \in EventKinds /\ rxFifo[j][p].id = u
        BY <2>3 DEF AskedInst
    <3>2. CASE j # i
        BY <1>1, <3>1, <3>2 DEF AskedInst
    <3>3. CASE j = i
      <4>1. p # 1
          BY <1>2, <1>5, <2>3, <3>1, <3>3
      <4>2. p - 1 \in 1 .. Len(rxFifo'[j]) /\ rxFifo'[j][p - 1] = rxFifo[j][p]
          BY <1>1, <3>3, <4>1
      <4> QED BY <3>1, <4>2 DEF AskedInst
    <3> QED BY <3>2, <3>3
  <2>4. \A u : AskedKernel(u) => AskedKernel(u)'
      BY <1>4 DEF AskedKernel, Event
  <2>5. ASSUME NEW u \in Transactions
        PROVE  /\ answered[u] \in {0, 1}
               /\ answered[u] = 0 => \/ Replied(u)'
                                     \/ asked[u] = Kernel /\ AskedKernel(u)'
                                     \/ \E j \in Inst : asked[u] = j /\ AskedInst(u, j)'
      BY <2>1, <2>2, <2>3, <2>4 DEF Somewhere
  <2> QED BY <1>4, <2>5 DEF Somewhere, AskedInst, Transactions
<1>16. StartFirst'
  <2>0. started \subseteq started' /\ (e.kind = "init" => i \in started')
      BY <1>3
  <2>1. ASSUME NEW j \in Inst, NEW n \in 0 .. Len(rxFifo[j]), StartsAt(j, n)
        PROVE  StartsAt(j, IF j = i THEN n - 1 ELSE n)'
    <3> DEFINE r == IF j = i THEN n - 1 ELSE n
    <3>1. CASE j \in started
        BY <2>0, <3>1 DEF StartsAt
    <3>2. ASSUME NEW q \in 1 .. n, rxFifo[j][q].kind = "init"
          PROVE  j \in started' \/ \E o \in 1 .. r : rxFifo'[j][o].kind = "init"
      <4>0. q \in 1 .. Len(rxFifo[j]) /\ n \in Nat
          BY <2>1, <1>1, FifoShape
      <4>1. CASE j # i
          BY <1>1, <3>2, <4>1
      <4>2. CASE j = i /\ q = 1
          BY <1>2, <2>0, <3>2, <4>2
      <4>3. CASE j = i /\ q # 1
        <5>1. rxFifo'[j][q - 1] = rxFifo[j][q] /\ q - 1 \in 1 .. n - 1
            BY <1>1, <4>0, <4>3
        <5> QED BY <3>2, <4>3, <5>1
      <4> QED BY <4>1, <4>2, <4>3
    <3> QED BY <2>1, <3>1, <3>2 DEF StartsAt
  <2>2. ASSUME NEW j \in Inst, Initiated(j)' PROVE StartsAt(j, Len(rxFifo[j]))'
    <3>1. StartsAt(j, Len(rxFifo[j])) /\ Len(rxFifo[j]) \in Nat
        BY <2>2, FifoShape DEF StartFirst, Initiated
    <3>2. PICK n \in Nat : n = Len(rxFifo[j])
        BY <3>1
    <3>3. StartsAt(j, IF j = i THEN n - 1 ELSE n)'
        BY <2>1, <3>1, <3>2
    <3>4. Len(rxFifo'[j]) = IF j = i THEN n - 1 ELSE n
        BY <1>1, <3>2, TakeShape
    <3> QED BY <3>3, <3>4 DEF StartsAt
  <2>3. ASSUME NEW j \in Inst, NEW p \in 1 .. Len(rxFifo'[j]),
               rxFifo'[j][p].kind \in {"reload", "statues"}
        PROVE  StartsAt(j, p - 1)'
    <3>1. CASE j # i
      <4>1. StartsAt(j, p - 1) /\ p - 1 \in 0 .. Len(rxFifo[j])
          BY <1>11, <2>3, <3>1, FifoShape DEF StartFirst
      <4> QED BY <2>1, <3>1, <4>1
    <3>2. CASE j = i
      <4>1. p + 1 \in 1 .. Len(rxFifo[j]) /\ rxFifo'[j][p] = rxFifo[j][p + 1]
          BY <1>11, <3>2
      <4>2. StartsAt(j, p) /\ p \in 0 .. Len(rxFifo[j])
          BY <2>3, <4>1, FifoShape DEF StartFirst
      <4> QED BY <2>1, <3>2, <4>2
    <3> QED BY <3>1, <3>2
  <2>4. ASSUME NEW m \in 1 .. Len(mngFifo'), mngFifo'[m].from # Kernel,
               mngFifo'[m].kind # "init"
        PROVE  mngFifo'[m].from \in started'
    <3>1. CASE m = l + 1
      <4>1. rxFifo[i][1].kind \in {"reload", "statues"}
          BY <1>2, <1>3, <1>7, <1>8, <2>4, <3>1 DEF EventKinds
      <4>2. StartsAt(i, 1 - 1)
          BY <1>1, <4>1 DEF StartFirst
      <4>3. i \in started
          BY <4>2 DEF StartsAt
      <4> QED BY <1>7, <1>8, <2>0, <3>1, <4>3
    <3>2. CASE m \in 1 .. Len(mngFifo) /\ mngFifo'[m] = mngFifo[m]
        BY <2>0, <2>4, <3>2 DEF StartFirst
    <3> QED BY <1>7, <3>1, <3>2
  <2> QED BY <2>2, <2>3, <2>4 DEF StartFirst
<1> QED BY <1>7, <1>10, <1>12, <1>13, <1>14, <1>15, <1>16

-----------------------------------------------------------------------------
(* The kernel routes a message.                                            *)

\* Whom a message reaches and how often its original is then deleted.
Reaches(a, R, d) ==
    /\ R \subseteq Inst
    /\ CASE a.msgType = DIALOG_BROADCAST -> R = Inst /\ d = 1
         [] a.msgType = DIALOG_MULTICAST ->
               /\ \A i \in R : TaskOf[i] = a.to
               /\ d = IF DeletedTwice(a) THEN 2 ELSE 1
         [] OTHER ->
               /\ \A i \in R : IF a.inst # AnyInst THEN i = a.inst ELSE TaskOf[i] = a.to
               /\ \A i, j \in R : i = j
               /\ d = IF R = {} THEN 1 ELSE 0

\* Whom the selector hands a message to, by its address.
LEMMA AddReaches ==
    ASSUME SelectorIInv, Registered, mng # "register", NEW a \in Address, Add(a)
    PROVE  Reaches(a, outcome'.reached, outcome'.deleted + Refused(outcome'.accepted))
<1>1. /\ Tables /\ Agreement /\ DOMAIN mInstList = Inst
      /\ \A i \in Inst : mInstList[i].taskid = TaskOf[i]
      /\ DOMAIN mTaskList = {TaskOf[i] : i \in Inst}
    BY DEF Registered, SelectorIInv
<1>2. exists(a.to) <=> a.to \in Range(TaskOf)
    BY <1>1, FrameworkAssumption DEF exists, Range
<1>3. CASE a.msgType = DIALOG_BROADCAST
  <2>1. broadcastMsgToTask(a)
      BY <1>3 DEF Add, DIALOG_BROADCAST, DIALOG_MULTICAST
  <2>2. Result(a, Inst, TRUE, 1)
      BY <1>1, <2>1 DEF broadcastMsgToTask
  <2>3. outcome'.reached = Inst /\ outcome'.deleted = 1 /\ outcome'.accepted = TRUE
      BY <2>2 DEF Result
  <2>4. outcome'.deleted + Refused(outcome'.accepted) = 1
      BY <2>3 DEF Refused
  <2> QED BY <1>3, <2>3, <2>4 DEF Reaches, DIALOG_BROADCAST, DIALOG_MULTICAST
<1>4. CASE a.msgType = DIALOG_MULTICAST
  <2>1. multicastMsgToTask(a)
      BY <1>4 DEF Add, DIALOG_BROADCAST, DIALOG_MULTICAST
  <2>2. CASE ~exists(a.to)
    <3>1. Result(a, {}, FALSE, 1)
        BY <2>1, <2>2 DEF multicastMsgToTask
    <3>2. /\ outcome'.reached = {}
          /\ outcome'.deleted + Refused(outcome'.accepted) = 2
        BY <3>1 DEF Result, Refused
    <3>3. DeletedTwice(a)
        BY <1>2, <1>4, <2>2 DEF DeletedTwice
    <3> QED BY <1>4, <3>2, <3>3 DEF Reaches, DIALOG_BROADCAST, DIALOG_MULTICAST
  <2>3. CASE exists(a.to)
    <3>1. Result(a, Passed(mTaskList[a.to].inst) \intersect Inst, TRUE, 1)
        BY <1>1, <2>1, <2>3 DEF multicastMsgToTask
    <3>2. /\ outcome'.reached = Passed(mTaskList[a.to].inst) \intersect Inst
          /\ outcome'.deleted + Refused(outcome'.accepted) = 1
        BY <3>1 DEF Result, Refused
    <3>3. Passed(mTaskList[a.to].inst) \subseteq Listed(a.to)
      <4> DEFINE s == mTaskList[a.to].inst
      <4>1. s \in Seq(Inst) /\ Distinct(s)
          BY <1>1, <2>3, OfTask DEF exists
      <4> HIDE DEF s
      <4>2. Passed(s) \subseteq Range(s)
          BY <4>1, PassedButFirst DEF Passed
      <4> QED BY <4>2 DEF Listed, s
    <3>4. \A i \in Listed(a.to) : TaskOf[i] = a.to
        BY <1>1, <2>3, OfTask DEF exists
    <3>5. ~DeletedTwice(a)
        BY <1>2, <2>3 DEF DeletedTwice
    <3> QED BY <1>4, <3>2, <3>3, <3>4, <3>5
            DEF Reaches, DIALOG_BROADCAST, DIALOG_MULTICAST
  <2> QED BY <2>2, <2>3
<1>5. CASE a.msgType # DIALOG_BROADCAST /\ a.msgType # DIALOG_MULTICAST
  <2>1. sendMsgToTask(a)
      BY <1>5 DEF Add
  <2>2. ASSUME NEW i \in Inst, Result(a, {i}, TRUE, 0),
               IF a.inst # AnyInst THEN i = a.inst ELSE TaskOf[i] = a.to
        PROVE  Reaches(a, outcome'.reached, outcome'.deleted + Refused(outcome'.accepted))
    <3>1. /\ outcome'.reached = {i}
          /\ outcome'.deleted + Refused(outcome'.accepted) = 0
        BY <2>2 DEF Result, Refused
    <3> QED BY <1>5, <2>2, <3>1 DEF Reaches
  <2>3. ASSUME Result(a, {}, FALSE, 0)
        PROVE  Reaches(a, outcome'.reached, outcome'.deleted + Refused(outcome'.accepted))
    <3>1. /\ outcome'.reached = {}
          /\ outcome'.deleted + Refused(outcome'.accepted) = 1
        BY <2>3 DEF Result, Refused
    <3> QED BY <1>5, <3>1 DEF Reaches
  <2>4. CASE ~exists(a.to)
      BY <2>1, <2>3, <2>4 DEF sendMsgToTask
  <2>5. CASE exists(a.to) /\ a.inst # AnyInst
    <3>1. a.inst \in Inst
        BY <2>5 DEF Address
    <3>2. {a.inst} \intersect Inst = {a.inst} /\ (a.inst \in Inst) = TRUE
        BY <3>1
    <3>3. Result(a, {a.inst}, TRUE, 0)
        BY <1>1, <2>1, <2>5, <3>2 DEF sendMsgToTask, AddressTo
    <3> QED BY <2>2, <2>5, <3>1, <3>3
  <2>6. CASE exists(a.to) /\ a.inst = AnyInst
    <3>1. a.to \in DOMAIN mTaskList /\ Share(a, a.to)
        BY <2>1, <2>6 DEF sendMsgToTask, exists
    <3>2. CASE Result(a, {}, FALSE, 0)
        BY <2>3, <3>2
    <3>3. ASSUME NEW k \in Tries(a.to), Result(a, {Candidate(a.to, k)}, TRUE, 0)
          PROVE  Reaches(a, outcome'.reached, outcome'.deleted + Refused(outcome'.accepted))
      <4>1. PICK i \in Inst : i = Candidate(a.to, k) /\ TaskOf[i] = a.to
          BY <1>1, <3>1, TryOfTask, OfTask
      <4> QED BY <2>2, <2>6, <3>3, <4>1
    <3> QED BY <3>1, <3>2, <3>3 DEF Share
  <2> QED BY <2>4, <2>5, <2>6
<1> QED BY <1>3, <1>4, <1>5

\* No message registers a task or takes one away.
LEMMA AddTasks ==
    ASSUME SelectorIInv, NEW a \in Address, Add(a)
    PROVE  DOMAIN mTaskList' = DOMAIN mTaskList
<1>1. UNCHANGED mTaskList \/ \E t, k : TurnTo(t, k)
    BY DEF Add, broadcastMsgToTask, multicastMsgToTask, sendMsgToTask, AddressTo, Share
<1> QED BY <1>1 DEF TurnTo

\* The fifos of the instances once a message has been appended to some.
LEMMA RouteShape ==
    ASSUME Shape, NEW R \in SUBSET Inst, NEW id \in Nat,
           rxFifo' = [i \in Inst |-> IF i \in R THEN FifoAdd(rxFifo[i], Message(id))
                                                ELSE rxFifo[i]]
    PROVE  /\ rxFifo' \in [Inst -> Seq(EventRec \union MessageRec)]
           /\ \A i \in Inst \ R : rxFifo'[i] = rxFifo[i]
           /\ \A i \in R :
                 /\ Len(rxFifo[i]) \in Nat /\ Len(rxFifo'[i]) = Len(rxFifo[i]) + 1
                 /\ rxFifo'[i][Len(rxFifo[i]) + 1] = Message(id)
                 /\ \A p \in 1 .. Len(rxFifo[i]) : rxFifo'[i][p] = rxFifo[i][p]
           /\ \A i \in Inst : Same(rxFifo[i], rxFifo'[i], EventKinds)
<1> DEFINE S == EventRec \union MessageRec
<1>1. Message(id) \in S /\ Message(id).kind \notin EventKinds
    BY DEF Message, MessageRec, EventKinds
<1>2. \A i \in Inst : rxFifo[i] \in Seq(S)
    BY FifoShape
<1> HIDE DEF S
<1>3. ASSUME NEW i \in R
      PROVE  /\ rxFifo'[i] \in Seq(S)
             /\ Len(rxFifo[i]) \in Nat /\ Len(rxFifo'[i]) = Len(rxFifo[i]) + 1
             /\ rxFifo'[i][Len(rxFifo[i]) + 1] = Message(id)
             /\ \A p \in 1 .. Len(rxFifo[i]) : rxFifo'[i][p] = rxFifo[i][p]
             /\ Same(rxFifo[i], rxFifo'[i], EventKinds)
  <2>1. PICK e \in S : e = Message(id) /\ e.kind \notin EventKinds
      BY <1>1
  <2>2. PICK s \in Seq(S) : s = rxFifo[i]
      BY <1>2
  <2>3. rxFifo'[i] = Append(s, e)
      BY <2>1, <2>2 DEF FifoAdd
  <2>4. /\ Append(s, e) \in Seq(S)
        /\ Len(s) \in Nat /\ Len(Append(s, e)) = Len(s) + 1
        /\ Append(s, e)[Len(s) + 1] = e
        /\ \A p \in 1 .. Len(s) : Append(s, e)[p] = s[p]
      BY AppendFacts
  <2>5. Same(s, Append(s, e), EventKinds)
      BY <2>1, SameAppend
  <2> QED BY <2>1, <2>2, <2>3, <2>4, <2>5
<1>4. ASSUME NEW i \in Inst \ R
      PROVE  /\ rxFifo'[i] \in Seq(S) /\ rxFifo'[i] = rxFifo[i]
             /\ Same(rxFifo[i], rxFifo'[i], EventKinds)
  <2>1. rxFifo'[i] = rxFifo[i] /\ rxFifo[i] \in Seq(S)
      BY <1>2
  <2> QED BY <2>1, SameRefl
<1>5. rxFifo' \in [Inst -> Seq(S)]
    BY <1>3, <1>4
<1> QED BY <1>3, <1>4, <1>5 DEF S

\* The head of the kernel's fifo is a message: nobody has got it yet, and it is
\* once in the fifo.
LEMMA HeadMessage ==
    ASSUME Shape, Named, InOrder, Placed, kernelFifo # <<>>,
           NEW id, id = kernelFifo[1].id, kernelFifo[1].kind = "message"
    PROVE  /\ id \in Ids /\ Waits(id) /\ deleted[id] = 0
           /\ \A i \in Inst : ~Got(id, i)
           /\ \A p \in 1 .. Len(kernelFifo) :
                 p # 1 /\ kernelFifo[p].kind = "message" => id < kernelFifo[p].id
<1>0. kernelFifo \in Seq(KernelRec)
    BY DEF Shape
<1>1. 1 \in 1 .. Len(kernelFifo) /\ kernelFifo[1] \in KernelRec
  <2> HIDE DEF KernelRec
  <2> QED BY <1>0, TailFacts
<1>2. kernelFifo[1] = Message(id)
    BY <1>1 DEF KernelRec, Message
<1>3. id \in Ids /\ id \in Nat
    BY <1>1, FifoShape DEF Named, Ids
<1>4. Waits(id) /\ deleted[id] = 0
    BY <1>1, <1>2, <1>3 DEF Waits, Placed
<1>5. ASSUME NEW i \in Inst, Got(id, i) PROVE FALSE
  <2>1. CASE Holds(id, i)
    <3>1. PICK p \in 1 .. Len(rxFifo[i]) : rxFifo[i][p] = Message(id)
        BY <2>1 DEF Holds
    <3>2. rxFifo[i][p].kind = "message" /\ rxFifo[i][p].id = id
        BY <3>1 DEF Message
    <3>3. id < id
        BY <1>1, <3>2 DEF InOrder
    <3> QED BY <1>3, <3>3
  <2>2. CASE Did(id, i)
    <3>1. PICK p \in 1 .. Len(handled[i]) : handled[i][p] = id
        BY <2>2 DEF Did
    <3>2. id < id
        BY <1>1, <3>1 DEF InOrder
    <3> QED BY <1>3, <3>2
  <2> QED BY <1>5, <2>1, <2>2 DEF Got
<1>6. ASSUME NEW p \in 1 .. Len(kernelFifo), p # 1, kernelFifo[p].kind = "message"
      PROVE  id < kernelFifo[p].id
  <2>1. 1 < p
      BY <1>6
  <2> QED BY <1>1, <1>6, <2>1 DEF InOrder
<1> QED BY <1>3, <1>4, <1>5, <1>6

\* A routed message is before those it reaches; the others stay where they are.
LEMMA RouteKeeps ==
    ASSUME Shape, Named, InOrder, Placed, kernelFifo # <<>>,
           NEW id \in Nat, id = kernelFifo[1].id, kernelFifo[1].kind = "message",
           NEW R, NEW d \in Nat, Reaches(sent[id].address, R, d),
           kernelFifo' = Tail(kernelFifo),
           rxFifo' = [i \in Inst |-> IF i \in R THEN FifoAdd(rxFifo[i], Message(id))
                                                ELSE rxFifo[i]],
           deleted' = [deleted EXCEPT ![id] = @ + d],
           UNCHANGED <<asked, mngFifo, sent, handled>>
    PROVE  /\ InOrder' /\ Placed' /\ Named'
           /\ kernelFifo' \in Seq(KernelRec)
           /\ deleted' \in Seq(Nat) /\ Len(deleted') = Len(deleted)
<1>0. kernelFifo \in Seq(KernelRec) /\ R \in SUBSET Inst
    BY DEF Shape, Reaches
<1>1. /\ Len(kernelFifo) \in Nat /\ kernelFifo[1] \in KernelRec
      /\ kernelFifo' \in Seq(KernelRec)
    BY <1>0, TailFacts
<1>2. /\ 1 \in 1 .. Len(kernelFifo) /\ Len(kernelFifo') \in Nat
      /\ \A p \in 1 .. Len(kernelFifo') : p + 1 \in 1 .. Len(kernelFifo)
                                          /\ kernelFifo'[p] = kernelFifo[p + 1]
      /\ \A p \in 1 .. Len(kernelFifo) : p # 1 =>
            p - 1 \in 1 .. Len(kernelFifo') /\ kernelFifo'[p - 1] = kernelFifo[p]
    BY <1>0, TailPlaces
<1>3. /\ id \in Ids /\ Waits(id) /\ deleted[id] = 0
      /\ \A i \in Inst : ~Got(id, i)
      /\ \A p \in 1 .. Len(kernelFifo) :
            p # 1 /\ kernelFifo[p].kind = "message" => id < kernelFifo[p].id
    BY HeadMessage
<1>4. /\ \A i \in Inst \ R : rxFifo'[i] = rxFifo[i]
      /\ \A i \in R :
            /\ Len(rxFifo[i]) \in Nat /\ Len(rxFifo'[i]) = Len(rxFifo[i]) + 1
            /\ rxFifo'[i][Len(rxFifo[i]) + 1] = Message(id)
            /\ \A p \in 1 .. Len(rxFifo[i]) : rxFifo'[i][p] = rxFifo[i][p]
    BY <1>0, RouteShape
<1>5. /\ \A i \in Inst : \A p \in 1 .. Len(rxFifo[i]) :
            p \in 1 .. Len(rxFifo'[i]) /\ rxFifo'[i][p] = rxFifo[i][p]
      /\ \A i \in Inst : \A p \in 1 .. Len(rxFifo'[i]) :
            \/ p \in 1 .. Len(rxFifo[i]) /\ rxFifo'[i][p] = rxFifo[i][p]
            \/ i \in R /\ p = Len(rxFifo[i]) + 1 /\ rxFifo'[i][p] = Message(id)
  <2>1. ASSUME NEW i \in R
        PROVE  /\ \A p \in 1 .. Len(rxFifo[i]) :
                     p \in 1 .. Len(rxFifo'[i]) /\ rxFifo'[i][p] = rxFifo[i][p]
               /\ \A p \in 1 .. Len(rxFifo'[i]) :
                     \/ p \in 1 .. Len(rxFifo[i]) /\ rxFifo'[i][p] = rxFifo[i][p]
                     \/ p = Len(rxFifo[i]) + 1 /\ rxFifo'[i][p] = Message(id)
    <3>1. PICK n \in Nat : n = Len(rxFifo[i])
        BY <1>4
    <3>2. /\ Len(rxFifo'[i]) = n + 1 /\ rxFifo'[i][n + 1] = Message(id)
          /\ \A p \in 1 .. n : rxFifo'[i][p] = rxFifo[i][p]
        BY <1>4, <3>1
    <3>3. \A p \in 1 .. n + 1 : p \in 1 .. n \/ p = n + 1
        BY <3>1, SMTT(30)
    <3>4. \A p \in 1 .. n : p \in 1 .. n + 1
        BY <3>1
    <3> QED BY <3>1, <3>2, <3>3, <3>4
  <2>2. \A i \in Inst \ R : rxFifo'[i] = rxFifo[i]
      BY <1>4
  <2> QED BY <2>1, <2>2
<1>6. /\ \A u : Message(u).kind = "message" /\ Message(u).id = u
      /\ \A u, v : Message(u) = Message(v) => u = v
      /\ "message" \notin EventKinds
    BY DEF Message, EventKinds
<1>7. sent' = sent /\ handled' = handled /\ mngFifo' = mngFifo /\ asked' = asked
    OBVIOUS
<1>8. /\ deleted' \in Seq(Nat) /\ Len(deleted') = Len(deleted)
      /\ deleted'[id] = d
      /\ \A u \in Ids : u # id => deleted'[u] = deleted[u]
  <2>1. /\ deleted \in Seq(Nat) /\ id \in 1 .. Len(deleted)
        /\ Ids = 1 .. Len(deleted)
      BY <1>3 DEF Shape, Ids
  <2>2. deleted' = [deleted EXCEPT ![id] = d]
    <3>1. deleted[id] + d = d
        BY <1>3
    <3>2. deleted' = [deleted EXCEPT ![id] = deleted[id] + d]
        OBVIOUS
    <3> QED BY <3>1, <3>2
  <2> QED BY <2>1, <2>2
<1>9. Named'
  <2>1. \A i \in Inst : \A p \in 1 .. Len(rxFifo'[i]) :
           /\ rxFifo'[i][p].kind \in EventKinds => rxFifo'[i][p].id \in Transactions
           /\ rxFifo'[i][p].kind = "message" => rxFifo'[i][p].id \in Ids
      BY <1>3, <1>5, <1>6 DEF Named
  <2>2. \A p \in 1 .. Len(kernelFifo') :
           /\ kernelFifo'[p].kind = "init" => kernelFifo'[p].id \in Transactions
           /\ kernelFifo'[p].kind = "message" => kernelFifo'[p].id \in Ids
      BY <1>2 DEF Named
  <2> QED BY <1>7, <2>1, <2>2 DEF Named, Transactions, Ids
<1>10. InOrder'
  <2>1. ASSUME NEW p \in 1 .. Len(kernelFifo'), NEW q \in 1 .. Len(kernelFifo'),
               p < q, kernelFifo'[p].kind = "message", kernelFifo'[q].kind = "message"
        PROVE  kernelFifo'[p].id < kernelFifo'[q].id
    <3>1. /\ p + 1 \in 1 .. Len(kernelFifo) /\ kernelFifo'[p] = kernelFifo[p + 1]
          /\ q + 1 \in 1 .. Len(kernelFifo) /\ kernelFifo'[q] = kernelFifo[q + 1]
          /\ p + 1 < q + 1
        BY <1>2, <2>1
    <3> QED BY <2>1, <3>1 DEF InOrder
  <2>2. ASSUME NEW i \in Inst, NEW p \in 1 .. Len(rxFifo'[i]), NEW q \in 1 .. Len(rxFifo'[i]),
               p < q, rxFifo'[i][p].kind = "message", rxFifo'[i][q].kind = "message"
        PROVE  rxFifo'[i][p].id < rxFifo'[i][q].id
    <3>1. p \in 1 .. Len(rxFifo[i]) /\ rxFifo'[i][p] = rxFifo[i][p]
      <4>1. Len(rxFifo[i]) \in Nat /\ Len(rxFifo'[i]) \in Nat
          BY <1>4, FifoShape
      <4> QED BY <1>4, <1>5, <2>2, <4>1
    <3>2. CASE q \in 1 .. Len(rxFifo[i]) /\ rxFifo'[i][q] = rxFifo[i][q]
        BY <2>2, <3>1, <3>2 DEF InOrder
    <3>3. CASE rxFifo'[i][q] = Message(id)
        BY <1>2, <1>6, <2>2, <3>1, <3>3, SMTT(30) DEF InOrder
    <3> QED BY <1>5, <3>2, <3>3
  <2>3. ASSUME NEW i \in Inst, NEW p \in 1 .. Len(rxFifo'[i]), NEW q \in 1 .. Len(kernelFifo'),
               rxFifo'[i][p].kind = "message", kernelFifo'[q].kind = "message"
        PROVE  rxFifo'[i][p].id < kernelFifo'[q].id
    <3>1. /\ q + 1 \in 1 .. Len(kernelFifo) /\ kernelFifo'[q] = kernelFifo[q + 1]
          /\ q + 1 # 1
        BY <1>2
    <3>2. CASE p \in 1 .. Len(rxFifo[i]) /\ rxFifo'[i][p] = rxFifo[i][p]
        BY <2>3, <3>1, <3>2 DEF InOrder
    <3>3. CASE rxFifo'[i][p] = Message(id)
        BY <1>3, <1>6, <2>3, <3>1, <3>3
    <3> QED BY <1>5, <3>2, <3>3
  <2>4. ASSUME NEW i \in Inst, NEW p \in 1 .. Len(handled[i]), NEW q \in 1 .. Len(rxFifo'[i]),
               rxFifo'[i][q].kind = "message"
        PROVE  handled[i][p] < rxFifo'[i][q].id
    <3>1. CASE q \in 1 .. Len(rxFifo[i]) /\ rxFifo'[i][q] = rxFifo[i][q]
        BY <2>4, <3>1 DEF InOrder
    <3>2. CASE rxFifo'[i][q] = Message(id)
        BY <1>2, <1>6, <2>4, <3>2 DEF InOrder
    <3> QED BY <1>5, <3>1, <3>2
  <2>5. ASSUME NEW i \in Inst, NEW p \in 1 .. Len(handled[i]), NEW q \in 1 .. Len(kernelFifo'),
               kernelFifo'[q].kind = "message"
        PROVE  handled[i][p] < kernelFifo'[q].id
      BY <1>2, <2>5 DEF InOrder
  <2>6. \A i \in Inst : \A p, q \in 1 .. Len(handled[i]) :
           p < q => handled[i][p] < handled[i][q]
      BY DEF InOrder
  <2> QED BY <1>7, <2>1, <2>2, <2>3, <2>4, <2>5, <2>6 DEF InOrder
<1>11. ASSUME NEW u, u # id PROVE Waits(u)' <=> Waits(u)
  <2>1. ASSUME NEW p \in 1 .. Len(kernelFifo), kernelFifo[p] = Message(u) PROVE Waits(u)'
    <3>1. p # 1
        BY <1>6, <1>11, <2>1
    <3>2. p - 1 \in 1 .. Len(kernelFifo') /\ kernelFifo'[p - 1] = kernelFifo[p]
        BY <1>2, <3>1
    <3> QED BY <2>1, <3>2 DEF Waits, Message
  <2>2. ASSUME NEW p \in 1 .. Len(kernelFifo'), kernelFifo'[p] = Message(u) PROVE Waits(u)
      BY <1>2, <2>2 DEF Waits
  <2> QED BY <2>1, <2>2 DEF Waits, Message
<1>12. ~Waits(id)'
  <2> SUFFICES ASSUME NEW p \in 1 .. Len(kernelFifo'), kernelFifo'[p] = Message(id)
               PROVE  FALSE
      BY DEF Waits, Message
  <2>1. /\ p + 1 \in 1 .. Len(kernelFifo) /\ kernelFifo'[p] = kernelFifo[p + 1]
        /\ p + 1 # 1
      BY <1>2
  <2>2. kernelFifo[p + 1].kind = "message" /\ kernelFifo[p + 1].id = id
      BY <1>6, <2>1
  <2>3. id < id
      BY <1>3, <2>1, <2>2
  <2> QED BY <2>3
<1>13. \A u : \A i \in Inst : u # id \/ i \notin R => (Holds(u, i)' <=> Holds(u, i))
  <2> SUFFICES ASSUME NEW u, NEW i \in Inst, u # id \/ i \notin R
               PROVE  Holds(u, i)' <=> Holds(u, i)
      OBVIOUS
  <2>1. ASSUME NEW p \in 1 .. Len(rxFifo[i]), rxFifo[i][p] = Message(u)
        PROVE  \E q \in 1 .. Len(rxFifo'[i]) : rxFifo'[i][q] = Message(u)
      BY <1>5, <2>1
  <2>2. ASSUME NEW p \in 1 .. Len(rxFifo'[i]), rxFifo'[i][p] = Message(u)
        PROVE  \E q \in 1 .. Len(rxFifo[i]) : rxFifo[i][q] = Message(u)
      BY <1>5, <1>6, <2>2
  <2> QED BY <2>1, <2>2 DEF Holds, Message
<1>14. \A i \in R : Holds(id, i)'
  <2> SUFFICES ASSUME NEW i \in R PROVE Holds(id, i)'
      OBVIOUS
  <2>1. PICK n \in Nat : n = Len(rxFifo[i])
      BY <1>4
  <2>2. Len(rxFifo'[i]) = n + 1 /\ rxFifo'[i][n + 1] = Message(id)
      BY <1>4, <2>1
  <2>3. n + 1 \in 1 .. Len(rxFifo'[i])
      BY <2>2
  <2> QED BY <2>2, <2>3 DEF Holds, Message
<1>15. /\ \A u : \A i \in Inst : u # id => (Got(u, i)' <=> Got(u, i))
       /\ \A i \in Inst : /\ Got(id, i)' <=> i \in R
                          /\ Holds(id, i)' <=> i \in R
    BY <1>0, <1>3, <1>7, <1>13, <1>14 DEF Got, Did
<1>16. Placed'
  <2> SUFFICES ASSUME NEW u \in Ids
               PROVE  (IF Waits(u) THEN deleted[u] = 0 ELSE Routed(u))'
      BY <1>7 DEF Placed, Ids
  <2>1. CASE u # id /\ Waits(u)
      BY <1>8, <1>11, <2>1 DEF Placed
  <2>2. CASE u # id /\ ~Waits(u)
    <3>1. Routed(u)
        BY <2>2 DEF Placed
    <3>2. deleted'[u] = deleted[u]
        BY <1>8, <2>2
    <3>3. Broadcast(u) => Broadcast(u)'
        BY <1>15, <2>2, <3>2 DEF Broadcast
    <3>4. Multicast(u) => Multicast(u)'
        BY <1>7, <1>15, <2>2, <3>2 DEF Multicast, DeletedTwice
    <3>5. Single(u) => Single(u)'
        BY <1>7, <1>13, <1>15, <2>2, <3>2 DEF Single
    <3>6. Routed(u)'
        BY <1>7, <3>1, <3>3, <3>4, <3>5 DEF Routed
    <3> QED BY <1>11, <2>2, <3>6
  <2>3. CASE u = id
    <3>1. CASE sent[id].address.msgType = DIALOG_BROADCAST
      <4>1. R = Inst /\ d = 1
          BY <3>1 DEF Reaches, DIALOG_BROADCAST, DIALOG_MULTICAST
      <4>2. Broadcast(id)'
          BY <1>8, <1>15, <4>1 DEF Broadcast
      <4> QED BY <1>7, <1>12, <2>3, <3>1, <4>2
              DEF Routed, DIALOG_BROADCAST, DIALOG_MULTICAST
    <3>2. CASE sent[id].address.msgType = DIALOG_MULTICAST
      <4>1. /\ \A i \in R : TaskOf[i] = sent[id].address.to
            /\ d = IF DeletedTwice(sent[id].address) THEN 2 ELSE 1
          BY <3>2 DEF Reaches, DIALOG_BROADCAST, DIALOG_MULTICAST
      <4>2. Multicast(id)'
          BY <1>7, <1>8, <1>15, <4>1 DEF Multicast, DeletedTwice
      <4> QED BY <1>7, <1>12, <2>3, <3>2, <4>2
              DEF Routed, DIALOG_BROADCAST, DIALOG_MULTICAST
    <3>3. CASE /\ sent[id].address.msgType # DIALOG_BROADCAST
               /\ sent[id].address.msgType # DIALOG_MULTICAST
      <4>1. /\ \A i \in R : IF sent[id].address.inst # AnyInst
                            THEN i = sent[id].address.inst
                            ELSE TaskOf[i] = sent[id].address.to
            /\ \A i, j \in R : i = j
            /\ d = IF R = {} THEN 1 ELSE 0
          BY <3>3 DEF Reaches
      <4>2. Single(id)'
          BY <1>0, <1>7, <1>8, <1>15, <4>1 DEF Single
      <4> QED BY <1>7, <1>12, <2>3, <3>3, <4>2 DEF Routed
    <3> QED BY <3>1, <3>2, <3>3
  <2> QED BY <2>1, <2>2, <2>3
<1> QED BY <1>1, <1>8, <1>9, <1>10, <1>16

-----------------------------------------------------------------------------
(* An instance handles a message.                                          *)

\* The message moves from the fifo of the instance to what it has handled.
LEMMA HandleKeeps ==
    ASSUME Shape, Named, InOrder, Placed, NEW i \in Inst, rxFifo[i] # <<>>,
           HandleMessage(i, Head(rxFifo[i])),
           rxFifo' = [rxFifo EXCEPT ![i] = Tail(@)],
           UNCHANGED <<kernelFifo, asked, sent>>
    PROVE  /\ InOrder' /\ Placed' /\ Named'
           /\ deleted' \in Seq(Nat) /\ Len(deleted') = Len(deleted)
           /\ handled' \in [Inst -> Seq(Nat)]
           /\ \A j \in Inst : handled'[j] # <<>> => j = i \/ handled[j] # <<>>
           /\ Same(rxFifo[i], rxFifo'[i], EventKinds)
           /\ UNCHANGED <<started, mngFifo>>
<1>1. /\ \A j \in Inst \ {i} : rxFifo'[j] = rxFifo[j]
      /\ 1 \in 1 .. Len(rxFifo[i]) /\ Len(rxFifo[i]) \in Nat
      /\ Len(rxFifo'[i]) \in Nat /\ Head(rxFifo[i]) = rxFifo[i][1]
      /\ \A p \in 1 .. Len(rxFifo'[i]) : p + 1 \in 1 .. Len(rxFifo[i])
                                         /\ rxFifo'[i][p] = rxFifo[i][p + 1]
      /\ \A p \in 1 .. Len(rxFifo[i]) : p # 1 =>
            p - 1 \in 1 .. Len(rxFifo'[i]) /\ rxFifo'[i][p - 1] = rxFifo[i][p]
    BY TakeShape
<1>2. PICK e \in EventRec \union MessageRec : e = rxFifo[i][1]
    BY <1>1, FifoShape
<1>3. /\ e.kind = "message" /\ e.id \in Nat
      /\ handled' = [handled EXCEPT ![i] = Append(@, e.id)]
      /\ deleted' = IF Shares(sent[e.id].address) THEN deleted
                    ELSE [deleted EXCEPT ![e.id] = @ + 1]
      /\ started' = started /\ mngFifo' = mngFifo
    BY <1>1, <1>2 DEF HandleMessage, EventRec, MessageRec
<1>4. PICK id \in Nat : id = e.id
    BY <1>3
<1>5. id \in Ids /\ e = Message(id) /\ rxFifo[i][1] = Message(id)
  <2>1. e = Message(id)
      BY <1>2, <1>3, <1>4 DEF EventRec, MessageRec, EventKinds, Message
  <2> QED BY <1>1, <1>2, <1>3, <1>4, <2>1 DEF Named
<1>6. /\ \A u : Message(u).kind = "message" /\ Message(u).id = u
      /\ \A u, v : Message(u) = Message(v) => u = v
    BY DEF Message
<1>7. /\ \A q \in 1 .. Len(rxFifo[i]) :
            q # 1 /\ rxFifo[i][q].kind = "message" => id < rxFifo[i][q].id
      /\ \A q \in 1 .. Len(kernelFifo) :
            kernelFifo[q].kind = "message" => id < kernelFifo[q].id
      /\ \A p \in 1 .. Len(handled[i]) : handled[i][p] < id
  <2>1. rxFifo[i][1].kind = "message" /\ rxFifo[i][1].id = id
      BY <1>5, <1>6
  <2>2. \A q \in 1 .. Len(rxFifo[i]) : q # 1 => 1 < q
      OBVIOUS
  <2>3. \A q \in 1 .. Len(rxFifo[i]) :
             q # 1 /\ rxFifo[i][q].kind = "message" => id < rxFifo[i][q].id
      BY <1>1, <2>1, <2>2 DEF InOrder
  <2>4. \A q \in 1 .. Len(kernelFifo) :
             kernelFifo[q].kind = "message" => id < kernelFifo[q].id
      BY <1>1, <2>1 DEF InOrder
  <2>5. \A p \in 1 .. Len(handled[i]) : handled[i][p] < id
      BY <1>1, <2>1 DEF InOrder
  <2> QED BY <2>3, <2>4, <2>5
<1>8. kernelFifo' = kernelFifo /\ sent' = sent /\ asked' = asked
    OBVIOUS
<1>9. PICK h \in Seq(Nat) : h = handled[i]
    BY FifoShape
<1>10. /\ Append(h, id) \in Seq(Nat) /\ Len(h) \in Nat /\ Len(Append(h, id)) = Len(h) + 1
       /\ Append(h, id)[Len(h) + 1] = id
       /\ \A p \in 1 .. Len(h) : Append(h, id)[p] = h[p]
    BY AppendFacts
<1>11. /\ handled' \in [Inst -> Seq(Nat)] /\ handled'[i] = Append(h, id)
       /\ \A j \in Inst \ {i} : handled'[j] = handled[j]
  <2>1. handled \in [Inst -> Seq(Nat)]
      BY DEF Shape
  <2>2. handled' = [handled EXCEPT ![i] = Append(h, id)]
      BY <1>3, <1>4, <1>9
  <2> QED BY <1>10, <2>1, <2>2
<1>12. \A j \in Inst : \A p \in 1 .. Len(handled'[j]) :
          \/ p \in 1 .. Len(handled[j]) /\ handled'[j][p] = handled[j][p]
          \/ j = i /\ p = Len(h) + 1 /\ handled'[j][p] = id
  <2>1. \A p \in 1 .. Len(h) + 1 : p \in 1 .. Len(h) \/ p = Len(h) + 1
      BY <1>10
  <2>2. ASSUME NEW p \in 1 .. Len(handled'[i])
        PROVE  \/ p \in 1 .. Len(handled[i]) /\ handled'[i][p] = handled[i][p]
               \/ p = Len(h) + 1 /\ handled'[i][p] = id
      BY <1>9, <1>10, <1>11, <2>1
  <2> QED BY <1>11, <2>2
<1>13. \A j \in Inst : \A p \in 1 .. Len(handled[j]) :
          p \in 1 .. Len(handled'[j]) /\ handled'[j][p] = handled[j][p]
  <2>1. \A p \in 1 .. Len(h) : p \in 1 .. Len(h) + 1
      BY <1>10
  <2> QED BY <1>9, <1>10, <1>11, <2>1
<1>14. /\ Len(h) + 1 \in 1 .. Len(handled'[i]) /\ handled'[i][Len(h) + 1] = id
    BY <1>10, <1>11
<1>15. \A j \in Inst : \A p \in 1 .. Len(rxFifo'[j]) :
          \/ j # i /\ p \in 1 .. Len(rxFifo[j]) /\ rxFifo'[j][p] = rxFifo[j][p]
          \/ j = i /\ p + 1 \in 1 .. Len(rxFifo[j]) /\ rxFifo'[j][p] = rxFifo[j][p + 1]
    BY <1>1
<1>16. \A j \in Inst : handled'[j] # <<>> => j = i \/ handled[j] # <<>>
    BY <1>11
<1>17. Same(rxFifo[i], rxFifo'[i], EventKinds)
  <2>1. rxFifo[i] \in Seq(EventRec \union MessageRec) /\ rxFifo'[i] = Tail(rxFifo[i])
      BY FifoShape, TakeShape
  <2>2. rxFifo[i][1].kind \notin EventKinds
      BY <1>2, <1>3 DEF EventKinds
  <2> HIDE DEF EventRec, MessageRec
  <2> QED BY <2>1, <2>2, SameTail
<1>18. Named'
  <2>1. \A j \in Inst : \A p \in 1 .. Len(rxFifo'[j]) :
           /\ rxFifo'[j][p].kind \in EventKinds => rxFifo'[j][p].id \in Transactions
           /\ rxFifo'[j][p].kind = "message" => rxFifo'[j][p].id \in Ids
      BY <1>15 DEF Named
  <2>2. \A j \in Inst : \A p \in 1 .. Len(handled'[j]) : handled'[j][p] \in Ids
      BY <1>5, <1>12 DEF Named
  <2> QED BY <1>3, <1>8, <2>1, <2>2 DEF Named, Transactions, Ids
<1>19. InOrder'
  <2>1. ASSUME NEW j \in Inst, NEW p \in 1 .. Len(rxFifo'[j]), NEW q \in 1 .. Len(rxFifo'[j]),
               p < q, rxFifo'[j][p].kind = "message", rxFifo'[j][q].kind = "message"
        PROVE  rxFifo'[j][p].id < rxFifo'[j][q].id
    <3>1. CASE j # i
        BY <1>1, <2>1, <3>1, SMTT(30) DEF InOrder
    <3>2. CASE j = i
      <4>1. p + 1 < q + 1
          BY <2>1
      <4> QED BY <1>1, <2>1, <3>2, <4>1 DEF InOrder
    <3> QED BY <3>1, <3>2
  <2>2. ASSUME NEW j \in Inst, NEW p \in 1 .. Len(rxFifo'[j]), NEW q \in 1 .. Len(kernelFifo),
               rxFifo'[j][p].kind = "message", kernelFifo[q].kind = "message"
        PROVE  rxFifo'[j][p].id < kernelFifo[q].id
    <3>1. PICK r \in 1 .. Len(rxFifo[j]) : rxFifo'[j][p] = rxFifo[j][r]
        BY <1>15
    <3> QED BY <2>2, <3>1 DEF InOrder
  <2>3. ASSUME NEW j \in Inst, NEW p \in 1 .. Len(handled'[j]), NEW q \in 1 .. Len(rxFifo'[j]),
               rxFifo'[j][q].kind = "message"
        PROVE  handled'[j][p] < rxFifo'[j][q].id
    <3>1. CASE p \in 1 .. Len(handled[j]) /\ handled'[j][p] = handled[j][p]
        BY <1>15, <2>3, <3>1 DEF InOrder
    <3>2. CASE j = i /\ handled'[j][p] = id
      <4>1. q + 1 \in 1 .. Len(rxFifo[i]) /\ rxFifo'[i][q] = rxFifo[i][q + 1] /\ q + 1 # 1
          BY <1>1, <3>2
      <4> QED BY <1>7, <2>3, <3>2, <4>1
    <3> QED BY <1>12, <3>1, <3>2
  <2>4. ASSUME NEW j \in Inst, NEW p \in 1 .. Len(handled'[j]), NEW q \in 1 .. Len(kernelFifo),
               kernelFifo[q].kind = "message"
        PROVE  handled'[j][p] < kernelFifo[q].id
    <3>1. id < kernelFifo[q].id
        BY <1>7, <2>4
    <3> QED BY <1>12, <2>4, <3>1 DEF InOrder
  <2>5. ASSUME NEW j \in Inst, NEW p \in 1 .. Len(handled'[j]), NEW q \in 1 .. Len(handled'[j]),
               p < q
        PROVE  handled'[j][p] < handled'[j][q]
    <3>1. p \in 1 .. Len(handled[j]) /\ handled'[j][p] = handled[j][p]
      <4>1. CASE j # i
          BY <1>12, <4>1
      <4>2. CASE j = i
        <5>1. p \in 1 .. Len(h)
            BY <1>10, <1>11, <2>5, <4>2
        <5> QED BY <1>9, <1>13, <4>2, <5>1
      <4> QED BY <4>1, <4>2
    <3>2. CASE q \in 1 .. Len(handled[j]) /\ handled'[j][q] = handled[j][q]
        BY <2>5, <3>1, <3>2 DEF InOrder
    <3>3. CASE j = i /\ handled'[j][q] = id
        BY <1>7, <3>1, <3>3
    <3> QED BY <1>12, <3>2, <3>3
  <2>6. \A p, q \in 1 .. Len(kernelFifo) :
          p < q /\ kernelFifo[p].kind = "message" /\ kernelFifo[q].kind = "message"
             => kernelFifo[p].id < kernelFifo[q].id
      BY DEF InOrder
  <2> QED BY <1>8, <2>1, <2>2, <2>3, <2>4, <2>5, <2>6, ZenonT(60) DEF InOrder
<1>20. \A u : Waits(u)' <=> Waits(u)
    BY <1>8 DEF Waits, Message
<1>21. ASSUME NEW u, NEW j \in Inst
       PROVE  /\ u # id \/ j # i => (Holds(u, j)' <=> Holds(u, j))
              /\ u # id \/ j # i => (Did(u, j)' <=> Did(u, j))
  <2>1. CASE j # i
    <3>1. rxFifo'[j] = rxFifo[j] /\ handled'[j] = handled[j]
        BY <1>1, <1>11, <2>1
    <3> QED BY <3>1 DEF Holds, Did, Message
  <2>2. CASE j = i /\ u # id
    <3>1. ASSUME NEW p \in 1 .. Len(rxFifo[i]), rxFifo[i][p] = Message(u)
          PROVE  \E q \in 1 .. Len(rxFifo'[i]) : rxFifo'[i][q] = Message(u)
      <4>1. p # 1
          BY <1>5, <1>6, <2>2, <3>1
      <4>2. \A k \in 1 .. Len(rxFifo[i]) : k # 1 =>
                k - 1 \in 1 .. Len(rxFifo'[i]) /\ rxFifo'[i][k - 1] = rxFifo[i][k]
          BY <1>1
      <4>3. p - 1 \in 1 .. Len(rxFifo'[i]) /\ rxFifo'[i][p - 1] = rxFifo[i][p]
          BY <3>1, <4>1, <4>2, Zenon
      <4> QED BY <3>1, <4>3, Zenon
    <3>2. ASSUME NEW p \in 1 .. Len(rxFifo'[i]), rxFifo'[i][p] = Message(u)
          PROVE  \E q \in 1 .. Len(rxFifo[i]) : rxFifo[i][q] = Message(u)
        BY <1>1, <3>2
    <3>3. Holds(u, i)' <=> Holds(u, i)
        BY <3>1, <3>2 DEF Holds, Message
    <3>4. Did(u, i)' <=> Did(u, i)
        BY <1>12, <1>13, <2>2 DEF Did
    <3> QED BY <2>2, <3>3, <3>4
  <2> QED BY <2>1, <2>2
<1>22. Holds(id, i) /\ Got(id, i)
    BY <1>1, <1>5 DEF Holds, Got
<1>23. ~Holds(id, i)' /\ Got(id, i)'
  <2>1. ASSUME NEW p \in 1 .. Len(rxFifo'[i]), rxFifo'[i][p] = Message(id) PROVE FALSE
    <3>1. p + 1 \in 1 .. Len(rxFifo[i]) /\ rxFifo'[i][p] = rxFifo[i][p + 1]
        BY <1>1
    <3>2. p + 1 # 1
        BY <2>1
    <3>3. rxFifo[i][p + 1].kind = "message" /\ rxFifo[i][p + 1].id = id
        BY <1>6, <2>1, <3>1
    <3>4. id < id
        BY <1>7, <3>1, <3>2, <3>3
    <3> QED BY <3>4
  <2>2. ~Holds(id, i)'
      BY <2>1 DEF Holds, Message
  <2>3. Did(id, i)'
      BY <1>14 DEF Did
  <2> QED BY <2>2, <2>3 DEF Got
<1>24. \A u : \A j \in Inst : Got(u, j)' <=> Got(u, j)
    BY <1>21, <1>22, <1>23 DEF Got
<1>25. ~Waits(id)
  <2>1. ASSUME NEW q \in 1 .. Len(kernelFifo), kernelFifo[q] = Message(id) PROVE FALSE
    <3>1. id < id
        BY <1>6, <1>7, <2>1
    <3> QED BY <3>1
  <2> QED BY <2>1 DEF Waits
<1>26. Routed(id)
    BY <1>5, <1>25 DEF Placed
<1>27. /\ deleted' \in Seq(Nat) /\ Len(deleted') = Len(deleted)
       /\ \A u \in Ids : u # id => deleted'[u] = deleted[u]
       /\ Shares(sent[id].address) => deleted'[id] = deleted[id]
       /\ ~Shares(sent[id].address) => deleted'[id] = deleted[id] + 1
  <2>1. /\ deleted \in Seq(Nat) /\ Ids = 1 .. Len(deleted) /\ id \in 1 .. Len(deleted)
      BY <1>5 DEF Shape, Ids
  <2>2. deleted' = IF Shares(sent[id].address) THEN deleted
                   ELSE [deleted EXCEPT ![id] = deleted[id] + 1]
      BY <1>3, <1>4
  <2> QED BY <2>1, <2>2
<1>28. Placed'
  <2> SUFFICES ASSUME NEW u \in Ids
               PROVE  (IF Waits(u) THEN deleted[u] = 0 ELSE Routed(u))'
      BY <1>8 DEF Placed, Ids
  <2>1. CASE Waits(u)
    <3>1. deleted'[u] = deleted[u]
        BY <1>25, <1>27, <2>1
    <3> QED BY <1>20, <2>1, <3>1 DEF Placed
  <2>2. ASSUME ~Waits(u), deleted'[u] = deleted[u],
               \A j \in Inst : Holds(u, j)' => Holds(u, j),
               Single(u) => ((\E j \in Inst : Holds(u, j)) => \E j \in Inst : Holds(u, j)')
        PROVE  Routed(u)'
    <3>1. Routed(u)
        BY <2>2 DEF Placed
    <3>2. Broadcast(u) => Broadcast(u)'
        BY <1>24, <2>2 DEF Broadcast
    <3>3. Multicast(u) => Multicast(u)'
        BY <1>8, <1>24, <2>2 DEF Multicast, DeletedTwice
    <3>4. Single(u) => Single(u)'
        BY <1>8, <1>24, <2>2 DEF Single
    <3> QED BY <1>8, <3>1, <3>2, <3>3, <3>4 DEF Routed
  <2>3. CASE ~Waits(u) /\ u # id
      BY <1>20, <1>21, <1>27, <2>2, <2>3
  <2>4. CASE u = id /\ sent[id].address.msgType = DIALOG_BROADCAST
    <3>1. Broadcast(id) /\ deleted'[id] = deleted[id]
        BY <1>26, <1>27, <2>4
        DEF Routed, Shares, DIALOG_BROADCAST, DIALOG_MULTICAST
    <3>2. Broadcast(id)'
        BY <1>24, <3>1 DEF Broadcast
    <3> QED BY <1>8, <1>20, <1>25, <2>4, <3>2
            DEF Routed, DIALOG_BROADCAST, DIALOG_MULTICAST
  <2>5. CASE u = id /\ sent[id].address.msgType = DIALOG_MULTICAST
    <3>1. Multicast(id) /\ deleted'[id] = deleted[id]
        BY <1>26, <1>27, <2>5
        DEF Routed, Shares, DIALOG_BROADCAST, DIALOG_MULTICAST
    <3>2. Multicast(id)'
        BY <1>8, <1>24, <3>1 DEF Multicast, DeletedTwice
    <3> QED BY <1>8, <1>20, <1>25, <2>5, <3>2
            DEF Routed, DIALOG_BROADCAST, DIALOG_MULTICAST
  <2>6. CASE u = id /\ ~Shares(sent[id].address)
    <3>1. Single(id)
        BY <1>26, <2>6 DEF Routed, Shares
    <3>2. deleted[id] = 0 /\ deleted'[id] = 1
        BY <1>22, <1>27, <2>6, <3>1 DEF Single
    <3>3. ASSUME NEW j \in Inst PROVE ~Holds(id, j)'
      <4>1. CASE j = i
          BY <1>23, <4>1
      <4>2. CASE j # i
          BY <1>21, <1>22, <3>1, <4>2 DEF Single, Got
      <4> QED BY <4>1, <4>2
    <3>4. Single(id)'
        BY <1>8, <1>24, <3>1, <3>2, <3>3 DEF Single
    <3> QED BY <1>8, <1>20, <1>25, <2>6, <3>4 DEF Routed, Shares
  <2> QED BY <2>1, <2>3, <2>4, <2>5, <2>6 DEF Shares
<1> QED BY <1>3, <1>11, <1>16, <1>17, <1>18, <1>19, <1>27, <1>28

-----------------------------------------------------------------------------
(* A task sends a message.                                                 *)

\* The new message is the last before the kernel.
LEMMA SendKeeps ==
    ASSUME Shape, Named, InOrder, Placed, NEW i \in Inst, NEW a \in Addresses,
           sendMsg(i, a)
    PROVE  /\ InOrder' /\ Placed' /\ Named'
           /\ sent' \in Seq([from : Inst, address : Addresses])
           /\ deleted' \in Seq(Nat) /\ Len(deleted') = Len(sent')
           /\ kernelFifo' \in Seq(KernelRec)
           /\ Same(kernelFifo, kernelFifo', EventKinds)
<1> DEFINE SentRec == [from : Inst, address : Addresses]
<1>1. /\ sent \in Seq(SentRec) /\ deleted \in Seq(Nat) /\ Len(deleted) = Len(sent)
      /\ kernelFifo \in Seq(KernelRec)
    BY DEF Shape
<1>2. PICK m \in SentRec : m = [from |-> i, address |-> a]
    OBVIOUS
<1>3. /\ sent' = Append(sent, m) /\ deleted' = Append(deleted, 0)
      /\ kernelFifo' = Append(kernelFifo, Message(Len(sent')))
      /\ rxFifo' = rxFifo /\ handled' = handled /\ mngFifo' = mngFifo /\ asked' = asked
    BY <1>2 DEF sendMsg, FifoAdd
<1> HIDE DEF SentRec
<1>4. PICK n \in Nat : n = Len(sent)
    BY <1>1
<1>5. /\ sent' \in Seq(SentRec) /\ Len(sent') = n + 1
      /\ \A u \in 1 .. n : sent'[u] = sent[u]
    BY <1>1, <1>3, <1>4, AppendFacts
<1>6. /\ deleted' \in Seq(Nat) /\ Len(deleted') = n + 1 /\ deleted'[n + 1] = 0
      /\ \A u \in 1 .. n : deleted'[u] = deleted[u]
    BY <1>1, <1>3, <1>4, AppendFacts
<1>7. PICK e \in KernelRec : e = Message(n + 1) /\ e.kind = "message" /\ e.id = n + 1
  <2>1. PICK u \in Nat : u = n + 1
      OBVIOUS
  <2>2. /\ Message(u) \in KernelRec /\ Message(u).kind = "message"
        /\ Message(u).id = u
      BY DEF KernelRec, Message
  <2> QED BY <2>1, <2>2
<1>8. PICK l \in Nat : l = Len(kernelFifo)
    BY <1>1
<1>9. kernelFifo' = Append(kernelFifo, e)
    BY <1>3, <1>5, <1>7
<1>10. /\ kernelFifo' \in Seq(KernelRec) /\ Len(kernelFifo') = l + 1
       /\ kernelFifo'[l + 1] = e
       /\ \A p \in 1 .. l : kernelFifo'[p] = kernelFifo[p]
  <2> HIDE DEF KernelRec
  <2> QED BY <1>1, <1>8, <1>9, AppendFacts
<1>11. /\ \A p \in 1 .. Len(kernelFifo') :
             \/ p \in 1 .. Len(kernelFifo) /\ kernelFifo'[p] = kernelFifo[p]
             \/ p = l + 1 /\ kernelFifo'[p] = e
       /\ \A p \in 1 .. Len(kernelFifo) :
             p \in 1 .. Len(kernelFifo') /\ kernelFifo'[p] = kernelFifo[p]
       /\ l + 1 \in 1 .. Len(kernelFifo')
  <2>1. /\ \A p \in 1 .. l + 1 : p \in 1 .. l \/ p = l + 1
        /\ \A p \in 1 .. l : p \in 1 .. l + 1
        /\ l + 1 \in 1 .. l + 1
      OBVIOUS
  <2> QED BY <1>8, <1>10, <2>1
<1>12. Same(kernelFifo, kernelFifo', EventKinds)
  <2>1. e.kind \notin EventKinds
      BY <1>7 DEF EventKinds
  <2> HIDE DEF KernelRec
  <2> QED BY <1>1, <1>9, <2>1, SameAppend
<1>13. /\ Ids = 1 .. n /\ Ids' = 1 .. n + 1 /\ Ids \subseteq Ids' /\ n + 1 \in Ids'
       /\ \A u \in Ids' : u \in Ids \/ u = n + 1
       /\ \A u \in Ids : u \in Nat /\ u < n + 1
  <2>1. /\ \A p \in 1 .. n + 1 : p \in 1 .. n \/ p = n + 1
        /\ \A p \in 1 .. n : p \in 1 .. n + 1 /\ p \in Nat /\ p < n + 1
        /\ n + 1 \in 1 .. n + 1
      OBVIOUS
  <2>2. Ids = 1 .. n /\ Ids' = 1 .. n + 1
      BY <1>4, <1>5 DEF Ids
  <2> QED BY <2>1, <2>2
<1>14. Named'
  <2>1. \A p \in 1 .. Len(kernelFifo') :
           /\ kernelFifo'[p].kind = "init" => kernelFifo'[p].id \in Transactions
           /\ kernelFifo'[p].kind = "message" => kernelFifo'[p].id \in Ids'
      BY <1>7, <1>11, <1>13 DEF Named
  <2>2. \A j \in Inst : \A p \in 1 .. Len(rxFifo[j]) :
           /\ rxFifo[j][p].kind \in EventKinds => rxFifo[j][p].id \in Transactions
           /\ rxFifo[j][p].kind = "message" => rxFifo[j][p].id \in Ids'
      BY <1>13 DEF Named
  <2>3. \A k \in 1 .. Len(mngFifo) : mngFifo[k].id \in Transactions
      BY DEF Named
  <2>4. \A j \in Inst : \A p \in 1 .. Len(handled[j]) : handled[j][p] \in Ids'
      BY <1>13 DEF Named
  <2>5. Transactions' = Transactions
      BY <1>3 DEF Transactions
  <2> QED BY <1>3, <2>1, <2>2, <2>3, <2>4, <2>5 DEF Named
<1>15. InOrder'
  <2>1. ASSUME NEW p \in 1 .. Len(kernelFifo'), NEW q \in 1 .. Len(kernelFifo'),
               p < q, kernelFifo'[p].kind = "message", kernelFifo'[q].kind = "message"
        PROVE  kernelFifo'[p].id < kernelFifo'[q].id
    <3>1. p \in 1 .. Len(kernelFifo) /\ kernelFifo'[p] = kernelFifo[p]
        BY <1>8, <1>10, <1>11, <2>1
    <3>2. CASE q \in 1 .. Len(kernelFifo) /\ kernelFifo'[q] = kernelFifo[q]
        BY <2>1, <3>1, <3>2 DEF InOrder
    <3>3. CASE kernelFifo'[q] = e
      <4>1. kernelFifo[p].id \in Ids
          BY <2>1, <3>1 DEF Named
      <4> QED BY <1>7, <1>13, <3>1, <3>3, <4>1
    <3> QED BY <1>11, <3>2, <3>3
  <2>2. ASSUME NEW j \in Inst, NEW p \in 1 .. Len(rxFifo[j]), NEW q \in 1 .. Len(kernelFifo'),
               rxFifo[j][p].kind = "message", kernelFifo'[q].kind = "message"
        PROVE  rxFifo[j][p].id < kernelFifo'[q].id
    <3>1. CASE q \in 1 .. Len(kernelFifo) /\ kernelFifo'[q] = kernelFifo[q]
        BY <2>2, <3>1 DEF InOrder
    <3>2. CASE kernelFifo'[q] = e
      <4>1. rxFifo[j][p].id \in Ids
          BY <2>2 DEF Named
      <4> QED BY <1>7, <1>13, <3>2, <4>1
    <3> QED BY <1>11, <3>1, <3>2
  <2>3. ASSUME NEW j \in Inst, NEW p \in 1 .. Len(handled[j]), NEW q \in 1 .. Len(kernelFifo'),
               kernelFifo'[q].kind = "message"
        PROVE  handled[j][p] < kernelFifo'[q].id
    <3>1. CASE q \in 1 .. Len(kernelFifo) /\ kernelFifo'[q] = kernelFifo[q]
        BY <2>3, <3>1 DEF InOrder
    <3>2. CASE kernelFifo'[q] = e
      <4>1. handled[j][p] \in Ids
          BY DEF Named
      <4> QED BY <1>7, <1>13, <3>2, <4>1
    <3> QED BY <1>11, <3>1, <3>2
  <2>4. /\ \A j \in Inst : \A p, q \in 1 .. Len(rxFifo[j]) :
              p < q /\ rxFifo[j][p].kind = "message" /\ rxFifo[j][q].kind = "message"
                 => rxFifo[j][p].id < rxFifo[j][q].id
        /\ \A j \in Inst : \A p, q \in 1 .. Len(handled[j]) :
              p < q => handled[j][p] < handled[j][q]
        /\ \A j \in Inst : \A p \in 1 .. Len(handled[j]), q \in 1 .. Len(rxFifo[j]) :
              rxFifo[j][q].kind = "message" => handled[j][p] < rxFifo[j][q].id
      BY DEF InOrder
  <2>5. rxFifo' = rxFifo /\ handled' = handled
      BY <1>3
  <2> QED BY <2>1, <2>2, <2>3, <2>4, <2>5, SMTT(60) DEF InOrder
<1>16. ASSUME NEW u \in Ids PROVE Waits(u)' <=> Waits(u)
  <2>1. u # n + 1
      BY <1>13
  <2>2. Message(u) # e
      BY <1>7, <2>1 DEF Message
  <2>3. ASSUME NEW p \in 1 .. Len(kernelFifo), kernelFifo[p] = Message(u)
        PROVE  \E q \in 1 .. Len(kernelFifo') : kernelFifo'[q] = Message(u)
      BY <1>11, <2>3
  <2>4. ASSUME NEW p \in 1 .. Len(kernelFifo'), kernelFifo'[p] = Message(u)
        PROVE  \E q \in 1 .. Len(kernelFifo) : kernelFifo[q] = Message(u)
      BY <1>11, <2>2, <2>4
  <2> QED BY <2>3, <2>4 DEF Waits, Message
<1>17. Waits(n + 1)'
    BY <1>7, <1>10, <1>11 DEF Waits, Message
<1>18. \A u : \A j \in Inst : /\ Holds(u, j)' <=> Holds(u, j)
                              /\ Got(u, j)' <=> Got(u, j)
    BY <1>3 DEF Holds, Got, Did, Message
<1>19. Placed'
  <2> SUFFICES ASSUME NEW u \in Ids'
               PROVE  (IF Waits(u) THEN deleted[u] = 0 ELSE Routed(u))'
      BY DEF Placed
  <2>1. CASE u = n + 1
      BY <1>6, <1>17, <2>1
  <2>2. CASE u \in Ids /\ Waits(u)
      BY <1>6, <1>13, <1>16, <2>2 DEF Placed
  <2>3. CASE u \in Ids /\ ~Waits(u)
    <3>1. /\ Routed(u) /\ deleted'[u] = deleted[u] /\ sent'[u] = sent[u]
        BY <1>5, <1>6, <1>13, <2>3 DEF Placed
    <3>2. Broadcast(u) => Broadcast(u)'
        BY <1>18, <3>1 DEF Broadcast
    <3>3. Multicast(u) => Multicast(u)'
        BY <1>18, <3>1 DEF Multicast, DeletedTwice
    <3>4. Single(u) => Single(u)'
        BY <1>18, <3>1 DEF Single
    <3>5. Routed(u)'
        BY <3>1, <3>2, <3>3, <3>4 DEF Routed
    <3> QED BY <1>16, <2>3, <3>5
  <2> QED BY <1>13, <2>1, <2>2, <2>3
<1> QED BY <1>5, <1>6, <1>10, <1>12, <1>14, <1>15, <1>19 DEF SentRec

-----------------------------------------------------------------------------
(* The steps.                                                              *)

\* The start list names an instance at each place.
LEMMA StartList ==
    /\ Len(TaskOf) \in Nat \ {0} /\ Inst = 1 .. Len(TaskOf)
    /\ \A i \in Inst : TaskOf[i] \in Task
BY FrameworkAssumption

\* The cursor stays on the start list.
LEMMA AdvanceFacts ==
    ASSUME cursor \in Inst, NEW from, NEW to, Advance(from, to)
    PROVE  /\ cursor' \in Inst
           /\ \/ cursor = Len(TaskOf) /\ mng' = to /\ cursor' = 1
              \/ cursor # Len(TaskOf) /\ mng' = from /\ cursor' = cursor + 1
BY StartList DEF Advance, AtLast

\* Steps that do not call the selector.
LEMMA SelectorStays ==
    ASSUME SelectorIInv, UNCHANGED selectorVars
    PROVE  SelectorIInv'
BY NextIInv

\* Steps that leave the fifos and the histories alone.
LEMMA FifosKept ==
    ASSUME FrameworkIInv,
           UNCHANGED <<kernelFifo, rxFifo, mngFifo, started, asked, answered,
                       sent, deleted, handled>>,
           \A i \in Inst : Initiated(i)' => Initiated(i)
    PROVE  /\ Named' /\ InOrder' /\ Placed'
           /\ Answerable' /\ Unique' /\ Somewhere' /\ StartFirst'
<1>1. /\ Shape /\ Named /\ InOrder /\ Placed
      /\ Answerable /\ Unique /\ Somewhere /\ StartFirst
    BY DEF FrameworkIInv
<1>2. /\ kernelFifo' = kernelFifo /\ rxFifo' = rxFifo /\ mngFifo' = mngFifo
      /\ started' = started /\ asked' = asked /\ answered' = answered
      /\ sent' = sent /\ deleted' = deleted /\ handled' = handled
    OBVIOUS
<1>3. /\ Len(kernelFifo) \in Nat /\ \A i \in Inst : Len(rxFifo[i]) \in Nat
    BY <1>1, FifoShape
<1>4. \A K : /\ Same(kernelFifo, kernelFifo, K)
             /\ \A i \in Inst : Same(rxFifo[i], rxFifo[i], K)
  <2>1. /\ kernelFifo \in Seq(KernelRec)
        /\ \A i \in Inst : rxFifo[i] \in Seq(EventRec \union MessageRec)
      BY <1>1, FifoShape DEF Shape
  <2> HIDE DEF KernelRec, EventRec, MessageRec
  <2> QED BY <2>1, SameRefl
<1>5. Named'
    BY <1>1, <1>2 DEF Named, Transactions, Ids
<1>6. InOrder' /\ Placed'
    BY <1>1, <1>2, <1>3, <1>4, MessagesKept
<1>7. Answerable' /\ Unique' /\ Somewhere' /\ StartFirst'
    BY <1>1, <1>2, <1>3, <1>4, EventsKept
<1> QED BY <1>5, <1>6, <1>7

\* The next instance of the start list is registered.
LEMMA RegisterStep == ASSUME FrameworkIInv, Register PROVE FrameworkIInv'
<1>1. /\ SelectorIInv /\ Shape /\ Registered /\ Begun
      /\ mng = "register" /\ RegisterTask(TaskOf[cursor], cursor)
      /\ Advance("register", "kernel") /\ outcome' = outcome
      /\ UNCHANGED <<kernelFifo, rxFifo, mngFifo, command, socket, issued, running,
                     started, asked, answered, sent, deleted, handled>>
    BY DEF FrameworkIInv, Register
<1>2. cursor \in Inst /\ TaskOf[cursor] \in Task /\ cursor \in 1 .. Len(TaskOf)
    BY <1>1, StartList DEF Shape
<1>3. /\ cursor' \in Inst
      /\ \/ cursor = Len(TaskOf) /\ mng' = "kernel" /\ cursor' = 1
         \/ cursor # Len(TaskOf) /\ mng' = "register" /\ cursor' = cursor + 1
    BY <1>1, <1>2, AdvanceFacts
<1>4. outcome' = NoOutcome /\ running' = {}
    BY <1>1 DEF Begun
<1>5. SelectorIInv'
  <2>1. Tables' /\ Agreement' /\ Turns' /\ Bounds'
      BY <1>1, <1>2, RegisterMore, RegisterFirst
  <2>2. OutcomeOK'
      BY <1>4 DEF OutcomeOK
  <2> QED BY <2>1, <2>2 DEF SelectorIInv
<1>6. Shape'
    BY <1>1, <1>3 DEF Shape
<1>7. Begun'
    BY <1>1, <1>3, <1>4 DEF Begun
<1>8. Registered'
  <2>1. /\ mInstList' = With(mInstList, cursor,
                             [taskid |-> TaskOf[cursor], shuttingDown |-> FALSE])
        /\ DOMAIN mTaskList' = DOMAIN mTaskList \union {TaskOf[cursor]}
      BY <1>1 DEF RegisterTask, With, exists
  <2>2. /\ DOMAIN mInstList' = DOMAIN mInstList \union {cursor}
        /\ \A i \in DOMAIN mInstList' :
              mInstList'[i] = IF i = cursor
                              THEN [taskid |-> TaskOf[cursor], shuttingDown |-> FALSE]
                              ELSE mInstList[i]
      BY <2>1 DEF With
  <2>3. DOMAIN mInstList = 1 .. cursor - 1
      BY <1>1 DEF Registered
  <2>4. DOMAIN mInstList' = 1 .. cursor
      BY <1>2, <2>2, <2>3
  <2>5. DOMAIN mInstList' = IF mng' = "register" THEN 1 .. cursor' - 1 ELSE Inst
      BY <1>2, <1>3, <2>4, StartList
  <2>6. \A i \in DOMAIN mInstList' :
           mInstList'[i] = [taskid |-> TaskOf[i], shuttingDown |-> FALSE]
      BY <1>1, <2>2 DEF Registered
  <2>7. DOMAIN mTaskList' = {TaskOf[i] : i \in DOMAIN mInstList'}
      BY <1>1, <2>1, <2>2 DEF Registered
  <2> QED BY <2>5, <2>6, <2>7 DEF Registered
<1>9. \A i \in Inst : Initiated(i)' => Initiated(i)
    BY <1>3 DEF Initiated
<1>10. /\ Named' /\ InOrder' /\ Placed'
       /\ Answerable' /\ Unique' /\ Somewhere' /\ StartFirst'
    BY <1>1, <1>9, FifosKept
<1> QED BY <1>5, <1>6, <1>7, <1>8, <1>10 DEF FrameworkIInv

\* The manager takes a command from the socket, or none.
LEMMA RecvCodeStep == ASSUME FrameworkIInv, RecvCode PROVE FrameworkIInv'
<1>1. /\ SelectorIInv /\ Shape /\ Registered /\ Begun
      /\ mng = "recv"
      /\ UNCHANGED <<selectorVars, kernelFifo, rxFifo, mngFifo, cursor, issued, running,
                     started, asked, answered, sent, deleted, handled>>
    BY DEF FrameworkIInv, RecvCode
<1>2. /\ mng' \in {"dispatch", "poll"} /\ socket' \in Seq(Commands)
      /\ mng' = "dispatch" => command' \in Commands
  <2>1. CASE /\ socket # <<>> /\ command' = Head(socket) /\ socket' = Tail(socket)
             /\ mng' = "dispatch"
    <3>1. socket \in Seq(Commands)
        BY <1>1 DEF Shape
    <3>2. Tail(socket) \in Seq(Commands) /\ Head(socket) \in Commands
        BY <2>1, <3>1, TailFacts
    <3> QED BY <2>1, <3>2
  <2>2. CASE socket = <<>> /\ mng' = "poll" /\ UNCHANGED <<command, socket>>
      BY <1>1, <2>2 DEF Shape
  <2> QED BY <2>1, <2>2 DEF RecvCode
<1>3. SelectorIInv'
    BY <1>1, SelectorStays
<1>4. Shape'
    BY <1>1, <1>2 DEF Shape
<1>5. Registered' /\ Begun'
    BY <1>1, <1>2 DEF Registered, Begun, selectorVars
<1>6. \A i \in Inst : Initiated(i)' => Initiated(i)
    BY <1>1 DEF Initiated
<1>7. /\ Named' /\ InOrder' /\ Placed'
      /\ Answerable' /\ Unique' /\ Somewhere' /\ StartFirst'
    BY <1>1, <1>6, FifosKept
<1> QED BY <1>3, <1>4, <1>5, <1>7 DEF FrameworkIInv

\* A client sends a command.
LEMMA ClientStep ==
    ASSUME FrameworkIInv, NEW c \in Commands, Client(c) PROVE FrameworkIInv'
<1>1. /\ SelectorIInv /\ Shape /\ Registered /\ Begun /\ socket' = Append(socket, c)
      /\ UNCHANGED <<selectorVars, kernelFifo, rxFifo, mngFifo, mng, cursor, command,
                     running, started, asked, answered, sent, deleted, handled>>
    BY DEF FrameworkIInv, Client
<1>2. socket' \in Seq(Commands)
  <2>1. socket \in Seq(Commands)
      BY <1>1 DEF Shape
  <2> QED BY <1>1, <2>1, AppendFacts
<1>3. SelectorIInv'
    BY <1>1, SelectorStays
<1>4. Shape'
    BY <1>1, <1>2 DEF Shape
<1>5. Registered' /\ Begun'
    BY <1>1 DEF Registered, Begun, selectorVars
<1>6. \A i \in Inst : Initiated(i)' => Initiated(i)
    BY <1>1 DEF Initiated
<1>7. /\ Named' /\ InOrder' /\ Placed'
      /\ Answerable' /\ Unique' /\ Somewhere' /\ StartFirst'
    BY <1>1, <1>6, FifosKept
<1> QED BY <1>3, <1>4, <1>5, <1>7 DEF FrameworkIInv

\* Nothing happens.
LEMMA StutterStep == ASSUME FrameworkIInv, UNCHANGED frameworkVars PROVE FrameworkIInv'
<1>1. /\ SelectorIInv /\ Shape /\ Registered /\ Begun
      /\ UNCHANGED <<selectorVars, kernelFifo, rxFifo, mngFifo, mng, cursor, command,
                     socket, running, started, asked, answered, sent, deleted, handled>>
    BY DEF FrameworkIInv, frameworkVars, managerVars
<1>2. SelectorIInv'
    BY <1>1, SelectorStays
<1>3. Shape'
    BY <1>1 DEF Shape
<1>4. Registered' /\ Begun'
    BY <1>1 DEF Registered, Begun, selectorVars
<1>5. \A i \in Inst : Initiated(i)' => Initiated(i)
    BY <1>1 DEF Initiated
<1>6. /\ Named' /\ InOrder' /\ Placed'
      /\ Answerable' /\ Unique' /\ Somewhere' /\ StartFirst'
    BY <1>1, <1>5, FifosKept
<1> QED BY <1>2, <1>3, <1>4, <1>6 DEF FrameworkIInv

\* Steps in which the manager sends an instance an event.
LEMMA EventSent ==
    ASSUME FrameworkIInv, NEW i \in Inst, NEW k \in EventKinds, SendEvent(k, i),
           UNCHANGED <<kernelFifo, mngFifo, started, sent, deleted, handled>>,
           k # "init" => Initiated(i),
           \A j \in Inst : Initiated(j)' => Initiated(j) \/ (j = i /\ k = "init")
    PROVE  /\ Named' /\ InOrder' /\ Placed'
           /\ Answerable' /\ Unique' /\ Somewhere' /\ StartFirst'
           /\ asked' \in Seq(Partner) /\ answered' \in Seq(Nat)
           /\ Len(answered') = Len(asked')
           /\ rxFifo' \in [Inst -> Seq(EventRec \union MessageRec)]
<1>1. /\ Shape /\ Named /\ InOrder /\ Placed
      /\ Answerable /\ Unique /\ Somewhere /\ StartFirst
    BY DEF FrameworkIInv
<1>2. /\ kernelFifo' = kernelFifo /\ mngFifo' = mngFifo /\ started' = started
      /\ sent' = sent /\ deleted' = deleted /\ handled' = handled
    OBVIOUS
<1>3. PICK n \in Nat : n = Len(asked')
    BY <1>1, AskFacts DEF SendEvent, Partner
<1>4. /\ asked' \in Seq(Partner) /\ answered' \in Seq(Nat)
      /\ Len(answered') = Len(asked')
      /\ Transactions' = Transactions \union {n}
    BY <1>1, <1>3, AskFacts DEF SendEvent, Partner
<1>5. PICK l \in Nat : l = Len(rxFifo[i])
    BY <1>1, FifoShape
<1>6. /\ rxFifo' \in [Inst -> Seq(EventRec \union MessageRec)]
      /\ \A j \in Inst \ {i} : rxFifo'[j] = rxFifo[j]
      /\ Len(rxFifo'[i]) = l + 1
      /\ rxFifo'[i][l + 1] = Event(k, n)
      /\ \A p \in 1 .. l : rxFifo'[i][p] = rxFifo[i][p]
      /\ Same(rxFifo[i], rxFifo'[i], Msgs)
    BY <1>1, <1>3, <1>5, SendEventShape
<1>7. \A p \in 1 .. l + 1 : p \in 1 .. l \/ p = l + 1
    OBVIOUS
<1>8. /\ Len(kernelFifo) \in Nat
      /\ \A j \in Inst : Len(rxFifo[j]) \in Nat /\ Len(rxFifo'[j]) \in Nat
    BY <1>1, <1>5, <1>6, FifoShape
<1>9. /\ Same(kernelFifo, kernelFifo, Msgs)
      /\ \A j \in Inst : Same(rxFifo[j], rxFifo'[j], Msgs)
  <2>1. /\ kernelFifo \in Seq(KernelRec)
        /\ \A j \in Inst : rxFifo[j] \in Seq(EventRec \union MessageRec)
      BY <1>1, FifoShape DEF Shape
  <2> HIDE DEF KernelRec, EventRec, MessageRec
  <2>2. \A j \in Inst : Same(rxFifo[j], rxFifo[j], Msgs)
      BY <2>1, SameRefl
  <2> QED BY <1>6, <2>1, <2>2, SameRefl
<1>10. InOrder' /\ Placed'
    BY <1>1, <1>2, <1>8, <1>9, MessagesKept
<1>11. Answerable' /\ Unique' /\ Somewhere' /\ StartFirst'
    BY <1>1, <1>2, SendEventKeeps
<1>12. Named'
  <2>1. Event(k, n).kind = k /\ Event(k, n).id = n /\ k # "message"
      BY DEF Event, EventKinds
  <2>2. \A j \in Inst : \A p \in 1 .. Len(rxFifo'[j]) :
           \/ p \in 1 .. Len(rxFifo[j]) /\ rxFifo'[j][p] = rxFifo[j][p]
           \/ rxFifo'[j][p] = Event(k, n)
      BY <1>5, <1>6, <1>7
  <2>3. \A j \in Inst : \A p \in 1 .. Len(rxFifo'[j]) :
           /\ rxFifo'[j][p].kind \in EventKinds => rxFifo'[j][p].id \in Transactions'
           /\ rxFifo'[j][p].kind = "message" => rxFifo'[j][p].id \in Ids
      BY <1>1, <1>4, <2>1, <2>2 DEF Named
  <2>4. /\ \A p \in 1 .. Len(kernelFifo) :
              /\ kernelFifo[p].kind = "init" => kernelFifo[p].id \in Transactions'
              /\ kernelFifo[p].kind = "message" => kernelFifo[p].id \in Ids
        /\ \A m \in 1 .. Len(mngFifo) : mngFifo[m].id \in Transactions'
        /\ \A j \in Inst : \A p \in 1 .. Len(handled[j]) : handled[j][p] \in Ids
      BY <1>1, <1>4 DEF Named
  <2>5. Ids' = Ids
      BY <1>2 DEF Ids
  <2> QED BY <1>2, <2>3, <2>4, <2>5 DEF Named
<1> QED BY <1>4, <1>6, <1>10, <1>11, <1>12

\* The thread of an instance is started with an event before it.
LEMMA StartTaskStep == ASSUME FrameworkIInv, StartTask PROVE FrameworkIInv'
<1>1. /\ SelectorIInv /\ Shape /\ Registered /\ Begun
      /\ mng = "start" /\ SendEvent("init", cursor) /\ Advance("start", "poll")
      /\ running' = running \union {cursor}
      /\ UNCHANGED <<selectorVars, kernelFifo, mngFifo, command, socket, issued,
                     started, sent, deleted, handled>>
    BY DEF FrameworkIInv, StartTask
<1>2. cursor \in Inst /\ "init" \in EventKinds
    BY <1>1 DEF Shape, EventKinds
<1>3. /\ cursor' \in Inst
      /\ \/ cursor = Len(TaskOf) /\ mng' = "poll" /\ cursor' = 1
         \/ cursor # Len(TaskOf) /\ mng' = "start" /\ cursor' = cursor + 1
    BY <1>1, <1>2, AdvanceFacts
<1>4. \A j \in Inst : Initiated(j)' => Initiated(j) \/ j = cursor
  <2>1. \A j \in Inst : j < cursor \/ j = cursor \/ j > cursor
      BY <1>2, StartList
  <2>2. CASE cursor = Len(TaskOf)
    <3>1. \A j \in Inst : j < cursor \/ j = cursor
        BY <2>2, StartList
    <3> QED BY <1>1, <3>1 DEF Initiated
  <2>3. CASE mng' = "start" /\ cursor' = cursor + 1
    <3>1. \A j \in Inst : j < cursor + 1 => j < cursor \/ j = cursor
        BY <1>2, StartList
    <3> QED BY <1>1, <2>3, <3>1 DEF Initiated
  <2> QED BY <1>3, <2>2, <2>3
<1>5. SelectorIInv'
    BY <1>1, SelectorStays
<1>6. /\ Named' /\ InOrder' /\ Placed'
      /\ Answerable' /\ Unique' /\ Somewhere' /\ StartFirst'
      /\ asked' \in Seq(Partner) /\ answered' \in Seq(Nat)
      /\ Len(answered') = Len(asked')
      /\ rxFifo' \in [Inst -> Seq(EventRec \union MessageRec)]
    BY <1>1, <1>2, <1>4, EventSent
<1>7. Shape'
  <2>1. running' \subseteq Partner
      BY <1>1, <1>2 DEF Shape, Partner
  <2> QED BY <1>1, <1>3, <1>6, <2>1 DEF Shape
<1>8. Registered' /\ Begun'
    BY <1>1, <1>3 DEF Registered, Begun, selectorVars
<1> QED BY <1>5, <1>6, <1>7, <1>8 DEF FrameworkIInv

\* The command becomes an event of the instance at the cursor, or not.
LEMMA DispatchStep == ASSUME FrameworkIInv, Dispatch PROVE FrameworkIInv'
<1>1. /\ SelectorIInv /\ Shape /\ Registered /\ Begun
      /\ mng = "dispatch" /\ Advance("dispatch", "poll")
      /\ command' = IF AtLast THEN <<>> ELSE command
      /\ UNCHANGED <<selectorVars, kernelFifo, mngFifo, socket, issued, running,
                     started, sent, deleted, handled>>
    BY DEF FrameworkIInv, Dispatch
<1>2. cursor \in Inst /\ command \in Commands
    BY <1>1 DEF Shape
<1>3. command.kind \in EventKinds /\ command.kind # "init"
    BY <1>2, FrameworkAssumption DEF EventKinds
<1>4. /\ cursor' \in Inst
      /\ \/ cursor = Len(TaskOf) /\ mng' = "poll" /\ cursor' = 1
         \/ cursor # Len(TaskOf) /\ mng' = "dispatch" /\ cursor' = cursor + 1
    BY <1>1, <1>2, AdvanceFacts
<1>5. \A j \in Inst : Initiated(j)
    BY <1>1 DEF Initiated
<1>6. SelectorIInv'
    BY <1>1, SelectorStays
<1>7. Registered' /\ Begun'
    BY <1>1, <1>4 DEF Registered, Begun, selectorVars
<1>8. mng' = "dispatch" => command' \in Commands
    BY <1>1, <1>2, <1>4 DEF AtLast
<1>9. CASE Matches(command, cursor) /\ SendEvent(command.kind, cursor)
  <2>1. PICK k \in EventKinds : k = command.kind /\ k # "init"
      BY <1>3
  <2>2. SendEvent(k, cursor)
      BY <1>9, <2>1
  <2>3. /\ Named' /\ InOrder' /\ Placed'
        /\ Answerable' /\ Unique' /\ Somewhere' /\ StartFirst'
        /\ asked' \in Seq(Partner) /\ answered' \in Seq(Nat)
        /\ Len(answered') = Len(asked')
        /\ rxFifo' \in [Inst -> Seq(EventRec \union MessageRec)]
      BY <1>1, <1>2, <1>5, <2>2, EventSent
  <2>4. Shape'
      BY <1>1, <1>4, <1>8, <2>3 DEF Shape
  <2> QED BY <1>6, <1>7, <2>3, <2>4 DEF FrameworkIInv
<1>10. CASE UNCHANGED <<asked, answered, rxFifo>>
  <2>1. /\ Named' /\ InOrder' /\ Placed'
        /\ Answerable' /\ Unique' /\ Somewhere' /\ StartFirst'
      BY <1>1, <1>5, <1>10, FifosKept
  <2>2. Shape'
      BY <1>1, <1>4, <1>8, <1>10 DEF Shape
  <2> QED BY <1>6, <1>7, <2>1, <2>2 DEF FrameworkIInv
<1> QED BY <1>9, <1>10 DEF Dispatch

\* The thread of the kernel is started with an event before it.
LEMMA StartKernelStep == ASSUME FrameworkIInv, StartKernel PROVE FrameworkIInv'
<1>1. /\ SelectorIInv /\ Shape /\ Registered /\ Begun /\ Named /\ InOrder /\ Placed
      /\ Answerable /\ Unique /\ Somewhere /\ StartFirst
      /\ mng = "kernel" /\ mng' = "start" /\ Ask(Kernel)
      /\ running' = running \union {Kernel}
      /\ UNCHANGED <<selectorVars, rxFifo, mngFifo, cursor, command, socket,
                     issued, started, sent, deleted, handled>>
    BY DEF FrameworkIInv, StartKernel
<1>2. Kernel \in Partner
    BY DEF Partner
<1>3. PICK n \in Nat : n = Len(asked')
    BY <1>1, <1>2, AskFacts
<1>4. /\ asked' \in Seq(Partner) /\ answered' \in Seq(Nat)
      /\ Len(answered') = Len(asked')
      /\ Transactions' = Transactions \union {n}
    BY <1>1, <1>2, <1>3, AskFacts
<1>5. PICK l \in Nat : l = Len(kernelFifo)
    BY <1>1, FifoShape
<1>6. /\ kernelFifo' \in Seq(KernelRec) /\ Len(kernelFifo') = l + 1
      /\ kernelFifo'[l + 1] = Event("init", n)
      /\ \A p \in 1 .. l : kernelFifo'[p] = kernelFifo[p]
      /\ Same(kernelFifo, kernelFifo', Msgs)
    BY <1>1, <1>3, <1>5, StartKernelShape
<1>7. \A p \in 1 .. l + 1 : p \in 1 .. l \/ p = l + 1
    OBVIOUS
<1>8. SelectorIInv'
    BY <1>1, SelectorStays
<1>9. Shape'
  <2>1. running' \subseteq Partner
      BY <1>1, <1>2 DEF Shape
  <2> QED BY <1>1, <1>4, <1>6, <2>1 DEF Shape
<1>10. Registered' /\ Begun'
    BY <1>1 DEF Registered, Begun, selectorVars
<1>11. Answerable' /\ Unique' /\ Somewhere' /\ StartFirst'
    BY <1>1, StartKernelKeeps
<1>12. InOrder' /\ Placed'
  <2>1. \A j \in Inst : rxFifo[j] \in Seq(EventRec \union MessageRec) /\ Len(rxFifo[j]) \in Nat
      BY <1>1, FifoShape
  <2> HIDE DEF EventRec, MessageRec
  <2>2. \A j \in Inst : Same(rxFifo[j], rxFifo[j], Msgs)
      BY <2>1, SameRefl
  <2>3. rxFifo' = rxFifo /\ Len(kernelFifo') \in Nat /\ Len(kernelFifo) \in Nat
      BY <1>1, <1>5, <1>6
  <2> QED BY <1>1, <1>6, <2>1, <2>2, <2>3, MessagesKept
<1>13. Named'
  <2>1. Event("init", n).kind = "init" /\ Event("init", n).id = n
      BY DEF Event
  <2>2. \A p \in 1 .. Len(kernelFifo') :
           \/ p \in 1 .. Len(kernelFifo) /\ kernelFifo'[p] = kernelFifo[p]
           \/ kernelFifo'[p] = Event("init", n)
      BY <1>5, <1>6, <1>7
  <2>3. \A p \in 1 .. Len(kernelFifo') :
           /\ kernelFifo'[p].kind = "init" => kernelFifo'[p].id \in Transactions'
           /\ kernelFifo'[p].kind = "message" => kernelFifo'[p].id \in Ids
      BY <1>1, <1>4, <2>1, <2>2 DEF Named
  <2>4. /\ \A j \in Inst : \A p \in 1 .. Len(rxFifo[j]) :
              /\ rxFifo[j][p].kind \in EventKinds => rxFifo[j][p].id \in Transactions'
              /\ rxFifo[j][p].kind = "message" => rxFifo[j][p].id \in Ids
        /\ \A m \in 1 .. Len(mngFifo) : mngFifo[m].id \in Transactions'
        /\ \A j \in Inst : \A p \in 1 .. Len(handled[j]) : handled[j][p] \in Ids
      BY <1>1, <1>4 DEF Named
  <2>5. Ids' = Ids /\ rxFifo' = rxFifo /\ mngFifo' = mngFifo /\ handled' = handled
      BY <1>1 DEF Ids
  <2> QED BY <2>3, <2>4, <2>5 DEF Named
<1> QED BY <1>8, <1>9, <1>10, <1>11, <1>12, <1>13 DEF FrameworkIInv

\* The manager reads one reply, or none.
LEMMA PollStep == ASSUME FrameworkIInv, Poll PROVE FrameworkIInv'
<1>1. /\ SelectorIInv /\ Shape /\ Registered /\ Begun /\ Named /\ InOrder /\ Placed
      /\ Answerable /\ Unique /\ Somewhere /\ StartFirst
      /\ mng = "poll" /\ mng' = "recv"
      /\ UNCHANGED <<selectorVars, kernelFifo, rxFifo, cursor, command, socket,
                     issued, running, started, asked, sent, deleted, handled>>
    BY DEF FrameworkIInv, Poll
<1>2. /\ Answerable' /\ Unique' /\ Somewhere' /\ StartFirst' /\ Named'
      /\ answered' \in Seq(Nat) /\ Len(answered') = Len(answered)
      /\ mngFifo' \in Seq(ReplyRec)
    BY <1>1, PollKeeps
<1>3. SelectorIInv'
    BY <1>1, SelectorStays
<1>4. Shape'
    BY <1>1, <1>2 DEF Shape
<1>5. Registered' /\ Begun'
    BY <1>1 DEF Registered, Begun, selectorVars
<1>6. InOrder' /\ Placed'
  <2>1. /\ kernelFifo \in Seq(KernelRec) /\ Len(kernelFifo) \in Nat
        /\ \A j \in Inst : rxFifo[j] \in Seq(EventRec \union MessageRec)
                           /\ Len(rxFifo[j]) \in Nat
      BY <1>1, FifoShape DEF Shape
  <2> HIDE DEF KernelRec, EventRec, MessageRec
  <2>2. /\ Same(kernelFifo, kernelFifo, Msgs)
        /\ \A j \in Inst : Same(rxFifo[j], rxFifo[j], Msgs)
      BY <2>1, SameRefl
  <2>3. kernelFifo' = kernelFifo /\ rxFifo' = rxFifo
      BY <1>1
  <2> QED BY <1>1, <2>1, <2>2, <2>3, MessagesKept
<1> QED BY <1>2, <1>3, <1>4, <1>5, <1>6 DEF FrameworkIInv

\* An instance sends a message.
LEMMA SendMsgStep ==
    ASSUME FrameworkIInv, NEW i \in Inst, NEW a \in Addresses, sendMsg(i, a)
    PROVE  FrameworkIInv'
<1>1. /\ SelectorIInv /\ Shape /\ Registered /\ Begun /\ Named /\ InOrder /\ Placed
      /\ Answerable /\ Unique /\ Somewhere /\ StartFirst
      /\ UNCHANGED <<selectorVars, rxFifo, mngFifo, mng, cursor, command, socket, issued,
                     running, started, asked, answered, handled>>
    BY DEF FrameworkIInv, sendMsg, managerVars
<1>2. /\ InOrder' /\ Placed' /\ Named'
      /\ sent' \in Seq([from : Inst, address : Addresses])
      /\ deleted' \in Seq(Nat) /\ Len(deleted') = Len(sent')
      /\ kernelFifo' \in Seq(KernelRec)
      /\ Same(kernelFifo, kernelFifo', EventKinds)
    BY <1>1, SendKeeps
<1>3. SelectorIInv'
    BY <1>1, SelectorStays
<1>4. Shape'
    BY <1>1, <1>2 DEF Shape
<1>5. Registered' /\ Begun'
    BY <1>1 DEF Registered, Begun, selectorVars
<1>6. Answerable' /\ Unique' /\ Somewhere' /\ StartFirst'
  <2>1. /\ Len(kernelFifo) \in Nat /\ Len(kernelFifo') \in Nat
        /\ \A j \in Inst : rxFifo[j] \in Seq(EventRec \union MessageRec)
                           /\ Len(rxFifo[j]) \in Nat
    <3>1. Len(kernelFifo') \in Nat
      <4> HIDE DEF KernelRec
      <4> QED BY <1>2
    <3> QED BY <1>1, <3>1, FifoShape
  <2> HIDE DEF KernelRec, EventRec, MessageRec
  <2>2. \A j \in Inst : Same(rxFifo[j], rxFifo[j], EventKinds)
      BY <2>1, SameRefl
  <2>3. rxFifo' = rxFifo /\ \A j \in Inst : Initiated(j)' => Initiated(j)
      BY <1>1 DEF Initiated
  <2> QED BY <1>1, <1>2, <2>1, <2>2, <2>3, EventsKept
<1> QED BY <1>2, <1>3, <1>4, <1>5, <1>6 DEF FrameworkIInv

\* A step of the kernel, with an event or with a message.
LEMMA MainLoopStep == ASSUME FrameworkIInv, mainLoop PROVE FrameworkIInv'
<1>1. /\ SelectorIInv /\ Shape /\ Registered /\ Begun /\ Named /\ InOrder /\ Placed
      /\ Answerable /\ Unique /\ Somewhere /\ StartFirst
      /\ Kernel \in running /\ kernelFifo # <<>> /\ kernelFifo' = Tail(kernelFifo)
      /\ UNCHANGED <<mng, cursor, command, socket, issued, running, started, asked,
                     answered, sent, handled>>
    BY DEF FrameworkIInv, mainLoop, managerVars
<1>2. mng \notin {"register", "kernel"}
    BY <1>1 DEF Begun
<1>3. /\ kernelFifo \in Seq(KernelRec) /\ Len(kernelFifo) \in Nat
      /\ \A j \in Inst : rxFifo[j] \in Seq(EventRec \union MessageRec)
                         /\ Len(rxFifo[j]) \in Nat
    BY <1>1, FifoShape DEF Shape
<1>4. /\ kernelFifo' \in Seq(KernelRec) /\ Len(kernelFifo') \in Nat
      /\ Head(kernelFifo) = kernelFifo[1] /\ kernelFifo[1] \in KernelRec
      /\ 1 \in 1 .. Len(kernelFifo)
  <2> HIDE DEF KernelRec
  <2> QED BY <1>1, <1>3, TailFacts
<1>5. \A j \in Inst : Initiated(j)' => Initiated(j)
    BY <1>1 DEF Initiated
<1>6. CASE KernelEvent
  <2>1. /\ Answerable' /\ Unique' /\ Somewhere' /\ StartFirst' /\ Named'
        /\ mngFifo' \in Seq(ReplyRec) /\ Same(kernelFifo, kernelFifo', Msgs)
      BY <1>1, <1>6, KernelReplies
  <2>2. UNCHANGED <<selectorVars, rxFifo, deleted>>
      BY <1>6 DEF KernelEvent
  <2>3. SelectorIInv'
      BY <1>1, <2>2, SelectorStays
  <2>4. Shape'
      BY <1>1, <1>4, <2>1, <2>2 DEF Shape
  <2>5. Registered' /\ Begun'
      BY <1>1, <2>2 DEF Registered, Begun, selectorVars
  <2>6. InOrder' /\ Placed'
    <3> HIDE DEF EventRec, MessageRec
    <3>1. \A j \in Inst : Same(rxFifo[j], rxFifo[j], Msgs)
        BY <1>3, SameRefl
    <3>2. rxFifo' = rxFifo
        BY <2>2
    <3> QED BY <1>1, <1>3, <1>4, <2>1, <2>2, <3>1, <3>2, MessagesKept
  <2> QED BY <2>1, <2>3, <2>4, <2>5, <2>6 DEF FrameworkIInv
<1>7. CASE KernelMessage
  <2>1. PICK id \in Nat : id = kernelFifo[1].id
      BY <1>4 DEF KernelRec
  <2>2. /\ kernelFifo[1].kind = "message" /\ mngFifo' = mngFifo
        /\ Add(sent[id].address)
        /\ rxFifo' = [i \in Inst |-> IF i \in outcome'.reached
                                     THEN FifoAdd(rxFifo[i], Message(id))
                                     ELSE rxFifo[i]]
        /\ deleted' = [deleted EXCEPT ![id] = @ + outcome'.deleted
                                              + Refused(outcome'.accepted)]
      BY <1>4, <1>7, <2>1 DEF KernelMessage, Route
  <2>3. PICK a \in Address : a = sent[id].address
    <3>1. id \in 1 .. Len(sent)
        BY <1>1, <1>4, <2>1, <2>2 DEF Named, Ids
    <3>2. sent[id] \in [from : Inst, address : Addresses]
      <4> DEFINE SentRec == [from : Inst, address : Addresses]
      <4>1. sent \in Seq(SentRec)
          BY <1>1 DEF Shape
      <4> HIDE DEF SentRec
      <4>2. sent[id] \in SentRec
          BY <3>1, <4>1
      <4> QED BY <4>2 DEF SentRec
    <3> QED BY <3>2, FrameworkAssumption
  <2>4. Reaches(a, outcome'.reached, outcome'.deleted + Refused(outcome'.accepted))
      BY <1>1, <1>2, <2>2, <2>3, AddReaches
  <2>5. outcome'.deleted \in Nat /\ Refused(outcome'.accepted) \in Nat
    <3>1. outcome' \in [msg : Address, reached : SUBSET Inst,
                        accepted : BOOLEAN, deleted : {0, 1}]
        BY <1>1, <2>2, <2>3, AddOutcome
    <3> QED BY <3>1 DEF Refused
  <2>6. PICK d \in Nat : d = outcome'.deleted + Refused(outcome'.accepted)
      BY <2>5
  <2>7. PICK R : R = outcome'.reached
      OBVIOUS
  <2>8. Reaches(sent[id].address, R, d)
      BY <2>3, <2>4, <2>6, <2>7
  <2>9. rxFifo' = [i \in Inst |-> IF i \in R THEN FifoAdd(rxFifo[i], Message(id))
                                             ELSE rxFifo[i]]
      BY <2>2, <2>7
  <2>10. deleted' = [deleted EXCEPT ![id] = @ + d]
    <3>1. id \in 1 .. Len(deleted) /\ deleted \in Seq(Nat)
        BY <1>1, <1>4, <2>1, <2>2 DEF Named, Ids, Shape
    <3>2. deleted[id] \in Nat
        BY <3>1
    <3>3. deleted[id] + outcome'.deleted + Refused(outcome'.accepted) = deleted[id] + d
        BY <2>5, <2>6, <3>2
    <3>4. deleted' = [deleted EXCEPT ![id] = deleted[id] + outcome'.deleted
                                             + Refused(outcome'.accepted)]
        BY <2>2
    <3> QED BY <3>3, <3>4
  <2>11. /\ InOrder' /\ Placed' /\ Named'
         /\ deleted' \in Seq(Nat) /\ Len(deleted') = Len(deleted)
      BY <1>1, <2>1, <2>2, <2>8, <2>9, <2>10, RouteKeeps, ZenonT(40)
  <2>12. /\ rxFifo' \in [Inst -> Seq(EventRec \union MessageRec)]
         /\ \A i \in Inst : Same(rxFifo[i], rxFifo'[i], EventKinds)
      BY <1>1, <2>8, <2>9, RouteShape DEF Reaches
  <2>13. SelectorIInv'
      BY <1>1, <2>2, <2>3, NextIInv DEF SelectorNext
  <2>14. Shape'
      BY <1>1, <1>4, <2>2, <2>11, <2>12 DEF Shape
  <2>15. Registered'
    <3>1. mInstList' = mInstList
        BY <2>2 DEF Add
    <3>2. DOMAIN mTaskList' = DOMAIN mTaskList
        BY <1>1, <2>2, <2>3, AddTasks
    <3> QED BY <1>1, <3>1, <3>2 DEF Registered
  <2>16. Begun'
      BY <1>1, <1>2 DEF Begun
  <2>17. Answerable' /\ Unique' /\ Somewhere' /\ StartFirst'
    <3>1. Same(kernelFifo, kernelFifo', EventKinds)
      <4>1. kernelFifo[1].kind \notin EventKinds
          BY <2>2 DEF EventKinds
      <4> HIDE DEF KernelRec
      <4> QED BY <1>1, <1>3, <4>1, SameTail
    <3>2. \A i \in Inst : Len(rxFifo'[i]) \in Nat
      <4> HIDE DEF EventRec, MessageRec
      <4> QED BY <2>12
    <3> QED BY <1>1, <1>3, <1>4, <1>5, <2>2, <2>12, <3>1, <3>2, EventsKept
  <2> QED BY <2>11, <2>13, <2>14, <2>15, <2>16, <2>17 DEF FrameworkIInv
<1> QED BY <1>6, <1>7 DEF mainLoop

\* A step of an instance, with an event or with a message.
LEMMA ProcessStep ==
    ASSUME FrameworkIInv, NEW i \in Inst, process(i) PROVE FrameworkIInv'
<1>1. /\ SelectorIInv /\ Shape /\ Registered /\ Begun /\ Named /\ InOrder /\ Placed
      /\ Answerable /\ Unique /\ Somewhere /\ StartFirst
      /\ i \in running /\ rxFifo[i] # <<>>
      /\ rxFifo' = [rxFifo EXCEPT ![i] = Tail(@)]
      /\ UNCHANGED <<selectorVars, kernelFifo, mng, cursor, command, socket, issued,
                     running, asked, answered, sent>>
    BY DEF FrameworkIInv, process, managerVars
<1>2. /\ Len(kernelFifo) \in Nat
      /\ kernelFifo \in Seq(KernelRec)
      /\ \A j \in Inst : rxFifo[j] \in Seq(EventRec \union MessageRec)
                         /\ Len(rxFifo[j]) \in Nat
    BY <1>1, FifoShape DEF Shape
<1>3. /\ rxFifo' \in [Inst -> Seq(EventRec \union MessageRec)]
      /\ \A j \in Inst \ {i} : rxFifo'[j] = rxFifo[j]
      /\ Len(rxFifo'[i]) \in Nat
    BY <1>1, TakeShape
<1>4. SelectorIInv'
    BY <1>1, SelectorStays
<1>5. ASSUME NEW K, Same(rxFifo[i], rxFifo'[i], K)
      PROVE  /\ Same(kernelFifo, kernelFifo', K)
             /\ \A j \in Inst : Same(rxFifo[j], rxFifo'[j], K)
             /\ Len(kernelFifo') \in Nat /\ \A j \in Inst : Len(rxFifo'[j]) \in Nat
  <2> HIDE DEF KernelRec, EventRec, MessageRec
  <2>1. \A j \in Inst : Same(rxFifo[j], rxFifo[j], K)
      BY <1>2, SameRefl
  <2>2. Same(kernelFifo, kernelFifo, K)
      BY <1>2, SameRefl
  <2>3. kernelFifo' = kernelFifo
      BY <1>1
  <2> QED BY <1>2, <1>3, <1>5, <2>1, <2>2, <2>3
<1>6. CASE HandleEvent(i, Head(rxFifo[i]))
  <2>1. /\ Answerable' /\ Unique' /\ Somewhere' /\ StartFirst' /\ Named'
        /\ mngFifo' \in Seq(ReplyRec) /\ Same(rxFifo[i], rxFifo'[i], Msgs)
      BY <1>1, <1>6, InstReplies
  <2>2. /\ UNCHANGED <<deleted, handled>>
        /\ started' \subseteq started \union {i}
      BY <1>6 DEF HandleEvent
  <2>3. Shape'
      BY <1>1, <1>3, <2>1, <2>2 DEF Shape
  <2>4. Registered' /\ Begun'
      BY <1>1, <2>2 DEF Registered, Begun, selectorVars
  <2>5. InOrder' /\ Placed'
      BY <1>1, <1>2, <1>5, <2>1, <2>2, MessagesKept
  <2> QED BY <1>4, <2>1, <2>3, <2>4, <2>5 DEF FrameworkIInv
<1>7. CASE HandleMessage(i, Head(rxFifo[i]))
  <2>1. /\ InOrder' /\ Placed' /\ Named'
        /\ deleted' \in Seq(Nat) /\ Len(deleted') = Len(deleted)
        /\ handled' \in [Inst -> Seq(Nat)]
        /\ \A j \in Inst : handled'[j] # <<>> => j = i \/ handled[j] # <<>>
        /\ Same(rxFifo[i], rxFifo'[i], EventKinds)
        /\ UNCHANGED <<started, mngFifo>>
      BY <1>1, <1>7, HandleKeeps
  <2>2. Shape'
      BY <1>1, <1>3, <2>1 DEF Shape
  <2>3. Registered' /\ Begun'
      BY <1>1, <2>1 DEF Registered, Begun, selectorVars
  <2>4. Answerable' /\ Unique' /\ Somewhere' /\ StartFirst'
    <3>1. \A j \in Inst : Initiated(j)' => Initiated(j)
        BY <1>1 DEF Initiated
    <3> QED BY <1>1, <1>2, <1>5, <2>1, <3>1, EventsKept
  <2> QED BY <1>4, <2>1, <2>2, <2>3, <2>4 DEF FrameworkIInv
<1> QED BY <1>6, <1>7 DEF process

-----------------------------------------------------------------------------
(* The specification.                                                      *)

\* Nothing is registered and every fifo is empty.
LEMMA InitFramework == Init => FrameworkIInv
<1> SUFFICES ASSUME Init PROVE FrameworkIInv
    OBVIOUS
<1>1. SelectorIInv
    BY InitIInv DEF Init
<1>2. /\ kernelFifo = <<>> /\ rxFifo = [i \in Inst |-> <<>>] /\ mngFifo = <<>>
      /\ socket = <<>> /\ mng = "register" /\ cursor = 1 /\ running = {} /\ started = {}
      /\ asked = <<>> /\ answered = <<>> /\ sent = <<>> /\ deleted = <<>>
      /\ handled = [i \in Inst |-> <<>>]
      /\ mTaskList = <<>> /\ mInstList = <<>> /\ outcome = NoOutcome
    BY DEF Init, SelectorInit
<1>3. 1 \in Inst
    BY StartList
<1>4. \A S : <<>> \in Seq(S)
    OBVIOUS
<1>5. Len(<<>>) = 0 /\ 1 .. 0 = {}
    OBVIOUS
<1>6. Shape
  <2>1. /\ rxFifo \in [Inst -> Seq(EventRec \union MessageRec)]
        /\ handled \in [Inst -> Seq(Nat)]
    <3> HIDE DEF EventRec, MessageRec
    <3> QED BY <1>2, <1>4
  <2> HIDE DEF EventRec, MessageRec, KernelRec, ReplyRec
  <2> QED BY <1>2, <1>3, <1>4, <2>1 DEF Shape
<1>7. Registered
  <2>1. DOMAIN mInstList = {} /\ DOMAIN mTaskList = {}
      BY <1>2
  <2>2. 1 .. cursor - 1 = {}
      BY <1>2
  <2> QED BY <1>2, <2>1, <2>2 DEF Registered
<1>8. Begun
    BY <1>2 DEF Begun
<1>9. \A i \in Inst : rxFifo[i] = <<>> /\ handled[i] = <<>>
    BY <1>2
<1>10. Named
    BY <1>2, <1>5, <1>9 DEF Named
<1>11. InOrder
    BY <1>2, <1>5, <1>9 DEF InOrder
<1>12. Placed
    BY <1>2, <1>5 DEF Placed, Ids
<1>13. Answerable /\ Unique
    BY <1>2, <1>5, <1>9 DEF Answerable, Unique
<1>14. Somewhere
    BY <1>2, <1>5 DEF Somewhere, Transactions
<1>15. StartFirst
    BY <1>2, <1>5, <1>9 DEF StartFirst, Initiated
<1> QED BY <1>1, <1>6, <1>7, <1>8, <1>10, <1>11, <1>12, <1>13, <1>14, <1>15
        DEF FrameworkIInv

\* Every step keeps the invariant.
LEMMA NextFramework ==
    FrameworkIInv /\ [Next]_frameworkVars => FrameworkIInv'
<1> SUFFICES ASSUME FrameworkIInv, [Next]_frameworkVars PROVE FrameworkIInv'
    OBVIOUS
<1>1. CASE Register
    BY <1>1, RegisterStep
<1>2. CASE StartKernel
    BY <1>2, StartKernelStep
<1>3. CASE StartTask
    BY <1>3, StartTaskStep
<1>4. CASE Poll
    BY <1>4, PollStep
<1>5. CASE RecvCode
    BY <1>5, RecvCodeStep
<1>6. CASE Dispatch
    BY <1>6, DispatchStep
<1>7. CASE mainLoop
    BY <1>7, MainLoopStep
<1>8. ASSUME NEW i \in Inst, process(i) PROVE FrameworkIInv'
    BY <1>8, ProcessStep
<1>9. ASSUME NEW i \in Inst, NEW a \in Addresses, sendMsg(i, a) PROVE FrameworkIInv'
    BY <1>9, SendMsgStep
<1>10. ASSUME NEW c \in Commands, Client(c) PROVE FrameworkIInv'
    BY <1>10, ClientStep
<1>11. CASE UNCHANGED frameworkVars
    BY <1>11, StutterStep
<1> QED BY <1>1, <1>2, <1>3, <1>4, <1>5, <1>6, <1>7, <1>8, <1>9, <1>10, <1>11
        DEF Next, Manager

\* The inductive invariant of the manager, the kernel and the instances.
THEOREM FrameworkInvariant == Spec => []FrameworkIInv
<1>1. Init => FrameworkIInv
    BY InitFramework
<1>2. FrameworkIInv /\ [Next]_frameworkVars => FrameworkIInv'
    BY NextFramework
<1> QED BY <1>1, <1>2, PTL DEF Spec

-----------------------------------------------------------------------------
(* What follows from the invariant.                                        *)

\* A set with one element at most.
LEMMA OneAtMost ==
    ASSUME NEW S, \A x, y \in S : x = y
    PROVE  Cardinality(S) = IF S = {} THEN 0 ELSE 1
<1>1. CASE S = {}
    BY <1>1, FS_EmptySet
<1>2. CASE S # {}
  <2>1. PICK x \in S : TRUE
      BY <1>2
  <2>2. S = {x}
      BY <2>1
  <2> QED BY <1>2, <2>2, FS_Singleton
<1> QED BY <1>1, <1>2

\* A message is in a fifo, or handled, once at most, and not both before the
\* kernel and with an instance.
LEMMA OncePerPlace ==
    ASSUME FrameworkIInv, NEW id \in Ids
    PROVE  /\ Count(Message(id), kernelFifo) = IF Waits(id) THEN 1 ELSE 0
           /\ \A i \in Inst :
                 /\ \A p, q \in Places(Message(id), rxFifo[i]) : p = q
                 /\ Places(Message(id), rxFifo[i]) = {} <=> ~Holds(id, i)
                 /\ Received(id, i) = IF Got(id, i) THEN 1 ELSE 0
                 /\ Waits(id) => ~Got(id, i)
<1>1. Shape /\ Named /\ InOrder /\ id \in Nat
    BY DEF FrameworkIInv, Ids
<1>2. Message(id).kind = "message" /\ Message(id).id = id
    BY DEF Message
<1>3. DOMAIN kernelFifo = 1 .. Len(kernelFifo) /\ Len(kernelFifo) \in Nat
    BY <1>1 DEF Shape
<1>4. ASSUME NEW i \in Inst
      PROVE  /\ DOMAIN rxFifo[i] = 1 .. Len(rxFifo[i]) /\ Len(rxFifo[i]) \in Nat
             /\ DOMAIN handled[i] = 1 .. Len(handled[i]) /\ Len(handled[i]) \in Nat
  <2>1. rxFifo[i] \in Seq(EventRec \union MessageRec) /\ handled[i] \in Seq(Nat)
      BY <1>1, FifoShape
  <2> HIDE DEF EventRec, MessageRec
  <2> QED BY <2>1
<1>5. \A p, q \in Nat : p < q \/ p = q \/ q < p
    OBVIOUS
<1>6. ~(id < id)
    BY <1>1
<1>7. Count(Message(id), kernelFifo) = IF Waits(id) THEN 1 ELSE 0
  <2> DEFINE K == Places(Message(id), kernelFifo)
  <2>1. K = {p \in 1 .. Len(kernelFifo) : kernelFifo[p] = Message(id)}
      BY <1>3 DEF Places
  <2>2. ASSUME NEW p \in K, NEW q \in K PROVE p = q
    <3>1. p \in 1 .. Len(kernelFifo) /\ q \in 1 .. Len(kernelFifo) /\ p \in Nat /\ q \in Nat
        BY <1>3, <2>1
    <3>2. ~(p < q) /\ ~(q < p)
        BY <1>1, <1>2, <1>6, <2>1, <3>1 DEF InOrder
    <3> QED BY <1>5, <3>1, <3>2
  <2>3. K = {} <=> ~Waits(id)
      BY <2>1 DEF Waits
  <2> HIDE DEF K
  <2>4. Cardinality(K) = IF K = {} THEN 0 ELSE 1
      BY <2>2, OneAtMost
  <2> QED BY <2>3, <2>4 DEF K, Count
<1>8. ASSUME NEW i \in Inst
      PROVE  /\ \A p, q \in Places(Message(id), rxFifo[i]) : p = q
             /\ Places(Message(id), rxFifo[i]) = {} <=> ~Holds(id, i)
             /\ Received(id, i) = IF Got(id, i) THEN 1 ELSE 0
             /\ Waits(id) => ~Got(id, i)
  <2> DEFINE R == Places(Message(id), rxFifo[i])
             H == Places(id, handled[i])
  <2>1. /\ R = {p \in 1 .. Len(rxFifo[i]) : rxFifo[i][p] = Message(id)}
        /\ H = {p \in 1 .. Len(handled[i]) : handled[i][p] = id}
      BY <1>4 DEF Places
  <2>2. ASSUME NEW p \in R, NEW q \in R PROVE p = q
    <3>1. p \in 1 .. Len(rxFifo[i]) /\ q \in 1 .. Len(rxFifo[i]) /\ p \in Nat /\ q \in Nat
        BY <1>4, <2>1
    <3>2. ~(p < q) /\ ~(q < p)
        BY <1>1, <1>2, <1>6, <2>1, <3>1 DEF InOrder
    <3> QED BY <1>5, <3>1, <3>2
  <2>3. ASSUME NEW p \in H, NEW q \in H PROVE p = q
    <3>1. p \in 1 .. Len(handled[i]) /\ q \in 1 .. Len(handled[i]) /\ p \in Nat /\ q \in Nat
        BY <1>4, <2>1
    <3>2. ~(p < q) /\ ~(q < p)
        BY <1>1, <1>6, <2>1, <3>1 DEF InOrder
    <3> QED BY <1>5, <3>1, <3>2
  <2>4. /\ R = {} <=> ~Holds(id, i)
        /\ H = {} <=> ~Did(id, i)
      BY <2>1 DEF Holds, Did
  <2>5. ~(Holds(id, i) /\ Did(id, i))
      BY <1>1, <1>2, <1>6 DEF InOrder, Holds, Did
  <2>6. Waits(id) => ~Got(id, i)
      BY <1>1, <1>2, <1>6 DEF InOrder, Holds, Did, Got, Waits
  <2> HIDE DEF R, H
  <2>7. /\ Cardinality(R) = IF R = {} THEN 0 ELSE 1
        /\ Cardinality(H) = IF H = {} THEN 0 ELSE 1
      BY <2>2, <2>3, OneAtMost
  <2>8. Cardinality(R) + Cardinality(H) = IF Got(id, i) THEN 1 ELSE 0
      BY <2>4, <2>5, <2>7 DEF Got
  <2> QED BY <2>2, <2>4, <2>6, <2>8 DEF R, H, Received, Count
<1> QED BY <1>7, <1>8

\* Every variable of the framework has its type: what the fifos name exists.
THEOREM FrameworkTypes == Spec => []TypeOK
<1>1. FrameworkIInv => TypeOK
  <2> SUFFICES ASSUME FrameworkIInv PROVE TypeOK
      OBVIOUS
  <2>1. SelectorTypeOK
      BY TypesOfInvariant DEF FrameworkIInv
  <2>2. Shape /\ Named
      BY DEF FrameworkIInv
  <2>3. ASSUME NEW k \in DOMAIN mngFifo
        PROVE  mngFifo[k] \in [kind : EventKinds, id : Transactions,
                               from : Inst \union {Kernel}]
    <3>1. k \in 1 .. Len(mngFifo)
        BY <2>2 DEF Shape
    <3>2. mngFifo[k] \in ReplyRec /\ mngFifo[k].id \in Transactions
        BY <2>2, <3>1, FifoShape DEF Named
    <3> QED BY <3>2 DEF ReplyRec, Partner
  <2>4. ASSUME NEW k \in DOMAIN kernelFifo
        PROVE  kernelFifo[k] \in [kind : {"init"}, id : Transactions] \union
                                 [kind : {"message"}, id : Ids]
    <3>1. k \in 1 .. Len(kernelFifo)
        BY <2>2 DEF Shape
    <3>2. /\ kernelFifo[k] \in KernelRec
          /\ kernelFifo[k].kind = "init" => kernelFifo[k].id \in Transactions
          /\ kernelFifo[k].kind = "message" => kernelFifo[k].id \in Ids
        BY <2>2, <3>1, FifoShape DEF Named
    <3> QED BY <3>2 DEF KernelRec
  <2>5. ASSUME NEW i \in Inst, NEW k \in DOMAIN rxFifo[i]
        PROVE  rxFifo[i][k] \in [kind : EventKinds, id : Transactions] \union
                                [kind : {"message"}, id : Ids]
    <3>1. k \in 1 .. Len(rxFifo[i])
      <4>1. rxFifo[i] \in Seq(EventRec \union MessageRec)
          BY <2>2, FifoShape
      <4> HIDE DEF EventRec, MessageRec
      <4> QED BY <4>1
    <3>2. /\ rxFifo[i][k] \in EventRec \union MessageRec
          /\ rxFifo[i][k].kind \in EventKinds => rxFifo[i][k].id \in Transactions
          /\ rxFifo[i][k].kind = "message" => rxFifo[i][k].id \in Ids
        BY <2>2, <3>1, FifoShape DEF Named
    <3> QED BY <3>2 DEF EventRec, MessageRec
  <2>6. started \subseteq running
      BY DEF FrameworkIInv, Begun
  <2> QED BY <2>1, <2>2, <2>3, <2>4, <2>5, <2>6 DEF TypeOK, Shape, Partner
<1> QED BY <1>1, FrameworkInvariant, PTL

\* A message to one receiver is in one place until it is deleted and the
\* original of a broadcast or multicast is deleted once copied
\* (framectrl.C and abstracttask.C), whatever the number of instances, of
\* messages and of commands; only a multicast to no instance is deleted twice.
THEOREM OwnedOnce == Spec => []MessageOwnedOnce
<1>1. FrameworkIInv => MessageOwnedOnce
  <2> SUFFICES ASSUME FrameworkIInv, NEW id \in Ids
               PROVE  Count(Message(id), kernelFifo) + deleted[id]
                         + (IF Shares(sent[id].address) THEN 0
                            ELSE Cardinality(Copies(id)))
                      = IF deleted[id] > 0 /\ DeletedTwice(sent[id].address)
                        THEN 2 ELSE 1
      BY DEF MessageOwnedOnce
  <2> DEFINE a == sent[id].address
             C == Copies(id)
  <2>1. /\ Count(Message(id), kernelFifo) = IF Waits(id) THEN 1 ELSE 0
        /\ \A i \in Inst :
              /\ \A p, q \in Places(Message(id), rxFifo[i]) : p = q
              /\ Places(Message(id), rxFifo[i]) = {} <=> ~Holds(id, i)
              /\ Waits(id) => ~Got(id, i)
      BY OncePerPlace
  <2>2. IF Waits(id) THEN deleted[id] = 0 ELSE Routed(id)
      BY DEF FrameworkIInv, Placed
  <2>3. C = {} <=> \A i \in Inst : ~Holds(id, i)
    <3>1. ASSUME NEW x \in C PROVE \E i \in Inst : Holds(id, i)
      <4>1. PICK i \in Inst : x \in {i} \X Places(Message(id), rxFifo[i])
          BY <3>1 DEF Copies
      <4> QED BY <2>1, <4>1
    <3>2. ASSUME NEW i \in Inst, Holds(id, i) PROVE C # {}
      <4>1. PICK p \in Places(Message(id), rxFifo[i]) : TRUE
          BY <2>1, <3>2
      <4>2. <<i, p>> \in {i} \X Places(Message(id), rxFifo[i])
          OBVIOUS
      <4> QED BY <4>2 DEF Copies
    <3> QED BY <3>1, <3>2
  <2>4. (\A i, j \in Inst : Holds(id, i) /\ Holds(id, j) => i = j) =>
           Cardinality(C) = IF C = {} THEN 0 ELSE 1
    <3> SUFFICES ASSUME \A i, j \in Inst : Holds(id, i) /\ Holds(id, j) => i = j
                 PROVE  Cardinality(C) = IF C = {} THEN 0 ELSE 1
        OBVIOUS
    <3>1. ASSUME NEW x \in C, NEW y \in C PROVE x = y
      <4>1. PICK i \in Inst : x \in {i} \X Places(Message(id), rxFifo[i])
          BY <3>1 DEF Copies
      <4>2. PICK j \in Inst : y \in {j} \X Places(Message(id), rxFifo[j])
          BY <3>1 DEF Copies
      <4>3. PICK p \in Places(Message(id), rxFifo[i]) : x = <<i, p>>
          BY <4>1
      <4>4. PICK q \in Places(Message(id), rxFifo[j]) : y = <<j, q>>
          BY <4>2
      <4>5. i = j
          BY <2>1, <4>3, <4>4
      <4>6. p = q
          BY <2>1, <4>5
      <4> QED BY <4>3, <4>4, <4>5, <4>6
    <3> HIDE DEF C
    <3> QED BY <3>1, OneAtMost
  <2> HIDE DEF C
  <2>5. CASE Waits(id)
    <3>1. C = {}
        BY <2>1, <2>3, <2>5 DEF Got
    <3>2. Cardinality(C) = 0
        BY <3>1, FS_EmptySet
    <3> QED BY <2>1, <2>2, <2>5, <3>2 DEF C
  <2>6. CASE ~Waits(id) /\ a.msgType = DIALOG_BROADCAST
    <3>1. deleted[id] = 1 /\ Shares(a) /\ ~DeletedTwice(a)
        BY <2>2, <2>6 DEF Routed, Broadcast, Shares, DeletedTwice,
                          DIALOG_BROADCAST, DIALOG_MULTICAST
    <3> QED BY <2>1, <2>6, <3>1
  <2>7. CASE ~Waits(id) /\ a.msgType = DIALOG_MULTICAST
    <3>1. deleted[id] = (IF DeletedTwice(a) THEN 2 ELSE 1) /\ Shares(a)
        BY <2>2, <2>7 DEF Routed, Multicast, Shares, DIALOG_BROADCAST, DIALOG_MULTICAST
    <3> QED BY <2>1, <2>7, <3>1
  <2>8. CASE ~Waits(id) /\ ~Shares(a)
    <3>1. Single(id) /\ ~DeletedTwice(a)
        BY <2>2, <2>8 DEF Routed, Shares, DeletedTwice
    <3>2. Cardinality(C) = IF C = {} THEN 0 ELSE 1
        BY <2>4, <3>1 DEF Single, Got
    <3>3. deleted[id] \in {0, 1} /\ (deleted[id] = 0 <=> C # {})
        BY <2>3, <3>1 DEF Single
    <3>4. 0 + deleted[id] + Cardinality(C) = 1
        BY <3>2, <3>3
    <3>5. Count(Message(id), kernelFifo) = 0
        BY <2>1, <2>8
    <3> QED BY <2>8, <3>1, <3>4, <3>5 DEF C
  <2> QED BY <2>5, <2>6, <2>7, <2>8 DEF Shares
<1> QED BY <1>1, FrameworkInvariant, PTL

\* A broadcast reaches each instance once, another message each instance once
\* at most and none outside its address (taskselector.C 193-302).
THEOREM Delivered == Spec => []DeliveredAsAddressed
<1>1. FrameworkIInv => DeliveredAsAddressed
  <2> SUFFICES ASSUME FrameworkIInv, NEW id \in Ids, NEW i \in Inst
               PROVE  LET a == sent[id].address IN
                      IF a.msgType = DIALOG_BROADCAST
                      THEN Received(id, i) = deleted[id]
                      ELSE /\ Received(id, i) <= 1
                           /\ Received(id, i) = 1 =>
                                 IF a.inst # AnyInst /\ ~Shares(a) THEN i = a.inst
                                                       ELSE TaskOf[i] = a.to
      BY DEF DeliveredAsAddressed
  <2> DEFINE a == sent[id].address
  <2>1. /\ Received(id, i) = IF Got(id, i) THEN 1 ELSE 0
        /\ Waits(id) => ~Got(id, i)
      BY OncePerPlace
  <2>2. IF Waits(id) THEN deleted[id] = 0 ELSE Routed(id)
      BY DEF FrameworkIInv, Placed
  <2>3. CASE Waits(id)
      BY <2>1, <2>2, <2>3
  <2>4. CASE ~Waits(id) /\ a.msgType = DIALOG_BROADCAST
      BY <2>1, <2>2, <2>4 DEF Routed, Broadcast, DIALOG_BROADCAST, DIALOG_MULTICAST
  <2>5. CASE ~Waits(id) /\ a.msgType = DIALOG_MULTICAST
      BY <2>1, <2>2, <2>5
         DEF Routed, Multicast, Shares, DIALOG_BROADCAST, DIALOG_MULTICAST
  <2>6. CASE ~Waits(id) /\ ~Shares(a)
      BY <2>1, <2>2, <2>6 DEF Routed, Single, Shares
  <2> QED BY <2>3, <2>4, <2>5, <2>6 DEF Shares
<1> QED BY <1>1, FrameworkInvariant, PTL

\* Instances handle what they receive in the order of the calls of sendMsg
\* (fifo.h and framectrl.C).
THEOREM OrderKept == Spec => []CommonOrder
<1>1. FrameworkIInv => CommonOrder
  <2> SUFFICES ASSUME FrameworkIInv, NEW i \in Inst, NEW p \in DOMAIN handled[i],
                      NEW q \in DOMAIN handled[i], p < q
               PROVE  handled[i][p] < handled[i][q]
      BY DEF CommonOrder
  <2>1. handled[i] \in Seq(Nat) /\ InOrder
      BY FifoShape DEF FrameworkIInv
  <2>2. DOMAIN handled[i] = 1 .. Len(handled[i])
      BY <2>1
  <2> QED BY <2>1, <2>2 DEF InOrder
<1> QED BY <1>1, FrameworkInvariant, PTL

\* An instance that replies to a command has started (framemng.C 182-317).
THEOREM StartedFirst == Spec => []CommandsAfterStart
<1>1. FrameworkIInv => CommandsAfterStart
  <2> SUFFICES ASSUME FrameworkIInv PROVE CommandsAfterStart
      OBVIOUS
  <2>1. mngFifo \in Seq(ReplyRec) /\ StartFirst
      BY DEF FrameworkIInv, Shape
  <2>2. DOMAIN mngFifo = 1 .. Len(mngFifo)
    <3> HIDE DEF ReplyRec
    <3> QED BY <2>1
  <2> QED BY <2>1, <2>2 DEF StartFirst, CommandsAfterStart
<1> QED BY <1>1, FrameworkInvariant, PTL

\* A transaction is with its partner, on its way back, or answered: once
\* (framemng.C 163-319, framectrl.C, abstracttask.C).
THEOREM AnsweredOnce == Spec => []TransactionOnce
<1>1. FrameworkIInv => TransactionOnce
  <2> SUFFICES ASSUME FrameworkIInv, NEW t \in Transactions
               PROVE  LET p == asked[t]
                          events == IF p = Kernel
                                    THEN Count(Event("init", t), kernelFifo)
                                    ELSE Cardinality(UNION {Places(Event(k, t), rxFifo[p]) :
                                                               k \in EventKinds})
                      IN  /\ events + Cardinality(Replies(t)) + answered[t] = 1
                          /\ \A k \in Replies(t) : mngFifo[k].from = p
      BY DEF TransactionOnce
  <2> DEFINE p == asked[t]
             R == Replies(t)
             K == Places(Event("init", t), kernelFifo)
             E == UNION {Places(Event(k, t), rxFifo[p]) : k \in EventKinds}
  <2>1. Shape /\ Named /\ Answerable /\ Unique /\ Somewhere
      BY DEF FrameworkIInv
  <2>2. p \in Partner /\ (p = Kernel \/ p \in Inst) /\ Kernel \notin Inst
    <3>1. asked \in Seq(Partner) /\ t \in 1 .. Len(asked)
        BY <2>1 DEF Shape, Transactions
    <3>2. p \in Partner
      <4> HIDE DEF Partner
      <4> QED BY <3>1
    <3> QED BY <3>2, SelectorAssumption DEF Partner, Kernel
  <2>3. /\ R = {k \in 1 .. Len(mngFifo) : mngFifo[k].id = t}
        /\ \A k \in 1 .. Len(mngFifo) : mngFifo[k].kind \in EventKinds
    <3>1. mngFifo \in Seq(ReplyRec)
        BY <2>1 DEF Shape
    <3>2. DOMAIN mngFifo = 1 .. Len(mngFifo)
      <4> HIDE DEF ReplyRec
      <4> QED BY <3>1
    <3>3. \A k \in 1 .. Len(mngFifo) : mngFifo[k].kind \in EventKinds
        BY <2>1, FifoShape DEF ReplyRec
    <3> QED BY <3>2, <3>3 DEF Replies
  <2>4. K = {q \in 1 .. Len(kernelFifo) : kernelFifo[q] = Event("init", t)}
      BY <2>1 DEF Places, Shape
  <2>5. p \in Inst =>
           E = {q \in 1 .. Len(rxFifo[p]) : rxFifo[p][q].kind \in EventKinds
                                            /\ rxFifo[p][q].id = t}
    <3> SUFFICES ASSUME p \in Inst
                 PROVE  E = {q \in 1 .. Len(rxFifo[p]) : rxFifo[p][q].kind \in EventKinds
                                                         /\ rxFifo[p][q].id = t}
        OBVIOUS
    <3>1. DOMAIN rxFifo[p] = 1 .. Len(rxFifo[p])
      <4>1. rxFifo[p] \in Seq(EventRec \union MessageRec)
          BY <2>1, FifoShape
      <4> HIDE DEF EventRec, MessageRec, p
      <4> QED BY <4>1
    <3>2. ASSUME NEW q \in 1 .. Len(rxFifo[p])
          PROVE  (\E k \in EventKinds : rxFifo[p][q] = Event(k, t)) <=>
                    rxFifo[p][q].kind \in EventKinds /\ rxFifo[p][q].id = t
      <4>1. PICK e \in EventRec \union MessageRec : e = rxFifo[p][q]
          BY <2>1, FifoShape
      <4>2. e.kind \in EventKinds /\ e.id = t => e = Event(e.kind, t)
          BY DEF EventRec, MessageRec, Event
      <4>3. \A k \in EventKinds : Event(k, t).kind = k /\ Event(k, t).id = t
          BY DEF Event
      <4> HIDE DEF p
      <4> QED BY <4>1, <4>2, <4>3
    <3> HIDE DEF p
    <3> QED BY <3>1, <3>2 DEF Places
  <2>6. "init" \in EventKinds /\ Event("init", t).kind = "init" /\ Event("init", t).id = t
      BY DEF EventKinds, Event
  <2>7. /\ \A k, l \in R : k = l
        /\ \A q, r \in K : q = r
        /\ p \in Inst => \A q, r \in E : q = r
    <3>1. \A k, l \in R : k = l
        BY <2>1, <2>3 DEF Unique, SameEvent
    <3>2. \A q, r \in K : q = r
        BY <2>1, <2>4, <2>6 DEF Unique, SameEvent
    <3>3. p \in Inst => \A q, r \in E : q = r
      <4> HIDE DEF p, E
      <4> QED BY <2>1, <2>5 DEF Unique, SameEvent
    <3> QED BY <3>1, <3>2, <3>3
  <2>8. /\ Cardinality(R) = IF R = {} THEN 0 ELSE 1
        /\ Cardinality(K) = IF K = {} THEN 0 ELSE 1
        /\ p \in Inst => Cardinality(E) = IF E = {} THEN 0 ELSE 1
    <3> HIDE DEF p, R, K, E
    <3> QED BY <2>7, OneAtMost
  <2>9. /\ R # {} => answered[t] = 0
        /\ p = Kernel /\ K # {} => answered[t] = 0 /\ R = {}
        /\ p \in Inst /\ E # {} => answered[t] = 0 /\ R = {}
    <3>1. R # {} => answered[t] = 0
        BY <2>1, <2>3 DEF Answerable, Open
    <3>2. K # {} => answered[t] = 0 /\ R = {}
        BY <2>1, <2>3, <2>4, <2>6 DEF Answerable, Open, Unique, SameEvent
    <3>3. p \in Inst /\ E # {} => answered[t] = 0 /\ R = {}
      <4> HIDE DEF p, E, R
      <4> QED BY <2>1, <2>3, <2>5 DEF Answerable, Open, Unique, SameEvent
    <3> QED BY <3>1, <3>2, <3>3
  <2>10. /\ answered[t] \in {0, 1}
         /\ answered[t] = 0 => \/ R # {}
                               \/ p = Kernel /\ K # {}
                               \/ p \in Inst /\ E # {}
    <3>1. Replied(t) => R # {}
        BY <2>3 DEF Replied
    <3>2. AskedKernel(t) => K # {}
        BY <2>4 DEF AskedKernel
    <3>3. p \in Inst /\ AskedInst(t, p) => E # {}
      <4> HIDE DEF p, E
      <4> QED BY <2>5 DEF AskedInst
    <3> HIDE DEF R, K, E
    <3> QED BY <2>1, <3>1, <3>2, <3>3 DEF Somewhere
  <2>11. \A k \in R : mngFifo[k].from = p
      BY <2>1, <2>3 DEF Answerable, Open
  <2>12. CASE p = Kernel
    <3>1. Cardinality(K) + Cardinality(R) + answered[t] = 1
      <4> HIDE DEF p, R, K, E
      <4> QED BY <2>2, <2>8, <2>9, <2>10, <2>12
    <3> QED BY <2>11, <2>12, <3>1 DEF Count
  <2>13. CASE p \in Inst
    <3>1. Cardinality(E) + Cardinality(R) + answered[t] = 1
      <4> HIDE DEF p, R, K, E
      <4> QED BY <2>2, <2>8, <2>9, <2>10, <2>13
    <3>2. p # Kernel
        BY <2>2, <2>13
    <3> QED BY <2>11, <3>1, <3>2
  <2> QED BY <2>2, <2>12, <2>13
<1> QED BY <1>1, FrameworkInvariant, PTL

\* The manager and the kernel use the selector as its own specification says:
\* what is proved of it holds in the framework.
THEOREM UsesSelector == Spec => SelectorSpec
<1>1. Init => SelectorInit
    BY DEF Init
<1>2. FrameworkIInv /\ [Next]_frameworkVars => [SelectorNext]_selectorVars
  <2> SUFFICES ASSUME FrameworkIInv, [Next]_frameworkVars
               PROVE  SelectorNext \/ UNCHANGED selectorVars
      OBVIOUS
  <2>1. CASE Register
    <3>1. cursor \in Inst /\ TaskOf[cursor] \in Task
        BY StartList DEF FrameworkIInv, Shape
    <3>2. RegisterTask(TaskOf[cursor], cursor) /\ outcome' = NoOutcome
        BY <2>1 DEF Register, FrameworkIInv, Begun
    <3> QED BY <3>1, <3>2 DEF SelectorNext, Registration
  <2>2. CASE mainLoop
    <3>1. CASE KernelEvent
        BY <3>1 DEF KernelEvent
    <3>2. CASE KernelMessage
      <4>1. Add(sent[Head(kernelFifo).id].address)
          BY <3>2 DEF KernelMessage, Route
      <4>2. sent[Head(kernelFifo).id].address \in Address
        <5>1. /\ kernelFifo # <<>> /\ kernelFifo \in Seq(KernelRec) /\ Named
              /\ Head(kernelFifo).kind = "message"
            BY <2>2, <3>2 DEF mainLoop, KernelMessage, FrameworkIInv, Shape
        <5>2. Head(kernelFifo) = kernelFifo[1] /\ 1 \in 1 .. Len(kernelFifo)
          <6> HIDE DEF KernelRec
          <6> QED BY <5>1, TailFacts
        <5>3. Head(kernelFifo).id \in 1 .. Len(sent)
            BY <5>1, <5>2 DEF Named, Ids
        <5> DEFINE SentRec == [from : Inst, address : Addresses]
        <5>4. sent \in Seq(SentRec)
            BY DEF FrameworkIInv, Shape
        <5> HIDE DEF SentRec
        <5>5. sent[Head(kernelFifo).id] \in SentRec
            BY <5>3, <5>4
        <5> QED BY <5>5, FrameworkAssumption DEF SentRec
      <4> QED BY <4>1, <4>2 DEF SelectorNext
    <3> QED BY <2>2, <3>1, <3>2 DEF mainLoop
  <2>3. CASE StartKernel \/ StartTask \/ Poll \/ RecvCode \/ Dispatch
      BY <2>3 DEF StartKernel, StartTask, Poll, RecvCode, Dispatch
  <2>4. CASE \/ \E i \in Inst : process(i)
             \/ \E i \in Inst, a \in Addresses : sendMsg(i, a)
             \/ \E c \in Commands : Client(c)
      BY <2>4 DEF process, sendMsg, Client
  <2>5. CASE UNCHANGED frameworkVars
      BY <2>5 DEF frameworkVars
  <2> QED BY <2>1, <2>2, <2>3, <2>4, <2>5 DEF Next, Manager
<1> QED BY <1>1, <1>2, FrameworkInvariant, PTL DEF Spec, SelectorSpec
=============================================================================
