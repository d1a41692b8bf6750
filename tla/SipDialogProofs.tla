-------------------------- MODULE SipDialogProofs --------------------------
(***************************************************************************)
(* Proofs about SipDialog, for any calls, tasks and living times.          *)
(***************************************************************************)
EXTENDS SipDialog, SequenceTheorems, TLAPS

-----------------------------------------------------------------------------
(* The inductive invariant.                                                *)

Places == {"idle", "received", "insert", "cleanB", "cleanF"}

Shape ==
    /\ mDialogMap_F \in Seq(F!Record)
    /\ mDialogMap_B \in Seq(B!Record)
    /\ policy \in [maxCount : {0}, destroyOld : {TRUE}, living : Livings]
    /\ pc \in Places
    /\ age \in 0 .. MaxAge
    /\ last = Untimely \/ last \in [Id -> Task \union {NoTask}]
    /\ pc = "received" => msg \in FromWire
    /\ pc = "insert" => msg \in FromWire \union FromTask
    /\ pc \notin {"received", "insert"} => msg = NoMsg /\ age = 0

\* No key is in a table twice.
Distinct(list) == \A i, j \in 1 .. Len(list) : list[i].key = list[j].key => i = j
NoKeyTwice == Distinct(mDialogMap_F) /\ Distinct(mDialogMap_B)

\* What was in the tables when the clock was read is as old as that reading.
NoYounger(list, a) == \A i \in 1 .. Len(list) : list[i].age >= a
ReadLast == pc = "received" => /\ NoYounger(mDialogMap_F, age)
                               /\ NoYounger(mDialogMap_B, age)

\* Each dialog is filed in one of its two directions, with the other direction
\* and the task that spoke last in either.
Owned(r) == /\ r.key \in Id
            /\ r.value.B = Rev[r.key]
            /\ r.value.addr = last[r.key]
            /\ last[Rev[r.key]] = last[r.key]

FiledOnce ==
    last # Untimely =>
       /\ \A i \in 1 .. Len(mDialogMap_F) : Owned(mDialogMap_F[i])
       /\ \A i, j \in 1 .. Len(mDialogMap_F) :
             mDialogMap_F[j].key = Rev[mDialogMap_F[i].key]
                => mDialogMap_F[j].key = mDialogMap_F[i].key

\* The backward table holds the dialogs of the forward table from place n + 1
\* on: in the same order, refreshed at the same time.
Mirror(r) == [key |-> Rev[r.key], value |-> r.key, age |-> r.age]
Mirrored(n) == \A j \in 1 .. Len(mDialogMap_B) :
                  /\ n + j \in 1 .. Len(mDialogMap_F)
                  /\ mDialogMap_B[j] = Mirror(mDialogMap_F[n + j])

\* One table is behind the other by the dialog that is being inserted, or by
\* expired dialogs while the tables are cleaned.
Excess == Len(mDialogMap_F) - Len(mDialogMap_B)

Between == pc \in {"idle", "received"} => Excess = 0 /\ Mirrored(0)

Inserting ==
    pc = "insert" => /\ Excess = 1 /\ Mirrored(0)
                     /\ msg.dialogid = msg.did
                     /\ mDialogMap_F[Len(mDialogMap_F)].key = msg.did
                     /\ mDialogMap_F[Len(mDialogMap_F)].age = 0

Cleaning ==
    /\ pc \in {"cleanB", "cleanF"} =>
          /\ Excess >= 0 /\ Mirrored(Excess)
          /\ \A i \in 1 .. Excess : mDialogMap_F[i].age > policy.living
    /\ pc = "cleanF" => Fresh(mDialogMap_B)

InStep == last # Untimely => Between /\ Inserting /\ Cleaning

DialogIInv == Shape /\ NoKeyTwice /\ ReadLast /\ OldestFirst /\ FiledOnce /\ InStep

-----------------------------------------------------------------------------
(* Lists of records.                                                       *)

Entry(K, V) == [key : K, value : V, age : 0 .. MaxAge]

\* An entry behind the others.
LEMMA Added ==
    ASSUME NEW S, NEW l \in Seq(S), NEW r \in S
    PROVE  /\ Append(l, r) \in Seq(S)
           /\ Len(l) \in Nat /\ Len(Append(l, r)) = Len(l) + 1
           /\ Append(l, r)[Len(l) + 1] = r
           /\ \A i \in 1 .. Len(l) : Append(l, r)[i] = l[i]
OBVIOUS

\* The first entry is taken.
LEMMA Taken ==
    ASSUME NEW S, NEW l \in Seq(S), l # <<>>
    PROVE  /\ Tail(l) \in Seq(S)
           /\ Len(l) \in Nat \ {0} /\ Len(Tail(l)) = Len(l) - 1
           /\ Head(l) = l[1] /\ l[1] \in S
           /\ \A i \in 1 .. Len(l) - 1 : Tail(l)[i] = l[i + 1]
OBVIOUS

\* An entry leaves its place, and another one is put behind all.
Behind(l, p, r) == Append(SubSeq(l, 1, p - 1) \o SubSeq(l, p + 1, Len(l)), r)

\* Where the entries are after such a move.
LEMMA MovedBehind ==
    ASSUME NEW S, NEW l \in Seq(S), NEW p \in 1 .. Len(l), NEW r \in S
    PROVE  /\ Behind(l, p, r) \in Seq(S)
           /\ Len(l) \in Nat /\ Len(Behind(l, p, r)) = Len(l)
           /\ Behind(l, p, r)[Len(l)] = r
           /\ \A i \in 1 .. Len(l) - 1 :
                 Behind(l, p, r)[i] = IF i < p THEN l[i] ELSE l[i + 1]
<1> DEFINE u == SubSeq(l, 1, p - 1)
           v == SubSeq(l, p + 1, Len(l))
<1>1. /\ Len(l) \in Nat /\ p \in Nat /\ 1 <= p /\ p <= Len(l)
      /\ \A i \in 1 .. Len(l) : l[i] \in S
    OBVIOUS
<1>2. /\ u \in Seq(S) /\ Len(u) = p - 1
      /\ \A i \in 1 .. p - 1 : u[i] = l[i]
    BY <1>1
<1>3. /\ v \in Seq(S) /\ Len(v) = Len(l) - p
      /\ \A i \in 1 .. Len(l) - p : v[i] = l[p + i]
    BY <1>1
<1> HIDE DEF u, v
<1>4. /\ u \o v \in Seq(S) /\ Len(u \o v) = Len(l) - 1
      /\ \A i \in 1 .. Len(l) - 1 :
            (u \o v)[i] = IF i < p THEN u[i] ELSE v[i - (p - 1)]
  <2>1. /\ u \o v \in Seq(S) /\ Len(u \o v) = Len(u) + Len(v)
        /\ \A i \in 1 .. Len(u) + Len(v) :
              (u \o v)[i] = IF i <= Len(u) THEN u[i] ELSE v[i - Len(u)]
      BY <1>2, <1>3, ConcatProperties
  <2>2. Len(u) + Len(v) = Len(l) - 1
      BY <1>1, <1>2, <1>3
  <2>3. \A i \in 1 .. Len(l) - 1 : i <= Len(u) <=> i < p
      BY <1>1, <1>2
  <2> QED BY <1>2, <2>1, <2>2, <2>3
<1>5. ASSUME NEW i \in 1 .. Len(l) - 1
      PROVE  (u \o v)[i] = IF i < p THEN l[i] ELSE l[i + 1]
  <2>1. CASE i < p
      BY <1>1, <1>2, <1>4, <2>1
  <2>2. CASE ~(i < p)
    <3>1. i - (p - 1) \in 1 .. Len(l) - p /\ p + (i - (p - 1)) = i + 1
        BY <1>1, <2>2
    <3> QED BY <1>3, <1>4, <2>2, <3>1
  <2> QED BY <2>1, <2>2
<1> DEFINE w == u \o v
<1>6. w \in Seq(S) /\ Len(w) = Len(l) - 1
    BY <1>4
<1>7. Behind(l, p, r) = Append(w, r)
    BY DEF Behind, u, v
<1> HIDE DEF w
<1>8. /\ Append(w, r) \in Seq(S) /\ Len(Append(w, r)) = Len(l)
      /\ Append(w, r)[Len(l)] = r
      /\ \A i \in 1 .. Len(l) - 1 : Append(w, r)[i] = w[i]
    BY <1>1, <1>6
<1> QED BY <1>1, <1>5, <1>7, <1>8 DEF w

\* The properties of a table, with its entries' ages bounded from below.
InAge(l) == \A i, j \in 1 .. Len(l) : i < j => l[i].age >= l[j].age
Holds(l, k) == \E i \in 1 .. Len(l) : l[i].key = k
Kept(l, m) == \A i \in 1 .. Len(l) : Holds(m, l[i].key)

\* A new record behind the others.
LEMMA AddKeeps ==
    ASSUME NEW K, NEW V, NEW l \in Seq(Entry(K, V)), NEW r \in Entry(K, V),
           Distinct(l), InAge(l), ~Holds(l, r.key), NoYounger(l, r.age)
    PROVE  /\ Append(l, r) \in Seq(Entry(K, V))
           /\ Distinct(Append(l, r)) /\ InAge(Append(l, r)) /\ Kept(l, Append(l, r))
<1> DEFINE m == Append(l, r)
<1>1. /\ m \in Seq(Entry(K, V)) /\ Len(l) \in Nat /\ Len(m) = Len(l) + 1
      /\ m[Len(l) + 1] = r /\ \A i \in 1 .. Len(l) : m[i] = l[i]
    BY Added
<1> HIDE DEF m
<1>2. Distinct(m)
    BY <1>1 DEF Distinct, Holds
<1>3. InAge(m)
  <2> SUFFICES ASSUME NEW i \in 1 .. Len(m), NEW j \in 1 .. Len(m), i < j
               PROVE  m[i].age >= m[j].age
      BY DEF InAge
  <2>1. i \in 1 .. Len(l) /\ m[i] = l[i]
      BY <1>1
  <2>2. CASE j \in 1 .. Len(l)
      BY <1>1, <2>1, <2>2 DEF InAge
  <2>3. CASE j = Len(l) + 1
      BY <1>1, <2>1, <2>3 DEF NoYounger
  <2> QED BY <1>1, <2>2, <2>3
<1>4. Kept(l, m)
  <2> SUFFICES ASSUME NEW i \in 1 .. Len(l) PROVE Holds(m, l[i].key)
      BY DEF Kept
  <2>1. i \in 1 .. Len(m) /\ m[i].key = l[i].key
      BY <1>1
  <2> QED BY <2>1 DEF Holds
<1> QED BY <1>1, <1>2, <1>3, <1>4 DEF m

\* The head is removed.
LEMMA TakeKeeps ==
    ASSUME NEW K, NEW V, NEW l \in Seq(Entry(K, V)), l # <<>>,
           Distinct(l), InAge(l)
    PROVE  /\ Tail(l) \in Seq(Entry(K, V))
           /\ Distinct(Tail(l)) /\ InAge(Tail(l))
           /\ \A i \in 1 .. Len(l) : i = 1 \/ Holds(Tail(l), l[i].key)
<1> DEFINE m == Tail(l)
<1>1. /\ m \in Seq(Entry(K, V)) /\ Len(l) \in Nat \ {0} /\ Len(m) = Len(l) - 1
      /\ \A i \in 1 .. Len(l) - 1 : m[i] = l[i + 1]
    BY Taken
<1> HIDE DEF m
<1>2. \A i \in 1 .. Len(m) : i + 1 \in 1 .. Len(l) /\ m[i] = l[i + 1]
    BY <1>1
<1>3. Distinct(m)
  <2> SUFFICES ASSUME NEW i \in 1 .. Len(m), NEW j \in 1 .. Len(m),
                      m[i].key = m[j].key
               PROVE  i = j
      BY DEF Distinct
  <2>1. i + 1 = j + 1
      BY <1>2 DEF Distinct
  <2> QED BY <2>1, <1>1
<1>4. InAge(m)
  <2> SUFFICES ASSUME NEW i \in 1 .. Len(m), NEW j \in 1 .. Len(m), i < j
               PROVE  m[i].age >= m[j].age
      BY DEF InAge
  <2>1. i + 1 < j + 1
      BY <1>1
  <2> QED BY <1>2, <2>1 DEF InAge
<1>5. ASSUME NEW i \in 1 .. Len(l), i # 1 PROVE Holds(m, l[i].key)
  <2>1. i - 1 \in 1 .. Len(l) - 1 /\ (i - 1) + 1 = i
      BY <1>1, <1>5
  <2>2. i - 1 \in 1 .. Len(m) /\ m[i - 1].key = l[i].key
      BY <1>1, <2>1
  <2> QED BY <2>2 DEF Holds
<1> QED BY <1>1, <1>3, <1>4, <1>5 DEF m

\* A record moves behind the others with the age given, the youngest.
LEMMA MoveKeeps ==
    ASSUME NEW K, NEW V, NEW l \in Seq(Entry(K, V)), NEW p \in 1 .. Len(l),
           NEW r \in Entry(K, V), r.key = l[p].key,
           Distinct(l), InAge(l), NoYounger(l, r.age)
    PROVE  /\ Behind(l, p, r) \in Seq(Entry(K, V))
           /\ Distinct(Behind(l, p, r)) /\ InAge(Behind(l, p, r))
           /\ Kept(l, Behind(l, p, r))
<1> DEFINE m == Behind(l, p, r)
<1>1. /\ m \in Seq(Entry(K, V)) /\ Len(l) \in Nat /\ Len(m) = Len(l) /\ m[Len(l)] = r
      /\ \A i \in 1 .. Len(l) - 1 : m[i] = IF i < p THEN l[i] ELSE l[i + 1]
      /\ p \in Nat /\ 1 <= p /\ p <= Len(l)
    BY MovedBehind
<1> HIDE DEF m
<1> DEFINE was(i) == IF i = Len(l) THEN p ELSE IF i < p THEN i ELSE i + 1
<1>2. ASSUME NEW i \in 1 .. Len(m)
      PROVE  /\ was(i) \in 1 .. Len(l)
             /\ m[i].key = l[was(i)].key
             /\ i # Len(l) => m[i] = l[was(i)]
  <2>1. CASE i = Len(l)
      BY <1>1, <2>1
  <2>2. CASE i # Len(l) /\ i < p
      BY <1>1, <2>2
  <2>3. CASE i # Len(l) /\ ~(i < p)
      BY <1>1, <2>3
  <2> QED BY <2>1, <2>2, <2>3
<1>3. \A i, j \in 1 .. Len(m) : was(i) = was(j) => i = j
    BY <1>1
<1>4. Distinct(m)
  <2> SUFFICES ASSUME NEW i \in 1 .. Len(m), NEW j \in 1 .. Len(m),
                      m[i].key = m[j].key
               PROVE  i = j
      BY DEF Distinct
  <2> HIDE DEF was
  <2>1. was(i) = was(j)
      BY <1>2, SMTT(30) DEF Distinct
  <2> QED BY <1>3, <2>1
<1>5. \A i, j \in 1 .. Len(m) : i < j /\ j # Len(l) => was(i) < was(j)
    BY <1>1
<1>6. InAge(m)
  <2> SUFFICES ASSUME NEW i \in 1 .. Len(m), NEW j \in 1 .. Len(m), i < j
               PROVE  m[i].age >= m[j].age
      BY DEF InAge
  <2>1. i # Len(l)
      BY <1>1
  <2> HIDE DEF was
  <2>2. CASE j = Len(l)
      BY <1>1, <1>2, <2>1, <2>2 DEF NoYounger
  <2>3. CASE j # Len(l)
      BY <1>2, <1>5, <2>1, <2>3 DEF InAge
  <2> QED BY <2>2, <2>3
<1>7. ASSUME NEW i \in 1 .. Len(l) PROVE Holds(m, l[i].key)
  <2> DEFINE n == IF i = p THEN Len(l) ELSE IF i < p THEN i ELSE i - 1
  <2>1. n \in 1 .. Len(m) /\ was(n) = i
    <3>1. CASE i = p
        BY <1>1, <3>1
    <3>2. CASE i < p
        BY <1>1, <3>2
    <3>3. CASE i > p
        BY <1>1, <3>3
    <3> QED BY <1>1, <3>1, <3>2, <3>3
  <2>2. m[n].key = l[i].key
      BY <1>2, <2>1
  <2> QED BY <2>1, <2>2 DEF Holds
<1>8. Kept(l, m)
    BY <1>7 DEF Kept
<1> QED BY <1>1, <1>4, <1>6, <1>8 DEF m

\* Two lists with the same entries but for the ages, or the values.
LEMMA SameKeys ==
    ASSUME NEW l, NEW m, Len(m) = Len(l),
           \A i \in 1 .. Len(l) : m[i].key = l[i].key
    PROVE  (Distinct(l) => Distinct(m)) /\ Kept(l, m)
BY DEF Distinct, Kept, Holds

-----------------------------------------------------------------------------
(* The two tables.                                                         *)

\* The records of both tables.
LEMMA Entries == F!Record = Entry(Key, Info) /\ B!Record = Entry(Key, Key)
BY DEF F!Record, B!Record, Entry

\* What the tables are in every state.
Tables ==
    /\ mDialogMap_F \in Seq(Entry(Key, Info)) /\ mDialogMap_B \in Seq(Entry(Key, Key))
    /\ Distinct(mDialogMap_F) /\ Distinct(mDialogMap_B)
    /\ InAge(mDialogMap_F) /\ InAge(mDialogMap_B)

\* The order the specification states, by places.
LEMMA OrderedIsInAge ==
    ASSUME NEW S, NEW l \in Seq(S) PROVE Ordered(l) <=> InAge(l)
BY DEF Ordered, InAge

\* The invariant says what Tables says.
LEMMA TablesOfInvariant ==
    /\ mDialogMap_F \in Seq(F!Record) /\ mDialogMap_B \in Seq(B!Record)
          => (NoKeyTwice /\ OldestFirst <=> Tables)
BY Entries, OrderedIsInAge DEF NoKeyTwice, OldestFirst, Tables

\* The entries of the tables.
LEMMA EntryFacts ==
    ASSUME Tables
    PROVE  /\ \A i \in 1 .. Len(mDialogMap_F) :
                 /\ mDialogMap_F[i] \in Entry(Key, Info)
                 /\ mDialogMap_F[i].age \in 0 .. MaxAge /\ mDialogMap_F[i].age >= 0
           /\ \A i \in 1 .. Len(mDialogMap_B) :
                 /\ mDialogMap_B[i] \in Entry(Key, Key)
                 /\ mDialogMap_B[i].age \in 0 .. MaxAge /\ mDialogMap_B[i].age >= 0
<1>1. \A i \in 1 .. Len(mDialogMap_F) : mDialogMap_F[i] \in Entry(Key, Info)
    BY DEF Tables
<1>2. \A i \in 1 .. Len(mDialogMap_B) : mDialogMap_B[i] \in Entry(Key, Key)
    BY DEF Tables
<1> QED BY <1>1, <1>2 DEF Entry

\* The bound of the ages.
LEMMA MaxAgeFacts == MaxAge \in Nat /\ MaxAge > 0 /\ 0 \in 0 .. MaxAge
BY DialogAssumption

\* A record found by key.
LEMMA KeyPlaces ==
    ASSUME Tables
    PROVE  /\ Len(mDialogMap_F) \in Nat /\ Len(mDialogMap_B) \in Nat
           /\ DOMAIN mDialogMap_F = 1 .. Len(mDialogMap_F)
           /\ DOMAIN mDialogMap_B = 1 .. Len(mDialogMap_B)
           /\ \A k : k \in F!Keys <=> Holds(mDialogMap_F, k)
           /\ \A k : k \in B!Keys <=> Holds(mDialogMap_B, k)
BY DEF Tables, F!Keys, B!Keys, Holds

\* The record of a dialog.
LEMMA FoundForward ==
    ASSUME Tables, NEW k, k \in F!Keys
    PROVE  /\ F!Position(k) \in 1 .. Len(mDialogMap_F)
           /\ mDialogMap_F[F!Position(k)].key = k
           /\ F!Content(k) = mDialogMap_F[F!Position(k)].value
           /\ mDialogMap_F[F!Position(k)] \in Entry(Key, Info)
<1>1. \E i \in DOMAIN mDialogMap_F : mDialogMap_F[i].key = k
    BY DEF F!Keys
<1>2. /\ F!Position(k) \in DOMAIN mDialogMap_F
      /\ mDialogMap_F[F!Position(k)].key = k
    BY <1>1 DEF F!Position
<1> QED BY <1>2, KeyPlaces DEF F!Content, Tables

\* The record of the other direction.
LEMMA FoundBackward ==
    ASSUME Tables, NEW k, k \in B!Keys
    PROVE  /\ B!Position(k) \in 1 .. Len(mDialogMap_B)
           /\ mDialogMap_B[B!Position(k)].key = k
           /\ B!Content(k) = mDialogMap_B[B!Position(k)].value
           /\ mDialogMap_B[B!Position(k)] \in Entry(Key, Key)
<1>1. \E i \in DOMAIN mDialogMap_B : mDialogMap_B[i].key = k
    BY DEF B!Keys
<1>2. /\ B!Position(k) \in DOMAIN mDialogMap_B
      /\ mDialogMap_B[B!Position(k)].key = k
    BY <1>1 DEF B!Position
<1> QED BY <1>2, KeyPlaces DEF B!Content, Tables

Aged(r, a) == [key |-> r.key, value |-> r.value, age |-> a]

\* update moves the record behind the others, or finds none.
LEMMA UpdateForward ==
    ASSUME Tables, NEW k, NEW a \in 0 .. MaxAge, k \in F!Keys, F!update(k, a)
    PROVE  LET p == F!Position(k) IN
           /\ mDialogMap_F' = Behind(mDialogMap_F, p, Aged(mDialogMap_F[p], a))
           /\ Aged(mDialogMap_F[p], a) \in Entry(Key, Info)
<1> DEFINE p == F!Position(k)
<1>1. mDialogMap_F[p] \in Entry(Key, Info)
    BY FoundForward
<1>2. [mDialogMap_F[p] EXCEPT !.age = a] = Aged(mDialogMap_F[p], a)
    BY <1>1 DEF Entry, Aged
<1>3. Aged(mDialogMap_F[p], a) \in Entry(Key, Info)
    BY <1>1 DEF Entry, Aged
<1>4. mDialogMap_F' = Behind(mDialogMap_F, p, [mDialogMap_F[p] EXCEPT !.age = a])
    BY DEF F!update, F!RemoveAt, Behind
<1> QED BY <1>2, <1>3, <1>4

\* The same in the backward table.
LEMMA UpdateBackward ==
    ASSUME Tables, NEW k, NEW a \in 0 .. MaxAge, k \in B!Keys, B!update(k, a)
    PROVE  LET p == B!Position(k) IN
           /\ mDialogMap_B' = Behind(mDialogMap_B, p, Aged(mDialogMap_B[p], a))
           /\ Aged(mDialogMap_B[p], a) \in Entry(Key, Key)
<1> DEFINE p == B!Position(k)
<1>1. mDialogMap_B[p] \in Entry(Key, Key)
    BY FoundBackward
<1>2. [mDialogMap_B[p] EXCEPT !.age = a] = Aged(mDialogMap_B[p], a)
    BY <1>1 DEF Entry, Aged
<1>3. Aged(mDialogMap_B[p], a) \in Entry(Key, Key)
    BY <1>1 DEF Entry, Aged
<1>4. mDialogMap_B' = Behind(mDialogMap_B, p, [mDialogMap_B[p] EXCEPT !.age = a])
    BY DEF B!update, B!RemoveAt, Behind
<1> QED BY <1>2, <1>3, <1>4

\* push adds a record behind the others, unless the key is there: the tables
\* have no limit.
Inserted(k, v) == [key |-> k, value |-> v, age |-> 0]

\* A new dialog.
LEMMA PushForward ==
    ASSUME Tables, policy.maxCount = 0, NEW k \in Key, NEW v \in Info, F!push(k, v)
    PROVE  /\ k \in F!Keys => mDialogMap_F' = mDialogMap_F
           /\ k \notin F!Keys => mDialogMap_F' = Append(mDialogMap_F, Inserted(k, v))
           /\ Inserted(k, v) \in Entry(Key, Info)
<1>1. ~F!Full
    BY DEF F!Full
<1>2. Inserted(k, v) \in Entry(Key, Info)
    BY DialogAssumption DEF Inserted, Entry
<1> QED BY <1>1, <1>2 DEF F!push, F!New, Inserted

\* A new id of the other direction.
LEMMA PushBackward ==
    ASSUME Tables, policy.maxCount = 0, NEW k \in Key, NEW v \in Key, B!push(k, v)
    PROVE  /\ k \in B!Keys => mDialogMap_B' = mDialogMap_B
           /\ k \notin B!Keys => mDialogMap_B' = Append(mDialogMap_B, Inserted(k, v))
           /\ Inserted(k, v) \in Entry(Key, Key)
<1>1. ~B!Full
    BY DEF B!Full
<1>2. Inserted(k, v) \in Entry(Key, Key)
    BY DialogAssumption DEF Inserted, Entry
<1> QED BY <1>1, <1>2 DEF B!push, B!New, Inserted

\* Every entry of one list has the key and the value of one of the other.
Stems(m, l) == \A i \in 1 .. Len(m) : \E j \in 1 .. Len(l) :
                  m[i].key = l[j].key /\ m[i].value = l[j].value

\* A record that moves behind the others keeps its key and value.
LEMMA MoveStems ==
    ASSUME NEW S, NEW l \in Seq(S), NEW p \in 1 .. Len(l), NEW r \in S,
           r.key = l[p].key, r.value = l[p].value
    PROVE  Stems(Behind(l, p, r), l)
<1> DEFINE m == Behind(l, p, r)
<1>1. /\ Len(l) \in Nat /\ Len(m) = Len(l) /\ m[Len(l)] = r
      /\ \A i \in 1 .. Len(l) - 1 : m[i] = IF i < p THEN l[i] ELSE l[i + 1]
      /\ p \in Nat /\ 1 <= p /\ p <= Len(l)
  <2>1. /\ Len(l) \in Nat /\ Len(m) = Len(l) /\ m[Len(l)] = r
        /\ \A i \in 1 .. Len(l) - 1 : m[i] = IF i < p THEN l[i] ELSE l[i + 1]
      BY ONLY MovedBehind
  <2> HIDE DEF m
  <2>2. p \in Nat /\ 1 <= p /\ p <= Len(l)
      BY <2>1
  <2> QED BY <2>1, <2>2
<1> HIDE DEF m
<1> SUFFICES ASSUME NEW i \in 1 .. Len(m)
             PROVE  \E j \in 1 .. Len(l) : m[i].key = l[j].key /\ m[i].value = l[j].value
    BY DEF Stems, m
<1>2. CASE i = Len(l)
    BY <1>1, <1>2
<1>3. CASE i # Len(l) /\ i < p
    BY <1>1, <1>3
<1>4. CASE i # Len(l) /\ ~(i < p)
  <2>1. i + 1 \in 1 .. Len(l) /\ m[i] = l[i + 1]
      BY <1>1, <1>4
  <2> QED BY <2>1
<1> QED BY <1>2, <1>3, <1>4

\* The records behind the head stay.
LEMMA TakeStems ==
    ASSUME NEW S, NEW l \in Seq(S), l # <<>> PROVE Stems(Tail(l), l)
<1>1. \A i \in 1 .. Len(Tail(l)) : i + 1 \in 1 .. Len(l) /\ Tail(l)[i] = l[i + 1]
    BY Taken
<1> QED BY <1>1 DEF Stems

\* The dialogs stay filed as they are, however often they are refreshed.
LEMMA FiledStays ==
    ASSUME FiledOnce, Stems(mDialogMap_F', mDialogMap_F),
           last' # Untimely => last' = last
    PROVE  FiledOnce'
<1> SUFFICES ASSUME last' # Untimely
             PROVE  /\ \A i \in 1 .. Len(mDialogMap_F') : Owned(mDialogMap_F[i])'
                    /\ \A i, j \in 1 .. Len(mDialogMap_F') :
                          mDialogMap_F'[j].key = Rev[mDialogMap_F'[i].key]
                             => mDialogMap_F'[j].key = mDialogMap_F'[i].key
    BY DEF FiledOnce, Untimely
<1>1. last' = last /\ last # Untimely
    OBVIOUS
<1>2. ASSUME NEW i \in 1 .. Len(mDialogMap_F') PROVE Owned(mDialogMap_F[i])'
  <2>1. PICK j \in 1 .. Len(mDialogMap_F) :
           /\ mDialogMap_F'[i].key = mDialogMap_F[j].key
           /\ mDialogMap_F'[i].value = mDialogMap_F[j].value
      BY DEF Stems
  <2>2. Owned(mDialogMap_F[j])
      BY <1>1 DEF FiledOnce
  <2> QED BY <1>1, <2>1, <2>2 DEF Owned
<1>3. ASSUME NEW i \in 1 .. Len(mDialogMap_F'), NEW j \in 1 .. Len(mDialogMap_F'),
             mDialogMap_F'[j].key = Rev[mDialogMap_F'[i].key]
      PROVE  mDialogMap_F'[j].key = mDialogMap_F'[i].key
  <2>1. PICK g \in 1 .. Len(mDialogMap_F) : mDialogMap_F'[i].key = mDialogMap_F[g].key
      BY DEF Stems
  <2>2. PICK h \in 1 .. Len(mDialogMap_F) : mDialogMap_F'[j].key = mDialogMap_F[h].key
      BY DEF Stems
  <2> QED BY <1>1, <1>3, <2>1, <2>2 DEF FiledOnce
<1> QED BY <1>2, <1>3

\* What a message holds.
LEMMA Messages ==
    ASSUME NEW m \in FromWire \union FromTask
    PROVE  /\ m.did \in Id /\ m.dialogid \in Key
           /\ m.from \in Task \union {NoTask}
           /\ Rev[m.did] \in Id /\ Rev[Rev[m.did]] = m.did
           /\ Searched(m) \in Call(m.did)
           /\ m.dialogid \notin Call(m.did) => m.dialogid = Empty
           /\ m \in FromWire => m.dialogid = m.did /\ m.from = NoTask
<1>1. CASE m \in FromWire
    BY <1>1, DialogAssumption DEF FromWire, Key, Searched, Call
<1>2. CASE m \notin FromWire
  <2>1. m \in FromTask
      BY <1>2
  <2>2. PICK d \in Id, c \in Kinds, t \in Task :
           \E g \in {d, Rev[d]} \union Unnamed :
              m = [did |-> d, dialogid |-> g, kind |-> c, from |-> t]
      BY <2>1 DEF FromTask
  <2> QED BY <1>2, <2>2, DialogAssumption DEF Key, Searched, Call
<1> QED BY <1>1, <1>2

\* A message's task is the last to speak.
LEMMA SaysFacts ==
    ASSUME Shape, NEW d \in Id, NEW t \in Task \union {NoTask}, Says(d, t)
    PROVE  /\ last' = Untimely \/ last' \in [Id -> Task \union {NoTask}]
           /\ last' # Untimely => /\ last # Untimely
                                  /\ \A e \in Id : last'[e] = IF e \in Call(d) THEN t ELSE last[e]
BY DEF Says, Shape, Untimely

\* No step takes a record that has not expired.
KeepsLive ==
    /\ \A i \in 1 .. Len(mDialogMap_F) :
          Holds(mDialogMap_F', mDialogMap_F[i].key) \/ mDialogMap_F[i].age > policy.living
    /\ \A i \in 1 .. Len(mDialogMap_B) :
          Holds(mDialogMap_B', mDialogMap_B[i].key) \/ mDialogMap_B[i].age > policy.living

Invariants == Shape /\ Tables /\ ReadLast /\ FiledOnce /\ InStep

\* A list that does not change loses no key.
LEMMA KeptSame == \A l : Kept(l, l)
BY DEF Kept, Holds

\* A list that does not change gains no entry.
LEMMA StemsSame == \A l : Stems(l, l)
BY DEF Stems

-----------------------------------------------------------------------------
(* Steps that change no table.                                             *)

\* The tables as they were.
LEMMA TablesKept ==
    ASSUME Invariants, UNCHANGED tables, last' = last
    PROVE  Tables' /\ FiledOnce' /\ KeepsLive
<1>1. mDialogMap_F' = mDialogMap_F /\ mDialogMap_B' = mDialogMap_B
    BY DEF tables
<1>2. Tables'
    BY <1>1 DEF Invariants, Tables, Distinct, InAge
<1>3. FiledOnce'
    BY <1>1, StemsSame, FiledStays DEF Invariants
<1>4. KeepsLive
    BY <1>1 DEF KeepsLive, Holds
<1> QED BY <1>2, <1>3, <1>4

\* A message of the wire is received, the clock just read.
LEMMA ReceiveStep ==
    ASSUME Invariants, NEW m \in FromWire, Receive(m)
    PROVE  Invariants' /\ KeepsLive
<1>1. /\ mDialogMap_F' = mDialogMap_F /\ mDialogMap_B' = mDialogMap_B
      /\ UNCHANGED <<tables, policy, age, last>>
      /\ pc = "idle" /\ pc' = "received" /\ msg' = m
    BY DEF Receive, tables
<1>2. Tables' /\ FiledOnce' /\ KeepsLive
    BY <1>1, TablesKept
<1>3. Shape'
    BY <1>1 DEF Invariants, Shape, Places
<1>4. ReadLast'
  <2>1. age = 0 /\ age' = 0
      BY <1>1 DEF Invariants, Shape
  <2>2. /\ \A i \in 1 .. Len(mDialogMap_F) : mDialogMap_F[i].age >= 0
        /\ \A i \in 1 .. Len(mDialogMap_B) : mDialogMap_B[i].age >= 0
      BY EntryFacts DEF Invariants
  <2> QED BY <1>1, <2>1, <2>2 DEF ReadLast, NoYounger
<1>5. InStep'
  <2> SUFFICES ASSUME last # Untimely PROVE Between' /\ Inserting' /\ Cleaning'
      BY <1>1 DEF InStep, Untimely
  <2>1. Excess = 0 /\ Mirrored(0)
      BY <1>1 DEF Invariants, InStep, Between
  <2> QED BY <1>1, <2>1 DEF Between, Inserting, Cleaning, Excess, Mirrored
<1> QED BY <1>2, <1>3, <1>4, <1>5 DEF Invariants

\* A message outside a dialog is sent on.
LEMMA WireForwardStep ==
    ASSUME Invariants, WireForward
    PROVE  Invariants' /\ KeepsLive
<1>1. /\ mDialogMap_F' = mDialogMap_F /\ mDialogMap_B' = mDialogMap_B
      /\ UNCHANGED <<tables, policy, last>>
      /\ pc = "received" /\ pc' = "idle" /\ msg' = NoMsg /\ age' = 0
    BY DEF WireForward, WireOutside, Return, tables
<1>2. Tables' /\ FiledOnce' /\ KeepsLive
    BY <1>1, TablesKept
<1>3. Shape'
    BY <1>1, MaxAgeFacts DEF Invariants, Shape, Places
<1>4. ReadLast'
    BY <1>1 DEF ReadLast
<1>5. InStep'
  <2> SUFFICES ASSUME last # Untimely PROVE Between' /\ Inserting' /\ Cleaning'
      BY <1>1 DEF InStep, Untimely
  <2>1. Excess = 0 /\ Mirrored(0)
      BY <1>1 DEF Invariants, InStep, Between
  <2> QED BY <1>1, <2>1 DEF Between, Inserting, Cleaning, Excess, Mirrored
<1> QED BY <1>2, <1>3, <1>4, <1>5 DEF Invariants

\* Cleaning begins with tables that agree.
LEMMA TimeOutStep ==
    ASSUME Invariants, onTimeOut
    PROVE  Invariants' /\ KeepsLive
<1>1. /\ mDialogMap_F' = mDialogMap_F /\ mDialogMap_B' = mDialogMap_B
      /\ UNCHANGED <<tables, policy, msg, age, last>>
      /\ pc = "idle" /\ pc' = "cleanB"
    BY DEF onTimeOut, tables
<1>2. Tables' /\ FiledOnce' /\ KeepsLive
    BY <1>1, TablesKept
<1>3. Shape'
    BY <1>1 DEF Invariants, Shape, Places
<1>4. ReadLast'
    BY <1>1 DEF ReadLast
<1>5. InStep'
  <2> SUFFICES ASSUME last # Untimely PROVE Between' /\ Inserting' /\ Cleaning'
      BY <1>1 DEF InStep, Untimely
  <2>1. Excess = 0 /\ Mirrored(0)
      BY <1>1 DEF Invariants, InStep, Between
  <2>2. Excess' = 0 /\ Mirrored(0)'
      BY <1>1, <2>1 DEF Excess, Mirrored
  <2>3. Mirrored(Excess)'
      BY <2>2 DEF Mirrored
  <2> QED BY <1>1, <2>2, <2>3 DEF Between, Inserting, Cleaning
<1> QED BY <1>2, <1>3, <1>4, <1>5 DEF Invariants

\* The living time is configured anew.
LEMMA ReloadStep ==
    ASSUME Invariants, NEW n \in Livings, reloadTaskEnv(n)
    PROVE  Invariants' /\ KeepsLive
<1>1. /\ mDialogMap_F' = mDialogMap_F /\ mDialogMap_B' = mDialogMap_B
      /\ UNCHANGED <<tables, pc, msg, age, last>>
      /\ pc = "idle" /\ policy' = [policy EXCEPT !.living = n]
    BY DEF reloadTaskEnv, tables, handler, F!setLivingTime
<1>2. Tables' /\ FiledOnce' /\ KeepsLive
    BY <1>1, TablesKept
<1>3. Shape'
    BY <1>1 DEF Invariants, Shape, Places
<1>4. ReadLast'
    BY <1>1 DEF ReadLast
<1>5. InStep'
  <2> SUFFICES ASSUME last # Untimely PROVE Between' /\ Inserting' /\ Cleaning'
      BY <1>1 DEF InStep, Untimely
  <2>1. Excess = 0 /\ Mirrored(0)
      BY <1>1 DEF Invariants, InStep, Between
  <2> QED BY <1>1, <2>1 DEF Between, Inserting, Cleaning, Excess, Mirrored
<1> QED BY <1>2, <1>3, <1>4, <1>5 DEF Invariants

\* Nothing happens.
LEMMA NothingStep ==
    ASSUME Invariants, UNCHANGED vars
    PROVE  Invariants' /\ KeepsLive
<1>1. /\ mDialogMap_F' = mDialogMap_F /\ mDialogMap_B' = mDialogMap_B
      /\ UNCHANGED <<tables, pc, msg, age, last, policy>>
    BY DEF vars, handler, tables
<1>2. Tables' /\ FiledOnce' /\ KeepsLive
    BY <1>1, TablesKept
<1>3. Shape'
    BY <1>1 DEF Invariants, Shape
<1>4. ReadLast'
    BY <1>1 DEF Invariants, ReadLast, NoYounger
<1>5. InStep'
    BY <1>1 DEF Invariants, InStep, Untimely, Between, Inserting, Cleaning,
                Excess, Mirrored, Fresh
<1> QED BY <1>2, <1>3, <1>4, <1>5 DEF Invariants

-----------------------------------------------------------------------------
(* A dialog is refreshed.                                                  *)

\* Tables that lose no key lose no record that has not expired.
LEMMA KeptKeepsLive ==
    ASSUME Kept(mDialogMap_F, mDialogMap_F'), Kept(mDialogMap_B, mDialogMap_B')
    PROVE  KeepsLive
BY DEF Kept, KeepsLive

\* The record found for a message, and the one of its other direction: at the
\* same place of both tables.
LEMMA Opposite ==
    ASSUME Tables, FiledOnce, last # Untimely, Excess = 0, Mirrored(0),
           NEW k, k \in F!Keys
    PROVE  /\ F!Content(k).B \in B!Keys
           /\ B!Position(F!Content(k).B) = F!Position(k)
<1> DEFINE p == F!Position(k)
           b == F!Content(k).B
<1>1. /\ p \in 1 .. Len(mDialogMap_F) /\ mDialogMap_F[p].key = k
      /\ b = mDialogMap_F[p].value.B
    BY FoundForward
<1>2. b = Rev[k]
    BY <1>1 DEF FiledOnce, Owned
<1>3. /\ p \in 1 .. Len(mDialogMap_B) /\ 0 + p = p
      /\ mDialogMap_B[p] = Mirror(mDialogMap_F[0 + p])
    BY <1>1, KeyPlaces DEF Excess, Mirrored
<1>4. mDialogMap_B[p].key = b
    BY <1>1, <1>2, <1>3 DEF Mirror
<1>5. b \in B!Keys
    BY <1>3, <1>4, KeyPlaces DEF Holds
<1>6. /\ B!Position(b) \in 1 .. Len(mDialogMap_B)
      /\ mDialogMap_B[B!Position(b)].key = b
    BY <1>5, FoundBackward
<1> QED BY <1>3, <1>4, <1>5, <1>6 DEF Tables, Distinct

\* Moving the records at the same place of both tables leaves them mirrored.
LEMMA MoveMirrored ==
    ASSUME Tables, Excess = 0, Mirrored(0),
           NEW p \in 1 .. Len(mDialogMap_F), NEW a \in 0 .. MaxAge,
           mDialogMap_F' = Behind(mDialogMap_F, p, Aged(mDialogMap_F[p], a)),
           mDialogMap_B' = Behind(mDialogMap_B, p, Aged(mDialogMap_B[p], a))
    PROVE  Excess' = 0 /\ Mirrored(0)'
<1> DEFINE n == Len(mDialogMap_F)
<1>1. /\ n \in Nat /\ Len(mDialogMap_B) = n
      /\ p \in Nat /\ 1 <= p /\ p <= n
    BY KeyPlaces DEF Excess
<1>2. \A j \in 1 .. n : mDialogMap_B[j] = Mirror(mDialogMap_F[j])
  <2> TAKE j \in 1 .. n
  <2>1. 0 + j = j
      OBVIOUS
  <2> QED BY <1>1, <2>1 DEF Mirrored
<1>3. Aged(mDialogMap_F[p], a) \in Entry(Key, Info)
    BY EntryFacts DEF Entry, Aged
<1>4. Aged(mDialogMap_B[p], a) \in Entry(Key, Key)
    BY <1>1, EntryFacts DEF Entry, Aged
<1>5. /\ Len(mDialogMap_F') = n
      /\ mDialogMap_F'[n] = Aged(mDialogMap_F[p], a)
      /\ \A i \in 1 .. n - 1 :
            mDialogMap_F'[i] = IF i < p THEN mDialogMap_F[i] ELSE mDialogMap_F[i + 1]
  <2> DEFINE l == mDialogMap_F
             r == Aged(mDialogMap_F[p], a)
             S == Entry(Key, Info)
  <2>1. l \in Seq(S) /\ r \in S /\ p \in 1 .. Len(l)
      BY <1>1, <1>3, <1>4 DEF Tables
  <2>2. mDialogMap_F' = Behind(l, p, r)
      OBVIOUS
  <2> HIDE DEF l, r, S
  <2>3. /\ Len(Behind(l, p, r)) = Len(l) /\ Behind(l, p, r)[Len(l)] = r
        /\ \A i \in 1 .. Len(l) - 1 :
              Behind(l, p, r)[i] = IF i < p THEN l[i] ELSE l[i + 1]
      BY <2>1, MovedBehind
  <2> QED BY <1>1, <2>2, <2>3 DEF l, r
<1>6. /\ Len(mDialogMap_B') = n
      /\ mDialogMap_B'[n] = Aged(mDialogMap_B[p], a)
      /\ \A i \in 1 .. n - 1 :
            mDialogMap_B'[i] = IF i < p THEN mDialogMap_B[i] ELSE mDialogMap_B[i + 1]
  <2> DEFINE l == mDialogMap_B
             r == Aged(mDialogMap_B[p], a)
             S == Entry(Key, Key)
  <2>1. l \in Seq(S) /\ r \in S /\ p \in 1 .. Len(l)
      BY <1>1, <1>3, <1>4 DEF Tables
  <2>2. mDialogMap_B' = Behind(l, p, r)
      OBVIOUS
  <2> HIDE DEF l, r, S
  <2>3. /\ Len(Behind(l, p, r)) = Len(l) /\ Behind(l, p, r)[Len(l)] = r
        /\ \A i \in 1 .. Len(l) - 1 :
              Behind(l, p, r)[i] = IF i < p THEN l[i] ELSE l[i + 1]
      BY <2>1, MovedBehind
  <2> QED BY <1>1, <2>2, <2>3 DEF l, r
<1>7. ASSUME NEW j \in 1 .. n
      PROVE  mDialogMap_B'[j] = Mirror(mDialogMap_F'[j])
  <2>1. CASE j = n
    <3>1. mDialogMap_B[p] = Mirror(mDialogMap_F[p])
        BY <1>1, <1>2
    <3>2. Aged(mDialogMap_B[p], a) = Mirror(Aged(mDialogMap_F[p], a))
        BY <3>1 DEF Mirror, Aged
    <3> QED BY <1>5, <1>6, <2>1, <3>2
  <2>2. CASE j # n /\ j < p
      BY <1>1, <1>2, <1>5, <1>6, <2>2
  <2>3. CASE j # n /\ ~(j < p)
    <3>1. j \in 1 .. n - 1 /\ j + 1 \in 1 .. n
        BY <1>1, <2>3
    <3> QED BY <1>2, <1>5, <1>6, <2>3, <3>1
  <2> QED BY <2>1, <2>2, <2>3
<1>8. Excess' = 0
    BY <1>1, <1>5, <1>6 DEF Excess
<1>9. Mirrored(0)'
  <2> SUFFICES ASSUME NEW j \in 1 .. Len(mDialogMap_B')
               PROVE  /\ 0 + j \in 1 .. Len(mDialogMap_F')
                      /\ mDialogMap_B'[j] = Mirror(mDialogMap_F'[0 + j])
      BY DEF Mirrored, Mirror
  <2>1. 0 + j = j /\ j \in 1 .. n
      BY <1>1, <1>6
  <2> QED BY <1>5, <1>7, <2>1
<1> QED BY <1>8, <1>9

\* A message of the wire inside a dialog refreshes it in both tables, with the
\* time the message came.
LEMMA WireInDialogStep ==
    ASSUME Invariants, WireInDialog
    PROVE  Invariants' /\ KeepsLive
<1> DEFINE k == Target(msg.dialogid)
           b == F!Content(k).B
           p == F!Position(k)
           q == B!Position(b)
<1>1. /\ k \in F!Keys /\ F!update(k, age) /\ B!update(b, age)
      /\ pc = "received" /\ pc' = "idle" /\ msg' = NoMsg /\ age' = 0
      /\ UNCHANGED <<policy, last>>
    BY DEF WireInDialog, QueryDialogTab, UpdateDialogExpire, Return
<1>2. /\ Tables /\ age \in 0 .. MaxAge
      /\ NoYounger(mDialogMap_F, age) /\ NoYounger(mDialogMap_B, age)
    BY <1>1 DEF Invariants, Shape, ReadLast
<1>3. /\ p \in 1 .. Len(mDialogMap_F) /\ mDialogMap_F[p].key = k
      /\ mDialogMap_F[p] \in Entry(Key, Info)
    BY <1>1, <1>2, FoundForward
<1>4. /\ mDialogMap_F' = Behind(mDialogMap_F, p, Aged(mDialogMap_F[p], age))
      /\ Aged(mDialogMap_F[p], age) \in Entry(Key, Info)
    BY <1>1, <1>2, UpdateForward
<1>5. /\ mDialogMap_F' \in Seq(Entry(Key, Info))
      /\ Distinct(mDialogMap_F)' /\ InAge(mDialogMap_F)'
      /\ Kept(mDialogMap_F, mDialogMap_F')
    BY <1>2, <1>3, <1>4, MoveKeeps, SMTT(30) DEF Aged, Tables, Distinct, InAge
<1>6. Stems(mDialogMap_F', mDialogMap_F)
    BY <1>2, <1>3, <1>4, MoveStems DEF Aged, Tables
<1>7. b \in B!Keys =>
         /\ q \in 1 .. Len(mDialogMap_B)
         /\ mDialogMap_B' = Behind(mDialogMap_B, q, Aged(mDialogMap_B[q], age))
         /\ Aged(mDialogMap_B[q], age) \in Entry(Key, Key)
    BY <1>1, <1>2, UpdateBackward, FoundBackward
<1>8. b \notin B!Keys => mDialogMap_B' = mDialogMap_B
    BY <1>1 DEF B!update
<1>9. /\ mDialogMap_B' \in Seq(Entry(Key, Key))
      /\ Distinct(mDialogMap_B)' /\ InAge(mDialogMap_B)'
      /\ Kept(mDialogMap_B, mDialogMap_B')
  <2>1. CASE b \in B!Keys
    <3> DEFINE r == Aged(mDialogMap_B[q], age)
    <3>1. /\ q \in 1 .. Len(mDialogMap_B) /\ r \in Entry(Key, Key)
          /\ mDialogMap_B' = Behind(mDialogMap_B, q, r)
        BY <1>7, <2>1
    <3>2. r.key = mDialogMap_B[q].key /\ r.age = age
        BY DEF Aged
    <3> HIDE DEF r, q
    <3> QED BY <1>2, <3>1, <3>2, MoveKeeps DEF Tables, Distinct, InAge
  <2>2. CASE b \notin B!Keys
      BY <1>2, <1>8, <2>2, KeptSame DEF Tables, Distinct, InAge
  <2> QED BY <2>1, <2>2
<1>10. Tables' /\ KeepsLive
    BY <1>5, <1>9, KeptKeepsLive DEF Tables
<1>11. Shape'
    BY <1>1, <1>5, <1>9, Entries, MaxAgeFacts DEF Invariants, Shape, Places
<1>12. ReadLast'
    BY <1>1 DEF ReadLast
<1>13. FiledOnce'
    BY <1>1, <1>6, FiledStays DEF Invariants
<1>14. InStep'
  <2> SUFFICES ASSUME last # Untimely PROVE Between' /\ Inserting' /\ Cleaning'
      BY <1>1 DEF InStep, Untimely
  <2>1. Excess = 0 /\ Mirrored(0) /\ FiledOnce
      BY <1>1 DEF Invariants, InStep, Between
  <2>2. b \in B!Keys /\ q = p
      BY <1>1, <1>2, <2>1, Opposite
  <2>3. Excess' = 0 /\ Mirrored(0)'
      BY <1>2, <1>3, <1>4, <1>7, <2>1, <2>2, MoveMirrored
  <2> QED BY <1>1, <2>3 DEF Between, Inserting, Cleaning
<1> QED BY <1>10, <1>11, <1>12, <1>13, <1>14 DEF Invariants

-----------------------------------------------------------------------------
(* A dialog is opened.                                                     *)

\* An id of the backward table leads to the dialog of the other direction.
LEMMA BackwardLeads ==
    ASSUME Tables, FiledOnce, last # Untimely, NEW n \in Nat, Mirrored(n),
           NEW b, b \in B!Keys
    PROVE  /\ B!Content(b) \in F!Keys
           /\ b \in Id /\ b = Rev[B!Content(b)] /\ B!Content(b) = Rev[b]
<1> DEFINE q == B!Position(b)
<1>1. /\ q \in 1 .. Len(mDialogMap_B) /\ mDialogMap_B[q].key = b
      /\ B!Content(b) = mDialogMap_B[q].value
    BY FoundBackward
<1>2. /\ n + q \in 1 .. Len(mDialogMap_F)
      /\ mDialogMap_B[q] = Mirror(mDialogMap_F[n + q])
    BY <1>1 DEF Mirrored
<1> DEFINE d == mDialogMap_F[n + q].key
<1>3. b = Rev[d] /\ B!Content(b) = d
    BY <1>1, <1>2 DEF Mirror
<1>4. d \in Id
    BY <1>2 DEF FiledOnce, Owned
<1>5. d \in F!Keys
    BY <1>2, KeyPlaces DEF Holds
<1> QED BY <1>3, <1>4, <1>5, DialogAssumption

\* An id without a dialog: neither direction of its call is filed.
LEMMA NotFiled ==
    ASSUME Tables, FiledOnce, last # Untimely, Excess = 0, Mirrored(0),
           NEW d \in Id, ~QueryDialogTab(d)
    PROVE  d \notin F!Keys /\ Rev[d] \notin F!Keys
<1>1. d \notin B!Keys
  <2> SUFFICES ASSUME d \in B!Keys PROVE FALSE
      OBVIOUS
  <2>1. B!Content(d) \in F!Keys
      BY BackwardLeads
  <2> QED BY <2>1 DEF QueryDialogTab, Target
<1>2. d \notin F!Keys
    BY <1>1 DEF QueryDialogTab, Target
<1>3. Rev[d] \notin F!Keys
  <2> SUFFICES ASSUME Rev[d] \in F!Keys PROVE FALSE
      OBVIOUS
  <2>1. PICK i \in 1 .. Len(mDialogMap_F) : mDialogMap_F[i].key = Rev[d]
      BY KeyPlaces DEF Holds
  <2>2. i \in 1 .. Len(mDialogMap_B) /\ 0 + i = i
      BY KeyPlaces DEF Excess
  <2>3. mDialogMap_B[i] = Mirror(mDialogMap_F[i])
      BY <2>2 DEF Mirrored
  <2>4. mDialogMap_B[i].key = d
      BY <2>1, <2>3, DialogAssumption DEF Mirror
  <2> QED BY <1>1, <2>2, <2>4, KeyPlaces DEF Holds
<1> QED BY <1>2, <1>3

\* The first half of InsertDialogTab, for a message of a call that is not
\* filed.
LEMMA InsertForwardKeeps ==
    ASSUME Invariants, NEW m \in FromWire \union FromTask, InsertForward(m),
           pc \in {"idle", "received"}, ~QueryDialogTab(Searched(m)), age' = age
    PROVE  Invariants' /\ KeepsLive
<1> DEFINE v == [B |-> Rev[m.did], addr |-> m.from]
           r == Inserted(m.dialogid, v)
           n == Len(mDialogMap_F)
<1>1. /\ F!push(m.dialogid, v) /\ pc' = "insert" /\ msg' = m
      /\ mDialogMap_B' = mDialogMap_B /\ policy' = policy
      /\ IF m.dialogid = m.did THEN Says(m.did, m.from) ELSE last' = Untimely
    BY DEF InsertForward
<1>2. /\ m.did \in Id /\ m.dialogid \in Key /\ m.from \in Task \union {NoTask}
      /\ Rev[m.did] \in Id /\ Rev[Rev[m.did]] = m.did
    BY Messages
<1>3. Tables /\ Shape /\ policy.maxCount = 0
    BY DEF Invariants, Shape
<1>4. v \in Info
    BY <1>2 DEF Info, Key
<1>5. /\ m.dialogid \in F!Keys => mDialogMap_F' = mDialogMap_F
      /\ m.dialogid \notin F!Keys => mDialogMap_F' = Append(mDialogMap_F, r)
      /\ r \in Entry(Key, Info)
    BY <1>1, <1>2, <1>3, <1>4, PushForward
<1> HIDE DEF v
<1>6. NoYounger(mDialogMap_F, 0) /\ r.age = 0 /\ r.key = m.dialogid
    BY <1>3, EntryFacts DEF NoYounger, Inserted
<1>7. /\ mDialogMap_F' \in Seq(Entry(Key, Info))
      /\ Distinct(mDialogMap_F)' /\ InAge(mDialogMap_F)'
      /\ Kept(mDialogMap_F, mDialogMap_F')
  <2>1. CASE m.dialogid \in F!Keys
      BY <1>3, <1>5, <2>1, KeptSame DEF Tables, Distinct, InAge
  <2>2. CASE m.dialogid \notin F!Keys
    <3>1. ~Holds(mDialogMap_F, r.key)
        BY <1>3, <1>6, <2>2, KeyPlaces
    <3>2. NoYounger(mDialogMap_F, r.age)
        BY <1>6
    <3> HIDE DEF r
    <3> DEFINE l == Append(mDialogMap_F, r)
    <3>3. /\ l \in Seq(Entry(Key, Info)) /\ Distinct(l) /\ InAge(l)
          /\ Kept(mDialogMap_F, l)
        BY <1>3, <1>5, <3>1, <3>2, AddKeeps DEF Tables
    <3>4. mDialogMap_F' = l
        BY <1>5, <2>2
    <3> HIDE DEF l
    <3> QED BY <3>3, <3>4 DEF Distinct, InAge
  <2> QED BY <2>1, <2>2
<1>8. Tables'
    BY <1>1, <1>3, <1>7 DEF Tables, Distinct, InAge
<1>9. KeepsLive
    BY <1>1, <1>7, KeptSame, KeptKeepsLive
<1>10. last' = Untimely \/ last' \in [Id -> Task \union {NoTask}]
    BY <1>1, <1>2, <1>3, SaysFacts
<1>11. Shape'
    BY <1>1, <1>3, <1>7, <1>10, Entries DEF Shape, Places, Tables
<1>12. ReadLast'
    BY <1>1 DEF ReadLast
<1>13. ASSUME last' # Untimely
       PROVE  /\ m.dialogid = m.did /\ last # Untimely
              /\ \A e \in Id : last'[e] = IF e \in Call(m.did) THEN m.from ELSE last[e]
              /\ Excess = 0 /\ Mirrored(0) /\ FiledOnce
              /\ m.did \notin F!Keys /\ Rev[m.did] \notin F!Keys
              /\ mDialogMap_F' = Append(mDialogMap_F, r)
  <2>1. m.dialogid = m.did /\ Says(m.did, m.from)
      BY <1>1, <1>13
  <2>2. /\ last # Untimely
        /\ \A e \in Id : last'[e] = IF e \in Call(m.did) THEN m.from ELSE last[e]
      BY <1>2, <1>3, <1>13, <2>1, SaysFacts
  <2>3. Excess = 0 /\ Mirrored(0) /\ FiledOnce
      BY <2>2 DEF Invariants, InStep, Between
  <2>4. Searched(m) = m.did
      BY <2>1 DEF Searched
  <2>5. m.did \notin F!Keys /\ Rev[m.did] \notin F!Keys
      BY <1>2, <1>3, <2>2, <2>3, <2>4, NotFiled
  <2> QED BY <1>5, <2>1, <2>2, <2>3, <2>5
<1>14. ASSUME last' # Untimely
       PROVE  /\ Len(mDialogMap_F') = n + 1 /\ n \in Nat /\ mDialogMap_F'[n + 1] = r
              /\ \A i \in 1 .. n : mDialogMap_F'[i] = mDialogMap_F[i]
  <2> HIDE DEF r
  <2> QED BY <1>3, <1>5, <1>13, <1>14, Added DEF Tables
<1>15. FiledOnce'
  <2> SUFFICES ASSUME last' # Untimely
               PROVE  /\ \A i \in 1 .. Len(mDialogMap_F') : Owned(mDialogMap_F[i])'
                      /\ \A i, j \in 1 .. Len(mDialogMap_F') :
                            mDialogMap_F'[j].key = Rev[mDialogMap_F'[i].key]
                               => mDialogMap_F'[j].key = mDialogMap_F'[i].key
      BY DEF FiledOnce, Untimely
  <2>1. r.key = m.did /\ r.value.B = Rev[m.did] /\ r.value.addr = m.from
      BY <1>13 DEF Inserted, v
  <2> HIDE DEF r
  <2>2. ASSUME NEW i \in 1 .. n
        PROVE  /\ mDialogMap_F[i].key \in Id
               /\ mDialogMap_F[i].key # m.did /\ mDialogMap_F[i].key # Rev[m.did]
               /\ Owned(mDialogMap_F[i])
    <3>1. Owned(mDialogMap_F[i])
        BY <1>13 DEF FiledOnce
    <3>2. mDialogMap_F[i].key \in F!Keys
        BY <1>3, KeyPlaces DEF Holds
    <3> QED BY <1>13, <3>1, <3>2 DEF Owned
  <2>3. ASSUME NEW i \in 1 .. n + 1 PROVE Owned(mDialogMap_F[i])'
    <3>1. CASE i = n + 1
        BY <1>2, <1>13, <1>14, <2>1, <3>1 DEF Owned, Call
    <3>2. CASE i \in 1 .. n
      <4> DEFINE e == mDialogMap_F[i].key
      <4>1. e \in Id /\ Rev[e] \in Id /\ Rev[Rev[e]] = e
          BY <2>2, <3>2, DialogAssumption
      <4>2. e \notin Call(m.did) /\ Rev[e] \notin Call(m.did)
          BY <1>2, <2>2, <3>2, <4>1 DEF Call
      <4>3. last'[e] = last[e] /\ last'[Rev[e]] = last[Rev[e]]
          BY <1>13, <4>1, <4>2
      <4> QED BY <1>14, <2>2, <3>2, <4>3 DEF Owned
    <3> QED BY <1>14, <3>1, <3>2
  <2>4. ASSUME NEW i \in 1 .. n + 1, NEW j \in 1 .. n + 1,
               mDialogMap_F'[j].key = Rev[mDialogMap_F'[i].key]
        PROVE  mDialogMap_F'[j].key = mDialogMap_F'[i].key
    <3>1. CASE i \in 1 .. n /\ j \in 1 .. n
        BY <1>13, <1>14, <2>4, <3>1 DEF FiledOnce
    <3>2. CASE i = n + 1 /\ j \in 1 .. n
        BY <1>14, <2>1, <2>2, <2>4, <3>2
    <3>3. CASE i \in 1 .. n /\ j = n + 1
      <4>1. m.did = Rev[mDialogMap_F[i].key] /\ mDialogMap_F[i].key \in Id
          BY <1>14, <2>1, <2>2, <2>4, <3>3
      <4>2. Rev[m.did] = mDialogMap_F[i].key
          BY <4>1, DialogAssumption
      <4> QED BY <2>2, <3>3, <4>2
    <3>4. CASE i = n + 1 /\ j = n + 1
        BY <3>4
    <3> QED BY <1>14, <3>1, <3>2, <3>3, <3>4
  <2> QED BY <1>14, <2>3, <2>4
<1>16. InStep'
  <2> SUFFICES ASSUME last' # Untimely PROVE Between' /\ Inserting' /\ Cleaning'
      BY DEF InStep, Untimely
  <2>1. r.key = m.did /\ r.age = 0
      BY <1>13 DEF Inserted
  <2> HIDE DEF r
  <2>2. Excess' = 1
      BY <1>1, <1>13, <1>14, <1>3, KeyPlaces DEF Excess
  <2>3. Mirrored(0)'
    <3> SUFFICES ASSUME NEW j \in 1 .. Len(mDialogMap_B)
                 PROVE  /\ 0 + j \in 1 .. Len(mDialogMap_F')
                        /\ mDialogMap_B[j] = Mirror(mDialogMap_F'[0 + j])
        BY <1>1 DEF Mirrored, Mirror
    <3>1. 0 + j \in 1 .. n /\ mDialogMap_B[j] = Mirror(mDialogMap_F[0 + j])
        BY <1>13 DEF Mirrored
    <3> QED BY <1>14, <3>1
  <2> QED BY <1>1, <1>13, <1>14, <2>1, <2>2, <2>3 DEF Between, Inserting, Cleaning
<1> QED BY <1>8, <1>9, <1>11, <1>12, <1>15, <1>16 DEF Invariants

\* A message of the wire opens a dialog.
LEMMA WireOpensStep ==
    ASSUME Invariants, WireOpens PROVE Invariants' /\ KeepsLive
<1>1. /\ InsertForward(msg) /\ age' = age /\ pc = "received"
      /\ ~QueryDialogTab(msg.dialogid)
    BY DEF WireOpens, WireOutside
<1>2. msg \in FromWire
    BY <1>1 DEF Invariants, Shape
<1>3. Searched(msg) = msg.dialogid
    BY <1>2, Messages, DialogAssumption DEF Searched
<1> QED BY <1>1, <1>2, <1>3, InsertForwardKeeps

\* A message of a task opens a dialog.
LEMMA TaskOpensStep ==
    ASSUME Invariants, NEW m \in FromTask, TaskOpens(m)
    PROVE  Invariants' /\ KeepsLive
BY InsertForwardKeeps DEF TaskOpens

\* The second half: the other direction leads to the dialog.
LEMMA InsertBackwardStep ==
    ASSUME Invariants, InsertBackward PROVE Invariants' /\ KeepsLive
<1> DEFINE k == Rev[msg.did]
           r == Inserted(k, msg.dialogid)
           n == Len(mDialogMap_B)
<1>1. /\ B!push(k, msg.dialogid) /\ pc = "insert" /\ pc' = "idle"
      /\ msg' = NoMsg /\ age' = 0
      /\ mDialogMap_F' = mDialogMap_F /\ UNCHANGED <<policy, last>>
    BY DEF InsertBackward, Return
<1>2. /\ msg.did \in Id /\ msg.dialogid \in Key /\ k \in Id /\ k \in Key
      /\ Rev[k] = msg.did
    BY <1>1, Messages DEF Invariants, Shape, Key
<1>3. Tables /\ Shape /\ policy.maxCount = 0
    BY DEF Invariants, Shape
<1>4. /\ k \in B!Keys => mDialogMap_B' = mDialogMap_B
      /\ k \notin B!Keys => mDialogMap_B' = Append(mDialogMap_B, r)
      /\ r \in Entry(Key, Key)
    BY <1>1, <1>2, <1>3, PushBackward
<1>5. NoYounger(mDialogMap_B, r.age) /\ r.key = k
    BY <1>3, EntryFacts DEF NoYounger, Inserted
<1>6. /\ mDialogMap_B' \in Seq(Entry(Key, Key))
      /\ Distinct(mDialogMap_B)' /\ InAge(mDialogMap_B)'
      /\ Kept(mDialogMap_B, mDialogMap_B')
  <2>1. CASE k \in B!Keys
      BY <1>3, <1>4, <2>1, KeptSame DEF Tables, Distinct, InAge
  <2>2. CASE k \notin B!Keys
    <3>1. ~Holds(mDialogMap_B, r.key)
        BY <1>3, <1>5, <2>2, KeyPlaces
    <3> HIDE DEF r
    <3> DEFINE l == Append(mDialogMap_B, r)
    <3>2. /\ l \in Seq(Entry(Key, Key)) /\ Distinct(l) /\ InAge(l)
          /\ Kept(mDialogMap_B, l)
        BY <1>3, <1>4, <1>5, <3>1, AddKeeps DEF Tables
    <3>3. mDialogMap_B' = l
        BY <1>4, <2>2
    <3> HIDE DEF l
    <3> QED BY <3>2, <3>3 DEF Distinct, InAge
  <2> QED BY <2>1, <2>2
<1>7. Tables'
    BY <1>1, <1>3, <1>6 DEF Tables, Distinct, InAge
<1>8. KeepsLive
    BY <1>1, <1>6, KeptSame, KeptKeepsLive
<1>9. Shape'
    BY <1>1, <1>3, <1>6, Entries, MaxAgeFacts DEF Shape, Places
<1>10. ReadLast'
    BY <1>1 DEF ReadLast
<1>11. FiledOnce'
    BY <1>1, StemsSame, FiledStays DEF Invariants
<1>12. InStep'
  <2> SUFFICES ASSUME last # Untimely PROVE Between' /\ Inserting' /\ Cleaning'
      BY <1>1 DEF InStep, Untimely
  <2> DEFINE f == mDialogMap_F[Len(mDialogMap_F)]
  <2>1. /\ Excess = 1 /\ Mirrored(0) /\ FiledOnce /\ msg.dialogid = msg.did
        /\ f.key = msg.did /\ f.age = 0
      BY <1>1 DEF Invariants, InStep, Inserting
  <2>2. n \in Nat /\ Len(mDialogMap_F) \in Nat /\ Len(mDialogMap_F) = n + 1
      BY <1>3, <2>1, KeyPlaces DEF Excess
  <2>3. k \notin B!Keys
    <3> SUFFICES ASSUME k \in B!Keys PROVE FALSE
        OBVIOUS
    <3>1. PICK i \in 1 .. n : mDialogMap_B[i].key = k
        BY <1>3, KeyPlaces DEF Holds
    <3>2. 0 + i \in 1 .. Len(mDialogMap_F) /\ mDialogMap_B[i] = Mirror(mDialogMap_F[0 + i])
        BY <3>1, <2>1 DEF Mirrored
    <3>3. i \in 1 .. Len(mDialogMap_F) /\ k = Rev[mDialogMap_F[i].key]
        BY <3>1, <3>2 DEF Mirror
    <3>4. mDialogMap_F[i].key \in Id
        BY <2>1, <3>3 DEF FiledOnce, Owned
    <3>5. mDialogMap_F[i].key = msg.did
        BY <1>2, <3>3, <3>4, DialogAssumption
    <3>6. i = Len(mDialogMap_F)
        BY <1>3, <2>1, <2>2, <3>3, <3>5 DEF Tables, Distinct
    <3> QED BY <2>2, <3>1, <3>6
  <2>4. /\ Len(mDialogMap_B') = n + 1 /\ mDialogMap_B'[n + 1] = r
        /\ \A i \in 1 .. n : mDialogMap_B'[i] = mDialogMap_B[i]
    <3> HIDE DEF r
    <3> QED BY <1>3, <1>4, <2>3, Added DEF Tables
  <2>5. Excess' = 0
      BY <1>1, <2>2, <2>4 DEF Excess
  <2>6. r = Mirror(f)
      BY <2>1 DEF Inserted, Mirror
  <2>7. Mirrored(0)'
    <3> SUFFICES ASSUME NEW j \in 1 .. n + 1
                 PROVE  /\ 0 + j \in 1 .. n + 1
                        /\ mDialogMap_B'[j] = Mirror(mDialogMap_F[0 + j])
        BY <1>1, <2>2, <2>4 DEF Mirrored, Mirror
    <3>1. 0 + j = j
        OBVIOUS
    <3> HIDE DEF r
    <3>2. CASE j = n + 1
        BY <2>2, <2>4, <2>6, <3>1, <3>2
    <3>3. CASE j \in 1 .. n
        BY <2>1, <2>4, <3>1, <3>3 DEF Mirrored
    <3> QED BY <2>2, <3>1, <3>2, <3>3
  <2> QED BY <1>1, <2>5, <2>7 DEF Between, Inserting, Cleaning
<1> QED BY <1>7, <1>8, <1>9, <1>10, <1>11, <1>12 DEF Invariants

-----------------------------------------------------------------------------
(* A task takes over a dialog.                                             *)

\* The place UpdateDialogAddr writes to.
LEMMA Addressed ==
    ASSUME Tables, NEW k, QueryDialogTab(k)
    PROVE  LET f == IF k \in F!Keys THEN k ELSE B!Content(k) IN
           /\ f \in F!Keys
           /\ F!Position(f) \in 1 .. Len(mDialogMap_F)
           /\ mDialogMap_F[F!Position(f)].key = f
<1> DEFINE f == IF k \in F!Keys THEN k ELSE B!Content(k)
<1>1. f \in F!Keys
    BY DEF QueryDialogTab, Target
<1> HIDE DEF f
<1>2. F!Position(f) \in 1 .. Len(mDialogMap_F) /\ mDialogMap_F[F!Position(f)].key = f
    BY <1>1, FoundForward
<1> QED BY <1>1, <1>2 DEF f

\* The table with another address at one place.
LEMMA AddressSet ==
    ASSUME Tables, NEW p \in 1 .. Len(mDialogMap_F), NEW t \in Task \union {NoTask},
           mDialogMap_F' = [mDialogMap_F EXCEPT ![p].value.addr = t]
    PROVE  /\ mDialogMap_F' \in Seq(Entry(Key, Info))
           /\ Len(mDialogMap_F') = Len(mDialogMap_F)
           /\ \A i \in 1 .. Len(mDialogMap_F) :
                 /\ mDialogMap_F'[i].key = mDialogMap_F[i].key
                 /\ mDialogMap_F'[i].age = mDialogMap_F[i].age
                 /\ mDialogMap_F'[i].value.B = mDialogMap_F[i].value.B
                 /\ i # p => mDialogMap_F'[i] = mDialogMap_F[i]
           /\ mDialogMap_F'[p].value.addr = t
<1> DEFINE r == [mDialogMap_F[p] EXCEPT !.value.addr = t]
<1>1. mDialogMap_F \in Seq(Entry(Key, Info)) /\ mDialogMap_F[p] \in Entry(Key, Info)
    BY DEF Tables
<1>2. mDialogMap_F[p].value \in Info
    BY <1>1 DEF Entry
<1>3. /\ r = [mDialogMap_F[p] EXCEPT !.value = [mDialogMap_F[p].value EXCEPT !.addr = t]]
      /\ [mDialogMap_F[p].value EXCEPT !.addr = t] \in Info
      /\ [mDialogMap_F[p].value EXCEPT !.addr = t].addr = t
      /\ [mDialogMap_F[p].value EXCEPT !.addr = t].B = mDialogMap_F[p].value.B
    BY <1>2 DEF Info
<1>4. /\ r \in Entry(Key, Info)
      /\ r.key = mDialogMap_F[p].key /\ r.age = mDialogMap_F[p].age
      /\ r.value.B = mDialogMap_F[p].value.B /\ r.value.addr = t
    BY <1>1, <1>3 DEF Entry
<1>5. mDialogMap_F' = [mDialogMap_F EXCEPT ![p] = r]
    OBVIOUS
<1> HIDE DEF r
<1> DEFINE S == Entry(Key, Info)
<1>6. mDialogMap_F \in Seq(S) /\ r \in S
    BY <1>1, <1>4
<1> HIDE DEF S
<1>7. /\ mDialogMap_F' \in Seq(S) /\ Len(mDialogMap_F') = Len(mDialogMap_F)
      /\ \A i \in 1 .. Len(mDialogMap_F) :
            mDialogMap_F'[i] = IF i = p THEN r ELSE mDialogMap_F[i]
    BY <1>5, <1>6, ExceptSeq
<1> QED BY <1>4, <1>7 DEF S

\* A message of a task inside a dialog makes it the task's.
LEMMA TaskInDialogStep ==
    ASSUME Invariants, NEW m \in FromTask, TaskInDialog(m)
    PROVE  Invariants' /\ KeepsLive
<1> DEFINE s == Searched(m)
           f == IF s \in F!Keys THEN s ELSE B!Content(s)
           p == F!Position(f)
<1>1. /\ pc = "idle" /\ pc' = "idle" /\ msg' = msg /\ age' = age
      /\ mDialogMap_B' = mDialogMap_B /\ policy' = policy
      /\ QueryDialogTab(s) /\ Says(m.did, m.from)
    BY DEF TaskInDialog, handler
<1>2. \/ mDialogMap_F' = [mDialogMap_F EXCEPT ![p].value.addr = m.from]
      \/ Found(s).addr = m.from /\ mDialogMap_F' = mDialogMap_F
    BY DEF TaskInDialog, UpdateDialogAddr
<1>3. /\ m.did \in Id /\ m.from \in Task \union {NoTask}
      /\ Rev[m.did] \in Id /\ Rev[Rev[m.did]] = m.did
      /\ s \in Call(m.did)
    BY Messages
<1>4. Tables /\ Shape
    BY DEF Invariants
<1>5. /\ f \in F!Keys /\ p \in 1 .. Len(mDialogMap_F)
      /\ mDialogMap_F[p].key = f
    BY <1>1, <1>4, Addressed
<1> HIDE DEF f, p
<1>6. /\ mDialogMap_F' \in Seq(Entry(Key, Info))
      /\ Len(mDialogMap_F') = Len(mDialogMap_F)
      /\ \A i \in 1 .. Len(mDialogMap_F) :
            /\ mDialogMap_F'[i].key = mDialogMap_F[i].key
            /\ mDialogMap_F'[i].age = mDialogMap_F[i].age
            /\ mDialogMap_F'[i].value.B = mDialogMap_F[i].value.B
            /\ i # p => mDialogMap_F'[i] = mDialogMap_F[i]
  <2>1. CASE mDialogMap_F' = mDialogMap_F
      BY <1>4, <2>1 DEF Tables
  <2>2. CASE mDialogMap_F' = [mDialogMap_F EXCEPT ![p].value.addr = m.from]
      BY <1>3, <1>4, <1>5, <2>2, AddressSet
  <2> QED BY <1>2, <2>1, <2>2
<1>7. Tables'
  <2>1. Distinct(mDialogMap_F)'
      BY <1>4, <1>6 DEF Tables, Distinct
  <2>2. InAge(mDialogMap_F)'
      BY <1>4, <1>6 DEF Tables, InAge
  <2> QED BY <1>1, <1>4, <1>6, <2>1, <2>2 DEF Tables, Distinct, InAge
<1>8. KeepsLive
  <2>1. Kept(mDialogMap_F, mDialogMap_F')
      BY <1>6, SameKeys
  <2> QED BY <1>1, <2>1, KeptSame, KeptKeepsLive
<1>9. last' = Untimely \/ last' \in [Id -> Task \union {NoTask}]
    BY <1>1, <1>3, <1>4, SaysFacts
<1>10. Shape'
    BY <1>1, <1>4, <1>6, <1>9, Entries DEF Shape
<1>11. ReadLast'
    BY <1>1 DEF ReadLast
<1>12. ASSUME last' # Untimely
       PROVE  /\ last # Untimely /\ Excess = 0 /\ Mirrored(0) /\ FiledOnce
              /\ \A e \in Id : last'[e] = IF e \in Call(m.did) THEN m.from ELSE last[e]
  <2>1. /\ last # Untimely
        /\ \A e \in Id : last'[e] = IF e \in Call(m.did) THEN m.from ELSE last[e]
      BY <1>1, <1>3, <1>4, <1>12, SaysFacts
  <2> QED BY <1>1, <2>1 DEF Invariants, InStep, Between
<1>13. ASSUME last' # Untimely
       PROVE  /\ f \in Id /\ Call(m.did) = {f, Rev[f]}
              /\ Target(s) = f
  <2>1. CASE s \in B!Keys
    <3>1. B!Content(s) \in F!Keys /\ B!Content(s) = Rev[s] /\ s \in Id
        BY <1>4, <1>12, <1>13, <2>1, BackwardLeads
    <3>2. s \in F!Keys => Rev[s] = s
      <4> SUFFICES ASSUME s \in F!Keys PROVE Rev[s] = s
          OBVIOUS
      <4>1. PICK i \in 1 .. Len(mDialogMap_F) : mDialogMap_F[i].key = s
          BY <1>4, KeyPlaces DEF Holds
      <4>2. PICK j \in 1 .. Len(mDialogMap_F) : mDialogMap_F[j].key = Rev[s]
          BY <1>4, <3>1, KeyPlaces DEF Holds
      <4> QED BY <1>12, <1>13, <4>1, <4>2 DEF FiledOnce
    <3>3. f = Rev[s]
        BY <3>1, <3>2 DEF f
    <3>4. Rev[s] \in Id /\ Rev[Rev[s]] = s
        BY <3>1, DialogAssumption
    <3> HIDE DEF s
    <3>5. Call(m.did) = {s, Rev[s]}
        BY <1>3 DEF Call
    <3> QED BY <2>1, <3>1, <3>3, <3>4, <3>5 DEF Target
  <2>2. CASE s \notin B!Keys
    <3>1. s \in F!Keys /\ f = s /\ Target(s) = s
        BY <1>1, <2>2 DEF QueryDialogTab, Target, f
    <3>2. s \in Id
        BY <1>3 DEF Call
    <3> HIDE DEF s
    <3>3. Call(m.did) = {s, Rev[s]}
        BY <1>3 DEF Call
    <3> QED BY <3>1, <3>2, <3>3
  <2> QED BY <2>1, <2>2
<1>14. ASSUME last' # Untimely PROVE mDialogMap_F'[p].value.addr = m.from
  <2>1. CASE mDialogMap_F' = [mDialogMap_F EXCEPT ![p].value.addr = m.from]
      BY <1>3, <1>4, <1>5, <2>1, AddressSet
  <2>2. CASE Found(s).addr = m.from /\ mDialogMap_F' = mDialogMap_F
    <3>1. Found(s) = F!Content(f)
        BY <1>13, <1>14 DEF Found
    <3>2. F!Content(f) = mDialogMap_F[p].value
        BY <1>4, <1>5, FoundForward DEF p
    <3> QED BY <2>2, <3>1, <3>2
  <2> QED BY <1>2, <2>1, <2>2
<1>15. FiledOnce'
  <2> SUFFICES ASSUME last' # Untimely
               PROVE  /\ \A i \in 1 .. Len(mDialogMap_F) : Owned(mDialogMap_F[i])'
                      /\ \A i, j \in 1 .. Len(mDialogMap_F) :
                            mDialogMap_F'[j].key = Rev[mDialogMap_F'[i].key]
                               => mDialogMap_F'[j].key = mDialogMap_F'[i].key
      BY <1>6 DEF FiledOnce, Untimely
  <2>1. ASSUME NEW i \in 1 .. Len(mDialogMap_F) PROVE Owned(mDialogMap_F[i])'
    <3> DEFINE e == mDialogMap_F[i].key
    <3>1. Owned(mDialogMap_F[i])
        BY <1>12 DEF FiledOnce
    <3>2. e \in Id /\ Rev[e] \in Id /\ Rev[Rev[e]] = e
        BY <3>1, DialogAssumption DEF Owned
    <3>3. mDialogMap_F'[i].key = e /\ mDialogMap_F'[i].value.B = Rev[e]
        BY <1>6, <3>1 DEF Owned
    <3>4. CASE i = p
      <4>1. e \in Call(m.did) /\ Rev[e] \in Call(m.did)
          BY <1>5, <1>13, <3>4
      <4>2. last'[e] = m.from /\ last'[Rev[e]] = m.from
          BY <1>12, <3>2, <4>1
      <4> QED BY <1>14, <3>2, <3>3, <3>4, <4>2 DEF Owned
    <3>5. CASE i # p
      <4>1. e # f
          BY <1>4, <1>5, <3>5 DEF Tables, Distinct
      <4>2. e # Rev[f]
          BY <1>5, <1>12, <4>1 DEF FiledOnce
      <4>3. Rev[e] # f /\ Rev[e] # Rev[f]
          BY <1>13, <3>2, <4>1, <4>2, DialogAssumption
      <4>4. last'[e] = last[e] /\ last'[Rev[e]] = last[Rev[e]]
          BY <1>12, <1>13, <3>2, <4>1, <4>2, <4>3
      <4>5. mDialogMap_F'[i] = mDialogMap_F[i]
          BY <1>6, <3>5
      <4> QED BY <3>1, <4>4, <4>5 DEF Owned
    <3> QED BY <3>4, <3>5
  <2>2. ASSUME NEW i \in 1 .. Len(mDialogMap_F), NEW j \in 1 .. Len(mDialogMap_F),
               mDialogMap_F'[j].key = Rev[mDialogMap_F'[i].key]
        PROVE  mDialogMap_F'[j].key = mDialogMap_F'[i].key
    <3>1. /\ mDialogMap_F'[i].key = mDialogMap_F[i].key
          /\ mDialogMap_F'[j].key = mDialogMap_F[j].key
        BY <1>6
    <3> QED BY <1>12, <2>2, <3>1 DEF FiledOnce
  <2> QED BY <2>1, <2>2
<1>16. InStep'
  <2> SUFFICES ASSUME last' # Untimely PROVE Between' /\ Inserting' /\ Cleaning'
      BY DEF InStep, Untimely
  <2>1. Excess' = 0
      BY <1>1, <1>6, <1>12 DEF Excess
  <2>2. Mirrored(0)'
    <3> SUFFICES ASSUME NEW j \in 1 .. Len(mDialogMap_B)
                 PROVE  /\ 0 + j \in 1 .. Len(mDialogMap_F)
                        /\ mDialogMap_B[j] = Mirror(mDialogMap_F'[0 + j])
        BY <1>1, <1>6 DEF Mirrored, Mirror
    <3>1. /\ 0 + j \in 1 .. Len(mDialogMap_F)
          /\ mDialogMap_B[j] = Mirror(mDialogMap_F[0 + j])
        BY <1>12 DEF Mirrored
    <3>2. /\ mDialogMap_F'[0 + j].key = mDialogMap_F[0 + j].key
          /\ mDialogMap_F'[0 + j].age = mDialogMap_F[0 + j].age
        BY <1>6, <3>1
    <3> QED BY <3>1, <3>2 DEF Mirror
  <2> QED BY <1>1, <2>1, <2>2 DEF Between, Inserting, Cleaning
<1> QED BY <1>7, <1>8, <1>10, <1>11, <1>15, <1>16 DEF Invariants

-----------------------------------------------------------------------------
(* Expired dialogs are cleaned.                                            *)

\* The living time is a number of seconds.
LEMMA LivingTime ==
    ASSUME Shape PROVE policy.living \in Nat
<1>1. policy.living \in Livings
    BY DEF Shape
<1>2. Livings \subseteq 0 .. MaxAge - 1
    BY DialogAssumption
<1>3. policy.living \in 0 .. MaxAge - 1
    BY <1>1, <1>2
<1> QED BY <1>3, MaxAgeFacts

\* A table whose head is fresh is fresh: the head is the oldest.
LEMMA FreshBackward ==
    ASSUME Tables, policy.living \in Nat, ~B!HeadExpired PROVE Fresh(mDialogMap_B)
<1> SUFFICES ASSUME NEW i \in 1 .. Len(mDialogMap_B)
             PROVE  mDialogMap_B[i].age <= policy.living
    BY KeyPlaces DEF Fresh
<1>1. /\ mDialogMap_B # <<>> /\ Len(mDialogMap_B) \in Nat
      /\ 1 \in 1 .. Len(mDialogMap_B) /\ Head(mDialogMap_B) = mDialogMap_B[1]
    BY DEF Tables
<1>2. /\ mDialogMap_B[1].age \in 0 .. MaxAge /\ mDialogMap_B[i].age \in 0 .. MaxAge
    BY <1>1, EntryFacts
<1>3. mDialogMap_B[1].age <= policy.living
    BY <1>1, <1>2, MaxAgeFacts DEF B!HeadExpired, B!Expired
<1>4. i = 1 \/ mDialogMap_B[1].age >= mDialogMap_B[i].age
    BY <1>1 DEF Tables, InAge
<1> QED BY <1>2, <1>3, <1>4, MaxAgeFacts

\* The same for the forward table.
LEMMA FreshForward ==
    ASSUME Tables, policy.living \in Nat, ~F!HeadExpired PROVE Fresh(mDialogMap_F)
<1> SUFFICES ASSUME NEW i \in 1 .. Len(mDialogMap_F)
             PROVE  mDialogMap_F[i].age <= policy.living
    BY KeyPlaces DEF Fresh
<1>1. /\ mDialogMap_F # <<>> /\ Len(mDialogMap_F) \in Nat
      /\ 1 \in 1 .. Len(mDialogMap_F) /\ Head(mDialogMap_F) = mDialogMap_F[1]
    BY DEF Tables
<1>2. /\ mDialogMap_F[1].age \in 0 .. MaxAge /\ mDialogMap_F[i].age \in 0 .. MaxAge
    BY <1>1, EntryFacts
<1>3. mDialogMap_F[1].age <= policy.living
    BY <1>1, <1>2, MaxAgeFacts DEF F!HeadExpired, F!Expired
<1>4. i = 1 \/ mDialogMap_F[1].age >= mDialogMap_F[i].age
    BY <1>1 DEF Tables, InAge
<1> QED BY <1>2, <1>3, <1>4, MaxAgeFacts

\* An expired head is removed.
LEMMA PopBackward ==
    ASSUME Tables, B!pop_front_old
    PROVE  /\ mDialogMap_B # <<>> /\ mDialogMap_B' = Tail(mDialogMap_B)
           /\ 1 \in 1 .. Len(mDialogMap_B) /\ mDialogMap_B[1].age > policy.living
<1>1. /\ mDialogMap_B # <<>> /\ mDialogMap_B' = Tail(mDialogMap_B)
      /\ policy.living < Head(mDialogMap_B).age
    BY DEF B!pop_front_old, B!HeadExpired, B!pop_front, B!Expired
<1>2. 1 \in 1 .. Len(mDialogMap_B) /\ Head(mDialogMap_B) = mDialogMap_B[1]
    BY <1>1 DEF Tables
<1> QED BY <1>1, <1>2

\* The same for the forward table.
LEMMA PopForward ==
    ASSUME Tables, F!pop_front_old
    PROVE  /\ mDialogMap_F # <<>> /\ mDialogMap_F' = Tail(mDialogMap_F)
           /\ 1 \in 1 .. Len(mDialogMap_F) /\ mDialogMap_F[1].age > policy.living
<1>1. /\ mDialogMap_F # <<>> /\ mDialogMap_F' = Tail(mDialogMap_F)
      /\ policy.living < Head(mDialogMap_F).age
    BY DEF F!pop_front_old, F!HeadExpired, F!pop_front, F!Expired
<1>2. 1 \in 1 .. Len(mDialogMap_F) /\ Head(mDialogMap_F) = mDialogMap_F[1]
    BY <1>1 DEF Tables
<1> QED BY <1>1, <1>2

\* One turn of pop_old on the backward table.
LEMMA BackwardTurn ==
    ASSUME Invariants, pc = "cleanB", B!pop_front_old,
           UNCHANGED <<mDialogMap_F, policy, pc, msg, age, last>>
    PROVE  Invariants' /\ KeepsLive
<1> DEFINE n == Len(mDialogMap_B)
<1>1. /\ mDialogMap_B # <<>> /\ mDialogMap_B' = Tail(mDialogMap_B)
      /\ 1 \in 1 .. n /\ mDialogMap_B[1].age > policy.living
      /\ Tables /\ Shape
    BY PopBackward DEF Invariants
<1>2. /\ mDialogMap_B' \in Seq(Entry(Key, Key))
      /\ Distinct(Tail(mDialogMap_B)) /\ InAge(Tail(mDialogMap_B))
      /\ \A i \in 1 .. n : i = 1 \/ Holds(mDialogMap_B', mDialogMap_B[i].key)
    BY <1>1, TakeKeeps DEF Tables
<1>3. Tables'
    BY <1>1, <1>2 DEF Tables, Distinct, InAge
<1>4. KeepsLive
    BY <1>1, <1>2, KeptSame DEF KeepsLive, Kept
<1>5. Shape'
    BY <1>1, <1>2, Entries DEF Shape
<1>6. ReadLast'
    BY DEF ReadLast
<1>7. FiledOnce'
    BY StemsSame, FiledStays DEF Invariants
<1>8. InStep'
  <2> SUFFICES ASSUME last # Untimely PROVE Between' /\ Inserting' /\ Cleaning'
      BY DEF InStep, Untimely
  <2>1. /\ Excess >= 0 /\ Mirrored(Excess)
        /\ \A i \in 1 .. Excess : mDialogMap_F[i].age > policy.living
      BY DEF Invariants, InStep, Cleaning
  <2>2. /\ n \in Nat \ {0} /\ Len(mDialogMap_B') = n - 1 /\ Len(mDialogMap_F) \in Nat
        /\ \A i \in 1 .. n - 1 : mDialogMap_B'[i] = mDialogMap_B[i + 1]
      BY <1>1, Taken DEF Tables
  <2>3. Excess' = Excess + 1 /\ Excess \in Nat
      BY <2>1, <2>2 DEF Excess
  <2>4. ASSUME NEW j \in 1 .. n - 1
        PROVE  /\ (Excess + 1) + j \in 1 .. Len(mDialogMap_F)
               /\ mDialogMap_B'[j] = Mirror(mDialogMap_F[(Excess + 1) + j])
    <3>1. j + 1 \in 1 .. n /\ Excess + (j + 1) = (Excess + 1) + j
        BY <2>2, <2>3
    <3>2. /\ Excess + (j + 1) \in 1 .. Len(mDialogMap_F)
          /\ mDialogMap_B[j + 1] = Mirror(mDialogMap_F[Excess + (j + 1)])
        BY <2>1, <3>1 DEF Mirrored
    <3> QED BY <2>2, <3>1, <3>2
  <2>5. Mirrored(Excess)'
      BY <2>2, <2>3, <2>4 DEF Mirrored, Mirror
  <2>6. mDialogMap_F[Excess + 1].age > policy.living
    <3>1. mDialogMap_B[1] = Mirror(mDialogMap_F[Excess + 1])
        BY <1>1, <2>1 DEF Mirrored
    <3> QED BY <1>1, <3>1 DEF Mirror
  <2>7. \A i \in 1 .. Excess + 1 : mDialogMap_F[i].age > policy.living
      BY <2>1, <2>3, <2>6
  <2> QED BY <2>3, <2>5, <2>7 DEF Between, Inserting, Cleaning
<1> QED BY <1>3, <1>4, <1>5, <1>6, <1>7, <1>8 DEF Invariants

\* The backward table is clean.
LEMMA BackwardDone ==
    ASSUME Invariants, pc = "cleanB", ~B!HeadExpired, pc' = "cleanF",
           UNCHANGED <<mDialogMap_F, mDialogMap_B, policy, msg, age, last>>
    PROVE  Invariants' /\ KeepsLive
<1>1. Tables' /\ FiledOnce' /\ KeepsLive
    BY TablesKept DEF tables
<1>2. Shape'
    BY DEF Invariants, Shape, Places
<1>3. ReadLast'
    BY DEF ReadLast
<1>4. InStep'
  <2> SUFFICES ASSUME last # Untimely PROVE Between' /\ Inserting' /\ Cleaning'
      BY DEF InStep, Untimely
  <2>1. /\ Excess >= 0 /\ Mirrored(Excess)
        /\ \A i \in 1 .. Excess : mDialogMap_F[i].age > policy.living
      BY DEF Invariants, InStep, Cleaning
  <2>2. Fresh(mDialogMap_B)
      BY FreshBackward, LivingTime DEF Invariants
  <2> QED BY <2>1, <2>2 DEF Between, Inserting, Cleaning, Excess, Mirrored, Fresh
<1> QED BY <1>1, <1>2, <1>3, <1>4 DEF Invariants

\* One turn of pop_old on the forward table: what it takes is gone from the
\* backward table already.
LEMMA ForwardTurn ==
    ASSUME Invariants, pc = "cleanF", F!pop_front_old,
           UNCHANGED <<mDialogMap_B, policy, pc, msg, age, last>>
    PROVE  Invariants' /\ KeepsLive
<1> DEFINE n == Len(mDialogMap_F)
<1>1. /\ mDialogMap_F # <<>> /\ mDialogMap_F' = Tail(mDialogMap_F)
      /\ 1 \in 1 .. n /\ mDialogMap_F[1].age > policy.living
      /\ Tables /\ Shape
    BY PopForward DEF Invariants
<1>2. /\ mDialogMap_F' \in Seq(Entry(Key, Info))
      /\ Distinct(Tail(mDialogMap_F)) /\ InAge(Tail(mDialogMap_F))
      /\ \A i \in 1 .. n : i = 1 \/ Holds(mDialogMap_F', mDialogMap_F[i].key)
    BY <1>1, TakeKeeps DEF Tables
<1>3. Tables'
    BY <1>1, <1>2 DEF Tables, Distinct, InAge
<1>4. KeepsLive
    BY <1>1, <1>2, KeptSame DEF KeepsLive, Kept
<1>5. Shape'
    BY <1>1, <1>2, Entries DEF Shape
<1>6. ReadLast'
    BY DEF ReadLast
<1>7. FiledOnce'
  <2>1. Stems(mDialogMap_F', mDialogMap_F)
      BY <1>1, TakeStems DEF Tables
  <2> QED BY <2>1, FiledStays DEF Invariants
<1>8. InStep'
  <2> SUFFICES ASSUME last # Untimely PROVE Between' /\ Inserting' /\ Cleaning'
      BY DEF InStep, Untimely
  <2>1. /\ Excess >= 0 /\ Mirrored(Excess)
        /\ \A i \in 1 .. Excess : mDialogMap_F[i].age > policy.living
        /\ Fresh(mDialogMap_B)
      BY DEF Invariants, InStep, Cleaning
  <2>2. /\ n \in Nat \ {0} /\ Len(mDialogMap_F') = n - 1 /\ Len(mDialogMap_B) \in Nat
        /\ \A i \in 1 .. n - 1 : mDialogMap_F'[i] = mDialogMap_F[i + 1]
      BY <1>1, Taken DEF Tables
  <2>3. Excess # 0
    <3> SUFFICES ASSUME Excess = 0 PROVE FALSE
        OBVIOUS
    <3>1. 1 \in 1 .. Len(mDialogMap_B)
        BY <2>2 DEF Excess
    <3>2. mDialogMap_B[1] = Mirror(mDialogMap_F[1])
        BY <2>1, <3>1 DEF Mirrored
    <3>3. mDialogMap_B[1].age = mDialogMap_F[1].age
        BY <3>2 DEF Mirror
    <3>4. mDialogMap_B[1].age <= policy.living
        BY <1>1, <2>1, <3>1, KeyPlaces DEF Fresh
    <3>5. mDialogMap_F[1].age \in 0 .. MaxAge /\ policy.living \in Nat
        BY <1>1, EntryFacts, LivingTime
    <3> QED BY <1>1, <3>3, <3>4, <3>5, MaxAgeFacts
  <2>4. Excess' = Excess - 1 /\ Excess \in Nat \ {0}
      BY <2>1, <2>2, <2>3 DEF Excess
  <2>5. ASSUME NEW j \in 1 .. Len(mDialogMap_B)
        PROVE  /\ (Excess - 1) + j \in 1 .. n - 1
               /\ mDialogMap_B[j] = Mirror(mDialogMap_F'[(Excess - 1) + j])
    <3>1. Excess + j \in 1 .. n /\ mDialogMap_B[j] = Mirror(mDialogMap_F[Excess + j])
        BY <2>1 DEF Mirrored
    <3>2. /\ (Excess - 1) + j \in 1 .. n - 1
          /\ ((Excess - 1) + j) + 1 = Excess + j
        BY <2>2, <2>4, <3>1
    <3>3. mDialogMap_F'[(Excess - 1) + j] = mDialogMap_F[Excess + j]
        BY <2>2, <3>2
    <3> QED BY <3>1, <3>2, <3>3
  <2>6. Mirrored(Excess)'
      BY <2>2, <2>4, <2>5 DEF Mirrored, Mirror
  <2>7. ASSUME NEW i \in 1 .. Excess - 1 PROVE mDialogMap_F'[i].age > policy.living
    <3>1. i + 1 \in 1 .. Excess /\ i \in 1 .. n - 1
        BY <2>2, <2>4 DEF Excess
    <3> QED BY <2>1, <2>2, <3>1
  <2>8. Fresh(mDialogMap_B)'
      BY <2>1 DEF Fresh
  <2> QED BY <2>4, <2>6, <2>7, <2>8 DEF Between, Inserting, Cleaning
<1> QED BY <1>3, <1>4, <1>5, <1>6, <1>7, <1>8 DEF Invariants

\* The forward table is clean: the tables agree again.
LEMMA ForwardDone ==
    ASSUME Invariants, pc = "cleanF", ~F!HeadExpired, pc' = "idle",
           UNCHANGED <<mDialogMap_F, mDialogMap_B, policy, msg, age, last>>
    PROVE  Invariants' /\ KeepsLive
<1>1. Tables' /\ FiledOnce' /\ KeepsLive
    BY TablesKept DEF tables
<1>2. Shape'
    BY DEF Invariants, Shape, Places
<1>3. ReadLast'
    BY DEF ReadLast
<1>4. InStep'
  <2> SUFFICES ASSUME last # Untimely PROVE Between' /\ Inserting' /\ Cleaning'
      BY DEF InStep, Untimely
  <2>1. /\ Excess >= 0 /\ Mirrored(Excess)
        /\ \A i \in 1 .. Excess : mDialogMap_F[i].age > policy.living
      BY DEF Invariants, InStep, Cleaning
  <2>2. Excess = 0
    <3> SUFFICES ASSUME Excess # 0 PROVE FALSE
        OBVIOUS
    <3>1. /\ Len(mDialogMap_F) \in Nat /\ Len(mDialogMap_B) \in Nat
          /\ DOMAIN mDialogMap_F = 1 .. Len(mDialogMap_F)
        BY KeyPlaces DEF Invariants
    <3>2. 1 \in 1 .. Excess /\ 1 \in 1 .. Len(mDialogMap_F)
        BY <2>1, <3>1 DEF Excess
    <3>3. mDialogMap_F[1].age <= policy.living
        BY <3>1, <3>2, FreshForward, LivingTime DEF Invariants, Fresh
    <3>4. mDialogMap_F[1].age \in 0 .. MaxAge /\ policy.living \in Nat
        BY <3>2, EntryFacts, LivingTime DEF Invariants
    <3> QED BY <2>1, <3>2, <3>3, <3>4, MaxAgeFacts
  <2>3. Mirrored(0)
      BY <2>1, <2>2
  <2> QED BY <2>2, <2>3 DEF Between, Inserting, Cleaning, Excess, Mirrored
<1> QED BY <1>1, <1>2, <1>3, <1>4 DEF Invariants

\* A turn of pop_old on the backward table, or its end.
LEMMA CleanBackwardStep ==
    ASSUME Invariants, CleanBackward PROVE Invariants' /\ KeepsLive
BY BackwardTurn, BackwardDone DEF CleanBackward

\* A turn of pop_old on the forward table, or its end.
LEMMA CleanForwardStep ==
    ASSUME Invariants, CleanForward PROVE Invariants' /\ KeepsLive
BY ForwardTurn, ForwardDone DEF CleanForward

-----------------------------------------------------------------------------
(* A second passes.                                                        *)

Grown(a) == IF a < MaxAge THEN a + 1 ELSE a

\* All ages grow, and stay in order.
LEMMA GrowKeeps ==
    ASSUME NEW K, NEW V, NEW l \in Seq(Entry(K, V)), NEW m,
           m = [i \in DOMAIN l |-> [l[i] EXCEPT !.age = Grown(@)]],
           Distinct(l), InAge(l)
    PROVE  /\ m \in Seq(Entry(K, V)) /\ Len(m) = Len(l)
           /\ \A i \in 1 .. Len(l) : m[i] = Aged(l[i], Grown(l[i].age))
           /\ Distinct(m) /\ InAge(m) /\ Kept(l, m) /\ Stems(m, l)
           /\ \A a \in 0 .. MaxAge : NoYounger(l, a) => NoYounger(m, Grown(a))
<1>1. /\ Len(l) \in Nat /\ DOMAIN l = 1 .. Len(l)
      /\ \A i \in 1 .. Len(l) : l[i] \in Entry(K, V)
    OBVIOUS
<1>2. ASSUME NEW i \in 1 .. Len(l)
      PROVE  /\ m[i] = Aged(l[i], Grown(l[i].age)) /\ m[i] \in Entry(K, V)
             /\ l[i].age \in 0 .. MaxAge
  <2>1. m[i] = [l[i] EXCEPT !.age = Grown(@)]
      BY <1>1
  <2>2. l[i] \in Entry(K, V) /\ l[i].age \in 0 .. MaxAge
      BY <1>1 DEF Entry
  <2>3. Grown(l[i].age) \in 0 .. MaxAge
      BY <2>2, MaxAgeFacts DEF Grown
  <2> QED BY <2>1, <2>2, <2>3 DEF Entry, Aged
<1>3. DOMAIN m = 1 .. Len(l)
    BY <1>1
<1>4. m \in Seq(Entry(K, V)) /\ Len(m) = Len(l)
  <2> DEFINE S == Entry(K, V)
             n == Len(l)
  <2>1. \A i \in 1 .. n : m[i] \in S
      BY <1>2
  <2>2. m = [i \in 1 .. n |-> m[i]]
      BY <1>1
  <2>3. n \in Nat
      BY <1>1
  <2> HIDE DEF S, n
  <2>4. m \in Seq(S) /\ Len(m) = n
      BY <2>1, <2>2, <2>3
  <2> QED BY <2>4 DEF S, n
<1>5. \A i \in 1 .. Len(l) : m[i].key = l[i].key /\ m[i].value = l[i].value
                             /\ m[i].age = Grown(l[i].age)
    BY <1>2 DEF Aged
<1>6. Distinct(m) /\ Kept(l, m)
    BY <1>4, <1>5, SameKeys
<1>7. Stems(m, l)
    BY <1>4, <1>5 DEF Stems
<1>8. \A a, b \in 0 .. MaxAge : a >= b => Grown(a) >= Grown(b)
    BY MaxAgeFacts DEF Grown
<1>9. InAge(m)
  <2> SUFFICES ASSUME NEW i \in 1 .. Len(l), NEW j \in 1 .. Len(l), i < j
               PROVE  m[i].age >= m[j].age
      BY <1>4 DEF InAge
  <2>1. l[i].age >= l[j].age
      BY DEF InAge
  <2>2. Grown(l[i].age) >= Grown(l[j].age)
      BY <1>2, <1>8, <2>1
  <2> QED BY <1>5, <2>2
<1>10. ASSUME NEW a \in 0 .. MaxAge, NoYounger(l, a) PROVE NoYounger(m, Grown(a))
  <2> SUFFICES ASSUME NEW i \in 1 .. Len(l) PROVE m[i].age >= Grown(a)
      BY <1>4 DEF NoYounger
  <2>1. l[i].age >= a
      BY <1>10 DEF NoYounger
  <2>2. Grown(l[i].age) >= Grown(a)
      BY <1>2, <1>8, <2>1
  <2> QED BY <1>5, <2>2
<1> QED BY <1>2, <1>4, <1>6, <1>7, <1>9, <1>10

\* The tables grow old together, and the reading of the clock with them.
LEMMA TickStep ==
    ASSUME Invariants, Tick PROVE Invariants' /\ KeepsLive
<1>1. /\ mDialogMap_F' = [i \in DOMAIN mDialogMap_F |->
                             [mDialogMap_F[i] EXCEPT !.age = Grown(@)]]
      /\ mDialogMap_B' = [i \in DOMAIN mDialogMap_B |->
                             [mDialogMap_B[i] EXCEPT !.age = Grown(@)]]
      /\ age' = IF pc = "received" THEN Grown(age) ELSE age
      /\ last' = IF pc = "idle" THEN last ELSE Untimely
      /\ policy' = policy /\ pc' = pc /\ msg' = msg
    BY DEF Tick, F!Tick, B!Tick, F!Older, B!Older, Grown
<1>2. Tables /\ Shape
    BY DEF Invariants
<1>3. /\ mDialogMap_F' \in Seq(Entry(Key, Info))
      /\ Len(mDialogMap_F') = Len(mDialogMap_F)
      /\ \A i \in 1 .. Len(mDialogMap_F) :
            mDialogMap_F'[i] = Aged(mDialogMap_F[i], Grown(mDialogMap_F[i].age))
      /\ Distinct(mDialogMap_F)' /\ InAge(mDialogMap_F)'
      /\ Kept(mDialogMap_F, mDialogMap_F') /\ Stems(mDialogMap_F', mDialogMap_F)
      /\ \A a \in 0 .. MaxAge :
            NoYounger(mDialogMap_F, a) => NoYounger(mDialogMap_F', Grown(a))
  <2> DEFINE l == mDialogMap_F
             m == mDialogMap_F'
  <2>1. /\ l \in Seq(Entry(Key, Info)) /\ Distinct(l) /\ InAge(l)
        /\ m = [i \in DOMAIN l |-> [l[i] EXCEPT !.age = Grown(@)]]
      BY <1>1, <1>2 DEF Tables
  <2> HIDE DEF l, m
  <2>2. /\ m \in Seq(Entry(Key, Info)) /\ Len(m) = Len(l)
        /\ \A i \in 1 .. Len(l) : m[i] = Aged(l[i], Grown(l[i].age))
        /\ Distinct(m) /\ InAge(m) /\ Kept(l, m) /\ Stems(m, l)
        /\ \A a \in 0 .. MaxAge : NoYounger(l, a) => NoYounger(m, Grown(a))
      BY <2>1, GrowKeeps
  <2> QED BY <2>2 DEF l, m, Distinct, InAge
<1>4. /\ mDialogMap_B' \in Seq(Entry(Key, Key))
      /\ Len(mDialogMap_B') = Len(mDialogMap_B)
      /\ \A i \in 1 .. Len(mDialogMap_B) :
            mDialogMap_B'[i] = Aged(mDialogMap_B[i], Grown(mDialogMap_B[i].age))
      /\ Distinct(mDialogMap_B)' /\ InAge(mDialogMap_B)'
      /\ Kept(mDialogMap_B, mDialogMap_B')
      /\ \A a \in 0 .. MaxAge :
            NoYounger(mDialogMap_B, a) => NoYounger(mDialogMap_B', Grown(a))
  <2> DEFINE l == mDialogMap_B
             m == mDialogMap_B'
  <2>1. /\ l \in Seq(Entry(Key, Key)) /\ Distinct(l) /\ InAge(l)
        /\ m = [i \in DOMAIN l |-> [l[i] EXCEPT !.age = Grown(@)]]
      BY <1>1, <1>2 DEF Tables
  <2> HIDE DEF l, m
  <2>2. /\ m \in Seq(Entry(Key, Key)) /\ Len(m) = Len(l)
        /\ \A i \in 1 .. Len(l) : m[i] = Aged(l[i], Grown(l[i].age))
        /\ Distinct(m) /\ InAge(m) /\ Kept(l, m) /\ Stems(m, l)
        /\ \A a \in 0 .. MaxAge : NoYounger(l, a) => NoYounger(m, Grown(a))
      BY <2>1, GrowKeeps
  <2> QED BY <2>2 DEF l, m, Distinct, InAge
<1>5. Tables'
    BY <1>3, <1>4 DEF Tables
<1>6. KeepsLive
    BY <1>3, <1>4, KeptKeepsLive
<1>7. age \in 0 .. MaxAge /\ Grown(age) \in 0 .. MaxAge
    BY <1>2, MaxAgeFacts DEF Shape, Grown
<1>8. Shape'
    BY <1>1, <1>2, <1>3, <1>4, <1>7, Entries DEF Shape
<1>9. ReadLast'
    BY <1>1, <1>3, <1>4, <1>7 DEF Invariants, ReadLast, NoYounger
<1>10. FiledOnce'
    BY <1>1, <1>3, FiledStays DEF Invariants
<1>11. InStep'
  <2> SUFFICES ASSUME last' # Untimely PROVE Between' /\ Inserting' /\ Cleaning'
      BY DEF InStep, Untimely
  <2>1. pc = "idle" /\ last # Untimely
      BY <1>1
  <2>2. Excess = 0 /\ Mirrored(0)
      BY <2>1 DEF Invariants, InStep, Between
  <2>3. Excess' = 0
      BY <1>3, <1>4, <2>2 DEF Excess
  <2>4. Mirrored(0)'
    <3> SUFFICES ASSUME NEW j \in 1 .. Len(mDialogMap_B)
                 PROVE  /\ 0 + j \in 1 .. Len(mDialogMap_F)
                        /\ mDialogMap_B'[j] = Mirror(mDialogMap_F'[0 + j])
        BY <1>3, <1>4 DEF Mirrored, Mirror
    <3>1. /\ 0 + j \in 1 .. Len(mDialogMap_F)
          /\ mDialogMap_B[j] = Mirror(mDialogMap_F[0 + j])
        BY <2>2 DEF Mirrored
    <3>2. /\ mDialogMap_B'[j] = Aged(mDialogMap_B[j], Grown(mDialogMap_B[j].age))
          /\ mDialogMap_F'[0 + j] = Aged(mDialogMap_F[0 + j], Grown(mDialogMap_F[0 + j].age))
        BY <1>3, <1>4, <3>1
    <3> QED BY <3>1, <3>2 DEF Mirror, Aged
  <2> QED BY <1>1, <2>1, <2>3, <2>4 DEF Between, Inserting, Cleaning
<1> QED BY <1>5, <1>6, <1>8, <1>9, <1>10, <1>11 DEF Invariants

-----------------------------------------------------------------------------
(* The specification.                                                      *)

\* The tables are empty, the adapter waits.
LEMMA InitDialog == Init => Invariants
<1> SUFFICES ASSUME Init PROVE Invariants
    OBVIOUS
<1>1. mDialogMap_F = <<>> /\ mDialogMap_B = <<>> /\ Len(mDialogMap_F) = 0
      /\ Len(mDialogMap_B) = 0
    BY DEF Init
<1>2. Tables
    BY <1>1 DEF Tables, Distinct, InAge
<1>3. Shape
  <2>1. <<>> \in Seq(F!Record) /\ <<>> \in Seq(B!Record)
      OBVIOUS
  <2>2. last \in [Id -> Task \union {NoTask}]
      BY DEF Init
  <2> QED BY <1>1, <2>1, <2>2, MaxAgeFacts DEF Init, Shape, Places
<1>4. ReadLast
    BY DEF Init, ReadLast
<1>5. FiledOnce
    BY <1>1 DEF FiledOnce
<1>6. InStep
    BY <1>1 DEF Init, InStep, Between, Inserting, Cleaning, Excess, Mirrored
<1> QED BY <1>2, <1>3, <1>4, <1>5, <1>6 DEF Invariants

\* Every step keeps the invariant, and every record that has not expired.
LEMMA NextDialog ==
    ASSUME Invariants, [Next]_vars PROVE Invariants' /\ KeepsLive
<1>1. CASE \E m \in FromWire : Receive(m)
    BY <1>1, ReceiveStep
<1>2. CASE \E m \in FromTask : TaskInDialog(m) \/ TaskOpens(m)
    BY <1>2, TaskInDialogStep, TaskOpensStep
<1>3. CASE Handle
    BY <1>3, WireInDialogStep, WireForwardStep, WireOpensStep, InsertBackwardStep,
       CleanBackwardStep, CleanForwardStep DEF Handle
<1>4. CASE onTimeOut
    BY <1>4, TimeOutStep
<1>5. CASE \E n \in Livings : reloadTaskEnv(n)
    BY <1>5, ReloadStep
<1>6. CASE Tick
    BY <1>6, TickStep
<1>7. CASE UNCHANGED vars
    BY <1>7, NothingStep
<1> QED BY <1>1, <1>2, <1>3, <1>4, <1>5, <1>6, <1>7 DEF Next

\* The tables in the form the proofs use them.
LEMMA SameInvariant == DialogIInv <=> Invariants
BY TablesOfInvariant DEF DialogIInv, Invariants, Shape

\* The inductive invariant of the adapter's thread and of its two tables.
THEOREM DialogInvariant == Spec => []DialogIInv
<1>1. Init => DialogIInv
    BY InitDialog, SameInvariant
<1>2. DialogIInv /\ [Next]_vars => DialogIInv'
  <2> SUFFICES ASSUME DialogIInv, [Next]_vars PROVE DialogIInv'
      OBVIOUS
  <2>1. Invariants'
      BY NextDialog, SameInvariant
  <2>2. NoKeyTwice' /\ OldestFirst'
    <3>1. mDialogMap_F' \in Seq(Entry(Key, Info)) /\ mDialogMap_B' \in Seq(Entry(Key, Key))
        BY <2>1 DEF Invariants, Tables
    <3>2. Ordered(mDialogMap_F') /\ Ordered(mDialogMap_B')
        BY <2>1, <3>1 DEF Invariants, Tables, InAge, Ordered
    <3> QED BY <2>1, <3>2 DEF Invariants, Tables, NoKeyTwice, OldestFirst, Ordered
  <2> QED BY <2>1, <2>2 DEF Invariants, DialogIInv
<1> QED BY <1>1, <1>2, PTL DEF Spec

\* Every variable of the adapter (sipstackpsa.h) and of the table
\* (sipdialogmng.h) has its type.
THEOREM DialogTypes == Spec => []TypeOK
<1>1. DialogIInv => TypeOK
    BY DEF DialogIInv, Shape, TypeOK, Places
<1> QED BY <1>1, DialogInvariant, PTL

\* Both tables are in the order of the last refresh, although refreshing and
\* inserting read the clock at different moments (sipstackpsa.C 289-401,
\* cexpirebuffer.h 458-466).
THEOREM RefreshOrder == Spec => []OldestFirst
<1>1. DialogIInv => OldestFirst
    BY DEF DialogIInv
<1> QED BY <1>1, DialogInvariant, PTL

\* Cleaning leaves no record that had expired, and no step takes one that had
\* not (CleanExpireDialog, sipdialogmng.C 94-98).
THEOREM CleaningExact == Spec => CleanedExactly
<1>1. DialogIInv /\ [Next]_vars => [OnlyExpiredLeave]_vars
  <2> SUFFICES ASSUME DialogIInv, [Next]_vars PROVE OnlyExpiredLeave
      OBVIOUS
  <2>1. Invariants /\ Invariants' /\ KeepsLive
      BY NextDialog, SameInvariant
  <2>2. Tables /\ policy.living \in Nat
      BY <2>1, LivingTime DEF Invariants
  <2>3. pc = "cleanB" /\ pc' = "cleanF" => ~B!HeadExpired
      BY DEF Next, Handle, vars, handler, Receive, TaskInDialog, TaskOpens,
             InsertForward, WireInDialog, WireForward, WireOutside, WireOpens,
             InsertBackward, CleanBackward, CleanForward, onTimeOut,
             reloadTaskEnv, Tick, Return
  <2>4. pc = "cleanF" /\ pc' = "idle" => ~F!HeadExpired
      BY DEF Next, Handle, vars, handler, Receive, TaskInDialog, TaskOpens,
             InsertForward, WireInDialog, WireForward, WireOutside, WireOpens,
             InsertBackward, CleanBackward, CleanForward, onTimeOut,
             reloadTaskEnv, Tick, Return
  <2>5. /\ pc = "cleanB" /\ pc' = "cleanF" => Fresh(mDialogMap_B)
        /\ pc = "cleanF" /\ pc' = "idle" => Fresh(mDialogMap_F)
      BY <2>2, <2>3, <2>4, FreshBackward, FreshForward
  <2>6. /\ DOMAIN mDialogMap_F' = 1 .. Len(mDialogMap_F')
        /\ DOMAIN mDialogMap_B' = 1 .. Len(mDialogMap_B')
      BY <2>1 DEF Invariants, Tables
  <2>7. /\ \A k : Holds(mDialogMap_F', k) => k \in (F!Keys)'
        /\ \A k : Holds(mDialogMap_B', k) => k \in (B!Keys)'
      BY <2>6 DEF Holds, F!Keys, B!Keys
  <2> QED BY <2>1, <2>2, <2>5, <2>7, KeyPlaces DEF KeepsLive, OnlyExpiredLeave
<1> QED BY <1>1, DialogInvariant, PTL DEF Spec, CleanedExactly

\* Unless a handler took a second or a task filed a dialog under another id,
\* the two tables agree between messages (sipdialogmng.C).
THEOREM DialogTablesAgree == Spec => []TablesAgree
<1>1. DialogIInv => TablesAgree
  <2> SUFFICES ASSUME DialogIInv, last # Untimely, pc \in {"idle", "received"}
               PROVE  FoundBothWays /\ \A b \in B!Keys : B!Content(b) \in F!Keys
      BY DEF TablesAgree
  <2>1. Tables /\ FiledOnce /\ Excess = 0 /\ Mirrored(0)
      BY SameInvariant DEF Invariants, InStep, Between
  <2>2. \A b \in B!Keys : B!Content(b) \in F!Keys
      BY <2>1, BackwardLeads
  <2>3. ASSUME NEW d \in F!Keys
        PROVE  Target(d) = d /\ Target(F!Content(d).B) = d
    <3>1. PICK i \in 1 .. Len(mDialogMap_F) : mDialogMap_F[i].key = d
        BY <2>1, KeyPlaces DEF Holds
    <3>2. d \in Id /\ Rev[d] \in Id /\ Rev[Rev[d]] = d
        BY <2>1, <3>1, DialogAssumption DEF FiledOnce, Owned
    <3>3. d \in B!Keys => B!Content(d) = d
      <4> SUFFICES ASSUME d \in B!Keys PROVE B!Content(d) = d
          OBVIOUS
      <4>1. B!Content(d) = Rev[d] /\ Rev[d] \in F!Keys
          BY <2>1, BackwardLeads
      <4>2. PICK j \in 1 .. Len(mDialogMap_F) : mDialogMap_F[j].key = Rev[d]
          BY <2>1, <4>1, KeyPlaces DEF Holds
      <4> QED BY <2>1, <3>1, <4>1, <4>2 DEF FiledOnce
    <3>4. /\ F!Content(d).B \in B!Keys
          /\ F!Content(d).B = Rev[d]
      <4>1. F!Content(d).B \in B!Keys
          BY <2>1, Opposite
      <4>2. F!Content(d) = mDialogMap_F[i].value
          BY <2>1, <3>1, FoundForward DEF Tables, Distinct
      <4> QED BY <2>1, <3>1, <4>1, <4>2 DEF FiledOnce, Owned
    <3>5. B!Content(Rev[d]) = d
        BY <2>1, <3>2, <3>4, BackwardLeads
    <3> QED BY <3>3, <3>4, <3>5 DEF Target
  <2> QED BY <2>2, <2>3 DEF FoundBothWays
<1> QED BY <1>1, DialogInvariant, PTL

\* Unless as above, a message of the wire goes to the task that spoke last in
\* its dialog, in every state of insertion and cleaning (sipstackpsa.C 291-372).
THEOREM LastSpeakerOwns == Spec => []LastTaskOwns
<1>1. DialogIInv => LastTaskOwns
  <2> SUFFICES ASSUME DialogIInv, last # Untimely, NEW d \in Id, QueryDialogTab(d)
               PROVE  Found(d).addr = last[d]
      BY DEF LastTaskOwns
  <2>1. Tables /\ FiledOnce
      BY SameInvariant DEF Invariants
  <2>2. PICK n \in Nat : Mirrored(n)
    <3>1. pc \in {"idle", "received", "insert"} => Mirrored(0)
        BY DEF DialogIInv, InStep, Between, Inserting
    <3>2. pc \in {"cleanB", "cleanF"} => Excess \in Nat /\ Mirrored(Excess)
      <4>1. Len(mDialogMap_F) \in Nat /\ Len(mDialogMap_B) \in Nat
          BY <2>1, KeyPlaces
      <4> QED BY <4>1 DEF DialogIInv, InStep, Cleaning, Excess
    <3>3. pc \in Places
        BY DEF DialogIInv, Shape
    <3> QED BY <3>1, <3>2, <3>3 DEF Places
  <2> DEFINE f == Target(d)
             p == F!Position(f)
  <2>3. /\ p \in 1 .. Len(mDialogMap_F) /\ mDialogMap_F[p].key = f
        /\ Found(d) = mDialogMap_F[p].value
      BY <2>1, FoundForward DEF QueryDialogTab, Found
  <2>4. f \in Id /\ Found(d).addr = last[f] /\ last[Rev[f]] = last[f]
      BY <2>1, <2>3 DEF FiledOnce, Owned
  <2>5. d = f \/ d = Rev[f]
      BY <2>1, <2>2, BackwardLeads DEF Target
  <2> QED BY <2>4, <2>5
<1> QED BY <1>1, DialogInvariant, PTL
=============================================================================
