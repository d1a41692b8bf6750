------------------------- MODULE ExpireBufferProofs -------------------------
(***************************************************************************)
(* Proofs about ExpireBuffer, for every set of keys and values and every   *)
(* limit: the nodes are one ring through m_pTag, whatever the operations.  *)
(***************************************************************************)
EXTENDS ExpireBuffer, FiniteSetTheorems, SequenceTheorems,
        WellFoundedInduction, TLAPS

-----------------------------------------------------------------------------
(* The ring as an order of the keys.                                       *)

\* The node at place i of an order of n keys; m_pTag is at both ends.
At(n, s, i) == IF i \in 1 .. n THEN s[i] ELSE Tag

\* The keys of an order.
Members(n, s) == {s[i] : i \in 1 .. n}

\* No key is twice in the order.
Order(n, s) == /\ n \in Nat
               /\ s \in [1 .. n -> Key]
               /\ \A p, q \in 1 .. n : s[p] = s[q] => p = q

\* The pointers of the buffer follow the order in both directions.
Ring(b, n, s) ==
    /\ Order(n, s)
    /\ b.count = n
    /\ b.head = At(n, s, 1)
    /\ b.tail = At(n, s, n)
    /\ DOMAIN b.value = Members(n, s)
    /\ b.next \in [Members(n, s) \union {Tag} -> Members(n, s) \union {Tag}]
    /\ b.prev \in [Members(n, s) \union {Tag} -> Members(n, s) \union {Tag}]
    /\ \A i \in 0 .. n : b.next[At(n, s, i)] = At(n, s, i + 1)
    /\ \A i \in 0 .. n : b.prev[At(n, s, i + 1)] = At(n, s, i)

\* The order with a key more at its end.
Added(n, s, k) == [i \in 1 .. n + 1 |-> IF i = n + 1 THEN k ELSE s[i]]

\* The order without its place p.
Dropped(n, s, p) == [i \in 1 .. n - 1 |-> IF i < p THEN s[i] ELSE s[i + 1]]

\* The order with the key of place p taken to its end.
Moved(n, s, p) == Added(n - 1, Dropped(n, s, p), s[p])

\* Every place has a node of its own, but for the two ends.
LEMMA AtDistinct ==
    ASSUME NEW n, NEW s, Order(n, s)
    PROVE  /\ \A i, j \in 0 .. n : At(n, s, i) = At(n, s, j) => i = j
           /\ \A i, j \in 1 .. n + 1 : At(n, s, i) = At(n, s, j) => i = j
           /\ At(n, s, 0) = Tag /\ At(n, s, n + 1) = Tag
           /\ \A i \in 1 .. n : At(n, s, i) = s[i] /\ s[i] # Tag
           /\ \A i \in 0 .. n + 1 : At(n, s, i) \in Members(n, s) \union {Tag}
<1>1. n \in Nat /\ s \in [1 .. n -> Key] /\ Tag \notin Key
    BY BufferAssumption DEF Order
<1>2. \A i \in 1 .. n : At(n, s, i) = s[i] /\ s[i] # Tag
    BY <1>1 DEF At
<1>3. At(n, s, 0) = Tag /\ At(n, s, n + 1) = Tag
    BY <1>1 DEF At
<1>4. \A i, j \in 0 .. n : At(n, s, i) = At(n, s, j) => i = j
    BY <1>1 DEF At, Order
<1>5. \A i, j \in 1 .. n + 1 : At(n, s, i) = At(n, s, j) => i = j
    BY <1>1 DEF At, Order
<1>6. \A i \in 0 .. n + 1 : At(n, s, i) \in Members(n, s) \union {Tag}
    BY <1>1 DEF At, Members
<1> QED BY <1>2, <1>3, <1>4, <1>5, <1>6

\* A node of the ring is at some place.
LEMMA PlaceOf ==
    ASSUME NEW n, NEW s, Order(n, s), NEW m \in Members(n, s) \union {Tag}
    PROVE  \E i \in 0 .. n : At(n, s, i) = m
<1>1. CASE m = Tag
    BY <1>1, AtDistinct DEF Order
<1>2. CASE m \in Members(n, s)
  <2>1. PICK i \in 1 .. n : s[i] = m
      BY <1>2 DEF Members
  <2>2. i \in 0 .. n /\ At(n, s, i) = m
      BY <2>1 DEF At, Order
  <2> QED BY <2>2
<1> QED BY <1>1, <1>2

-----------------------------------------------------------------------------
(* A node more, a node less.                                               *)

\* The order grows at its end.
LEMMA AddedOrder ==
    ASSUME NEW n, NEW s, Order(n, s), NEW k \in Key, k \notin Members(n, s)
    PROVE  /\ Order(n + 1, Added(n, s, k))
           /\ Members(n + 1, Added(n, s, k)) = Members(n, s) \union {k}
           /\ \A i \in 0 .. n : At(n + 1, Added(n, s, k), i) = At(n, s, i)
           /\ At(n + 1, Added(n, s, k), n + 1) = k
           /\ At(n + 1, Added(n, s, k), n + 2) = Tag
<1> DEFINE u == Added(n, s, k)
<1>1. n \in Nat /\ s \in [1 .. n -> Key]
    BY DEF Order
<1>2. /\ u \in [1 .. n + 1 -> Key] /\ u[n + 1] = k
      /\ \A i \in 1 .. n : u[i] = s[i]
    BY <1>1 DEF Added
<1>3. \A i \in 1 .. n : s[i] # k
    BY DEF Members
<1>4. \A p, q \in 1 .. n : s[p] = s[q] => p = q
    BY DEF Order
<1> HIDE DEF u
<1>5. Order(n + 1, u)
    BY <1>1, <1>2, <1>3, <1>4 DEF Order
<1>6. Members(n + 1, u) = Members(n, s) \union {k}
  <2>1. \A i \in 1 .. n + 1 : u[i] \in Members(n, s) \union {k}
      BY <1>1, <1>2 DEF Members
  <2>2. \A i \in 1 .. n : \E j \in 1 .. n + 1 : u[j] = s[i]
      BY <1>1, <1>2
  <2>3. \E j \in 1 .. n + 1 : u[j] = k
      BY <1>1, <1>2
  <2> QED BY <2>1, <2>2, <2>3 DEF Members
<1>7. \A i \in 0 .. n : At(n + 1, u, i) = At(n, s, i)
    BY <1>1, <1>2 DEF At
<1>8. At(n + 1, u, n + 1) = k /\ At(n + 1, u, n + 2) = Tag
    BY <1>1, <1>2 DEF At
<1> QED BY <1>5, <1>6, <1>7, <1>8 DEF u

\* The order loses the place p and the later ones move up.
LEMMA DroppedOrder ==
    ASSUME NEW n, NEW s, Order(n, s), NEW p \in 1 .. n
    PROVE  /\ Order(n - 1, Dropped(n, s, p))
           /\ Members(n - 1, Dropped(n, s, p)) = Members(n, s) \ {s[p]}
           /\ \A i \in 0 .. n : At(n - 1, Dropped(n, s, p), i)
                 = IF i < p THEN At(n, s, i) ELSE At(n, s, i + 1)
<1> DEFINE u == Dropped(n, s, p)
<1>1. n \in Nat /\ s \in [1 .. n -> Key] /\ n - 1 \in Nat
    BY DEF Order
<1>2. /\ u \in [1 .. n - 1 -> Key]
      /\ \A i \in 1 .. n - 1 : u[i] = IF i < p THEN s[i] ELSE s[i + 1]
    BY <1>1 DEF Dropped
<1>3. \A i, j \in 1 .. n : s[i] = s[j] => i = j
    BY DEF Order
<1> HIDE DEF u
<1>4. Order(n - 1, u)
    BY <1>1, <1>2, <1>3 DEF Order
<1>5. Members(n - 1, u) = Members(n, s) \ {s[p]}
  <2>1. ASSUME NEW i \in 1 .. n - 1
        PROVE  \E j \in 1 .. n : u[i] = s[j] /\ j # p
    <3>1. CASE i < p
        BY <1>1, <1>2, <3>1
    <3>2. CASE ~(i < p)
      <4>1. i + 1 \in 1 .. n /\ i + 1 # p /\ u[i] = s[i + 1]
          BY <1>1, <1>2, <3>2
      <4> QED BY <4>1
    <3> QED BY <3>1, <3>2
  <2>2. ASSUME NEW j \in 1 .. n, j # p
        PROVE  \E i \in 1 .. n - 1 : u[i] = s[j]
    <3>1. CASE j < p
        BY <1>1, <1>2, <3>1
    <3>2. CASE ~(j < p)
      <4>1. j - 1 \in 1 .. n - 1 /\ ~(j - 1 < p) /\ (j - 1) + 1 = j
          BY <1>1, <2>2, <3>2
      <4> QED BY <4>1, <1>2
    <3> QED BY <3>1, <3>2
  <2>3. \A j \in 1 .. n : s[j] = s[p] => j = p
      BY <1>3
  <2> QED BY <2>1, <2>2, <2>3 DEF Members
<1>6. \A i \in 0 .. n : At(n - 1, u, i)
         = IF i < p THEN At(n, s, i) ELSE At(n, s, i + 1)
    BY <1>1, <1>2 DEF At
<1> QED BY <1>4, <1>5, <1>6 DEF u

\* A new node behind the tail.
LEMMA LinkedRing ==
    ASSUME NEW b, NEW n, NEW s, Ring(b, n, s),
           NEW k \in Key, k \notin Members(n, s), NEW v
    PROVE  Ring(Linked(b, k, v), n + 1, Added(n, s, k))
<1> DEFINE u == Added(n, s, k)
           c == Linked(b, k, v)
           M == Members(n, s) \union {Tag}
<1>1. /\ Order(n + 1, u)
      /\ Members(n + 1, u) = Members(n, s) \union {k}
      /\ \A i \in 0 .. n : At(n + 1, u, i) = At(n, s, i)
      /\ At(n + 1, u, n + 1) = k
      /\ At(n + 1, u, n + 2) = Tag
    BY AddedOrder DEF Ring
<1>2. /\ n \in Nat /\ Order(n, s) /\ b.count = n
      /\ b.head = At(n, s, 1) /\ b.tail = At(n, s, n)
      /\ b.next \in [M -> M] /\ b.prev \in [M -> M]
      /\ DOMAIN b.value = Members(n, s)
      /\ \A i \in 0 .. n : b.next[At(n, s, i)] = At(n, s, i + 1)
      /\ \A i \in 0 .. n : b.prev[At(n, s, i + 1)] = At(n, s, i)
    BY DEF Ring, Order
<1>3. /\ \A i, j \in 0 .. n : At(n, s, i) = At(n, s, j) => i = j
      /\ At(n, s, 0) = Tag /\ At(n, s, n + 1) = Tag
      /\ \A i \in 0 .. n + 1 : At(n, s, i) \in M
      /\ \A i \in 1 .. n : At(n, s, i) # Tag
    BY <1>2, AtDistinct
<1>4. k \notin M
    BY BufferAssumption
<1>5. (IF b.count = 0 THEN Tag ELSE b.tail) = At(n, s, n)
    BY <1>2, <1>3
<1>6. /\ c.next = With([b.next EXCEPT ![At(n, s, n)] = k], k, Tag)
      /\ c.prev = With([b.prev EXCEPT ![Tag] = k], k, At(n, s, n))
      /\ c.head = IF b.count = 0 THEN k ELSE b.head
      /\ c.tail = k /\ c.count = b.count + 1
      /\ DOMAIN c.value = DOMAIN b.value \union {k}
    BY <1>2, <1>5 DEF Linked, With
<1> HIDE DEF u, c, M
<1>7. /\ c.next \in [M \union {k} -> M \union {k}]
      /\ c.prev \in [M \union {k} -> M \union {k}]
      /\ c.next[k] = Tag /\ c.next[At(n, s, n)] = k
      /\ \A m \in M : m # At(n, s, n) => c.next[m] = b.next[m]
      /\ c.prev[k] = At(n, s, n) /\ c.prev[Tag] = k
      /\ \A m \in M : m # Tag => c.prev[m] = b.prev[m]
  <2>1. Tag \in M /\ At(n, s, n) \in M
      BY <1>2, <1>3 DEF M
  <2> QED BY <2>1, <1>2, <1>4, <1>6 DEF With
<1>8. \A i \in 0 .. n + 1 : c.next[At(n + 1, u, i)] = At(n + 1, u, i + 1)
  <2> SUFFICES ASSUME NEW i \in 0 .. n + 1
               PROVE  c.next[At(n + 1, u, i)] = At(n + 1, u, i + 1)
      OBVIOUS
  <2>1. CASE i = n + 1
      BY <2>1, <1>1, <1>2, <1>7
  <2>2. CASE i = n
      BY <2>2, <1>1, <1>2, <1>7
  <2>3. CASE i < n
    <3>1. i \in 0 .. n /\ i + 1 \in 0 .. n /\ At(n, s, i) # At(n, s, n) /\ At(n, s, i) \in M
        BY <2>3, <1>2, <1>3
    <3> QED BY <3>1, <1>1, <1>2, <1>7
  <2> QED BY <2>1, <2>2, <2>3, <1>2
<1>9. \A i \in 0 .. n + 1 : c.prev[At(n + 1, u, i + 1)] = At(n + 1, u, i)
  <2> SUFFICES ASSUME NEW i \in 0 .. n + 1
               PROVE  c.prev[At(n + 1, u, i + 1)] = At(n + 1, u, i)
      OBVIOUS
  <2>1. CASE i = n + 1
      BY <2>1, <1>1, <1>2, <1>7
  <2>2. CASE i = n
      BY <2>2, <1>1, <1>2, <1>7
  <2>3. CASE i < n
    <3>1. i \in 0 .. n /\ i + 1 \in 1 .. n /\ i + 1 \in 0 .. n /\ At(n, s, i + 1) # Tag
          /\ At(n, s, i + 1) \in M
        BY <2>3, <1>2, <1>3
    <3> QED BY <3>1, <1>1, <1>2, <1>7
  <2> QED BY <2>1, <2>2, <2>3, <1>2
<1>10. c.head = At(n + 1, u, 1) /\ c.tail = At(n + 1, u, n + 1)
  <2>1. CASE n = 0
      BY <2>1, <1>1, <1>2, <1>6
  <2>2. CASE n # 0
      BY <2>2, <1>1, <1>2, <1>6
  <2> QED BY <2>1, <2>2
<1>11. Members(n + 1, u) \union {Tag} = M \union {k}
    BY <1>1 DEF M
<1>12. /\ c.count = n + 1 /\ DOMAIN c.value = Members(n + 1, u)
    BY <1>1, <1>2, <1>6
<1>13. Ring(c, n + 1, u)
    BY <1>1, <1>7, <1>8, <1>9, <1>10, <1>11, <1>12 DEF Ring
<1> QED BY <1>13 DEF u, c

\* What the neighbours of the node at place p are.
LEMMA Neighbours ==
    ASSUME NEW b, NEW n, NEW s, Ring(b, n, s), NEW p \in 1 .. n
    PROVE  /\ b.prev[s[p]] = At(n, s, p - 1)
           /\ b.next[s[p]] = At(n, s, p + 1)
           /\ b.prev[s[p]] = Tag <=> p = 1
           /\ b.next[s[p]] = Tag <=> p = n
           /\ b.head = s[p] <=> p = 1
           /\ b.tail = s[p] <=> p = n
<1>1. n \in Nat /\ Order(n, s)
    BY DEF Ring, Order
<1>2. /\ \A i, j \in 0 .. n : At(n, s, i) = At(n, s, j) => i = j
      /\ \A i, j \in 1 .. n + 1 : At(n, s, i) = At(n, s, j) => i = j
      /\ At(n, s, 0) = Tag /\ At(n, s, n + 1) = Tag
      /\ At(n, s, p) = s[p]
    BY <1>1, AtDistinct
<1>3. p \in 0 .. n /\ p - 1 \in 0 .. n /\ (p - 1) + 1 = p /\ 0 \in 0 .. n
      /\ p + 1 \in 1 .. n + 1 /\ n + 1 \in 1 .. n + 1 /\ 1 \in 1 .. n + 1
      /\ n \in 0 .. n
    BY <1>1
<1>4. b.prev[s[p]] = At(n, s, p - 1) /\ b.next[s[p]] = At(n, s, p + 1)
    BY <1>2, <1>3 DEF Ring
<1>5. b.prev[s[p]] = Tag <=> p = 1
    BY <1>1, <1>2, <1>3, <1>4
<1>6. b.next[s[p]] = Tag <=> p = n
    BY <1>1, <1>2, <1>3, <1>4
<1>7. b.head = At(n, s, 1) /\ b.tail = At(n, s, n)
    BY DEF Ring
<1>8. b.head = s[p] <=> p = 1
    BY <1>1, <1>2, <1>3, <1>7
<1>9. b.tail = s[p] <=> p = n
    BY <1>1, <1>2, <1>3, <1>7
<1> QED BY <1>4, <1>5, <1>6, <1>8, <1>9

\* The node at place p is deleted.
LEMMA WithoutKeyRing ==
    ASSUME NEW b, NEW n, NEW s, Ring(b, n, s), NEW p \in 1 .. n
    PROVE  Ring(WithoutKey(b, s[p]), n - 1, Dropped(n, s, p))
<1> DEFINE u == Dropped(n, s, p)
           k == s[p]
           c == WithoutKey(b, k)
           M == Members(n, s) \union {Tag}
           before == b.prev[k]
           after == b.next[k]
<1>1. /\ Order(n - 1, u)
      /\ Members(n - 1, u) = Members(n, s) \ {k}
      /\ \A i \in 0 .. n : At(n - 1, u, i)
            = IF i < p THEN At(n, s, i) ELSE At(n, s, i + 1)
    BY DroppedOrder DEF Ring
<1>2. /\ n \in Nat /\ Order(n, s) /\ b.count = n
      /\ b.head = At(n, s, 1) /\ b.tail = At(n, s, n)
      /\ b.next \in [M -> M] /\ b.prev \in [M -> M]
      /\ DOMAIN b.value = Members(n, s)
      /\ \A i \in 0 .. n : b.next[At(n, s, i)] = At(n, s, i + 1)
      /\ \A i \in 0 .. n : b.prev[At(n, s, i + 1)] = At(n, s, i)
    BY DEF Ring, Order
<1>3. /\ \A i, j \in 0 .. n : At(n, s, i) = At(n, s, j) => i = j
      /\ \A i, j \in 1 .. n + 1 : At(n, s, i) = At(n, s, j) => i = j
      /\ At(n, s, 0) = Tag /\ At(n, s, n + 1) = Tag
      /\ \A i \in 0 .. n + 1 : At(n, s, i) \in M
      /\ At(n, s, p) = k /\ k # Tag
    BY <1>2, AtDistinct
<1>4. /\ before = At(n, s, p - 1) /\ after = At(n, s, p + 1)
      /\ before = Tag <=> p = 1
      /\ after = Tag <=> p = n
    BY Neighbours
<1>5. /\ c.next = [m \in M \ {k} |-> IF m = before THEN after ELSE b.next[m]]
      /\ c.prev = [m \in M \ {k} |-> IF m = after THEN before ELSE b.prev[m]]
      /\ c.head = IF before = Tag THEN after ELSE b.head
      /\ c.tail = IF after = Tag THEN before ELSE b.tail
      /\ c.count = b.count - 1
      /\ DOMAIN c.value = DOMAIN b.value \ {k}
  <2>1. /\ c.next = Without([b.next EXCEPT ![before] = after], k)
        /\ c.prev = Without([b.prev EXCEPT ![after] = before], k)
        /\ c.head = IF before = Tag THEN after ELSE b.head
        /\ c.tail = IF after = Tag THEN before ELSE b.tail
        /\ c.count = b.count - 1
        /\ c.value = Without(b.value, k)
      BY DEF WithoutKey
  <2> HIDE DEF c, before, after, k, M
  <2>2. /\ c.next = [m \in M \ {k} |-> IF m = before THEN after ELSE b.next[m]]
        /\ c.prev = [m \in M \ {k} |-> IF m = after THEN before ELSE b.prev[m]]
      BY <2>1, <1>2 DEF Without, Restrict
  <2>3. DOMAIN c.value = DOMAIN b.value \ {k}
      BY <2>1 DEF Without, Restrict
  <2> QED BY <2>1, <2>2, <2>3
<1> HIDE DEF u, c, M, k, before, after
<1>6. /\ \A i \in 0 .. n : i # p => At(n, s, i) \in M \ {k}
      /\ \A i \in 1 .. n + 1 : i # p => At(n, s, i) \in M \ {k}
    BY <1>2, <1>3
<1>7. /\ before \in M \ {k} /\ after \in M \ {k}
  <2>1. p - 1 \in 0 .. n /\ p - 1 # p /\ p + 1 \in 1 .. n + 1 /\ p + 1 # p
      BY <1>2
  <2> QED BY <2>1, <1>4, <1>6
<1>8. /\ c.next \in [M \ {k} -> M \ {k}] /\ c.prev \in [M \ {k} -> M \ {k}]
  <2>1. ASSUME NEW m \in M \ {k}, m # before
        PROVE  b.next[m] \in M \ {k}
    <3>1. PICK i \in 0 .. n : At(n, s, i) = m
        BY <1>2, PlaceOf DEF M
    <3>2. i # p /\ i # p - 1
        BY <2>1, <3>1, <1>3, <1>4
    <3>3. i + 1 \in 1 .. n + 1 /\ i + 1 # p
        BY <3>2, <1>2
    <3> QED BY <3>1, <3>3, <1>2, <1>6
  <2>2. ASSUME NEW m \in M \ {k}, m # after
        PROVE  b.prev[m] \in M \ {k}
    <3>1. PICK i \in 0 .. n : At(n, s, i + 1) = m
      <4>1. PICK j \in 0 .. n : At(n, s, j) = m
          BY <1>2, PlaceOf DEF M
      <4>2. CASE j = 0
        <5>1. At(n, s, n + 1) = m /\ n \in 0 .. n
            BY <4>1, <4>2, <1>2, <1>3
        <5> QED BY <5>1
      <4>3. CASE j # 0
        <5>1. j - 1 \in 0 .. n /\ (j - 1) + 1 = j
            BY <4>3, <1>2
        <5> QED BY <4>1, <5>1
      <4> QED BY <4>2, <4>3
    <3>2. i # p /\ i + 1 # p
        BY <2>2, <3>1, <1>3, <1>4
    <3>3. b.prev[m] = At(n, s, i)
        BY <3>1, <1>2
    <3> QED BY <3>2, <3>3, <1>6
  <2> QED BY <2>1, <2>2, <1>5, <1>7
<1>9. \A i \in 0 .. n - 1 : c.next[At(n - 1, u, i)] = At(n - 1, u, i + 1)
  <2> SUFFICES ASSUME NEW i \in 0 .. n - 1
               PROVE  c.next[At(n - 1, u, i)] = At(n - 1, u, i + 1)
      OBVIOUS
  <2>0. i \in 0 .. n /\ i + 1 \in 0 .. n
      BY <1>2
  <2>1. CASE i + 1 < p
    <3>1. At(n - 1, u, i) = At(n, s, i) /\ At(n - 1, u, i + 1) = At(n, s, i + 1)
        BY <2>0, <2>1, <1>1
    <3>2. i # p /\ i # p - 1 /\ p - 1 \in 0 .. n
        BY <2>1, <1>2
    <3>3. At(n, s, i) # before /\ At(n, s, i) \in M \ {k}
        BY <2>0, <3>2, <1>3, <1>4, <1>6
    <3> QED BY <2>0, <3>1, <3>3, <1>2, <1>5
  <2>2. CASE i + 1 = p
    <3>1. At(n - 1, u, i) = before
      <4>1. i < p /\ i = p - 1
          BY <2>2, <1>2
      <4> QED BY <2>0, <4>1, <1>1, <1>4
    <3>2. At(n - 1, u, i + 1) = after
      <4>1. ~(i + 1 < p)
          BY <2>2, <1>2
      <4> QED BY <2>0, <4>1, <2>2, <1>1, <1>4
    <3> QED BY <3>1, <3>2, <1>5, <1>7
  <2>3. CASE i + 1 > p
    <3>1. ~(i < p) /\ ~(i + 1 < p)
        BY <2>3, <1>2
    <3>2. At(n - 1, u, i) = At(n, s, i + 1) /\ At(n - 1, u, i + 1) = At(n, s, (i + 1) + 1)
        BY <2>0, <3>1, <1>1
    <3>3. i + 1 # p /\ i + 1 # p - 1 /\ p - 1 \in 0 .. n
        BY <2>3, <1>2
    <3>4. At(n, s, i + 1) # before /\ At(n, s, i + 1) \in M \ {k}
        BY <2>0, <3>3, <1>3, <1>4, <1>6
    <3> QED BY <2>0, <3>2, <3>4, <1>2, <1>5
  <2> QED BY <2>1, <2>2, <2>3, <2>0
<1>10. \A i \in 0 .. n - 1 : c.prev[At(n - 1, u, i + 1)] = At(n - 1, u, i)
  <2> SUFFICES ASSUME NEW i \in 0 .. n - 1
               PROVE  c.prev[At(n - 1, u, i + 1)] = At(n - 1, u, i)
      OBVIOUS
  <2>0. i \in 0 .. n /\ i + 1 \in 0 .. n /\ i + 1 \in 1 .. n + 1
        /\ (i + 1) + 1 \in 1 .. n + 1 /\ p + 1 \in 1 .. n + 1
      BY <1>2
  <2>1. CASE i + 1 < p
    <3>1. At(n - 1, u, i) = At(n, s, i) /\ At(n - 1, u, i + 1) = At(n, s, i + 1)
        BY <2>0, <2>1, <1>1
    <3>2. i + 1 # p /\ i + 1 # p + 1
        BY <2>1, <1>2
    <3>3. At(n, s, i + 1) # after /\ At(n, s, i + 1) \in M \ {k}
        BY <2>0, <3>2, <1>3, <1>4, <1>6
    <3> QED BY <2>0, <3>1, <3>3, <1>2, <1>5
  <2>2. CASE i + 1 = p
    <3>1. At(n - 1, u, i) = before
      <4>1. i < p /\ i = p - 1
          BY <2>2, <1>2
      <4> QED BY <2>0, <4>1, <1>1, <1>4
    <3>2. At(n - 1, u, i + 1) = after
      <4>1. ~(i + 1 < p)
          BY <2>2, <1>2
      <4> QED BY <2>0, <4>1, <2>2, <1>1, <1>4
    <3> QED BY <3>1, <3>2, <1>5, <1>7
  <2>3. CASE i + 1 > p
    <3>1. ~(i < p) /\ ~(i + 1 < p)
        BY <2>3, <1>2
    <3>2. At(n - 1, u, i) = At(n, s, i + 1) /\ At(n - 1, u, i + 1) = At(n, s, (i + 1) + 1)
        BY <2>0, <3>1, <1>1
    <3>3. (i + 1) + 1 # p /\ (i + 1) + 1 # p + 1
        BY <2>3, <1>2
    <3>4. At(n, s, (i + 1) + 1) # after /\ At(n, s, (i + 1) + 1) \in M \ {k}
        BY <2>0, <3>3, <1>3, <1>4, <1>6
    <3> QED BY <2>0, <3>2, <3>4, <1>2, <1>5
  <2> QED BY <2>1, <2>2, <2>3, <2>0
<1>11. c.head = At(n - 1, u, 1) /\ c.tail = At(n - 1, u, n - 1)
  <2>1. c.head = At(n - 1, u, 1)
    <3>0. 1 \in 0 .. n
        BY <1>2
    <3>1. CASE p = 1
      <4>1. At(n - 1, u, 1) = At(n, s, p + 1)
          BY <3>0, <3>1, <1>1
      <4> QED BY <4>1, <3>1, <1>4, <1>5
    <3>2. CASE p # 1
      <4>1. 1 < p
          BY <3>2, <1>2
      <4>2. At(n - 1, u, 1) = At(n, s, 1)
          BY <3>0, <4>1, <1>1
      <4> QED BY <4>2, <3>2, <1>2, <1>4, <1>5
    <3> QED BY <3>1, <3>2
  <2>2. c.tail = At(n - 1, u, n - 1)
    <3>0. n - 1 \in 0 .. n
        BY <1>2
    <3>1. CASE p = n
      <4>1. n - 1 < p
          BY <3>1, <1>2
      <4>2. At(n - 1, u, n - 1) = At(n, s, p - 1)
          BY <3>0, <3>1, <4>1, <1>1
      <4> QED BY <4>2, <3>1, <1>4, <1>5
    <3>2. CASE p # n
      <4>1. ~(n - 1 < p) /\ (n - 1) + 1 = n
          BY <3>2, <1>2
      <4>2. At(n - 1, u, n - 1) = At(n, s, n)
          BY <3>0, <4>1, <1>1
      <4> QED BY <4>2, <3>2, <1>2, <1>4, <1>5
    <3> QED BY <3>1, <3>2
  <2> QED BY <2>1, <2>2
<1>12. Members(n - 1, u) \union {Tag} = M \ {k}
    BY <1>1, <1>3 DEF M
<1>13. c.count = n - 1 /\ DOMAIN c.value = Members(n - 1, u)
    BY <1>1, <1>2, <1>5
<1>14. Ring(c, n - 1, u)
    BY <1>1, <1>8, <1>9, <1>10, <1>11, <1>12, <1>13 DEF Ring
<1> QED BY <1>14 DEF u, c, k

\* The head is the node at place 1, the tail the one at place n: their
\* removals are the removal of a key.
LEMMA EndsAreKeys ==
    ASSUME NEW b, NEW n, NEW s, Ring(b, n, s), n > 0
    PROVE  /\ 1 \in 1 .. n /\ n \in 1 .. n
           /\ b.head = s[1] /\ b.tail = s[n]
           /\ WithoutHead(b) = WithoutKey(b, s[1])
           /\ WithoutTail(b) = WithoutKey(b, s[n])
<1>1. n \in Nat /\ 1 \in 1 .. n /\ n \in 1 .. n /\ b.count = n
    BY DEF Ring, Order
<1>2. b.head = s[1] /\ b.tail = s[n]
    BY <1>1, Neighbours
<1>3. /\ b.prev[s[1]] = Tag
      /\ b.next[s[1]] = Tag <=> b.count = 1
      /\ b.next[s[n]] = Tag
      /\ b.prev[s[n]] = Tag <=> b.count = 1
    BY <1>1, Neighbours
<1>4. WithoutHead(b) = WithoutKey(b, s[1])
  <2>1. (IF b.count = 1 THEN Tag ELSE b.tail)
           = IF b.next[s[1]] = Tag THEN b.prev[s[1]] ELSE b.tail
      BY <1>3
  <2>2. b.next[s[1]] = IF b.prev[s[1]] = Tag THEN b.next[s[1]] ELSE b.head
      BY <1>3
  <2> QED BY <1>2, <1>3, <2>1, <2>2 DEF WithoutHead, WithoutKey
<1>5. WithoutTail(b) = WithoutKey(b, s[n])
  <2>1. (IF b.count = 1 THEN Tag ELSE b.head)
           = IF b.prev[s[n]] = Tag THEN b.next[s[n]] ELSE b.head
      BY <1>3
  <2>2. b.prev[s[n]] = IF b.next[s[n]] = Tag THEN b.prev[s[n]] ELSE b.tail
      BY <1>3
  <2> QED BY <1>2, <1>3, <2>1, <2>2 DEF WithoutTail, WithoutKey
<1> QED BY <1>1, <1>2, <1>4, <1>5

\* The fields of a buffer.
Fields(b) == b = [next |-> b.next, prev |-> b.prev, head |-> b.head,
                  tail |-> b.tail, count |-> b.count, value |-> b.value,
                  age |-> b.age]

\* A ring is a matter of the pointers and of the keys, not of the records.
LEMMA SamePointers ==
    ASSUME NEW b, NEW c, NEW n, NEW s, Ring(b, n, s),
           c.next = b.next, c.prev = b.prev, c.head = b.head, c.tail = b.tail,
           c.count = b.count, DOMAIN c.value = DOMAIN b.value
    PROVE  Ring(c, n, s)
BY DEF Ring

\* Moving a node behind the tail sets the pointers as removing its key and
\* linking it anew would.
LEMMA RefreshedRing ==
    ASSUME NEW b, NEW n, NEW s, Ring(b, n, s), Fields(b), NEW p \in 1 .. n
    PROVE  Ring(Refreshed(b, s[p]), n, Moved(n, s, p))
<1> DEFINE k == s[p]
           c == Refreshed(b, k)
           w == WithoutKey(b, k)
           l == Linked(w, k, b.value[k])
           M == Members(n, s) \union {Tag}
           before == b.prev[k]
           after == b.next[k]
<1>1. CASE p = n
  <2>1. k = b.tail
      BY <1>1, Neighbours
  <2>2. c = b
      BY <2>1 DEF Refreshed
  <2>3. Moved(n, s, p) = s
    <3>1. n \in Nat /\ s \in [1 .. n -> Key] /\ (n - 1) + 1 = n
        BY DEF Ring, Order
    <3>2. \A i \in 1 .. n : Moved(n, s, p)[i] = s[i]
        BY <1>1, <3>1 DEF Moved, Added, Dropped
    <3>3. Moved(n, s, p) = [i \in 1 .. n |-> Moved(n, s, p)[i]]
        BY <3>1 DEF Moved, Added
    <3> QED BY <3>1, <3>2, <3>3
  <2> QED BY <2>2, <2>3
<1>2. CASE p # n
  <2>1. /\ n \in Nat /\ b.count = n /\ Order(n, s)
        /\ b.next \in [M -> M] /\ b.prev \in [M -> M]
        /\ DOMAIN b.value = Members(n, s)
        /\ k \in Members(n, s) /\ k \in Key
      BY DEF Ring, Order, Members
  <2>2. /\ before \in M /\ after \in M /\ b.tail \in M /\ Tag \in M
        /\ before # k /\ after # k /\ b.tail # k /\ k # Tag
        /\ after # Tag
        /\ before = Tag <=> b.head = k
    <3>1. /\ after # Tag /\ b.tail # k
          /\ before = Tag <=> b.head = k
        BY <1>2, Neighbours
    <3>2. before = At(n, s, p - 1) /\ after = At(n, s, p + 1)
        BY Neighbours
    <3>3. /\ \A i, j \in 0 .. n : At(n, s, i) = At(n, s, j) => i = j
          /\ \A i, j \in 1 .. n + 1 : At(n, s, i) = At(n, s, j) => i = j
          /\ At(n, s, p) = k /\ k # Tag
          /\ At(n, s, n) \in M /\ b.tail = At(n, s, n)
        BY <2>1, AtDistinct DEF Ring
    <3>4. /\ p \in 0 .. n /\ p - 1 \in 0 .. n /\ p - 1 # p
          /\ p \in 1 .. n + 1 /\ p + 1 \in 1 .. n + 1 /\ p + 1 # p
        BY <2>1
    <3>5. before # k /\ after # k
        BY <3>2, <3>3, <3>4
    <3>6. before \in M /\ after \in M
        BY <2>1
    <3> QED BY <3>1, <3>3, <3>5, <3>6
  <2>3. /\ w.next = [m \in M \ {k} |-> IF m = before THEN after ELSE b.next[m]]
        /\ w.prev = [m \in M \ {k} |-> IF m = after THEN before ELSE b.prev[m]]
        /\ w.head = IF before = Tag THEN after ELSE b.head
        /\ w.tail = b.tail
        /\ w.count = n - 1
        /\ DOMAIN w.value = Members(n, s) \ {k}
    <3>1. /\ w.next = Without([b.next EXCEPT ![before] = after], k)
          /\ w.prev = Without([b.prev EXCEPT ![after] = before], k)
          /\ w.head = IF before = Tag THEN after ELSE b.head
          /\ w.tail = IF after = Tag THEN before ELSE b.tail
          /\ w.count = b.count - 1
          /\ w.value = Without(b.value, k)
        BY DEF WithoutKey
    <3> HIDE DEF w, before, after, k, M
    <3>2. /\ w.next = [m \in M \ {k} |-> IF m = before THEN after ELSE b.next[m]]
          /\ w.prev = [m \in M \ {k} |-> IF m = after THEN before ELSE b.prev[m]]
        BY <3>1, <2>1 DEF Without, Restrict
    <3>3. DOMAIN w.value = Members(n, s) \ {k}
        BY <3>1, <2>1 DEF Without, Restrict
    <3>4. w.tail = b.tail /\ w.count = n - 1
        BY <3>1, <2>1, <2>2
    <3> QED BY <3>1, <3>2, <3>3, <3>4
  <2>4. /\ l.next = [m \in M |-> IF m = k THEN Tag ELSE IF m = b.tail THEN k
                                 ELSE IF m = before THEN after ELSE b.next[m]]
        /\ l.prev = [m \in M |-> IF m = k THEN b.tail ELSE IF m = Tag THEN k
                                 ELSE IF m = after THEN before ELSE b.prev[m]]
        /\ l.head = w.head /\ l.tail = k /\ l.count = n
        /\ DOMAIN l.value = Members(n, s)
    <3>1. w.count # 0
        BY <1>2, <2>1, <2>3
    <3>2. /\ l.next = With([w.next EXCEPT ![b.tail] = k], k, Tag)
          /\ l.prev = With([w.prev EXCEPT ![Tag] = k], k, b.tail)
          /\ l.head = w.head /\ l.tail = k /\ l.count = w.count + 1
          /\ l.value = With(w.value, k, b.value[k])
      <4> HIDE DEF w
      <4> QED BY <3>1, <2>3 DEF Linked
    <3> HIDE DEF w, l, before, after, k, M
    <3>3. M = (M \ {k}) \union {k}
        BY <2>1 DEF M
    <3>4. l.next = [m \in M |-> IF m = k THEN Tag ELSE IF m = b.tail THEN k
                                ELSE IF m = before THEN after ELSE b.next[m]]
        BY <3>2, <3>3, <2>2, <2>3 DEF With
    <3>5. l.prev = [m \in M |-> IF m = k THEN b.tail ELSE IF m = Tag THEN k
                                ELSE IF m = after THEN before ELSE b.prev[m]]
        BY <3>2, <3>3, <2>2, <2>3 DEF With
    <3>6. DOMAIN l.value = Members(n, s)
        BY <3>2, <2>1, <2>3 DEF With
    <3>7. l.count = n
        BY <3>2, <2>1, <2>3
    <3> QED BY <3>2, <3>4, <3>5, <3>6, <3>7
  <2>5. /\ c.next = [m \in M |-> IF m = k THEN Tag ELSE IF m = b.tail THEN k
                                 ELSE IF m = before THEN after ELSE b.next[m]]
        /\ c.prev = [m \in M |-> IF m = k THEN b.tail ELSE IF m = Tag THEN k
                                 ELSE IF m = after THEN before ELSE b.prev[m]]
        /\ c.head = w.head /\ c.tail = k
        /\ c.count = b.count /\ c.value = b.value
    <3>1. /\ c.next = [b.next EXCEPT ![before] = after, ![b.tail] = k, ![k] = Tag]
          /\ c.prev = [b.prev EXCEPT ![after] = before, ![Tag] = k, ![k] = b.tail]
          /\ c.head = IF k = b.head THEN after ELSE b.head
          /\ c.tail = k /\ c.count = b.count /\ c.value = b.value
      <4>1. b.tail # k
          BY <2>2
      <4>2. c = [b EXCEPT
                   !.next = [b.next EXCEPT ![before] = after, ![b.tail] = k, ![k] = Tag],
                   !.prev = [b.prev EXCEPT ![after] = before, ![Tag] = k, ![k] = b.tail],
                   !.head = IF k = b.head THEN after ELSE b.head,
                   !.tail = k]
          BY <4>1 DEF Refreshed
      <4> HIDE DEF c, before, after, k
      <4> QED BY <4>2 DEF Fields
    <3> HIDE DEF c, w, l, before, after, k, M
    <3>2. k \in M
        BY <2>1 DEF M
    <3>3. c.next = [m \in M |-> IF m = k THEN Tag ELSE IF m = b.tail THEN k
                                ELSE IF m = before THEN after ELSE b.next[m]]
        BY <3>1, <3>2, <2>1, <2>2
    <3>4. c.prev = [m \in M |-> IF m = k THEN b.tail ELSE IF m = Tag THEN k
                                ELSE IF m = after THEN before ELSE b.prev[m]]
        BY <3>1, <3>2, <2>1, <2>2
    <3>5. c.head = w.head
        BY <3>1, <2>2, <2>3
    <3> QED BY <3>1, <3>3, <3>4, <3>5
  <2>6. Ring(w, n - 1, Dropped(n, s, p)) /\ n - 1 \in Nat
      BY <2>1, WithoutKeyRing
  <2>7. k \notin Members(n - 1, Dropped(n, s, p))
      BY DroppedOrder DEF Ring
  <2>8. Ring(l, (n - 1) + 1, Added(n - 1, Dropped(n, s, p), k))
    <3> HIDE DEF w, k
    <3> QED BY <2>1, <2>6, <2>7, LinkedRing
  <2>9. (n - 1) + 1 = n
      BY <2>1
  <2>10. Ring(c, n, Added(n - 1, Dropped(n, s, p), k))
    <3> HIDE DEF c, l, w, k, M, before, after
    <3>1. Ring(l, n, Added(n - 1, Dropped(n, s, p), k))
        BY <2>8, <2>9
    <3> QED BY <3>1, <2>1, <2>4, <2>5, SamePointers
  <2> QED BY <2>10 DEF Moved
<1> QED BY <1>1, <1>2

-----------------------------------------------------------------------------
(* The records.                                                            *)

\* Every key has a value and an age.
Records(b) == /\ Fields(b)
              /\ b.value \in [DOMAIN b.value -> Value]
              /\ b.age \in [DOMAIN b.value -> 0 .. MaxAge]

\* Linking a node adds a record.
LEMMA LinkedRecords ==
    ASSUME NEW b, Records(b), NEW k \in Key, NEW v \in Value
    PROVE  Records(Linked(b, k, v))
<1> DEFINE c == Linked(b, k, v)
<1>1. /\ c.value = With(b.value, k, v) /\ c.age = With(b.age, k, 0)
      /\ Fields(c)
    BY DEF Linked, Fields
<1> HIDE DEF c
<1>2. 0 \in 0 .. MaxAge
    BY BufferAssumption
<1>3. /\ c.value \in [DOMAIN c.value -> Value]
      /\ c.age \in [DOMAIN c.value -> 0 .. MaxAge]
    BY <1>1, <1>2 DEF With, Records
<1> QED BY <1>1, <1>3 DEF Records, c

\* Deleting a key takes its record and no other.
LEMMA WithoutKeyRecords ==
    ASSUME NEW b, Records(b), NEW k
    PROVE  Records(WithoutKey(b, k))
<1> DEFINE c == WithoutKey(b, k)
<1>1. /\ c.value = Without(b.value, k) /\ c.age = Without(b.age, k)
      /\ Fields(c)
    BY DEF WithoutKey, Fields
<1> HIDE DEF c
<1>2. /\ c.value \in [DOMAIN c.value -> Value]
      /\ c.age \in [DOMAIN c.value -> 0 .. MaxAge]
    BY <1>1 DEF Without, Restrict, Records
<1> QED BY <1>1, <1>2 DEF Records, c

\* Moving a node leaves the records as they are.
LEMMA RefreshedRecords ==
    ASSUME NEW b, Records(b), NEW k
    PROVE  Records(Refreshed(b, k)) /\ Refreshed(b, k).count = b.count
<1> DEFINE c == Refreshed(b, k)
<1>1. CASE k = b.tail
    BY <1>1 DEF Refreshed
<1>2. CASE k # b.tail
  <2> DEFINE before == b.prev[k]
             after == b.next[k]
             next == [b.next EXCEPT ![before] = after, ![b.tail] = k, ![k] = Tag]
             prev == [b.prev EXCEPT ![after] = before, ![Tag] = k, ![k] = b.tail]
             head == IF k = b.head THEN after ELSE b.head
  <2>1. c = [b EXCEPT !.next = next, !.prev = prev, !.head = head, !.tail = k]
      BY <1>2 DEF Refreshed
  <2> HIDE DEF c, next, prev, head
  <2>2. c = [next |-> next, prev |-> prev, head |-> head, tail |-> k,
             count |-> b.count, value |-> b.value, age |-> b.age]
      BY <2>1 DEF Records, Fields
  <2>3. Records(c) /\ c.count = b.count
      BY <2>2 DEF Records, Fields
  <2> QED BY <2>3 DEF c
<1> QED BY <1>1, <1>2

-----------------------------------------------------------------------------
(* The inductive invariant.                                                *)

\* The pointers follow some order of the keys, the records are typed and the
\* count is within the limit.
IInv == /\ Records(buffer)
        /\ policy \in [maxCount : MaxCounts, destroyOld : BOOLEAN,
                       living : 0 .. MaxAge - 1]
        /\ Bounded
        /\ \E n, s : Ring(buffer, n, s)

\* The empty ring.
LEMMA InitIInv == Init => IInv
<1> SUFFICES ASSUME Init PROVE IInv
    OBVIOUS
<1>1. /\ buffer.next = [m \in {Tag} |-> Tag] /\ buffer.prev = [m \in {Tag} |-> Tag]
      /\ buffer.head = Tag /\ buffer.tail = Tag /\ buffer.count = 0
      /\ buffer.value = [k \in {} |-> Tag] /\ buffer.age = [k \in {} |-> 0]
      /\ Fields(buffer)
      /\ policy \in [maxCount : MaxCounts, destroyOld : BOOLEAN,
                     living : 0 .. MaxAge - 1]
    BY DEF Init, Fields
<1>2. Records(buffer)
    BY <1>1 DEF Records
<1>3. Bounded
  <2>1. policy.maxCount \in Nat
      BY <1>1, BufferAssumption
  <2> QED BY <1>1, <2>1 DEF Bounded
<1>4. Ring(buffer, 0, [i \in {} |-> Tag])
  <2> DEFINE s == [i \in {} |-> Tag]
  <2>1. /\ Order(0, s) /\ Members(0, s) = {}
        /\ \A i \in 0 .. 1 : At(0, s, i) = Tag
      BY DEF Order, Members, At
  <2> HIDE DEF s
  <2>2. \A i \in 0 .. 0 : /\ buffer.next[At(0, s, i)] = At(0, s, i + 1)
                          /\ buffer.prev[At(0, s, i + 1)] = At(0, s, i)
      BY <1>1, <2>1
  <2>3. Ring(buffer, 0, s)
      BY <1>1, <2>1, <2>2 DEF Ring
  <2> QED BY <2>3 DEF s
<1> QED BY <1>1, <1>2, <1>3, <1>4 DEF IInv

\* A key that has a record is at some place.
LEMMA KeyAtPlace ==
    ASSUME NEW n, NEW s, Ring(buffer, n, s), NEW k \in Keys
    PROVE  \E p \in 1 .. n : s[p] = k
BY DEF Ring, Members, Keys

\* The removal of a node.
LEMMA DeletedKeeps ==
    ASSUME IInv, NEW n, NEW s, Ring(buffer, n, s), NEW p \in 1 .. n,
           buffer' = WithoutKey(buffer, s[p]), policy' = policy
    PROVE  IInv'
<1>1. Records(buffer')
    BY WithoutKeyRecords DEF IInv
<1>2. Ring(buffer', n - 1, Dropped(n, s, p))
    BY WithoutKeyRing
<1>3. buffer.count = n /\ n \in Nat /\ buffer'.count = n - 1
    BY <1>2 DEF Ring, Order
<1>4. Bounded'
  <2>1. policy.maxCount \in Nat
      BY BufferAssumption DEF IInv
  <2> QED BY <2>1, <1>3 DEF IInv, Bounded
<1>5. \E m, u : Ring(buffer', m, u)
    BY <1>2
<1> QED BY <1>1, <1>4, <1>5 DEF IInv

\* The move of a node whose record is written.
LEMMA MovedKeeps ==
    ASSUME IInv, NEW b, Records(b), NEW k \in Keys,
           b.next = buffer.next, b.prev = buffer.prev, b.head = buffer.head,
           b.tail = buffer.tail, b.count = buffer.count, DOMAIN b.value = Keys,
           buffer' = Refreshed(b, k), policy' = policy
    PROVE  IInv'
<1>1. PICK n, s : Ring(buffer, n, s)
    BY DEF IInv
<1>2. PICK p \in 1 .. n : s[p] = k
    BY <1>1, KeyAtPlace
<1>3. Ring(b, n, s)
    BY <1>1, SamePointers DEF Keys
<1>4. Ring(Refreshed(b, s[p]), n, Moved(n, s, p))
    BY <1>3, RefreshedRing DEF Records
<1>5. \E m, u : Ring(buffer', m, u)
    BY <1>2, <1>4
<1>6. Records(buffer') /\ buffer'.count = buffer.count
    BY RefreshedRecords
<1>7. Bounded'
    BY <1>6 DEF IInv, Bounded
<1> QED BY <1>5, <1>6, <1>7 DEF IInv

\* The insertion of a key, with the removal of the head when it is one more
\* than allowed.
LEMMA PushKeeps ==
    ASSUME IInv, NEW k \in Key, NEW v \in Value, push(k, v)
    PROVE  IInv'
<1>1. policy' = policy
    BY DEF push
<1>2. CASE Refused(k)
  <2>1. buffer' = buffer
    <3>1. CASE UNCHANGED buffer
        BY <3>1
    <3>2. CASE ~Refused(k)
        BY <3>2, <1>2
    <3> QED BY <3>1, <3>2 DEF push
  <2> QED BY <1>1, <2>1 DEF IInv, Bounded
<1>3. CASE ~Refused(k)
  <2> DEFINE b == Linked(buffer, k, v)
  <2>1. buffer' = IF Overfull(b) THEN WithoutHead(b) ELSE b
      BY <1>3 DEF push
  <2>2. PICK n, s : Ring(buffer, n, s)
      BY DEF IInv
  <2>3. k \notin Members(n, s)
      BY <1>3, <2>2 DEF Refused, Ring, Keys
  <2> DEFINE u == Added(n, s, k)
  <2>4. Ring(b, n + 1, u)
      BY <2>2, <2>3, LinkedRing
  <2>5. Records(b)
      BY LinkedRecords DEF IInv
  <2> HIDE DEF b, u
  <2>6. n \in Nat /\ buffer.count = n /\ b.count = n + 1
      BY <2>2, <2>4 DEF Ring, Order
  <2>7. policy.maxCount \in Nat /\ (policy.maxCount > 0 => n <= policy.maxCount)
      BY <2>6, BufferAssumption DEF IInv, Bounded
  <2>8. CASE Overfull(b)
    <3>1. n + 1 > 0 /\ (n + 1) - 1 = n
        BY <2>6
    <3>2. 1 \in 1 .. n + 1 /\ WithoutHead(b) = WithoutKey(b, u[1])
        BY <2>4, <3>1, EndsAreKeys
    <3>3. Ring(WithoutKey(b, u[1]), (n + 1) - 1, Dropped(n + 1, u, 1))
        BY <2>4, <3>2, WithoutKeyRing
    <3>4. buffer' = WithoutKey(b, u[1])
        BY <2>1, <2>8, <3>2
    <3>5. Records(buffer')
        BY <2>5, <3>4, WithoutKeyRecords
    <3>6. \E m, w : Ring(buffer', m, w)
        BY <3>3, <3>4
    <3>7. buffer'.count = n
        BY <3>1, <3>3, <3>4 DEF Ring
    <3>8. Bounded'
        BY <1>1, <2>7, <3>7 DEF Bounded
    <3> QED BY <1>1, <3>5, <3>6, <3>8 DEF IInv
  <2>9. CASE ~Overfull(b)
    <3>1. buffer' = b
        BY <2>1, <2>9
    <3>2. Bounded'
        BY <1>1, <2>6, <2>7, <2>9, <3>1 DEF Bounded, Overfull
    <3> QED BY <1>1, <2>4, <2>5, <3>1, <3>2 DEF IInv
  <2> QED BY <2>8, <2>9
<1> QED BY <1>2, <1>3

\* Every operation keeps the invariant.
LEMMA NextIInv == IInv /\ [Next]_vars => IInv'
<1> SUFFICES ASSUME IInv, [Next]_vars PROVE IInv'
    OBVIOUS
<1>0. /\ Records(buffer) /\ Fields(buffer)
      /\ buffer.value \in [Keys -> Value] /\ buffer.age \in [Keys -> 0 .. MaxAge]
      /\ 0 \in 0 .. MaxAge
    BY BufferAssumption DEF IInv, Records, Keys
<1>1. ASSUME Tick PROVE IInv'
  <2>1. /\ policy' = policy
        /\ buffer' = [buffer EXCEPT !.age = [k \in Keys |-> Older(buffer.age[k])]]
      BY <1>1 DEF Tick
  <2>2. \A a \in 0 .. MaxAge : Older(a) \in 0 .. MaxAge
      BY BufferAssumption DEF Older
  <2>3. [k \in Keys |-> Older(buffer.age[k])] \in [Keys -> 0 .. MaxAge]
      BY <1>0, <2>2
  <2> DEFINE ages == [k \in Keys |-> Older(buffer.age[k])]
  <2> HIDE DEF ages
  <2>4. buffer' = [next |-> buffer.next, prev |-> buffer.prev, head |-> buffer.head,
                   tail |-> buffer.tail, count |-> buffer.count,
                   value |-> buffer.value, age |-> ages]
      BY <1>0, <2>1 DEF Fields, ages
  <2>5. Records(buffer')
      BY <1>0, <2>3, <2>4 DEF Records, Fields, Keys, ages
  <2>6. PICK n, s : Ring(buffer, n, s)
      BY DEF IInv
  <2>7. Ring(buffer', n, s)
      BY <2>4, <2>6, SamePointers
  <2>8. Bounded'
      BY <2>1, <2>4 DEF IInv, Bounded
  <2> QED BY <2>1, <2>5, <2>7, <2>8 DEF IInv
<1>2. ASSUME NEW k \in Key, NEW v \in Value, push(k, v) PROVE IInv'
    BY <1>2, PushKeeps
<1>3. ASSUME NEW k \in Key, NEW v \in Value, replace(k, v) PROVE IInv'
  <2> DEFINE b == [buffer EXCEPT !.age[k] = 0, !.value[k] = v]
  <2>1. k \in Keys /\ buffer' = Refreshed(b, k) /\ policy' = policy
      BY <1>3 DEF replace
  <2>2. b = [next |-> buffer.next, prev |-> buffer.prev, head |-> buffer.head,
             tail |-> buffer.tail, count |-> buffer.count,
             value |-> [buffer.value EXCEPT ![k] = v],
             age |-> [buffer.age EXCEPT ![k] = 0]]
    <3> DEFINE a == [buffer EXCEPT !.age[k] = 0]
    <3>1. a = [next |-> buffer.next, prev |-> buffer.prev, head |-> buffer.head,
               tail |-> buffer.tail, count |-> buffer.count,
               value |-> buffer.value, age |-> [buffer.age EXCEPT ![k] = 0]]
        BY <1>0 DEF Fields
    <3>2. b = [a EXCEPT !.value[k] = v]
        OBVIOUS
    <3> HIDE DEF a, b
    <3> QED BY <3>1, <3>2
  <2> HIDE DEF b
  <2>3. Records(b) /\ DOMAIN b.value = Keys
      BY <1>0, <2>2 DEF Records, Fields, Keys
  <2> QED BY <2>1, <2>2, <2>3, MovedKeeps
<1>4. ASSUME NEW k \in Key, NEW a \in 0 .. MaxAge, update(k, a) PROVE IInv'
  <2> DEFINE b == [buffer EXCEPT !.age[k] = a]
  <2>1. k \in Keys /\ buffer' = Refreshed(b, k) /\ policy' = policy
      BY <1>4 DEF update
  <2>2. b = [next |-> buffer.next, prev |-> buffer.prev, head |-> buffer.head,
             tail |-> buffer.tail, count |-> buffer.count,
             value |-> buffer.value,
             age |-> [buffer.age EXCEPT ![k] = a]]
      BY <1>0 DEF Fields
  <2> HIDE DEF b
  <2>3. Records(b) /\ DOMAIN b.value = Keys
      BY <1>0, <2>2 DEF Records, Fields, Keys
  <2> QED BY <2>1, <2>2, <2>3, MovedKeeps
<1>5. PICK n, s : Ring(buffer, n, s)
    BY DEF IInv
<1>6. n \in Nat /\ buffer.count = n
    BY <1>5 DEF Ring, Order
<1>7. ASSUME NEW k \in Key, pop(k) PROVE IInv'
  <2>1. k \in Keys /\ buffer' = WithoutKey(buffer, k) /\ policy' = policy
      BY <1>7 DEF pop
  <2>2. PICK p \in 1 .. n : s[p] = k
      BY <1>5, <2>1, KeyAtPlace
  <2> QED BY <1>5, <2>1, <2>2, DeletedKeeps
<1>8. ASSUME pop_front PROVE IInv'
  <2>1. n > 0 /\ buffer' = WithoutHead(buffer) /\ policy' = policy
      BY <1>6, <1>8 DEF pop_front
  <2>2. 1 \in 1 .. n /\ buffer' = WithoutKey(buffer, s[1])
      BY <1>5, <2>1, EndsAreKeys
  <2> QED BY <1>5, <2>1, <2>2, DeletedKeeps
<1>9. ASSUME pop_back PROVE IInv'
  <2>1. n > 0 /\ buffer' = WithoutTail(buffer) /\ policy' = policy
      BY <1>6, <1>9 DEF pop_back
  <2>2. n \in 1 .. n /\ buffer' = WithoutKey(buffer, s[n])
      BY <1>5, <2>1, EndsAreKeys
  <2> QED BY <1>5, <2>1, <2>2, DeletedKeeps
<1>10. ASSUME pop_front_old PROVE IInv'
    BY <1>8, <1>10 DEF pop_front_old
<1>11. ASSUME NEW a \in 0 .. MaxAge - 1, setLivingTime(a) PROVE IInv'
  <2>1. /\ buffer' = buffer /\ policy' = [policy EXCEPT !.living = a]
      BY <1>11 DEF setLivingTime
  <2>2. /\ policy'.maxCount = policy.maxCount
        /\ policy' \in [maxCount : MaxCounts, destroyOld : BOOLEAN,
                        living : 0 .. MaxAge - 1]
      BY <2>1 DEF IInv
  <2> QED BY <2>1, <2>2 DEF IInv, Bounded
<1>12. CASE UNCHANGED vars
    BY <1>12 DEF vars, IInv, Bounded
<1> QED BY <1>1, <1>2, <1>3, <1>4, <1>7, <1>8, <1>9, <1>10, <1>11, <1>12 DEF Next

\* The invariant in every reachable state: the nodes are one ring through
\* m_pTag, linked in both directions, with the keys of the map as its members.
THEOREM Invariant == Spec => []IInv
<1>1. Init => IInv
    BY InitIInv
<1>2. IInv /\ [Next]_vars => IInv'
    BY NextIInv
<1> QED BY <1>1, <1>2, PTL DEF Spec

\* Every variable has its type: no operation of cexpirebuffer.h leaves a
\* pointer to a node that is deleted, for any number of records.
THEOREM TypeCorrect == Spec => []TypeOK
<1>1. IInv => TypeOK
  <2> SUFFICES ASSUME IInv PROVE TypeOK
      OBVIOUS
  <2>1. PICK n, s : Ring(buffer, n, s)
      BY DEF IInv
  <2>2. Keys = Members(n, s) /\ Order(n, s) /\ n \in Nat /\ Nodes = Members(n, s) \union {Tag}
      BY <2>1 DEF Ring, Order, Keys, Nodes
  <2>3. Keys \subseteq Key
      BY <2>2 DEF Order, Members
  <2>4. buffer.next \in [Nodes -> Nodes] /\ buffer.prev \in [Nodes -> Nodes]
      BY <2>1, <2>2 DEF Ring
  <2>5. buffer.head \in Nodes /\ buffer.tail \in Nodes
    <3>1. 1 \in 0 .. n + 1 /\ n \in 0 .. n + 1
        BY <2>2
    <3>2. At(n, s, 1) \in Nodes /\ At(n, s, n) \in Nodes
        BY <2>2, <3>1, AtDistinct
    <3> QED BY <2>1, <3>2 DEF Ring
  <2>6. buffer.count \in Nat
      BY <2>1, <2>2 DEF Ring
  <2> QED BY <2>3, <2>4, <2>5, <2>6 DEF TypeOK, IInv, Records, Keys
<1> QED BY <1>1, Invariant, PTL

\* The ring is closed both ways, head and tail are the neighbours of m_pTag
\* and the count is that of the map, after any sequence of insertions, moves
\* and removals of any number of records (cexpirebuffer.h).
THEOREM RingStaysLinked == Spec => []RingLinked
<1>1. IInv => RingLinked
  <2> SUFFICES ASSUME IInv PROVE RingLinked
      OBVIOUS
  <2>1. PICK n, s : Ring(buffer, n, s)
      BY DEF IInv
  <2>2. Keys = Members(n, s) /\ Order(n, s) /\ n \in Nat /\ Nodes = Members(n, s) \union {Tag}
      BY <2>1 DEF Ring, Order, Keys, Nodes
  <2>3. /\ At(n, s, 0) = Tag /\ At(n, s, n + 1) = Tag
        /\ \A i \in 0 .. n : /\ buffer.next[At(n, s, i)] = At(n, s, i + 1)
                             /\ buffer.prev[At(n, s, i + 1)] = At(n, s, i)
      BY <2>1, <2>2, AtDistinct DEF Ring
  <2>4. ASSUME NEW m \in Nodes
        PROVE  buffer.prev[buffer.next[m]] = m /\ buffer.next[buffer.prev[m]] = m
    <3>1. PICK i \in 0 .. n : At(n, s, i) = m
        BY <2>2, PlaceOf
    <3>2. buffer.prev[buffer.next[m]] = m
        BY <2>3, <3>1
    <3>3. CASE i = 0
      <4>1. n \in 0 .. n /\ At(n, s, n + 1) = m
          BY <2>2, <2>3, <3>1, <3>3
      <4> QED BY <2>3, <3>2, <4>1
    <3>4. CASE i # 0
      <4>1. i - 1 \in 0 .. n /\ (i - 1) + 1 = i
          BY <2>2, <3>4
      <4> QED BY <2>3, <3>1, <3>2, <4>1
    <3> QED BY <3>2, <3>3, <3>4
  <2>5. buffer.head = buffer.next[Tag]
    <3>1. 0 \in 0 .. n /\ 0 + 1 = 1
        BY <2>2
    <3> QED BY <2>1, <2>3, <3>1 DEF Ring
  <2>6. buffer.tail = buffer.prev[Tag]
    <3>1. n \in 0 .. n
        BY <2>2
    <3> QED BY <2>1, <2>3, <3>1 DEF Ring
  <2>7. buffer.count = Cardinality(Keys)
    <3>1. s \in Bijection(1 .. n, Members(n, s))
        BY <2>2 DEF Order, Members, Bijection, Injection, Surjection, IsInjective
    <3>2. Cardinality(Members(n, s)) = n
        BY <2>2, <3>1, FS_CountingElements DEF ExistsBijection
    <3> QED BY <2>1, <2>2, <3>2 DEF Ring
  <2> QED BY <2>4, <2>5, <2>6, <2>7 DEF RingLinked
<1> QED BY <1>1, Invariant, PTL

\* The buffer never holds more records than its limit allows, whatever the
\* limit (cexpirebuffer.h 123).
THEOREM NeverOverfull == Spec => []Bounded
<1>1. IInv => Bounded
    BY DEF IInv
<1> QED BY <1>1, Invariant, PTL

-----------------------------------------------------------------------------
(* The buffer implements the list: the records along the ring.             *)

\* Induction enters once, as the least counterexample of a set of numbers.
LEMMA Smallest ==
    ASSUME NEW T \in SUBSET Nat, T # {}
    PROVE  \E x \in T : \A y \in T : x <= y
<1> DEFINE R == {ss \in Nat \X Nat : ss[1] < ss[2]}
<1>1. IsWellFoundedOn(R, Nat)
    BY NatLessThanWellFounded DEF OpToRel
<1>2. \A x, y \in Nat : x < y => <<x, y>> \in R
    OBVIOUS
<1> HIDE DEF R
<1>3. PICK x \in T : \A y \in T : <<y, x>> \notin R
    BY <1>1, WFMin
<1>4. \A y \in T : x <= y
  <2> SUFFICES ASSUME NEW y \in T PROVE x <= y
      OBVIOUS
  <2>1. x \in Nat /\ y \in Nat /\ ~(y < x)
      BY <1>2, <1>3
  <2> QED BY <2>1
<1> QED BY <1>4

\* The walk from the head along the pointers next, as Nth takes it, visits the
\* nodes in the order of the ring.
LEMMA WalkIsOrder ==
    ASSUME NEW b, NEW n, NEW s, Ring(b, n, s), NEW f,
           f = CHOOSE g : g = [i \in 1 .. b.count |->
                                 IF i = 1 THEN b.head ELSE b.next[g[i - 1]]]
    PROVE  f = s
<1> DEFINE D(g) == [i \in 1 .. n |-> IF i = 1 THEN b.head ELSE b.next[g[i - 1]]]
<1>1. /\ n \in Nat /\ s \in [1 .. n -> Key] /\ b.count = n
      /\ n > 0 => b.head = s[1]
      /\ \A i \in 1 .. n : i # 1 => s[i] = b.next[s[i - 1]]
  <2>1. /\ n \in Nat /\ s \in [1 .. n -> Key] /\ b.count = n
        /\ b.head = At(n, s, 1)
        /\ \A i \in 0 .. n : b.next[At(n, s, i)] = At(n, s, i + 1)
      BY DEF Ring, Order
  <2>2. n > 0 => b.head = s[1]
      BY <2>1 DEF At
  <2>3. ASSUME NEW i \in 1 .. n, i # 1 PROVE s[i] = b.next[s[i - 1]]
    <3>1. i - 1 \in 0 .. n /\ i - 1 \in 1 .. n /\ (i - 1) + 1 = i
        BY <2>1, <2>3
    <3> QED BY <2>1, <3>1 DEF At
  <2> QED BY <2>1, <2>2, <2>3
<1>2. s = D(s)
    BY <1>1
<1>3. f = CHOOSE g : g = D(g)
    BY <1>1
<1>4. f = D(f)
    BY <1>2, <1>3
<1>5. /\ f = [i \in 1 .. n |-> f[i]]
      /\ \A i \in 1 .. n : f[i] = IF i = 1 THEN b.head ELSE b.next[f[i - 1]]
    BY <1>4
<1> HIDE DEF D
<1> DEFINE T == {i \in 1 .. n : f[i] # s[i]}
<1>6. ASSUME T # {} PROVE FALSE
  <2>1. PICK x \in T : \A y \in T : x <= y
    <3>1. T \in SUBSET Nat
        OBVIOUS
    <3> HIDE DEF T
    <3> QED BY <1>6, <3>1, Smallest
  <2>2. CASE x = 1
      BY <1>1, <1>5, <2>1, <2>2
  <2>3. CASE x # 1
    <3>1. x \in 1 .. n /\ f[x] # s[x]
        BY <2>1
    <3>2. x - 1 \in 1 .. n /\ ~(x <= x - 1)
        BY <1>1, <2>3, <3>1
    <3>3. f[x - 1] = s[x - 1]
        BY <2>1, <3>2
    <3> HIDE DEF T
    <3>4. s[x] = b.next[s[x - 1]]
        BY <1>1, <2>3, <3>1
    <3>5. f[x] = b.next[f[x - 1]]
        BY <1>5, <2>3, <3>1
    <3> QED BY <3>1, <3>3, <3>4, <3>5
  <2> QED BY <2>2, <2>3
<1>7. \A i \in 1 .. n : f[i] = s[i]
    BY <1>6
<1> QED BY <1>1, <1>5, <1>7

\* The record of a node; the list of the records along an order.
RecordOf(b, m) == [key |-> m, value |-> b.value[m], age |-> b.age[m]]
ListOf(b, n, s) == [i \in 1 .. n |-> RecordOf(b, s[i])]

LEMMA ListOfType ==
    ASSUME NEW b, NEW n, NEW s, Ring(b, n, s), Records(b)
    PROVE  /\ n \in Nat
           /\ ListOf(b, n, s) \in Seq(Abstract!Record)
           /\ Len(ListOf(b, n, s)) = n
           /\ DOMAIN ListOf(b, n, s) = 1 .. n
           /\ \A i \in 1 .. n : /\ ListOf(b, n, s)[i] = RecordOf(b, s[i])
                                /\ ListOf(b, n, s)[i].key = s[i]
<1>1. n \in Nat /\ s \in [1 .. n -> Key] /\ DOMAIN b.value = Members(n, s)
    BY DEF Ring, Order
<1>2. ASSUME NEW i \in 1 .. n
      PROVE  /\ RecordOf(b, s[i]) \in Abstract!Record
             /\ RecordOf(b, s[i]).key = s[i]
  <2>1. s[i] \in Key /\ s[i] \in DOMAIN b.value
      BY <1>1 DEF Members
  <2> QED BY <2>1 DEF RecordOf, Records, Abstract!Record
<1> DEFINE l == ListOf(b, n, s)
<1>3. /\ l \in [1 .. n -> Abstract!Record] /\ DOMAIN l = 1 .. n
      /\ \A i \in 1 .. n : l[i] = RecordOf(b, s[i])
    BY <1>2 DEF ListOf
<1> HIDE DEF l
<1>4. l \in Seq(Abstract!Record) /\ Len(l) = n
    BY <1>1, <1>3
<1> QED BY <1>1, <1>2, <1>3, <1>4 DEF l

\* Sequences grow, shrink and move as orders do.
LEMMA AppendIsAdded ==
    ASSUME NEW R, NEW l \in Seq(R), NEW x \in R
    PROVE  Append(l, x) = Added(Len(l), l, x)
<1> DEFINE t == Append(l, x)
<1>1. /\ t \in Seq(R) /\ Len(l) \in Nat /\ Len(t) = Len(l) + 1
      /\ \A i \in 1 .. Len(l) + 1 :
            t[i] = IF i = Len(l) + 1 THEN x ELSE l[i]
    OBVIOUS
<1> HIDE DEF t
<1>2. t = [i \in 1 .. Len(l) + 1 |-> t[i]]
    BY <1>1
<1>3. t = Added(Len(l), l, x)
    BY <1>1, <1>2 DEF Added
<1> QED BY <1>3 DEF t

LEMMA RemoveAtIsDropped ==
    ASSUME NEW R, NEW l \in Seq(R), NEW p \in 1 .. Len(l)
    PROVE  /\ Abstract!RemoveAt(l, p) = Dropped(Len(l), l, p)
           /\ Dropped(Len(l), l, p) \in Seq(R)
           /\ Len(Dropped(Len(l), l, p)) = Len(l) - 1
<1> DEFINE n == Len(l)
           a == SubSeq(l, 1, p - 1)
           z == SubSeq(l, p + 1, n)
           d == Dropped(n, l, p)
<1>1. n \in Nat /\ p \in 1 .. n
    OBVIOUS
<1>2. /\ a \in Seq(R) /\ Len(a) = p - 1
      /\ \A i \in 1 .. p - 1 : a[i] = l[i]
  <2>1. \A i \in 1 .. p - 1 : l[i] \in R
      BY <1>1
  <2> QED BY <1>1, <2>1, SubSeqProperties
<1>3. /\ z \in Seq(R) /\ Len(z) = n - p
      /\ \A i \in 1 .. n - p : z[i] = l[p + i]
  <2>1. \A i \in p + 1 .. n : l[i] \in R
      BY <1>1
  <2> QED BY <1>1, <2>1, SubSeqProperties
<1> DEFINE c == a \o z
<1> HIDE DEF a, z, n
<1>4. /\ c \in Seq(R) /\ Len(c) = Len(a) + Len(z)
      /\ \A i \in 1 .. Len(a) + Len(z) :
            c[i] = IF i <= Len(a) THEN a[i] ELSE z[i - Len(a)]
    BY <1>2, <1>3, ConcatProperties
<1> HIDE DEF c
<1>5. /\ Len(c) = n - 1
      /\ \A i \in 1 .. n - 1 : c[i] = IF i < p THEN l[i] ELSE l[i + 1]
  <2>1. Len(a) + Len(z) = n - 1
      BY <1>1, <1>2, <1>3
  <2>2. ASSUME NEW i \in 1 .. n - 1, i < p PROVE c[i] = l[i]
    <3>1. i <= Len(a) /\ i \in 1 .. p - 1
        BY <1>1, <1>2, <2>2
    <3> QED BY <1>2, <1>4, <2>1, <3>1
  <2>3. ASSUME NEW i \in 1 .. n - 1, ~(i < p) PROVE c[i] = l[i + 1]
    <3>1. /\ ~(i <= Len(a)) /\ i - Len(a) \in 1 .. n - p
          /\ p + (i - Len(a)) = i + 1
        BY <1>1, <1>2, <2>3
    <3> QED BY <1>3, <1>4, <2>1, <3>1
  <2> QED BY <1>4, <2>1, <2>2, <2>3
<1>6. c = [i \in 1 .. n - 1 |-> c[i]]
    BY <1>4, <1>5
<1>7. c = d
    BY <1>5, <1>6 DEF Dropped
<1>8. Abstract!RemoveAt(l, p) = c
    BY DEF Abstract!RemoveAt, a, z, c, n
<1> QED BY <1>4, <1>5, <1>7, <1>8 DEF n

\* The first and the last record leave.
LEMMA EndsAreDropped ==
    ASSUME NEW R, NEW l \in Seq(R), l # <<>>
    PROVE  /\ Tail(l) = Dropped(Len(l), l, 1)
           /\ SubSeq(l, 1, Len(l) - 1) = Dropped(Len(l), l, Len(l))
<1>1. Len(l) \in Nat /\ Len(l) > 0
    BY EmptySeq
<1>2. Tail(l) = Dropped(Len(l), l, 1)
  <2>1. Tail(l) = [i \in 1 .. Len(l) - 1 |-> l[i + 1]]
    <3> DEFINE t == Tail(l)
    <3>1. /\ t \in Seq(R) /\ Len(t) = Len(l) - 1
          /\ \A i \in 1 .. Len(t) : t[i] = l[i + 1]
        BY HeadTailProperties
    <3> HIDE DEF t
    <3>2. t = [i \in 1 .. Len(l) - 1 |-> t[i]]
        BY <3>1
    <3>3. t = [i \in 1 .. Len(l) - 1 |-> l[i + 1]]
        BY <3>1, <3>2
    <3> QED BY <3>3 DEF t
  <2>2. \A i \in 1 .. Len(l) - 1 : ~(i < 1)
      BY <1>1
  <2> QED BY <2>1, <2>2 DEF Dropped
<1>3. SubSeq(l, 1, Len(l) - 1) = Dropped(Len(l), l, Len(l))
  <2>1. SubSeq(l, 1, Len(l) - 1) = [i \in 1 .. Len(l) - 1 |-> l[i]]
      BY <1>1
  <2>2. \A i \in 1 .. Len(l) - 1 : i < Len(l)
      BY <1>1
  <2> QED BY <2>1, <2>2 DEF Dropped
<1> QED BY <1>2, <1>3

\* A node linked behind the tail adds its record at the end.
LEMMA LinkedList ==
    ASSUME NEW b, NEW n, NEW s, Ring(b, n, s), Records(b),
           NEW k \in Key, k \notin Members(n, s), NEW v
    PROVE  ListOf(Linked(b, k, v), n + 1, Added(n, s, k)) =
              Added(n, ListOf(b, n, s), Abstract!New(k, v))
<1> DEFINE c == Linked(b, k, v)
           u == Added(n, s, k)
           x == Abstract!New(k, v)
<1>1. /\ n \in Nat /\ s \in [1 .. n -> Key] /\ DOMAIN b.value = Members(n, s)
      /\ DOMAIN b.age = DOMAIN b.value
    BY DEF Ring, Order, Records
<1>2. c.value = With(b.value, k, v) /\ c.age = With(b.age, k, 0)
    BY DEF Linked
<1> HIDE DEF c
<1>3. /\ u[n + 1] = k
      /\ \A i \in 1 .. n : u[i] = s[i] /\ s[i] # k /\ s[i] \in DOMAIN b.value
    BY <1>1 DEF Added, Members
<1> HIDE DEF u
<1>4. RecordOf(c, u[n + 1]) = x
  <2>1. c.value[k] = v /\ c.age[k] = 0
      BY <1>2 DEF With
  <2> QED BY <1>3, <2>1 DEF RecordOf, Abstract!New
<1>5. ASSUME NEW i \in 1 .. n PROVE RecordOf(c, u[i]) = RecordOf(b, s[i])
  <2>1. c.value[s[i]] = b.value[s[i]] /\ c.age[s[i]] = b.age[s[i]]
      BY <1>1, <1>2, <1>3 DEF With
  <2> QED BY <1>3, <2>1 DEF RecordOf
<1> HIDE DEF x
<1>6. \A i \in 1 .. n + 1 : RecordOf(c, u[i]) =
         IF i = n + 1 THEN x ELSE ListOf(b, n, s)[i]
  <2>1. \A i \in 1 .. n + 1 : i = n + 1 \/ i \in 1 .. n
      BY <1>1
  <2>2. \A i \in 1 .. n : i # n + 1 /\ ListOf(b, n, s)[i] = RecordOf(b, s[i])
      BY <1>1 DEF ListOf
  <2> QED BY <1>4, <1>5, <2>1, <2>2
<1> QED BY <1>6 DEF ListOf, Added, c, u, x

\* A node that is deleted takes its record out of the list.
LEMMA WithoutKeyList ==
    ASSUME NEW b, NEW n, NEW s, Ring(b, n, s), Records(b), NEW p \in 1 .. n
    PROVE  ListOf(WithoutKey(b, s[p]), n - 1, Dropped(n, s, p)) =
              Dropped(n, ListOf(b, n, s), p)
<1> DEFINE c == WithoutKey(b, s[p])
           u == Dropped(n, s, p)
<1>1. /\ n \in Nat /\ s \in [1 .. n -> Key] /\ DOMAIN b.value = Members(n, s)
      /\ DOMAIN b.age = DOMAIN b.value
      /\ \A i, j \in 1 .. n : s[i] = s[j] => i = j
    BY DEF Ring, Order, Records
<1>2. c.value = Without(b.value, s[p]) /\ c.age = Without(b.age, s[p])
    BY DEF WithoutKey
<1> HIDE DEF c
<1>3. ASSUME NEW i \in 1 .. n, i # p PROVE RecordOf(c, s[i]) = RecordOf(b, s[i])
  <2>1. s[i] # s[p] /\ s[i] \in DOMAIN b.value
      BY <1>1, <1>3 DEF Members
  <2>2. c.value[s[i]] = b.value[s[i]] /\ c.age[s[i]] = b.age[s[i]]
      BY <1>1, <1>2, <2>1 DEF Without, Restrict
  <2> QED BY <2>2 DEF RecordOf
<1>4. \A i \in 1 .. n - 1 : RecordOf(c, u[i]) =
         IF i < p THEN ListOf(b, n, s)[i] ELSE ListOf(b, n, s)[i + 1]
  <2> SUFFICES ASSUME NEW i \in 1 .. n - 1
               PROVE  RecordOf(c, u[i]) = IF i < p THEN ListOf(b, n, s)[i]
                                                   ELSE ListOf(b, n, s)[i + 1]
      OBVIOUS
  <2>1. u[i] = IF i < p THEN s[i] ELSE s[i + 1]
      BY DEF Dropped
  <2>2. i \in 1 .. n /\ i + 1 \in 1 .. n /\ (i < p => i # p) /\ (~(i < p) => i + 1 # p)
      BY <1>1
  <2>3. /\ ListOf(b, n, s)[i] = RecordOf(b, s[i])
        /\ ListOf(b, n, s)[i + 1] = RecordOf(b, s[i + 1])
      BY <2>2 DEF ListOf
  <2> HIDE DEF u
  <2> QED BY <1>3, <2>1, <2>2, <2>3
<1> HIDE DEF u
<1>5. ListOf(c, n - 1, u) = Dropped(n, ListOf(b, n, s), p)
    BY <1>4 DEF ListOf, Dropped
<1> QED BY <1>5 DEF c, u

\* A node that is written and moved behind the tail: its record goes to the
\* end, the others keep theirs.
LEMMA RefreshedList ==
    ASSUME NEW b, NEW c, NEW n, NEW s, Ring(b, n, s), NEW p \in 1 .. n,
           \A m \in Members(n, s) \ {s[p]} :
              c.value[m] = b.value[m] /\ c.age[m] = b.age[m],
           Records(c)
    PROVE  ListOf(Refreshed(c, s[p]), n, Moved(n, s, p)) =
              Added(n - 1, Dropped(n, ListOf(b, n, s), p), RecordOf(c, s[p]))
<1> DEFINE d == Refreshed(c, s[p])
           u == Moved(n, s, p)
           l == ListOf(b, n, s)
<1>1. /\ n \in Nat /\ s \in [1 .. n -> Key] /\ (n - 1) + 1 = n
      /\ \A i, j \in 1 .. n : s[i] = s[j] => i = j
      /\ \A i \in 1 .. n : s[i] \in Members(n, s)
    BY DEF Ring, Order, Members
<1>2. d.value = c.value /\ d.age = c.age
    BY RefreshedRecords DEF Refreshed, Records, Fields
<1> HIDE DEF d
<1>3. \A m : RecordOf(d, m) = RecordOf(c, m)
    BY <1>2 DEF RecordOf
<1>4. \A i \in 1 .. n : i # p => RecordOf(c, s[i]) = l[i]
    BY <1>1 DEF RecordOf, ListOf
<1>5. \A i \in 1 .. n : u[i] = IF i = n THEN s[p]
                               ELSE IF i < p THEN s[i] ELSE s[i + 1]
    BY <1>1 DEF Moved, Added, Dropped
<1> HIDE DEF u, l
<1>6. \A i \in 1 .. n : RecordOf(d, u[i]) =
         IF i = n THEN RecordOf(c, s[p]) ELSE Dropped(n, l, p)[i]
  <2> SUFFICES ASSUME NEW i \in 1 .. n
               PROVE  RecordOf(d, u[i]) = IF i = n THEN RecordOf(c, s[p])
                                          ELSE Dropped(n, l, p)[i]
      OBVIOUS
  <2>1. CASE i = n
      BY <1>3, <1>5, <2>1
  <2>2. CASE i # n
    <3>1. i \in 1 .. n - 1 /\ i + 1 \in 1 .. n /\ (i < p => i # p)
          /\ (~(i < p) => i + 1 # p)
        BY <1>1, <2>2
    <3>2. Dropped(n, l, p)[i] = IF i < p THEN l[i] ELSE l[i + 1]
        BY <3>1 DEF Dropped
    <3> QED BY <1>3, <1>4, <1>5, <2>2, <3>1, <3>2
  <2> QED BY <2>1, <2>2
<1>7. ListOf(d, n, u) = Added(n - 1, Dropped(n, l, p), RecordOf(c, s[p]))
    BY <1>1, <1>6 DEF ListOf, Added
<1> QED BY <1>7 DEF d, u, l

-----------------------------------------------------------------------------
(* Each operation does to the list what ExpireList says.                   *)

\* The list as the refinement maps it.
Mapped == [i \in 1 .. buffer.count |->
             [key |-> Nth[i], value |-> buffer.value[Nth[i]],
              age |-> buffer.age[Nth[i]]]]

LEMMA MappedIsList ==
    ASSUME NEW n, NEW s
    PROVE  /\ Ring(buffer, n, s) => Mapped = ListOf(buffer, n, s)
           /\ Ring(buffer', n, s) => Mapped' = ListOf(buffer', n, s)
<1>1. ASSUME Ring(buffer, n, s) PROVE Mapped = ListOf(buffer, n, s)
  <2>1. Nth = s
      BY <1>1, WalkIsOrder DEF Nth
  <2>2. buffer.count = n
      BY <1>1 DEF Ring
  <2> QED BY <2>1, <2>2 DEF Mapped, ListOf, RecordOf
<1>2. ASSUME Ring(buffer', n, s) PROVE Mapped' = ListOf(buffer', n, s)
  <2>1. Nth' = s
      BY <1>2, WalkIsOrder DEF Nth
  <2>2. buffer'.count = n
      BY <1>2 DEF Ring
  <2> QED BY <2>1, <2>2 DEF Mapped, ListOf, RecordOf
<1> QED BY <1>1, <1>2

\* What the list says of keys and places, in the terms of the ring.
LEMMA ListLookup ==
    ASSUME NEW n, NEW s, Ring(buffer, n, s), Records(buffer)
    PROVE  /\ Abstract!Keys = Keys
           /\ \A p \in 1 .. n : Abstract!Position(s[p]) = p
           /\ Len(Mapped) = n /\ n \in Nat
           /\ Abstract!Full <=> policy.maxCount > 0 /\ n >= policy.maxCount
<1>1. /\ DOMAIN Mapped = 1 .. n /\ Len(Mapped) = n /\ n \in Nat
      /\ \A i \in 1 .. n : Mapped[i].key = s[i]
    BY ListOfType, MappedIsList
<1>2. Keys = Members(n, s) /\ \A i, j \in 1 .. n : s[i] = s[j] => i = j
    BY DEF Ring, Order, Keys
<1>3. Abstract!Keys = {Mapped[i].key : i \in DOMAIN Mapped}
    BY DEF Abstract!Keys, Mapped
<1>4. \A k : Abstract!Position(k) =
         CHOOSE i \in DOMAIN Mapped : Mapped[i].key = k
    BY DEF Abstract!Position, Mapped
<1>5. Abstract!Full <=> policy.maxCount > 0 /\ Len(Mapped) >= policy.maxCount
    BY DEF Abstract!Full, Mapped
<1> HIDE DEF Mapped
<1>6. Abstract!Keys = Keys
    BY <1>1, <1>2, <1>3 DEF Members
<1>7. ASSUME NEW p \in 1 .. n PROVE Abstract!Position(s[p]) = p
    BY <1>1, <1>2, <1>4
<1> QED BY <1>1, <1>5, <1>6, <1>7

\* The removal of the node at a place.
LEMMA DeletedIsRemoved ==
    ASSUME NEW n, NEW s, Ring(buffer, n, s), Records(buffer), NEW p \in 1 .. n,
           buffer' = WithoutKey(buffer, s[p])
    PROVE  /\ Mapped' = Abstract!RemoveAt(Mapped, p)
           /\ Mapped' = Dropped(n, Mapped, p)
<1>1. Mapped = ListOf(buffer, n, s)
    BY MappedIsList
<1>2. Mapped' = ListOf(buffer', n - 1, Dropped(n, s, p))
    BY WithoutKeyRing, MappedIsList
<1>3. Mapped' = Dropped(n, Mapped, p)
    BY <1>1, <1>2, WithoutKeyList
<1>4. Mapped \in Seq(Abstract!Record) /\ Len(Mapped) = n
    BY <1>1, ListOfType
<1>5. Abstract!RemoveAt(Mapped, p) = Dropped(n, Mapped, p)
    BY <1>4, RemoveAtIsDropped
<1> QED BY <1>3, <1>5

\* pop: found by key.
LEMMA PopImplements ==
    ASSUME IInv, NEW k \in Key, pop(k)
    PROVE  Abstract!pop(k) /\ UNCHANGED policy
<1>1. PICK n, s : Ring(buffer, n, s)
    BY DEF IInv
<1>2. PICK p \in 1 .. n : s[p] = k
    BY <1>1, KeyAtPlace DEF pop
<1>3. Mapped' = Abstract!RemoveAt(Mapped, p)
    BY <1>1, <1>2, DeletedIsRemoved DEF pop, IInv
<1>4. k \in Abstract!Keys /\ Abstract!Position(k) = p
    BY <1>1, <1>2, ListLookup DEF pop, IInv
<1> QED BY <1>3, <1>4 DEF Abstract!pop, Mapped, pop

\* pop_front and pop_back: the nodes next to m_pTag.
LEMMA PopEndsImplement ==
    ASSUME IInv
    PROVE  /\ pop_front => Abstract!pop_front /\ UNCHANGED policy
           /\ pop_back => Abstract!pop_back /\ UNCHANGED policy
<1>1. PICK n, s : Ring(buffer, n, s)
    BY DEF IInv
<1>2. n \in Nat /\ buffer.count = n /\ Records(buffer)
    BY <1>1 DEF Ring, Order, IInv
<1>3. Mapped \in Seq(Abstract!Record) /\ Len(Mapped) = n
  <2>1. Mapped = ListOf(buffer, n, s)
      BY <1>1, MappedIsList
  <2> QED BY <1>1, <1>2, <2>1, ListOfType
<1>4. ASSUME n > 0
      PROVE  /\ Mapped # <<>>
             /\ Tail(Mapped) = Dropped(n, Mapped, 1)
             /\ SubSeq(Mapped, 1, Len(Mapped) - 1) = Dropped(n, Mapped, n)
  <2>1. Mapped # <<>>
      BY <1>2, <1>3, <1>4, EmptySeq
  <2>2. /\ Tail(Mapped) = Dropped(Len(Mapped), Mapped, 1)
        /\ SubSeq(Mapped, 1, Len(Mapped) - 1)
              = Dropped(Len(Mapped), Mapped, Len(Mapped))
      BY <1>3, <2>1, EndsAreDropped
  <2> QED BY <1>3, <2>1, <2>2
<1>5. ASSUME pop_front PROVE Abstract!pop_front /\ UNCHANGED policy
  <2>1. n > 0 /\ 1 \in 1 .. n /\ buffer' = WithoutKey(buffer, s[1])
      BY <1>1, <1>2, <1>5, EndsAreKeys DEF pop_front
  <2>2. Mapped' = Dropped(n, Mapped, 1)
      BY <1>1, <1>2, <2>1, DeletedIsRemoved
  <2>3. Mapped # <<>> /\ Mapped' = Tail(Mapped)
      BY <1>4, <2>1, <2>2
  <2> QED BY <1>5, <2>3 DEF Abstract!pop_front, Mapped, pop_front
<1>6. ASSUME pop_back PROVE Abstract!pop_back /\ UNCHANGED policy
  <2>1. n > 0 /\ n \in 1 .. n /\ buffer' = WithoutKey(buffer, s[n])
      BY <1>1, <1>2, <1>6, EndsAreKeys DEF pop_back
  <2>2. Mapped' = Dropped(n, Mapped, n)
      BY <1>1, <1>2, <2>1, DeletedIsRemoved
  <2>3. Mapped # <<>> /\ Mapped' = SubSeq(Mapped, 1, Len(Mapped) - 1)
      BY <1>4, <2>1, <2>2
  <2> QED BY <1>6, <2>3 DEF Abstract!pop_back, Mapped, pop_back
<1> QED BY <1>5, <1>6

\* push: refused, appended, or appended with the head leaving.
LEMMA PushImplements ==
    ASSUME IInv, NEW k \in Key, NEW v \in Value, push(k, v)
    PROVE  Abstract!push(k, v) /\ UNCHANGED policy
<1>1. PICK n, s : Ring(buffer, n, s)
    BY DEF IInv
<1>2. n \in Nat /\ buffer.count = n /\ Records(buffer) /\ UNCHANGED policy
    BY <1>1 DEF Ring, Order, IInv, push
<1>3. /\ Abstract!Keys = Keys
      /\ Abstract!Full <=> policy.maxCount > 0 /\ n >= policy.maxCount
    BY <1>1, <1>2, ListLookup
<1>4. CASE Refused(k)
  <2>1. k \in Abstract!Keys \/ (Abstract!Full /\ ~policy.destroyOld)
      BY <1>2, <1>3, <1>4 DEF Refused
  <2>2. UNCHANGED buffer
      BY <1>4 DEF push
  <2>3. Mapped' = Mapped
      BY <1>1, <2>2, MappedIsList
  <2> QED BY <1>2, <2>1, <2>3 DEF Abstract!push, Mapped
<1>5. CASE ~Refused(k)
  <2> DEFINE b == Linked(buffer, k, v)
             u == Added(n, s, k)
             x == Abstract!New(k, v)
  <2>1. /\ k \notin Keys /\ k \notin Members(n, s)
        /\ buffer' = IF Overfull(b) THEN WithoutHead(b) ELSE b
        /\ Abstract!Full => policy.destroyOld
      BY <1>1, <1>2, <1>3, <1>5 DEF push, Refused, Ring, Keys
  <2>2. Ring(b, n + 1, u) /\ Records(b) /\ b.count = n + 1
    <3>1. Ring(b, n + 1, u)
        BY <1>1, <2>1, LinkedRing
    <3>2. Records(b)
        BY <1>2, LinkedRecords
    <3>3. b.count = n + 1
        BY <3>1 DEF Ring
    <3> QED BY <3>1, <3>2, <3>3
  <2>3. ListOf(b, n + 1, u) = Append(Mapped, x)
    <3>0. Mapped = ListOf(buffer, n, s)
        BY <1>1, MappedIsList
    <3>1. Mapped \in Seq(Abstract!Record) /\ Len(Mapped) = n
        BY <1>1, <1>2, <3>0, ListOfType
    <3>2. x \in Abstract!Record
        BY BufferAssumption DEF Abstract!New, Abstract!Record
    <3> HIDE DEF x, b, u
    <3>3. Append(Mapped, x) = Added(n, Mapped, x)
        BY <3>1, <3>2, AppendIsAdded
    <3>4. ListOf(b, n + 1, u) = Added(n, ListOf(buffer, n, s), x)
        BY <1>1, <1>2, <2>1, LinkedList DEF b, u, x
    <3> QED BY <3>0, <3>3, <3>4
  <2>4. Overfull(b) <=> Abstract!Full
    <3>1. policy.maxCount \in Nat
        BY BufferAssumption DEF IInv
    <3> HIDE DEF b
    <3> QED BY <1>2, <1>3, <2>2, <3>1 DEF Overfull
  <2> HIDE DEF b, u
  <2>5. CASE ~Abstract!Full
    <3>1. buffer' = b
        BY <2>1, <2>4, <2>5
    <3>2. Mapped' = Append(Mapped, x)
        BY <2>2, <2>3, <3>1, MappedIsList
    <3> QED BY <1>2, <1>3, <2>1, <2>5, <3>2 DEF Abstract!push, Mapped
  <2>6. CASE Abstract!Full
    <3>1. 1 \in 1 .. n + 1 /\ WithoutHead(b) = WithoutKey(b, u[1])
        BY <1>2, <2>2, EndsAreKeys
    <3>2. buffer' = WithoutKey(b, u[1])
        BY <2>1, <2>4, <2>6, <3>1
    <3>3. Mapped' = ListOf(buffer', (n + 1) - 1, Dropped(n + 1, u, 1))
        BY <2>2, <3>1, <3>2, WithoutKeyRing, MappedIsList
    <3>4. Mapped' = Dropped(n + 1, ListOf(b, n + 1, u), 1)
        BY <2>2, <3>1, <3>2, <3>3, WithoutKeyList
    <3>5. Mapped' = Tail(ListOf(b, n + 1, u))
      <4> DEFINE l == ListOf(b, n + 1, u)
      <4>1. l \in Seq(Abstract!Record) /\ Len(l) = n + 1
          BY <2>2, ListOfType
      <4>2. l # <<>>
          BY <1>2, <4>1, EmptySeq
      <4> HIDE DEF l
      <4>3. Tail(l) = Dropped(n + 1, l, 1)
          BY <4>1, <4>2, EndsAreDropped
      <4> QED BY <3>4, <4>3 DEF l
    <3>6. Mapped' = Tail(Append(Mapped, x))
        BY <2>3, <3>5
    <3> QED BY <1>2, <1>3, <2>1, <2>6, <3>6 DEF Abstract!push, Mapped
  <2> QED BY <2>5, <2>6
<1> QED BY <1>4, <1>5

\* A record that is written and moved: what update and replace have in common.
LEMMA MovedIsBehind ==
    ASSUME IInv, NEW c, Records(c), NEW k \in Keys,
           c.next = buffer.next, c.prev = buffer.prev, c.head = buffer.head,
           c.tail = buffer.tail, c.count = buffer.count, DOMAIN c.value = Keys,
           \A m \in Keys \ {k} : c.value[m] = buffer.value[m]
                                 /\ c.age[m] = buffer.age[m],
           buffer' = Refreshed(c, k)
    PROVE  /\ k \in Abstract!Keys
           /\ Mapped[Abstract!Position(k)] = RecordOf(buffer, k)
           /\ Mapped' = Append(Abstract!RemoveAt(Mapped, Abstract!Position(k)),
                               RecordOf(c, k))
<1>1. PICK n, s : Ring(buffer, n, s)
    BY DEF IInv
<1>2. PICK p \in 1 .. n : s[p] = k
    BY <1>1, KeyAtPlace
<1>3. Records(buffer) /\ n \in Nat /\ Members(n, s) = Keys
    BY <1>1 DEF IInv, Ring, Order, Keys
<1>4. k \in Abstract!Keys /\ Abstract!Position(k) = p
    BY <1>1, <1>2, <1>3, ListLookup
<1>5. Mapped = ListOf(buffer, n, s)
    BY <1>1, MappedIsList
<1>6. /\ Mapped \in Seq(Abstract!Record) /\ Len(Mapped) = n
      /\ Mapped[p] = RecordOf(buffer, k)
    BY <1>1, <1>2, <1>3, <1>5, ListOfType
<1>7. Ring(c, n, s)
    BY <1>1, SamePointers DEF Keys
<1>8. Ring(buffer', n, Moved(n, s, p))
    BY <1>2, <1>7, RefreshedRing DEF Records
<1>9. Mapped' = ListOf(buffer', n, Moved(n, s, p))
    BY <1>8, MappedIsList
<1>10. Mapped' = Added(n - 1, Dropped(n, Mapped, p), RecordOf(c, k))
    BY <1>1, <1>2, <1>3, <1>5, <1>9, RefreshedList
<1> DEFINE d == Abstract!RemoveAt(Mapped, p)
           x == RecordOf(c, k)
<1>11. /\ d = Dropped(n, Mapped, p)
       /\ d \in Seq(Abstract!Record) /\ Len(d) = n - 1
    BY <1>6, RemoveAtIsDropped
<1>12. x \in Abstract!Record
  <2>1. k \in Key /\ k \in DOMAIN c.value
      BY <1>1, <1>2 DEF Ring, Order
  <2> QED BY <2>1 DEF RecordOf, Records, Abstract!Record
<1> HIDE DEF d, x
<1>13. Append(d, x) = Added(n - 1, d, x)
    BY <1>11, <1>12, AppendIsAdded
<1>14. Mapped' = Append(d, x)
    BY <1>10, <1>11, <1>13 DEF x
<1> QED BY <1>4, <1>6, <1>14 DEF d, x

LEMMA UpdateImplements ==
    ASSUME IInv, NEW k \in Key, NEW a \in 0 .. MaxAge, update(k, a)
    PROVE  Abstract!update(k, a) /\ UNCHANGED policy
<1> DEFINE c == [buffer EXCEPT !.age[k] = a]
<1>0. /\ Records(buffer) /\ Fields(buffer) /\ buffer.age \in [Keys -> 0 .. MaxAge]
    BY DEF IInv, Records, Keys
<1>1. k \in Keys /\ buffer' = Refreshed(c, k) /\ UNCHANGED policy
    BY DEF update
<1>2. c = [next |-> buffer.next, prev |-> buffer.prev, head |-> buffer.head,
           tail |-> buffer.tail, count |-> buffer.count, value |-> buffer.value,
           age |-> [buffer.age EXCEPT ![k] = a]]
    BY <1>0 DEF Fields
<1> HIDE DEF c
<1>3. Records(c) /\ DOMAIN c.value = Keys
    BY <1>0, <1>2 DEF Records, Fields, Keys
<1>4. \A m \in Keys \ {k} : c.value[m] = buffer.value[m]
                            /\ c.age[m] = buffer.age[m]
    BY <1>0, <1>2
<1>5. RecordOf(c, k) = [RecordOf(buffer, k) EXCEPT !.age = a]
    BY <1>0, <1>1, <1>2 DEF RecordOf
<1>6. /\ k \in Abstract!Keys
      /\ Mapped[Abstract!Position(k)] = RecordOf(buffer, k)
      /\ Mapped' = Append(Abstract!RemoveAt(Mapped, Abstract!Position(k)),
                          RecordOf(c, k))
    BY <1>1, <1>2, <1>3, <1>4, MovedIsBehind
<1>7. Mapped' = Append(Abstract!RemoveAt(Mapped, Abstract!Position(k)),
                       [Mapped[Abstract!Position(k)] EXCEPT !.age = a])
    BY <1>5, <1>6
<1> QED BY <1>1, <1>6, <1>7 DEF Abstract!update, Mapped

LEMMA ReplaceImplements ==
    ASSUME IInv, NEW k \in Key, NEW v \in Value, replace(k, v)
    PROVE  Abstract!replace(k, v) /\ UNCHANGED policy
<1> DEFINE c == [buffer EXCEPT !.age[k] = 0, !.value[k] = v]
<1>0. /\ Records(buffer) /\ Fields(buffer)
      /\ buffer.value \in [Keys -> Value] /\ buffer.age \in [Keys -> 0 .. MaxAge]
      /\ 0 \in 0 .. MaxAge
    BY BufferAssumption DEF IInv, Records, Keys
<1>1. k \in Keys /\ buffer' = Refreshed(c, k) /\ UNCHANGED policy
    BY DEF replace
<1>2. c = [next |-> buffer.next, prev |-> buffer.prev, head |-> buffer.head,
           tail |-> buffer.tail, count |-> buffer.count,
           value |-> [buffer.value EXCEPT ![k] = v],
           age |-> [buffer.age EXCEPT ![k] = 0]]
  <2> DEFINE a == [buffer EXCEPT !.age[k] = 0]
  <2>1. a = [next |-> buffer.next, prev |-> buffer.prev, head |-> buffer.head,
             tail |-> buffer.tail, count |-> buffer.count,
             value |-> buffer.value, age |-> [buffer.age EXCEPT ![k] = 0]]
      BY <1>0 DEF Fields
  <2>2. c = [a EXCEPT !.value[k] = v]
      OBVIOUS
  <2> HIDE DEF a, c
  <2> QED BY <2>1, <2>2
<1> HIDE DEF c
<1>3. Records(c) /\ DOMAIN c.value = Keys
    BY <1>0, <1>2 DEF Records, Fields, Keys
<1>4. \A m \in Keys \ {k} : c.value[m] = buffer.value[m]
                            /\ c.age[m] = buffer.age[m]
    BY <1>0, <1>2
<1>5. RecordOf(c, k) = Abstract!New(k, v)
    BY <1>0, <1>1, <1>2 DEF RecordOf, Abstract!New
<1>6. /\ k \in Abstract!Keys
      /\ Mapped' = Append(Abstract!RemoveAt(Mapped, Abstract!Position(k)),
                          Abstract!New(k, v))
  <2>1. /\ c.next = buffer.next /\ c.prev = buffer.prev
        /\ c.head = buffer.head /\ c.tail = buffer.tail
        /\ c.count = buffer.count
      BY <1>2
  <2>2. /\ k \in Abstract!Keys
        /\ Mapped' = Append(Abstract!RemoveAt(Mapped, Abstract!Position(k)),
                            RecordOf(c, k))
      BY <1>1, <1>3, <1>4, <2>1, MovedIsBehind
  <2> QED BY <1>5, <2>2
<1> QED BY <1>1, <1>6 DEF Abstract!replace, Mapped

\* A second passes for every record.
LEMMA TickImplements ==
    ASSUME IInv, Tick
    PROVE  Abstract!Tick /\ UNCHANGED policy
<1> DEFINE ages == [k \in Keys |-> Older(buffer.age[k])]
<1>1. PICK n, s : Ring(buffer, n, s)
    BY DEF IInv
<1>2. Records(buffer) /\ n \in Nat /\ \A i \in 1 .. n : s[i] \in Keys
    BY <1>1 DEF IInv, Ring, Order, Members, Keys
<1>3. buffer' = [buffer EXCEPT !.age = ages] /\ UNCHANGED policy
    BY DEF Tick
<1>4. \A i \in 1 .. n : ages[s[i]] = Older(buffer.age[s[i]])
    BY <1>2
<1> HIDE DEF ages
<1>5. /\ buffer'.age = ages /\ buffer'.value = buffer.value
      /\ buffer'.next = buffer.next /\ buffer'.prev = buffer.prev
      /\ buffer'.head = buffer.head /\ buffer'.tail = buffer.tail
      /\ buffer'.count = buffer.count
    BY <1>2, <1>3 DEF Records, Fields
<1>6. Ring(buffer', n, s)
    BY <1>1, <1>5, SamePointers
<1>7. Mapped = ListOf(buffer, n, s) /\ Mapped' = ListOf(buffer', n, s)
    BY <1>1, <1>6, MappedIsList
<1>8. DOMAIN Mapped = 1 .. n
    BY <1>7 DEF ListOf
<1>9. ASSUME NEW i \in 1 .. n
      PROVE  RecordOf(buffer', s[i]) =
                [Mapped[i] EXCEPT !.age = Abstract!Older(@)]
  <2>1. Mapped[i] = RecordOf(buffer, s[i])
      BY <1>7 DEF ListOf
  <2>2. Abstract!Older(Mapped[i].age) = Older(buffer.age[s[i]])
      BY <2>1 DEF RecordOf, Abstract!Older, Older
  <2>3. RecordOf(buffer', s[i]) =
           [key |-> s[i], value |-> buffer.value[s[i]],
            age |-> Older(buffer.age[s[i]])]
      BY <1>4, <1>5 DEF RecordOf
  <2> QED BY <2>1, <2>2, <2>3 DEF RecordOf
<1>10. Mapped' = [i \in DOMAIN Mapped |->
                    [Mapped[i] EXCEPT !.age = Abstract!Older(@)]]
    BY <1>7, <1>8, <1>9 DEF ListOf
<1> QED BY <1>3, <1>10 DEF Abstract!Tick, Mapped

\* The empty ring is the empty list.
LEMMA AbstractInit == Init => Abstract!Init
<1> SUFFICES ASSUME Init PROVE Abstract!Init
    OBVIOUS
<1>1. buffer.count = 0
    BY DEF Init
<1>2. Mapped = <<>>
    BY <1>1 DEF Mapped
<1>3. policy \in Abstract!Policy
    BY BufferAssumption DEF Init, Abstract!Policy
<1> QED BY <1>2, <1>3 DEF Abstract!Init, Mapped

\* Every step of the buffer is a step of the list or none.
LEMMA AbstractStep == IInv /\ [Next]_vars => [Abstract!Next]_<<Mapped, policy>>
<1> SUFFICES ASSUME IInv, [Next]_vars
             PROVE  Abstract!Next \/ UNCHANGED <<Mapped, policy>>
    OBVIOUS
<1>1. CASE Tick
    BY <1>1, TickImplements DEF Abstract!Next
<1>2. ASSUME NEW k \in Key, NEW v \in Value, push(k, v) PROVE Abstract!Next
    BY <1>2, PushImplements DEF Abstract!Next
<1>3. ASSUME NEW k \in Key, NEW v \in Value, replace(k, v) PROVE Abstract!Next
    BY <1>3, ReplaceImplements DEF Abstract!Next
<1>4. ASSUME NEW k \in Key, NEW a \in 0 .. MaxAge, update(k, a)
      PROVE  Abstract!Next
    BY <1>4, UpdateImplements DEF Abstract!Next
<1>5. ASSUME NEW k \in Key, pop(k) PROVE Abstract!Next
    BY <1>5, PopImplements DEF Abstract!Next
<1>6. CASE pop_front \/ pop_front_old
    BY <1>6, PopEndsImplement DEF Abstract!Next, pop_front_old
<1>7. CASE pop_back
    BY <1>7, PopEndsImplement DEF Abstract!Next
<1>8. ASSUME UNCHANGED buffer PROVE UNCHANGED Mapped
  <2>1. PICK n, s : Ring(buffer, n, s)
      BY DEF IInv
  <2> QED BY <1>8, <2>1, MappedIsList
<1>9. ASSUME NEW a \in 0 .. MaxAge - 1, setLivingTime(a) PROVE Abstract!Next
  <2>1. UNCHANGED Mapped /\ policy' = [policy EXCEPT !.living = a]
      BY <1>8, <1>9 DEF setLivingTime
  <2> QED BY <2>1 DEF Abstract!Next, Abstract!setLivingTime, Mapped
<1>10. CASE UNCHANGED vars
    BY <1>8, <1>10 DEF vars
<1> QED BY <1>1, <1>2, <1>3, <1>4, <1>5, <1>6, <1>7, <1>9, <1>10 DEF Next

\* The buffer implements the list: from head to tail the ring holds the
\* records in the order of their last insertion or update, and every operation
\* of cexpirebuffer.h does to that order, to the values and to the ages what
\* ExpireList promises, for any number of records and any limit.
THEOREM Implements == Spec => ImplementsList
<1>1. Init => Abstract!Init
    BY AbstractInit
<1>2. IInv /\ [Next]_vars => [Abstract!Next]_<<Mapped, policy>>
    BY AbstractStep
<1> QED BY <1>1, <1>2, Invariant, PTL
        DEF Spec, ImplementsList, Abstract!Spec, Mapped
=============================================================================
