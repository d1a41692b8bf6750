---------------------------- MODULE ExpireBuffer ----------------------------
(***************************************************************************)
(* CExpireBuffer: records in a ring of nodes around the node m_pTag, and a *)
(* map from keys to nodes.  A key has at most one node, which is named by  *)
(* it.  The functions of a buffer are defined for the nodes allocated, so  *)
(* that TLC reports the use of a deleted one.  The position m_pCurrent of  *)
(* the iteration with next and prev, which has no caller, is left out.     *)
(***************************************************************************)
EXTENDS Integers, FiniteSets, Functions

CONSTANTS Key, Value,
          Tag,          \* m_pTag, the node without a record
          MaxAge,       \* ages above it are not told apart
          MaxCounts     \* values of m_count_max

ASSUME BufferAssumption == /\ Tag \notin Key
                           /\ MaxAge \in Nat \ {0}
                           /\ MaxCounts \subseteq Nat

VARIABLES
    buffer,             \* next, prev, head, tail, count; value and age by key
    policy              \* m_count_max, m_destroy_old, m_living_time

vars == <<buffer, policy>>

\* The map is searched for a key: its keys are those that have a record.
Keys == DOMAIN buffer.value

Init ==
    /\ buffer = [next |-> [n \in {Tag} |-> Tag], prev |-> [n \in {Tag} |-> Tag],
                 head |-> Tag, tail |-> Tag, count |-> 0,
                 value |-> [k \in {} |-> Tag], age |-> [k \in {} |-> 0]]
    /\ policy \in [maxCount : MaxCounts, destroyOld : BOOLEAN,
                   living : 0 .. MaxAge - 1]

-----------------------------------------------------------------------------
(* Nodes.                                                                  *)

Without(f, n) == Restrict(f, DOMAIN f \ {n})
With(f, n, x) == [m \in DOMAIN f \union {n} |-> IF m = n THEN x ELSE f[m]]

\* A new node behind the tail.
Linked(b, k, v) ==
    [next |-> With([b.next EXCEPT ![IF b.count = 0 THEN Tag ELSE b.tail] = k],
                   k, Tag),
     prev |-> With([b.prev EXCEPT ![Tag] = k], k, b.tail),
     head |-> IF b.count = 0 THEN k ELSE b.head,
     tail |-> k,
     count |-> b.count + 1,
     value |-> With(b.value, k, v),
     age |-> With(b.age, k, 0)]

\* Variant with a fault: the node that follows keeps its predecessor.
WithoutHead_StalePrev(b) ==
    LET first == b.next[b.head] IN
    [next |-> Without([b.next EXCEPT ![Tag] = first], b.head),
     prev |-> Without(b.prev, b.head),
     head |-> first,
     tail |-> IF b.count = 1 THEN Tag ELSE b.tail,
     count |-> b.count - 1,
     value |-> Without(b.value, b.head),
     age |-> Without(b.age, b.head)]

\* The node of the head is deleted.
WithoutHead(b) ==
    LET first == b.next[b.head] IN
    [next |-> Without([b.next EXCEPT ![Tag] = first], b.head),
     prev |-> Without([b.prev EXCEPT ![first] = Tag], b.head),
     head |-> first,
     tail |-> IF b.count = 1 THEN Tag ELSE b.tail,
     count |-> b.count - 1,
     value |-> Without(b.value, b.head),
     age |-> Without(b.age, b.head)]

\* The node of the tail is deleted.
WithoutTail(b) ==
    LET last == b.prev[b.tail] IN
    [next |-> Without([b.next EXCEPT ![last] = Tag], b.tail),
     prev |-> Without([b.prev EXCEPT ![Tag] = last], b.tail),
     head |-> IF b.count = 1 THEN Tag ELSE b.head,
     tail |-> last,
     count |-> b.count - 1,
     value |-> Without(b.value, b.tail),
     age |-> Without(b.age, b.tail)]

\* Variant with a fault: the entry of the map is left behind.
WithoutKey_KeepEntry(b, k) ==
    LET before == b.prev[k]  after == b.next[k] IN
    [b EXCEPT !.next = Without([@ EXCEPT ![before] = after], k),
              !.prev = Without([@ EXCEPT ![after] = before], k),
              !.head = IF before = Tag THEN after ELSE @,
              !.tail = IF after = Tag THEN before ELSE @,
              !.count = @ - 1]

\* The node of a key is deleted, wherever it is.
WithoutKey(b, k) ==
    LET before == b.prev[k]  after == b.next[k] IN
    [next |-> Without([b.next EXCEPT ![before] = after], k),
     prev |-> Without([b.prev EXCEPT ![after] = before], k),
     head |-> IF before = Tag THEN after ELSE b.head,
     tail |-> IF after = Tag THEN before ELSE b.tail,
     count |-> b.count - 1,
     value |-> Without(b.value, k),
     age |-> Without(b.age, k)]

\* Variant with a fault: the node stays where it is.
Refreshed_InPlace(b, k) == b

\* The node of a key goes behind the tail.
Refreshed(b, k) ==
    LET before == b.prev[k]  after == b.next[k] IN
    IF k = b.tail THEN b
    ELSE [b EXCEPT
            !.next = [@ EXCEPT ![before] = after, ![b.tail] = k, ![k] = Tag],
            !.prev = [@ EXCEPT ![after] = before, ![Tag] = k, ![k] = b.tail],
            !.head = IF k = @ THEN after ELSE @,
            !.tail = k]

-----------------------------------------------------------------------------
(* Operations.                                                             *)

Older(a) == IF a < MaxAge THEN a + 1 ELSE a

Tick == /\ buffer' = [buffer EXCEPT !.age = [k \in Keys |-> Older(@[k])]]
        /\ UNCHANGED policy

\* Variant with a fault: one record too many.
Overfull_OffByOne(b) == policy.maxCount > 0 /\ b.count > policy.maxCount + 1

Overfull(b) == policy.maxCount > 0 /\ b.count > policy.maxCount

Refused(k) == \/ k \in Keys
              \/ /\ ~policy.destroyOld
                 /\ policy.maxCount > 0
                 /\ buffer.count >= policy.maxCount

push(k, v) ==
    /\ \/ /\ Refused(k)
          /\ UNCHANGED buffer
       \/ /\ ~Refused(k)
          /\ LET b == Linked(buffer, k, v) IN
             buffer' = IF Overfull(b) THEN WithoutHead(b) ELSE b
    /\ UNCHANGED policy

\* The new refresh time is given as an age; 0 stands for the clock.
update(k, a) ==
    /\ k \in Keys
    /\ buffer' = Refreshed([buffer EXCEPT !.age[k] = a], k)
    /\ UNCHANGED policy

replace(k, v) ==
    /\ k \in Keys
    /\ buffer' = Refreshed([buffer EXCEPT !.age[k] = 0, !.value[k] = v], k)
    /\ UNCHANGED policy

pop(k) == /\ buffer.count # 0
          /\ k \in Keys
          /\ buffer' = WithoutKey(buffer, k)
          /\ UNCHANGED policy

pop_front == /\ buffer.count > 0
             /\ buffer' = WithoutHead(buffer)
             /\ UNCHANGED policy

pop_back == /\ buffer.count > 0
            /\ buffer' = WithoutTail(buffer)
            /\ UNCHANGED policy

\* One turn of pop_old.
pop_front_old == /\ buffer.count > 0
                 /\ policy.living < buffer.age[buffer.head]
                 /\ pop_front

setLivingTime(n) == /\ policy' = [policy EXCEPT !.living = n]
                    /\ UNCHANGED buffer

Next == \/ Tick
        \/ \E k \in Key, v \in Value : push(k, v) \/ replace(k, v)
        \/ \E k \in Key, a \in 0 .. MaxAge : update(k, a)
        \/ \E k \in Key : pop(k)
        \/ pop_front
        \/ pop_back
        \/ pop_front_old
        \/ \E n \in 0 .. MaxAge - 1 : setLivingTime(n)

Spec == Init /\ [][Next]_vars
-----------------------------------------------------------------------------
(* Properties.                                                             *)

Nodes == Keys \union {Tag}

\* Every variable has its type.
TypeOK ==
    /\ Keys \subseteq Key
    /\ buffer.next \in [Nodes -> Nodes]
    /\ buffer.prev \in [Nodes -> Nodes]
    /\ buffer.head \in Nodes
    /\ buffer.tail \in Nodes
    /\ buffer.count \in Nat
    /\ buffer.value \in [Keys -> Value]
    /\ buffer.age \in [Keys -> 0 .. MaxAge]
    /\ policy \in [maxCount : MaxCounts, destroyOld : BOOLEAN,
                   living : 0 .. MaxAge - 1]

\* The ring is closed both ways, head and tail are the neighbours of m_pTag,
\* and the map has an entry for each node of the ring and no other, whatever
\* sequence of insertions, moves and removals led here: no operation follows
\* a pointer to a deleted node.
RingLinked ==
    /\ \A n \in Nodes : /\ buffer.prev[buffer.next[n]] = n
                        /\ buffer.next[buffer.prev[n]] = n
    /\ buffer.head = buffer.next[Tag]
    /\ buffer.tail = buffer.prev[Tag]
    /\ buffer.count = Cardinality(Keys)

\* The buffer never holds more records than allowed (cexpirebuffer.h 123).
Bounded == policy.maxCount > 0 => buffer.count <= policy.maxCount

\* The node after i steps from the head.
Nth[i \in 1 .. buffer.count] ==
    IF i = 1 THEN buffer.head ELSE buffer.next[Nth[i - 1]]

Abstract == INSTANCE ExpireList
               WITH list <- [i \in 1 .. buffer.count |->
                               [key |-> Nth[i], value |-> buffer.value[Nth[i]],
                                age |-> buffer.age[Nth[i]]]]

\* From head to tail the ring is the list of the records, and each operation
\* does to it what the list promises.
ImplementsList == Abstract!Spec
=============================================================================
