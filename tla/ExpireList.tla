----------------------------- MODULE ExpireList -----------------------------
(***************************************************************************)
(* What a CExpireBuffer promises: a list of records ordered by their last  *)
(* insertion or update, found by key, bounded in number, cleaned of the    *)
(* records that were not refreshed for longer than the living time.  Time  *)
(* is kept as the age of a record, the clock minus its m_refreshtime, in   *)
(* seconds; ages above MaxAge are not told apart.                          *)
(***************************************************************************)
EXTENDS Integers, Sequences, SequencesExt

CONSTANTS Key, Value,
          MaxAge        \* more than any living time

VARIABLES list,         \* the records, oldest insertion or update first
          policy        \* limits: maxCount (0: none), destroyOld, living

Policy == [maxCount : Nat, destroyOld : BOOLEAN, living : 0 .. MaxAge - 1]
Record == [key : Key, value : Value, age : 0 .. MaxAge]

New(k, v) == [key |-> k, value |-> v, age |-> 0]

\* A record found by key: where it is, what it holds.
Keys == {list[i].key : i \in DOMAIN list}
Position(k) == CHOOSE i \in DOMAIN list : list[i].key = k
Content(k) == list[Position(k)].value

Older(a) == IF a < MaxAge THEN a + 1 ELSE a

\* A second passes.
Tick == list' = [i \in DOMAIN list |-> [list[i] EXCEPT !.age = Older(@)]]

Full == policy.maxCount > 0 /\ Len(list) >= policy.maxCount

push(k, v) ==
    \/ /\ k \in Keys \/ (Full /\ ~policy.destroyOld)
       /\ UNCHANGED list
    \/ /\ k \notin Keys
       /\ ~Full
       /\ list' = Append(list, New(k, v))
    \/ /\ k \notin Keys
       /\ Full
       /\ policy.destroyOld
       /\ list' = Tail(Append(list, New(k, v)))

\* Variant with a fault: the record stays where it is.
update_InPlace(k, age) ==
    \/ /\ k \in Keys
       /\ list' = [list EXCEPT ![Position(k)].age = age]
    \/ k \notin Keys /\ UNCHANGED list

\* The record is as old as the time given for it, and behind all others.
update(k, age) ==
    \/ /\ k \in Keys
       /\ list' = Append(RemoveAt(list, Position(k)),
                         [list[Position(k)] EXCEPT !.age = age])
    \/ k \notin Keys /\ UNCHANGED list

\* The same, with a new value and the clock.
replace(k, v) ==
    \/ /\ k \in Keys
       /\ list' = Append(RemoveAt(list, Position(k)), New(k, v))
    \/ k \notin Keys /\ UNCHANGED list

pop(k) == \/ k \in Keys /\ list' = RemoveAt(list, Position(k))
          \/ k \notin Keys /\ UNCHANGED list

pop_front == list # <<>> /\ list' = Tail(list)
pop_back == list # <<>> /\ list' = SubSeq(list, 1, Len(list) - 1)

\* Variant with a fault: one second too early.
Expired_Early(age) == policy.living <= age

Expired(age) == policy.living < age

\* One turn of pop_old: only the head is looked at.
HeadExpired == list # <<>> /\ Expired(Head(list).age)
pop_front_old == HeadExpired /\ pop_front

setLivingTime(n) == policy' = [policy EXCEPT !.living = n]

-----------------------------------------------------------------------------
Init == list = <<>> /\ policy \in Policy

Next == \/ /\ \/ Tick
              \/ \E k \in Key, v \in Value : push(k, v) \/ replace(k, v)
              \/ \E k \in Key, a \in 0 .. MaxAge : update(k, a)
              \/ \E k \in Key : pop(k)
              \/ pop_front
              \/ pop_back
           /\ UNCHANGED policy
        \/ \E n \in 0 .. MaxAge - 1 : setLivingTime(n) /\ UNCHANGED list

Spec == Init /\ [][Next]_<<list, policy>>
=============================================================================
