---------------------------- MODULE TaskSelector ----------------------------
(***************************************************************************)
(* The kernel's table of tasks and instances (TTaskSelector): instances    *)
(* are registered, shut down and unregistered, and a message is handed to  *)
(* the instance it names, to one instance of its task by turns, to the     *)
(* instances of its task (multicast) or to all instances (broadcast).      *)
(***************************************************************************)
EXTENDS Integers, Sequences, FiniteSets, Functions

CONSTANTS Task,         \* task ids
          Inst          \* instance ids, numbered by the manager from 1

ASSUME SelectorAssumption == /\ Task \subseteq Nat \ {0}
                             /\ Inst \subseteq Nat \ {0}
                             /\ IsFiniteSet(Inst)   \* an id is a UINT

\* The values of msgType that TTaskSelector::add tells apart, and one other.
ORDINARY == 1
DIALOG_BROADCAST == 3
DIALOG_MULTICAST == 4

AnyInst == 0            \* a message that names no instance

\* What the selector reads of a message.
Address == [to : Task, inst : Inst \union {AnyInst},
            msgType : {ORDINARY, DIALOG_BROADCAST, DIALOG_MULTICAST}]

VARIABLES
    mTaskList,          \* per registered task its instances, and whose turn it was
    mInstList,          \* per registered instance its task, and whether it shuts down
    outcome,            \* what became of the message just added, if any
    waited              \* history: messages shared out to the other instances
                        \* of the task since this one had its turn

selectorVars == <<mTaskList, mInstList, outcome, waited>>

NoOutcome == <<>>

SelectorInit == /\ mTaskList = <<>>
                /\ mInstList = <<>>
                /\ outcome = NoOutcome
                /\ waited = [i \in Inst |-> 0]

exists(t) == t \in DOMAIN mTaskList

Listed(t) == Range(mTaskList[t].inst)

-----------------------------------------------------------------------------
(* Registration.  The manager numbers instances with a counter, so an id   *)
(* in use is not registered again.                                         *)

Without(f, S) == Restrict(f, DOMAIN f \ S)
With(f, k, x) == [j \in DOMAIN f \union {k} |-> IF j = k THEN x ELSE f[j]]

\* CList::remove: an id is in a list once (ListsAgree).
Removed(s, i) ==
    LET p == CHOOSE q \in DOMAIN s : s[q] = i
    IN  [q \in 1 .. Len(s) - 1 |-> IF q < p THEN s[q] ELSE s[q + 1]]

RegisterTask(t, i) ==
    /\ i \notin DOMAIN mInstList
    /\ mInstList' = With(mInstList, i, [taskid |-> t, shuttingDown |-> FALSE])
    /\ \/ /\ exists(t)
          /\ mTaskList' = [mTaskList EXCEPT ![t].inst = Append(@, i)]
       \/ /\ ~exists(t)
          /\ mTaskList' = With(mTaskList, t, [inst |-> <<i>>, instpos |-> 0])
    /\ waited' = [waited EXCEPT ![i] = 0]

Shutdown(S) == mInstList' = [i \in DOMAIN mInstList |->
                                IF i \in S
                                THEN [mInstList[i] EXCEPT !.shuttingDown = TRUE]
                                ELSE mInstList[i]]

ShutdownInst(i) == /\ i \in DOMAIN mInstList
                   /\ Shutdown({i})
                   /\ UNCHANGED <<mTaskList, waited>>

ShutdownTask(t) == /\ exists(t)
                   /\ Shutdown(Listed(t))
                   /\ UNCHANGED <<mTaskList, waited>>

\* The turns of a task start anew when one of its instances leaves: its
\* position is not adjusted to the shorter list.
Restart(t) == waited' = [j \in Inst |-> IF j \in Listed(t) THEN 0 ELSE waited[j]]

UnregisterInst(i) ==
    /\ i \in DOMAIN mInstList
    /\ LET t == mInstList[i].taskid IN
          /\ mTaskList' = [mTaskList EXCEPT ![t].inst = Removed(@, i)]
          /\ Restart(t)
    /\ mInstList' = Without(mInstList, {i})

\* Variant with a fault: the instances stay in the table of instances.
UnregisterTask_KeepInst(t) ==
    /\ exists(t)
    /\ mTaskList' = Without(mTaskList, {t})
    /\ Restart(t)
    /\ UNCHANGED mInstList

UnregisterTask(t) ==
    /\ exists(t)
    /\ mInstList' = Without(mInstList, Listed(t))
    /\ mTaskList' = Without(mTaskList, {t})
    /\ Restart(t)

-----------------------------------------------------------------------------
(* Dispatch.  "deleted" counts the deletions of the message itself; copies *)
(* go to the receivers of a multicast and a broadcast.                     *)

Result(m, S, ok, n) ==
    outcome' = [msg |-> m, reached |-> S, accepted |-> ok, deleted |-> n]

\* Variant with a fault: the search begins at the head of the list every time.
Position_FromHead(ts, k) == (k - 1) % Len(ts.inst)

\* The position (from 0) that getTask looks at in its k-th try.
Position(ts, k) ==
    LET first == IF ts.instpos + 1 >= Len(ts.inst) THEN 0 ELSE ts.instpos + 1
    IN  (first + k - 1) % Len(ts.inst)

Candidate(t, k) == mTaskList[t].inst[Position(mTaskList[t], k) + 1]

Available(i) == i \in DOMAIN mInstList /\ ~mInstList[i].shuttingDown

\* Variant with a fault: one try too few.
Tries_TooFew(t) == 1 .. Len(mTaskList[t].inst) - 1

Tries(t) == 1 .. Len(mTaskList[t].inst)

\* Variant with a fault: the position after the one chosen is kept, unwrapped.
TurnTo_Next(t, k) == mTaskList' = [mTaskList EXCEPT ![t].instpos =
                                              Position(mTaskList[t], k) + 1]

TurnTo(t, k) == mTaskList' = [mTaskList EXCEPT ![t].instpos =
                                                  Position(mTaskList[t], k)]

\* Each instance in its turn, those that shut down left out.
Share(m, t) ==
    \/ \E k \in Tries(t) :
          /\ Available(Candidate(t, k))
          /\ \A l \in Tries(t) : Available(Candidate(t, l)) => k <= l
          /\ TurnTo(t, k)
          /\ Result(m, {Candidate(t, k)}, TRUE, 0)
          /\ waited' = [j \in Inst |->
                           IF j = Candidate(t, k) THEN 0
                           ELSE IF j \in Listed(t) /\ Available(j)
                                THEN waited[j] + 1 ELSE waited[j]]
    \/ /\ \A k \in Tries(t) : ~Available(Candidate(t, k))
       /\ IF Tries(t) = {} THEN UNCHANGED mTaskList
                           ELSE TurnTo(t, Len(mTaskList[t].inst))
       /\ Result(m, {}, FALSE, 0)
       /\ UNCHANGED waited

\* The instance is looked up by its own id: that it belongs to the task the
\* message names, or shuts down, makes no difference.
AddressTo(m, i) == /\ Result(m, {i} \intersect DOMAIN mInstList,
                            i \in DOMAIN mInstList, 0)
                   /\ UNCHANGED <<mTaskList, waited>>

sendMsgToTask(m) ==
    \/ /\ ~exists(m.to)
       /\ Result(m, {}, FALSE, 0)
       /\ UNCHANGED <<mTaskList, waited>>
    \/ exists(m.to) /\ m.inst # AnyInst /\ AddressTo(m, m.inst)
    \/ exists(m.to) /\ m.inst = AnyInst /\ Share(m, m.to)

\* Variant with a fault: the loop ends before the last entry.
Passed_Front(s) == Range(SubSeq(s, 1, Len(s) - 1))

\* reset() puts the cursor of the list on its first entry and next() moves it
\* on before it reads: the first entry is passed over.
Passed(s) == IF s = <<>> THEN {} ELSE Range(Tail(s))

multicastMsgToTask(m) ==
    /\ \/ ~exists(m.to) /\ Result(m, {}, FALSE, 1)
       \/ /\ exists(m.to)
          /\ Result(m, Passed(mTaskList[m.to].inst) \intersect DOMAIN mInstList,
                    TRUE, 1)
    /\ UNCHANGED <<mTaskList, waited>>

\* Variant with a fault: a broadcast goes to the task it names.
broadcastMsgToTask_OneTask(m) ==
    /\ Result(m, IF exists(m.to) THEN Listed(m.to) ELSE {}, TRUE, 1)
    /\ UNCHANGED <<mTaskList, waited>>

broadcastMsgToTask(m) == /\ Result(m, DOMAIN mInstList, TRUE, 1)
                         /\ UNCHANGED <<mTaskList, waited>>

\* The switch of TTaskSelector::add, on msgType.
Add(m) == /\ CASE m.msgType = DIALOG_BROADCAST -> broadcastMsgToTask(m)
               [] m.msgType = DIALOG_MULTICAST -> multicastMsgToTask(m)
               [] OTHER -> sendMsgToTask(m)
          /\ UNCHANGED mInstList

-----------------------------------------------------------------------------
(* The selector on its own: any sequence of calls of its interface.        *)

Registration == /\ outcome' = NoOutcome
                /\ \/ \E t \in Task, i \in Inst : RegisterTask(t, i)
                   \/ \E i \in Inst : ShutdownInst(i)
                   \/ \E t \in Task : ShutdownTask(t)
                   \/ \E i \in Inst : UnregisterInst(i)
                   \/ \E t \in Task : UnregisterTask(t)

SelectorNext == Registration \/ \E m \in Address : Add(m)

SelectorSpec == SelectorInit /\ [][SelectorNext]_selectorVars

-----------------------------------------------------------------------------
(* Properties.                                                             *)

\* Every variable has its type.
SelectorTypeOK ==
    /\ DOMAIN mTaskList \subseteq Task
    /\ \A t \in DOMAIN mTaskList :
          /\ mTaskList[t].inst \in Seq(Inst)
          /\ mTaskList[t].instpos \in 0 .. Cardinality(Inst) - 1
    /\ DOMAIN mInstList \subseteq Inst
    /\ \A i \in DOMAIN mInstList :
          mInstList[i] \in [taskid : Task, shuttingDown : BOOLEAN]
    /\ waited \in [Inst -> 0 .. Cardinality(Inst)]
    /\ outcome # NoOutcome =>
          outcome \in [msg : Address, reached : SUBSET Inst,
                       accepted : BOOLEAN, deleted : {0, 1}]

\* The two tables agree after any sequence of registrations: an instance is
\* listed once, under the task it belongs to and no other.  A stale entry
\* would hand messages to an instance that has gone.
ListsAgree ==
    /\ \A i \in DOMAIN mInstList : exists(mInstList[i].taskid)
    /\ \A t \in DOMAIN mTaskList :
          /\ Cardinality(Listed(t)) = Len(mTaskList[t].inst)
          /\ Listed(t) = {i \in DOMAIN mInstList : mInstList[i].taskid = t}

\* Load sharing (taskselector.h 78-80): while the instances of a task stay, no
\* available one is passed over for more than a full turn, although others
\* shut down and join and the position wraps in between.
SharedByTurns ==
    \A t \in DOMAIN mTaskList : \A i \in Listed(t) :
       Available(i) => waited[i] < Len(mTaskList[t].inst)

\* An unaddressed message is refused only when the task has no instance left
\* that takes new work, and never goes to one that shuts down: the search by
\* turns misses none, wherever the position stands.
RefusedOnlyWhenNoneLeft ==
    outcome # NoOutcome /\ outcome.msg.inst = AnyInst
                        /\ outcome.msg.msgType = ORDINARY =>
       LET t == outcome.msg.to
           S == {i \in DOMAIN mInstList :
                    mInstList[i].taskid = t /\ Available(i)}
       IN  outcome.reached \subseteq S /\ (outcome.accepted <=> S # {})

\* A multicast reaches every instance of its task, also those that shut down,
\* and none of another task, but for the first on the list of the task
\* (taskselector.C 254-256): after any sequence of registrations the copies
\* and the table of instances agree on who belongs to the task.
MulticastMissesFirstOnly ==
    outcome # NoOutcome /\ outcome.msg.msgType = DIALOG_MULTICAST =>
       LET t == outcome.msg.to
           S == {i \in DOMAIN mInstList : mInstList[i].taskid = t}
       IN  outcome.reached = S \ (IF S = {} THEN {}
                                  ELSE {Head(mTaskList[t].inst)})
=============================================================================
