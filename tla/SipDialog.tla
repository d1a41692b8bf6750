----------------------------- MODULE SipDialog -----------------------------
(***************************************************************************)
(* The thread of the SIP stack adapter (SipStackPsa) and its table of      *)
(* dialogs (CSIPPsaDialog): two expiring buffers, one from the id of a     *)
(* dialog to its record, one from the id of the reverse direction to that  *)
(* id.  The thread reads the clock several times while it handles one      *)
(* message; seconds pass in between.  The buffers are the lists they       *)
(* implement (see ExpireBuffer).                                           *)
(***************************************************************************)
EXTENDS Integers, Sequences

CONSTANTS Id,           \* digests of caller, callee and call
          Rev,          \* the digest with caller and callee exchanged
          Task,         \* addresses of tasks
          NoTask,       \* a TMsgAddress as it is constructed
          Empty,        \* the empty dialog id
          Unnamed,      \* {Empty} if tasks may leave the id empty, or {}
          MaxAge,       \* more than any living time, in seconds
          Livings       \* living times that are configured

ASSUME DialogAssumption ==
    /\ Rev \in [Id -> Id]
    /\ \A d \in Id : Rev[Rev[d]] = d
    /\ Empty \notin Id
    /\ Unnamed \subseteq {Empty}
    /\ NoTask \notin Task
    /\ MaxAge \in Nat \ {0}
    /\ Livings \subseteq 0 .. MaxAge - 1

Key == Id \union {Empty}
Info == [B : Key, addr : Task \union {NoTask}]

\* What the adapter reads of a message: the digest its headers give, the
\* dialogid its sender filled in, the kind of its method, the sender.
Creating == "creating"  \* INVITE, REGISTER and others
Notify == "notify"
Inside == "inside"      \* responses, ACK, BYE, CANCEL and others

Kinds == {Creating, Notify, Inside}
FromWire == {[did |-> d, dialogid |-> d, kind |-> c, from |-> NoTask] :
                d \in Id, c \in Kinds}
FromTask == UNION {{[did |-> d, dialogid |-> g, kind |-> c, from |-> t] :
                       g \in {d, Rev[d]} \union Unnamed} :
                   d \in Id, c \in Kinds, t \in Task}

VARIABLES
    mDialogMap_F,       \* id of a dialog to its record
    mDialogMap_B,       \* id of the reverse direction to id of the dialog
    policy,             \* the limits of both buffers
    pc,                 \* where the thread is
    msg,                \* the message in procMsg
    age,                \* seconds since mCurrenttime was read
    last                \* history: the task that sent the last message of a
                        \* call since its dialog was opened, by digest;
                        \* Untimely once a second has passed inside a handler,
                        \* or a record was inserted under another id than
                        \* that of its message

F == INSTANCE ExpireList WITH list <- mDialogMap_F, Value <- Info
B == INSTANCE ExpireList WITH list <- mDialogMap_B, Value <- Key

tables == <<mDialogMap_F, mDialogMap_B>>
handler == <<pc, msg, age>>
vars == <<tables, policy, handler, last>>

NoMsg == <<>>
Untimely == <<>>
Call(d) == {d, Rev[d]}

\* The constructor passes its arguments the wrong way round; onInit sets the
\* living time before the timer and the stack are started.
Init ==
    /\ mDialogMap_F = <<>>
    /\ mDialogMap_B = <<>>
    /\ policy \in [maxCount : {0}, destroyOld : {TRUE}, living : Livings]
    /\ pc = "idle"
    /\ msg = NoMsg
    /\ age = 0
    /\ last = [d \in Id |-> NoTask]

-----------------------------------------------------------------------------
(* The table.                                                              *)

\* Where QueryDialogTab looks, whether it finds, and what.
Target(k) == IF k \in B!Keys THEN B!Content(k) ELSE k
QueryDialogTab(k) == Target(k) \in F!Keys
Found(k) == F!Content(Target(k))

\* Variant with a fault: only the forward table is refreshed.
UpdateDialogExpire_OnlyF(k, a) == F!update(k, a) /\ UNCHANGED mDialogMap_B

\* Variant with a fault: the time given is one second ahead.
UpdateDialogExpire_Ahead(k, a) == /\ F!update(k, a - 1)
                                  /\ B!update(F!Content(k).B, a - 1)

\* Called with the id of a dialog of the forward table.
UpdateDialogExpire(k, a) == /\ F!update(k, a)
                            /\ B!update(F!Content(k).B, a)

\* Variant with a fault: an id of the reverse direction is not followed.
UpdateDialogAddr_OnlyF(k, t) ==
    mDialogMap_F' = IF k \in F!Keys
                    THEN [mDialogMap_F EXCEPT ![F!Position(k)].value.addr = t]
                    ELSE mDialogMap_F

\* The forward table is asked first, other than in QueryDialogTab.
UpdateDialogAddr(k, t) ==
    LET f == IF k \in F!Keys THEN k ELSE B!Content(k) IN
    mDialogMap_F' = [mDialogMap_F EXCEPT ![F!Position(f)].value.addr = t]

-----------------------------------------------------------------------------
(* procMsg.                                                                *)

Return == pc' = "idle" /\ msg' = NoMsg /\ age' = 0

Says(d, t) ==
    last' = IF last = Untimely THEN Untimely
            ELSE [e \in Id |-> IF e \in Call(d) THEN t ELSE last[e]]

\* A message the SIP stack has put in the fifo (post): mCurrenttime is read.
Receive(m) ==
    /\ pc = "idle"
    /\ pc' = "received"
    /\ msg' = m
    /\ UNCHANGED <<tables, policy, age, last>>

\* Inside a dialog it goes to the task of the dialog.
WireInDialog ==
    /\ pc = "received"
    /\ QueryDialogTab(msg.dialogid)
    /\ UpdateDialogExpire(Target(msg.dialogid), age)
    /\ Return
    /\ UNCHANGED <<policy, last>>

WireOutside == pc = "received" /\ ~QueryDialogTab(msg.dialogid)

\* Outside a dialog it is sent on, past the tasks, or opens one.
WireForward ==
    /\ WireOutside
    /\ msg.kind = Inside
    /\ Return
    /\ UNCHANGED <<tables, policy, last>>

\* InsertDialogTab, the forward table first: under the id the sender filled in.
InsertForward(m) ==
    /\ F!push(m.dialogid, [B |-> Rev[m.did], addr |-> m.from])
    /\ pc' = "insert"
    /\ msg' = m
    /\ IF m.dialogid = m.did THEN Says(m.did, m.from) ELSE last' = Untimely
    /\ UNCHANGED <<mDialogMap_B, policy>>

WireOpens ==
    /\ WireOutside
    /\ msg.kind \in {Creating, Notify}
    /\ InsertForward(msg)
    /\ UNCHANGED age

InsertBackward ==
    /\ pc = "insert"
    /\ B!push(Rev[msg.did], msg.dialogid)
    /\ Return
    /\ UNCHANGED <<mDialogMap_F, policy, last>>

\* The id that is searched for a message of a task, which may leave it empty.
Searched(m) == IF m.dialogid = Empty THEN m.did ELSE m.dialogid

\* A message of a task inside a dialog makes that task its task.  The clock
\* read at the start of procMsg is not used.
TaskInDialog(m) ==
    /\ pc = "idle"
    /\ QueryDialogTab(Searched(m))
    /\ \/ /\ Found(Searched(m)).addr # m.from
          /\ UpdateDialogAddr(Searched(m), m.from)
       \/ /\ Found(Searched(m)).addr = m.from
          /\ UNCHANGED mDialogMap_F
    /\ Says(m.did, m.from)
    /\ UNCHANGED <<mDialogMap_B, policy, handler>>

\* A message of a task opens a dialog; one of another kind is only sent.
TaskOpens(m) ==
    /\ pc = "idle"
    /\ ~QueryDialogTab(Searched(m))
    /\ m.kind = Creating
    /\ InsertForward(m)
    /\ UNCHANGED age

-----------------------------------------------------------------------------
(* onTimeOut and reloadTaskEnv.                                            *)

onTimeOut ==
    /\ pc = "idle"
    /\ pc' = "cleanB"
    /\ UNCHANGED <<tables, policy, msg, age, last>>

\* Variant with a fault: the forward table is not cleaned.
CleanBackward_Only ==
    /\ pc = "cleanB"
    /\ \/ /\ B!pop_front_old
          /\ UNCHANGED pc
       \/ /\ ~B!HeadExpired
          /\ pc' = "idle"
          /\ UNCHANGED mDialogMap_B
    /\ UNCHANGED <<mDialogMap_F, policy, msg, age, last>>

\* CleanExpireDialog: each turn of pop_old reads the clock.
CleanBackward ==
    /\ pc = "cleanB"
    /\ \/ /\ B!pop_front_old
          /\ UNCHANGED pc
       \/ /\ ~B!HeadExpired
          /\ pc' = "cleanF"
          /\ UNCHANGED mDialogMap_B
    /\ UNCHANGED <<mDialogMap_F, policy, msg, age, last>>

CleanForward ==
    /\ pc = "cleanF"
    /\ \/ /\ F!pop_front_old
          /\ UNCHANGED pc
       \/ /\ ~F!HeadExpired
          /\ pc' = "idle"
          /\ UNCHANGED mDialogMap_F
    /\ UNCHANGED <<mDialogMap_B, policy, msg, age, last>>

reloadTaskEnv(n) ==
    /\ pc = "idle"
    /\ F!setLivingTime(n)
    /\ UNCHANGED <<tables, handler, last>>

\* A second passes.
Tick ==
    /\ F!Tick
    /\ B!Tick
    /\ age' = IF pc = "received" THEN F!Older(age) ELSE age
    /\ last' = IF pc = "idle" THEN last ELSE Untimely
    /\ UNCHANGED <<policy, pc, msg>>

-----------------------------------------------------------------------------
Handle == \/ WireInDialog
          \/ WireForward
          \/ WireOpens
          \/ InsertBackward
          \/ CleanBackward
          \/ CleanForward

Next == \/ \E m \in FromWire : Receive(m)
        \/ \E m \in FromTask : TaskInDialog(m) \/ TaskOpens(m)
        \/ Handle
        \/ onTimeOut
        \/ \E n \in Livings : reloadTaskEnv(n)
        \/ Tick

Spec == Init /\ [][Next]_vars

\* Time passes and the thread runs.  The recycle timer is set again by each
\* time-out, and its message reaches the thread whatever other messages do:
\* the fifo is served in order (see QueuedTimeoutFires in TaskRuntime).
FairSpec == Spec /\ WF_vars(Tick) /\ WF_vars(Handle) /\ SF_vars(onTimeOut)
-----------------------------------------------------------------------------
(* Properties.                                                             *)

\* Every variable has its type.
TypeOK ==
    /\ mDialogMap_F \in Seq(F!Record)
    /\ mDialogMap_B \in Seq(B!Record)
    /\ policy \in [maxCount : {0}, destroyOld : {TRUE}, living : Livings]
    /\ pc \in {"idle", "received", "insert", "cleanB", "cleanF"}
    /\ msg \in FromWire \union FromTask \union {NoMsg}
    /\ age \in 0 .. MaxAge
    /\ last = Untimely \/ last \in [Id -> Task \union {NoTask}]

Ordered(list) == \A i, j \in DOMAIN list : i < j => list[i].age >= list[j].age

\* Both tables are ordered by the last refresh although a record is refreshed
\* with a time that was read before and inserted with one that is read later:
\* otherwise pop_old, which looks at the head alone, would keep expired
\* records behind a fresh one.
OldestFirst == Ordered(mDialogMap_F) /\ Ordered(mDialogMap_B)

Fresh(list) == \A i \in DOMAIN list : list[i].age <= policy.living

\* A step takes expired records only, and ends the cleaning of a table only
\* when none is left in it.
OnlyExpiredLeave ==
    /\ pc = "cleanB" /\ pc' = "cleanF" => Fresh(mDialogMap_B)
    /\ pc = "cleanF" /\ pc' = "idle" => Fresh(mDialogMap_F)
    /\ \A i \in DOMAIN mDialogMap_F : \/ mDialogMap_F[i].key \in (F!Keys)'
                                      \/ mDialogMap_F[i].age > policy.living
    /\ \A i \in DOMAIN mDialogMap_B : \/ mDialogMap_B[i].key \in (B!Keys)'
                                      \/ mDialogMap_B[i].age > policy.living

\* The comment at cexpirebuffer.h 173: cleaning removes records that are older
\* than the living time, and leaves none that was when the clock was read.
CleanedExactly == [][OnlyExpiredLeave]_vars

\* A dialog in the forward table is found under the ids of both directions.
FoundBothWays ==
    \A d \in F!Keys : /\ Target(d) = d
                      /\ Target(F!Content(d).B) = d

\* Between two messages the tables agree, and each dialog is found in both
\* directions, unless some handler was slow enough for a second to pass or a
\* task opened a dialog under another id than its headers give: insertion,
\* refresh and cleaning, which change the tables one after the other and read
\* the clock for each, leave no other gap.
TablesAgree ==
    last # Untimely /\ pc \in {"idle", "received"} =>
       /\ FoundBothWays
       /\ \A b \in B!Keys : B!Content(b) \in F!Keys

\* A message of the wire goes to the task that sent the last message of the
\* dialog, in whichever direction and under whichever of the two ids, and to
\* no task before one has answered (sipstackpsa.C 362 keeps the address up to
\* date); unless seconds passed as above.
LastTaskOwns ==
    last # Untimely =>
       \A d \in Id : QueryDialogTab(d) => Found(d).addr = last[d]

-----------------------------------------------------------------------------
(* Liveness.                                                               *)

HasExpired(list, k) == \E i \in DOMAIN list : /\ list[i].key = k
                                              /\ list[i].age > policy.living

\* No record is kept for ever: one that has expired is removed or refreshed.
ExpiredLeave ==
    \A k \in Key : /\ HasExpired(mDialogMap_F, k) ~> ~HasExpired(mDialogMap_F, k)
                   /\ HasExpired(mDialogMap_B, k) ~> ~HasExpired(mDialogMap_B, k)
=============================================================================
