----------------------------- MODULE Framework -----------------------------
(***************************************************************************)
(* The framework: the manager's thread (TFRAMEManager::Init and Run),      *)
(* which registers the task instances, starts the kernel and the instances *)
(* one after the other and then serves commands; the kernel's thread       *)
(* (TFRAMEControl::mainLoop), which hands the messages of tasks to         *)
(* instances through the TaskSelector; and one thread per instance         *)
(* (TAbstractTask::process, its timers left out).  They share nothing but  *)
(* fifos.                                                                  *)
(***************************************************************************)
EXTENDS TaskSelector

CONSTANTS TaskOf,       \* task of each instance, in the order of the start list
          Addresses,    \* addresses tasks send to
          Commands,     \* commands that arrive on the manager's socket
          InstMod,      \* number of values of an unsigned id, 2^32 in the code
          MaxMsgs,      \* bound on the messages tasks send
          MaxCmds       \* bound on the commands

ASSUME FrameworkAssumption ==
    /\ TaskOf \in Seq(Task) \ {<<>>}
    /\ Inst = DOMAIN TaskOf
    /\ Addresses \subseteq Address
    /\ \A c \in Commands : c.kind \in {"reload", "statues"}
    /\ MaxMsgs \in Nat
    /\ MaxCmds \in Nat
    /\ InstMod \in Nat
    /\ \A i \in Inst : i < InstMod - 1

Kernel == 0             \* the kernel as a partner of the manager
AllTasks == -1          \* taskId of a command for every instance

VARIABLES
    kernelFifo,         \* TFRAMEControl::mFifo
    rxFifo,             \* mTaskRxFifo of each instance
    mngFifo,            \* TFRAMEManager::mFifo
    socket,             \* commands that arrived
    issued,             \* how many commands arrived so far
    mng,                \* where the manager's thread is
    cursor,             \* the instance the manager's loop is at
    command,            \* the command the manager dispatches
    running,            \* threads that run: the kernel and instances
    started,            \* instances that have been through preTaskStart
    asked,              \* history: the partner of each transaction, by transID
    answered,           \* history: how often each transaction was answered
    sent,               \* history: sender and address of each message, by id
    deleted,            \* history: how often each message was deleted
    handled             \* history: ids each instance passed to procMsg, in order

managerVars == <<mng, cursor, command, socket, issued>>
frameworkVars == <<selectorVars, kernelFifo, rxFifo, mngFifo, managerVars,
                   running, started, asked, answered, sent, deleted, handled>>

Event(k, trans) == [kind |-> k, id |-> trans]
Message(id) == [kind |-> "message", id |-> id]
Reply(k, trans, p) == [kind |-> k, id |-> trans, from |-> p]
EventKinds == {"init", "reload", "statues"}

\* Variant with a fault: a message is put in front of the others.
FifoAdd_Front(fifo, e) == <<e>> \o fifo

\* Fifo::add
FifoAdd(fifo, e) == Append(fifo, e)

Init ==
    /\ SelectorInit
    /\ kernelFifo = <<>>
    /\ rxFifo = [i \in Inst |-> <<>>]
    /\ mngFifo = <<>>
    /\ socket = <<>>
    /\ issued = 0
    /\ mng = "register"
    /\ cursor = 1
    /\ command = <<>>
    /\ running = {}
    /\ started = {}
    /\ asked = <<>>
    /\ answered = <<>>
    /\ sent = <<>>
    /\ deleted = <<>>
    /\ handled = [i \in Inst |-> <<>>]

-----------------------------------------------------------------------------
(* The manager.                                                            *)

\* ++mTransID: the transactions are numbered from 1.
Ask(p) == /\ asked' = Append(asked, p)
          /\ answered' = Append(answered, 0)

\* Variant with a fault: the number of the transaction before is used.
SendEvent_OldId(k, i) ==
    /\ Ask(i)
    /\ rxFifo' = [rxFifo EXCEPT ![i] = FifoAdd(@, Event(k, Len(asked)))]

\* A new transaction with instance i, as an event in its fifo.
SendEvent(k, i) ==
    /\ Ask(i)
    /\ rxFifo' = [rxFifo EXCEPT ![i] = FifoAdd(@, Event(k, Len(asked')))]

\* The start list is walked from its head to its end.
AtLast == cursor = Len(TaskOf)

\* Variant with a fault: the cursor is not reset to the head of the list.
Advance_NoReset(from, to) == /\ mng' = IF AtLast THEN to ELSE from
                             /\ cursor' = cursor + 1

Advance(from, to) == /\ mng' = IF AtLast THEN to ELSE from
                     /\ cursor' = IF AtLast THEN 1 ELSE cursor + 1

\* Instances are numbered from 1 in the order of the start list.
Register ==
    /\ mng = "register"
    /\ RegisterTask(TaskOf[cursor], cursor)
    /\ Advance("register", "kernel")
    /\ UNCHANGED <<outcome, kernelFifo, rxFifo, mngFifo, command, socket,
                   issued, running, started, asked, answered, sent, deleted,
                   handled>>

StartKernel ==
    /\ mng = "kernel"
    /\ Ask(Kernel)
    /\ kernelFifo' = FifoAdd(kernelFifo, Event("init", Len(asked')))
    /\ running' = running \union {Kernel}
    /\ mng' = "start"
    /\ UNCHANGED <<selectorVars, rxFifo, mngFifo, cursor, command, socket,
                   issued, started, sent, deleted, handled>>

StartTask ==
    /\ mng = "start"
    /\ SendEvent("init", cursor)
    /\ running' = running \union {cursor}
    /\ Advance("start", "poll")
    /\ UNCHANGED <<selectorVars, kernelFifo, mngFifo, command, socket, issued,
                   started, sent, deleted, handled>>

\* One reply at most per turn of the loop; the wait for it is timed.
Poll ==
    /\ mng = "poll"
    /\ mng' = "recv"
    /\ \/ /\ mngFifo # <<>>
          /\ answered' = [answered EXCEPT ![Head(mngFifo).id] = @ + 1]
          /\ mngFifo' = Tail(mngFifo)
       \/ mngFifo = <<>> /\ UNCHANGED <<answered, mngFifo>>
    /\ UNCHANGED <<selectorVars, kernelFifo, rxFifo, cursor, command, socket,
                   issued, running, started, asked, sent, deleted, handled>>

\* One command at most per turn, without waiting.
RecvCode ==
    /\ mng = "recv"
    /\ \/ /\ socket # <<>>
          /\ command' = Head(socket)
          /\ socket' = Tail(socket)
          /\ mng' = "dispatch"
       \/ socket = <<>> /\ mng' = "poll" /\ UNCHANGED <<command, socket>>
    /\ UNCHANGED <<selectorVars, kernelFifo, rxFifo, mngFifo, cursor, issued,
                   running, started, asked, answered, sent, deleted, handled>>

\* The condition at framemng.C 290.  Its middle part compares the unsigned id
\* of the instance, not that of the command, with -1.
Matches(c, i) == \/ c.taskId = AllTasks
                 \/ TaskOf[i] = c.taskId /\ i = InstMod - 1
                 \/ TaskOf[i] = c.taskId /\ i = c.instId

Dispatch ==
    /\ mng = "dispatch"
    /\ \/ Matches(command, cursor) /\ SendEvent(command.kind, cursor)
       \/ ~Matches(command, cursor) /\ UNCHANGED <<asked, answered, rxFifo>>
    /\ Advance("dispatch", "poll")
    /\ command' = IF AtLast THEN <<>> ELSE command
    /\ UNCHANGED <<selectorVars, kernelFifo, mngFifo, socket, issued, running,
                   started, sent, deleted, handled>>

Manager == Register \/ StartKernel \/ StartTask \/ Poll \/ RecvCode \/ Dispatch

-----------------------------------------------------------------------------
(* The kernel.                                                             *)

KernelEvent ==
    /\ Head(kernelFifo).kind = "init"
    /\ mngFifo' = FifoAdd(mngFifo, Reply("init", Head(kernelFifo).id, Kernel))
    /\ UNCHANGED <<selectorVars, rxFifo, deleted>>

\* Variant with a fault: a refused message is not deleted.
Refused_Leak(ok) == 0

\* A message the selector refuses is deleted by the main loop.
Refused(ok) == IF ok THEN 0 ELSE 1

\* Variant with a fault: an instance that does not run yet gets no messages.
Route_RunningOnly(id) ==
    /\ Add(sent[id].address)
    /\ rxFifo' = [i \in Inst |-> IF i \in outcome'.reached \intersect running
                                 THEN FifoAdd(rxFifo[i], Message(id))
                                 ELSE rxFifo[i]]
    /\ deleted' = [deleted EXCEPT ![id] = @ + outcome'.deleted
                                          + Refused(outcome'.accepted)]

Route(id) ==
    /\ Add(sent[id].address)
    /\ rxFifo' = [i \in Inst |-> IF i \in outcome'.reached
                                 THEN FifoAdd(rxFifo[i], Message(id))
                                 ELSE rxFifo[i]]
    /\ deleted' = [deleted EXCEPT ![id] = @ + outcome'.deleted
                                          + Refused(outcome'.accepted)]

KernelMessage == /\ Head(kernelFifo).kind = "message"
                 /\ Route(Head(kernelFifo).id)
                 /\ UNCHANGED mngFifo

mainLoop ==
    /\ Kernel \in running
    /\ kernelFifo # <<>>
    /\ kernelFifo' = Tail(kernelFifo)
    /\ KernelEvent \/ KernelMessage
    /\ UNCHANGED <<managerVars, running, started, asked, answered, sent,
                   handled>>

-----------------------------------------------------------------------------
(* The instances.                                                          *)

\* Variant with a fault: only onStart posts a reply.
HandleEvent_InitOnly(i, e) ==
    /\ e.kind \in EventKinds
    /\ started' = IF e.kind = "init" THEN started \union {i} ELSE started
    /\ mngFifo' = IF e.kind = "init" THEN FifoAdd(mngFifo, Reply(e.kind, e.id, i))
                                     ELSE mngFifo
    /\ UNCHANGED <<deleted, handled>>

\* onStart, onReload and onStatues end in a post to the manager.
HandleEvent(i, e) ==
    /\ e.kind \in EventKinds
    /\ started' = IF e.kind = "init" THEN started \union {i} ELSE started
    /\ mngFifo' = FifoAdd(mngFifo, Reply(e.kind, e.id, i))
    /\ UNCHANGED <<deleted, handled>>

Shares(m) == m.msgType \in {DIALOG_BROADCAST, DIALOG_MULTICAST}

\* procMsg gets the message and deletes it; of a broadcast or a multicast, a
\* copy.
HandleMessage(i, e) ==
    /\ e.kind = "message"
    /\ handled' = [handled EXCEPT ![i] = Append(@, e.id)]
    /\ deleted' = IF Shares(sent[e.id].address) THEN deleted
                  ELSE [deleted EXCEPT ![e.id] = @ + 1]
    /\ UNCHANGED <<started, mngFifo>>

process(i) ==
    /\ i \in running
    /\ rxFifo[i] # <<>>
    /\ rxFifo' = [rxFifo EXCEPT ![i] = Tail(@)]
    /\ HandleEvent(i, Head(rxFifo[i])) \/ HandleMessage(i, Head(rxFifo[i]))
    /\ UNCHANGED <<selectorVars, kernelFifo, managerVars, running, asked,
                   answered, sent>>

\* The code of an instance runs from its first handler on.
Active(i) == i \in started \/ handled[i] # <<>>

\* sendMsg, from a handler or from a thread the task started.
sendMsg(i, a) ==
    /\ Active(i)
    /\ Len(sent) < MaxMsgs
    /\ sent' = Append(sent, [from |-> i, address |-> a])
    /\ deleted' = Append(deleted, 0)
    /\ kernelFifo' = FifoAdd(kernelFifo, Message(Len(sent')))
    /\ UNCHANGED <<selectorVars, rxFifo, mngFifo, managerVars, running, started,
                   asked, answered, handled>>

\* A watch client sends a command.
Client(c) ==
    /\ issued < MaxCmds
    /\ issued' = issued + 1
    /\ socket' = Append(socket, c)
    /\ UNCHANGED <<selectorVars, kernelFifo, rxFifo, mngFifo, mng, cursor,
                   command, running, started, asked, answered, sent, deleted,
                   handled>>

-----------------------------------------------------------------------------
Next == \/ Manager
        \/ mainLoop
        \/ \E i \in Inst : process(i)
        \/ \E i \in Inst, a \in Addresses : sendMsg(i, a)
        \/ \E c \in Commands : Client(c)

Spec == Init /\ [][Next]_frameworkVars

\* Each thread is scheduled: the operating system runs them all, and none of
\* them waits without a limit while its fifo has a message.
FairSpec == /\ Spec
            /\ WF_frameworkVars(Manager)
            /\ WF_frameworkVars(mainLoop)
            /\ \A i \in Inst : WF_frameworkVars(process(i))
-----------------------------------------------------------------------------
(* Safety.                                                                 *)

Ids == 1 .. Len(sent)
Transactions == 1 .. Len(asked)
Places(e, s) == {k \in DOMAIN s : s[k] = e}
Count(e, s) == Cardinality(Places(e, s))

\* Every variable has its type.
TypeOK ==
    /\ SelectorTypeOK
    /\ mng \in {"register", "kernel", "start", "poll", "recv", "dispatch"}
    /\ cursor \in Inst
    /\ socket \in Seq(Commands)
    /\ mng = "dispatch" => command \in Commands
    /\ running \subseteq Inst \union {Kernel}
    /\ started \subseteq running
    /\ asked \in Seq(Inst \union {Kernel})
    /\ sent \in Seq([from : Inst, address : Addresses])
    /\ \A k \in DOMAIN mngFifo :
          mngFifo[k] \in [kind : EventKinds, id : Transactions,
                          from : Inst \union {Kernel}]
    /\ \A k \in DOMAIN kernelFifo : kernelFifo[k] \in
          [kind : {"init"}, id : Transactions] \union
          [kind : {"message"}, id : Ids]
    /\ \A i \in Inst : \A k \in DOMAIN rxFifo[i] : rxFifo[i][k] \in
          [kind : EventKinds, id : Transactions] \union
          [kind : {"message"}, id : Ids]

\* The copies of a message in the fifos of instances.
Copies(id) == UNION {{i} \X Places(Message(id), rxFifo[i]) : i \in Inst}

\* A multicast to a task without instances is deleted by the selector, which
\* refuses it, and so again by the main loop: see DeletedOnce.
DeletedTwice(a) == a.msgType = DIALOG_MULTICAST /\ a.to \notin Range(TaskOf)

\* A message sent to one receiver is in one place until it is deleted, and the
\* original of a broadcast until it has been copied: nothing is leaked or used
\* by two threads (abstracttask.h 89-92 promises the sender that the kernel
\* deletes it), and only the message above is deleted twice.
MessageOwnedOnce ==
    \A id \in Ids :
       Count(Message(id), kernelFifo) + deleted[id]
          + (IF Shares(sent[id].address) THEN 0 ELSE Cardinality(Copies(id)))
       = IF deleted[id] > 0 /\ DeletedTwice(sent[id].address) THEN 2 ELSE 1

\* The comment at abstracttask.h 92: the kernel deletes each message; it does
\* so once.
DeletedOnce == \A id \in Ids : deleted[id] <= 1

\* What an instance has received of a message, handled or not.
Received(id, i) == Count(Message(id), rxFifo[i]) + Count(id, handled[i])

\* A message reaches those it was sent to: each instance once if it is a
\* broadcast, otherwise at most once and nobody outside the address.
DeliveredAsAddressed ==
    \A id \in Ids, i \in Inst :
       LET a == sent[id].address IN
          IF a.msgType = DIALOG_BROADCAST
          THEN Received(id, i) = deleted[id]
          ELSE /\ Received(id, i) <= 1
               /\ Received(id, i) = 1 =>
                     IF a.inst # AnyInst /\ ~Shares(a) THEN i = a.inst
                                                       ELSE TaskOf[i] = a.to

\* All instances handle what they receive in one common order, that of the
\* calls of sendMsg: no message overtakes another on its way through the
\* kernel, whatever the senders, the addresses and the load on the receivers.
CommonOrder ==
    \A i \in Inst : \A p, q \in DOMAIN handled[i] :
       p < q => handled[i][p] < handled[i][q]

Replies(t) == {k \in DOMAIN mngFifo : mngFifo[k].id = t}

\* A transaction of the manager is in one place: an event before its partner,
\* or that partner's one reply.
TransactionOnce ==
    \A t \in Transactions :
       LET p == asked[t]
           events == IF p = Kernel THEN Count(Event("init", t), kernelFifo)
                     ELSE Cardinality(UNION {Places(Event(k, t), rxFifo[p]) :
                                                k \in EventKinds})
       IN  /\ events + Cardinality(Replies(t)) + answered[t] = 1
           /\ \A k \in Replies(t) : mngFifo[k].from = p

\* An instance that replies to a command has started before: commands that
\* arrive while the manager still walks the start list do not overtake it.
CommandsAfterStart ==
    \A k \in DOMAIN mngFifo :
       mngFifo[k].from # Kernel /\ mngFifo[k].kind # "init"
          => mngFifo[k].from \in started

-----------------------------------------------------------------------------
(* Liveness.                                                               *)

\* Every transaction the manager begins is answered and the reply read.
TransactionsComplete ==
    \A t \in 1 .. 1 + 2 * Len(TaskOf) :
       (t \in Transactions)
          ~> (t \in Transactions /\ answered[t] > 0)

\* A message to a registered task reaches procMsg of one of its instances,
\* even if it was sent before that instance was started.
MessagesHandled ==
    \A id \in 1 .. MaxMsgs :
       (id \in Ids /\ sent[id].address.msgType = ORDINARY
                   /\ exists(sent[id].address.to))
          ~> (\E i \in Inst : id \in Range(handled[i]))
=============================================================================
