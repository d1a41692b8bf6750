# TsmProxy: specification and proofs

TsmProxy is a SIP/HTTP proxy built on *xframe*, a C++ framework of tasks that
run in threads of their own and talk through message queues.  This directory
holds TLA+ modules of the program's core, the TLC configurations that check
them on small instances, and TLAPS proofs of the theorems that hold for every
value of the constants.  Paths below are relative to `src/`.

## 1. The system

| component | state | operations | talks to |
|---|---|---|---|
| Task runtime and timers (`xframe/task/abstracttask.C`, `xframe/kernel/timerqueue.C`, `timer.C`, `xframe/task/taskthread.C`) | receive fifo, priority queue of timers, table of valid timer keys | `setTimer`, `delTimer`, the loop `process()` and its handlers `procMsg`, `onTimeOut`, `onStart`, `onReload`, `onStatues` | kernel (`sendMsg`), manager (`post`) |
| Fifo (`xframe/include/comserv/fifo.h`, `xframe/comserv/fifoabstract.C`) | list of messages, mutex, condition | `add`, `getNext()`, `getNext(ms)` | every pair of threads |
| Task selector (`xframe/kernel/taskselector.C`) | tasks with their instances and the position of the last turn; instances with a shutdown mark | register, shut down and unregister a task or an instance; `add` (one receiver, multicast, broadcast) | receive fifos of the instances |
| Kernel (`xframe/kernel/framectrl.C`, `kernalthread.C`) | its fifo, the selector | `mainLoop`, `add`, `post`, `postTo` | tasks, manager |
| Framework manager (`xframe/framemng.C`) | start list, transaction counter, its fifo, command socket | `Init`, `Run` (start, then replies and commands) | kernel, instances, watch client |
| SIP dialog table (`proxy/psasip/sipdialogmng.C`) over the expire buffer (`xframe/include/comserv/cexpirebuffer.h`) | two buffers, forward and backward dialog ids, ordered by last refresh | insert, query, update of address and of life time, cleaning | SIP stack adapter |
| SIP stack adapter (`proxy/psasip/sipstackpsa.C`) | dialog table, recycle timer | messages from the wire and from tasks, time-out | SIP library, registration and call tasks |
| Stream sockets (`xframe/comserv/socket.C`, `xframe/include/comserv/unibuffer.h`) | per socket a send and a receive buffer (rings of bytes), what select() must be asked, whether a whole code may be buffered | `sendCode`, `recvCode`, `closeSocketConnection`, `reConnect` | the peer, over TCP |
| HTTP parsers (`proxy/psahttp/httpmessage.C`, `httphandler.C`, `httpconn.C`) | state of the message being parsed, body so far | `parseStream` for a request and for a response, `processRecv` | HTTP thread |
| HTTP server (`proxy/psahttp/httpserver.C`, `httpthread.C`) | list of links, a send stream per link | accept, read, post, `send`, `processSend` | receiver task, clients |
| Receiver (`proxy/receiver/Receiver.C`), sender (`proxy/sender/Sender.C`) | none; pending messages | puts answers on links; forwards requests | HTTP server, registration task |
| SIP overflow control (`proxy/psasip/sipoverflow.C`) | counters, stage, limits | `checkOverflow` | nobody calls it at this commit |
| Registration (`proxy/registertask/`) | `RegisterTask.C`: none; `RegisterCS.C`: register and rows of a database | passes messages on; `RegisterCS.C` is not compiled | receiver, sender |
| Support: strings, XML, environment, database wrapper, thread wrappers (`xframe/comserv/`) | | | |

**How they interact.**  A thread never calls another thread's code: it adds a
message to a fifo.  `sendMsg` adds to the kernel's fifo; the kernel thread asks
the selector for receivers and adds to their fifos; a handler that answers the
manager posts to the manager's fifo.  The manager adds events (start, reload,
statistics) directly to the fifos of kernel and instances.

**What is hard.**  The waits of the task thread (a timed wait, an unlimited
one, signals in between); who owns a message or a timer parameter when several
paths can delete it; the order of messages that pass two fifos; the start of
instances while others already run; tables that are updated in two steps; turns
by position in lists that shrink; two dialog tables that expire one after the
other; a byte stream that `send()` and `recv()` cut anywhere, with a ring
buffer at either end and connections that break; a send stream two threads use
without a lock.  `PROJECT.json` lists each hazard at its line.

**What makes each part correct.**
*Task runtime*: a timer times out once, not early, in due order, never after a
`delTimer` that found it running; its parameter has one owner; no message is
slept over.
*Selector*: the tables agree; turns starve nobody; a message is refused only
when nobody is available.
*Framework*: a message has one owner and reaches those it is addressed to, in
one common order; each transaction is answered once by its partner.
*Dialogs*: a request inside a dialog finds the dialog under either id until it
expires; cleaning removes exactly what is older than the life time.
*Sockets*: the accepted codes are on the wire and in the send buffer once, in
order, and the receiver hands out exactly those, as soon as they are whole.
*HTTP*: a request is recognised however its stream is cut; the socket of a
client that waits for its answers is given them whole and in order, and so the
client gets them, but for what the socket does to them.

## 2. Modules

| module | models | state and actions |
|---|---|---|
| `TimerService` | what `setTimer`, `delTimer` and `onTimeOut` promise an application | the fate of each timer: `Set`, `Cancel`, `Expire`, `Drop`, `Fire` |
| `TaskRuntime` | the thread of a task with its timer queue and fifo | `mTimers` (the priority queue), `mTimerStoped` (the valid keys), `mFifo`, and `pc`, the place in `process()`: `BeginProcess` and `ProcessTimer` are the drain of `TimerQueue::process`, `EndDrain` is `msTillNextTimer` with its second reading of the clock, `GetNext`, `Wake` and `GiveUp` are the two `getNext`, `EndHandle` the end of a handler; `SetTimer` and `DelTimer` are calls from a handler; `Post` is an `add` by another thread |
| `TaskRuntimeProofs` | | the theorems about `TaskRuntime` |
| `TaskSelector` | `TTaskSelector`, by itself | `mTaskList`, `mInstList`; one action per operation; `outcome` records what became of a message, `waited` counts turns |
| `Framework` | manager, kernel and instances as threads that share fifos; EXTENDS `TaskSelector` | one action per step of each thread: `Register` (an entry of the start list), `StartKernel`, `StartTask`, `Poll`, `RecvCode`, `Dispatch` (one instance of the loop over the list), `mainLoop`, `process`, `sendMsg`, `Client` |
| `ExpireList` | what `CExpireBuffer` promises: a list of records in order of refresh | `list`, `policy`; one action per operation; a record has its age, the clock minus `m_refreshtime` |
| `ExpireBuffer` | the ring of nodes and the map that implement it | `buffer` (next, prev, head, tail, count; value and age by key); the pointer assignments of `push`, `pop`, `pop_front`, `pop_back` and both `update` |
| `SipDialog` | the adapter's thread and its dialog table, two instances of `ExpireList` | `mDialogMap_F`, `mDialogMap_B`; `procMsg` for messages of the wire (`Receive`, then `WireInDialog`, `WireForward` or `WireOpens`) and of tasks (`TaskInDialog`, `TaskOpens`), the second half of an insertion (`InsertBackward`), `onTimeOut` with the two halves of `CleanExpireDialog`; `Tick` may come between any two |
| `StreamBuffer` | `TBuffer`, as operators on a record | the cells, head, tail and filled length; `writeIntoBuffer`, `readFromBuffer` with its two calls, `rearrange` |
| `SocketStream` | two `CSocket`s over one TCP connection; EXTENDS `StreamBuffer` | `sbuf`, `rbuf`, `needSelect`, `hasMessage`, and the bytes on the connection; `sendCode` (direct, after what was left, or kept), `Break`, `closeSocketConnection`, `reConnect`, `recvCode` with the walk of `_readFromBuff` over the bytes |
| `HttpParse` | both parsers, fed piece by piece, without the client's download to a file | the state machine as a function of one character; one step is a piece of any length, posted or kept |
| `HttpServer` | HTTP thread and receiver thread over the links | `stream` (content, pos, len), `links`; one step per assignment to a send stream, since no lock protects it: `SetLen`, `SetContent`, `processSend`, `SendPart` with `sendCode`, `clear`; histories of what each socket was given (`handed`) and of its accidents (`lost`, `repeated`) |
| `FrameworkProofs` | | the theorems about `TaskSelector` and `Framework` |
| `ExpireBufferProofs`, `SipDialogProofs`, `SocketStreamProofs`, `HttpParseProofs`, `HttpServerProofs` | | the theorems about these modules |
| `SequenceLemmas` | | lemmas about sequences the proofs share: pieces, concatenations, `FlattenSeq`, and induction as a least counterexample |
| `MC...` | | values of the constants for TLC |

A critical section protected by a mutex is one step; between two of them any
other thread may run.  `process()` of a task runs with its timers in
`TaskRuntime` and with messages and events in `Framework`: the timers of a task
touch nothing another thread sees, and the other threads touch nothing but the
fifo.  The operators named `..._<fault>` in the modules are variants of the
definition below them with a plausible fault; each shows that a property would
notice.

`HttpServer` uses of the parsers that they hand on one request per reading, as
`HttpParse` checks.  Of a `CSocket` it keeps what `SocketStream` shows of
`sendCode`, in parts instead of bytes: kept parts go out before the new one,
which goes out, is kept, or is not accepted; and what is accepted goes out in
order, and once, except by the accident `SocketStream` calls "repeat".  Kept
bytes that pass the end of the ring go out in two `send()`s, and if the second
blocks the first ones stay in the buffer (`unibuffer.h` 210-223), while the new
part is accepted and kept as usual.  Where in the ring the bytes lie is not
followed here: a repeat may happen in any call that finds something kept.  The
other two accidents can not happen on a link: its codes are never of the
emergency kind, and its send limit is above the size of its buffer.

The adapter's thread is the only one that touches the dialog table, so the
steps of `SipDialog` are not critical sections but the places where the code
reads the clock: a second may pass between two of them.  Ids are the digests
`computeDialogId` returns; exchanging caller and callee gives `Rev`, and a
digest is taken to be different from that of every other call.  Tasks are
environment: they may send any message with any of the ids they have seen.
`last` is history, the task that sent the last message of a call; it turns to
`Untimely` when a second has passed inside a handler or a task files a dialog
under another id than that of its message, the two cases in which the tables do
come apart.

## 3. Runs

| run | configuration | what it shows |
|---|---|---|
| `task_runtime` | `MCTaskRuntime.cfg` | three timers, delays 0, 1 and 3 around a longest wait of 2: parameter ownership, agreement of table and queue, due order, and refinement of `TimerService` |
| `task_runtime_live` | `MCTaskRuntimeLive.cfg` | no message is slept over, a due timer leaves the queue unless the thread is in the unlimited wait, a queued time-out fires |
| `task_runtime_wait` | `MCTaskRuntimeWait.cfg` | *violation*: a wait of 0 ms is a wait without a limit |
| `task_selector` | `MCTaskSelector.cfg` | two tasks, three instances, every sequence of operations: tables agree, turns, refusals, and whom a multicast reaches |
| `framework` | `MCFramework.cfg` | three instances of two tasks, registered and started one by one, two messages to any address, sent also during the start: ownership, addressees, one common order |
| `framework_live` | `MCFrameworkLive.cfg` | a message and a command at any moment: transactions in one place, answered; messages handled |
| `expire_buffer` | `MCExpireBuffer.cfg` | three keys, no limit or a limit of two: the ring stays linked, bounded, and implements `ExpireList` |
| `sip_dialog` | `MCSipDialog.cfg` | one call in both directions, two tasks, a living time that is reloaded: order of refresh, agreement of the tables, exact cleaning, ownership by the last task, and expired records leave |
| `framework_delete` | `MCFrameworkDelete.cfg` | *violation*: a multicast to an unregistered task is deleted twice |
| `socket_stream` | `MCSocketStream.cfg` | three codes with and without heads, one new connection, every cutting by `send()` and `recv()`: no byte lost or doubled but for three accidents, codes whole and in order, none left behind |
| `http_parse` | `MCHttpParse.cfg` | every cutting of one or two requests, and of a response, into pieces: what is posted is what was sent |
| `http_server` | `MCHttpServer.cfg` | two clients, two threads: each socket is given its answers whole, in order and once, and all of them in the end; they arrive so unless a part is not accepted or kept bytes are sent again |

**Bounds.**  `TaskRuntime`: `MaxTimers` 3 lets a timer be set between two
others, before and after them; `MaxTime` 3 with `StepMax` 2 has delays shorter
and longer than the longest wait, and delay 0 makes a timer due at once;
`MaxQueue` 2 bounds only what other threads add.  `KeyMod` is one more than the
number of timers: the keys use their whole range without a wrap.  The liveness
run uses two timers so that the behaviour graph stays small; each of its
properties concerns one timer and one competitor.  `TaskSelector` is finite by
itself, the history `waited` included, and is explored completely.  In
`Framework`, `MaxMsgs` 2 is what an overtaking or a double deletion needs, task
1 has an instance before and one after that of task 2 on the start list, and
one command at any moment meets every stage of the start.  The start list is
not empty (`FrameworkAssumption`): with an empty one the manager would have
nothing to wait for.  `ExpireBuffer`: three
keys give a head, a middle and a tail; a limit of two makes the third insertion
overflow.  `SipDialog`: ages stop at `MaxAge` 2, one more than the longest
living time, and the two ids of a call may be in both tables at once, which is
where the tables interact; a second, unrelated call would only add records
between them.  Tasks name their dialogs in this run (`Unnamed` is empty).
`SocketStream`: the delimiter is scaled from eight bytes to four and the length
from four to one, the buffers to `Size` 12 with `Reserve` 3, so that two small
codes fill a buffer and wrap in it; `MaxSends` 3 is one code on the wire, one
kept and one that meets both; one new connection (`MaxConnects`) meets a send
buffer with a part of a code in it.  A send limit of 4 is below what a buffer
may hold, one of 12 is not.  `HttpParse`: the three requests have no body, a
body behind a length, and a body with a blank in it; the three responses have
no length, a length with a body that holds a CR and a reason with a blank, and
a length of zero; the pieces are all there are, so only the messages are
bounded.  `HttpServer`: `MaxParts` 2 leaves an
answer half sent, a second request of the same client reuses its send stream,
and the other client's link is before or behind it in the list; `Kept` 2 has
room for a part behind one that goes out again, and then none.  Parts differ in
size, so a part may be refused whenever another is kept.

**Fairness.**  `Tick` and the task thread are weakly fair in `TaskRuntime`; in
`Framework` the manager, the kernel and each instance.  The operating system
runs every thread, and a thread that waits on a fifo with a message is woken
(`MessageWakesThread` shows it for the task thread).  In `SipDialog` time and
the steps of a handler are weakly fair, and `onTimeOut` is strongly fair: it
sets its timer again, its message enters a fifo that is served in order, and so
it is handled however many messages arrive (`QueuedTimeoutFires`), although
between any two time-outs the thread may be busy.  In
`HttpServer` both threads are weakly fair, and `select()` is strongly fair in
reporting a link writable that it is asked for again and again: the client
reads, so the socket's memory drains.  Nothing obliges applications to send, or
clients to issue commands or requests.

## 4. Proofs

Every theorem holds for all values of the constants that satisfy the named
assumption of its module.  A safety invariant is proved from an inductive one;
each proof module has a lemma per action that the action preserves it.

### Task runtime (`TaskRuntimeProofs`)

For any number of timers, any delays, any length of the fifo and any bound of
the clock: `TypeCorrect` (`TypeOK`), `ParameterOwnership` (`ParaOwnedOnce`),
`TableAgrees` (`TableMatchesQueue`), `DueOrder` (`TimeoutsInOrder`) and
`Implements` (`ImplementsService`).  They rest on `RuntimeAssumption` (the
constants have their types) and `NoKeyWrap` (a task sets fewer timers than there
are keys; with more, two live timers share an entry of the table and ownership
fails).

The inductive invariant `IInv` strengthens `ParaOwnedOnce` with what the code
relies on silently: the key of a timer is its serial number (`KeysAreSerials`),
so different timers have different keys; the table holds exactly the keys of
the running timers (`TableIsRunning`); a time-out is in the handler only while
the thread is there (`HandlerHolds`); timers not yet set are untouched
(`UnsetUntouched`).  Without the keys, cancelling one timer could remove the
entry of another, and the case of `DropTimer` would not preserve ownership.
The order theorem adds `OrderInv`: whatever left the queue was due at the clock
reading of the drain, and whatever stays is due no earlier than all that left.

The refinement maps each timer to its fate by the place its parameter is in.
Ownership makes the places exclude each other, so that the fate can be read off
any one of them (`FatesByPlace`), and a step that moves one timer changes one
fate (`FateChanged`); `FiredGone` adds that what fired is in no place any more.
That the timer taken from the queue is the one due first
(`EarliestAtHead`) is where `OrderInv` enters.

### Selector (`FrameworkProofs`, first half)

For every set of tasks and every finite set of instances, from
`SelectorAssumption`: `SelectorTypes` (`SelectorTypeOK`), `TablesAgree`
(`ListsAgree`), `TurnsAreShared` (`SharedByTurns`), `NoneRefusedInVain`
(`RefusedOnlyWhenNoneLeft`) and `MulticastReach` (`MulticastMissesFirstOnly`).

The invariant `SelectorIInv` states the agreement of the tables by places
instead of cardinalities (`Agreement`), since a step changes one place of a
list.  `SharedByTurns` alone is not inductive: it says nothing of how close an
instance is to its turn.  `Turns` does: an available instance has waited no
longer than the position is past its place (`Behind`).  A message that goes to
the k-th place tried moves the position one further past every place that would
have been tried later (`LaterPlacesWait`), which is just what those instances
wait longer.  That every place is tried (`EveryPlaceTried`) gives the refusals.

### Framework (`FrameworkProofs`, second half)

For any start list, any addresses and commands, and any number of messages,
from `FrameworkAssumption`: `FrameworkTypes` (`TypeOK`), `OwnedOnce`
(`MessageOwnedOnce`), `Delivered` (`DeliveredAsAddressed`), `OrderKept`
(`CommonOrder`), `StartedFirst` (`CommandsAfterStart`) and `AnsweredOnce`
(`TransactionOnce`).  `UsesSelector` shows that a step of the framework is a
step of the selector or leaves its tables alone, so what is proved of the
selector by itself holds inside the framework.

The invariant `FrameworkIInv` follows messages and transactions by the places
they are in:

* `Registered`, `Begun`: which instances are registered while the manager walks
  its start list, and that nothing runs before it was started.  After the walk
  the tables stay, and therefore so does whom an address means;
* `Named`: entries of the fifos name messages and transactions there are;
* `InOrder`: what an instance has handled was sent before what is in its fifo,
  and that before what the kernel still holds.  `CommonOrder` speaks of what was
  handled only, and is not inductive without the fifos;
* `Placed`: a message is either in the kernel's fifo, undeleted, or routed; and
  for one that was routed, where its copies are and how often the original is
  deleted, by the type of its address;
* `Answerable`, `Unique`, `Somewhere`: an event in a fifo and a reply belong to
  an unanswered transaction of that partner; no two entries belong to the same
  one; and none is lost;
* `StartFirst`: the event that starts an instance is in front of every command
  in its fifo, or has been handled.

Nearly every step adds to the end of a fifo or takes its head.  `Same` says
that the entries of some kinds are in two fifos the same but for one place, and
`MessagesKept` and `EventsKept` give, once for all actions, what is preserved
when the messages, or the events, stay the same.

### Expire buffer (`ExpireBufferProofs`)

For any keys, values and limits, from `BufferAssumption`: `TypeCorrect`
(`TypeOK`), `RingStaysLinked` (`RingLinked`), `NeverOverfull` (`Bounded`) and
`Implements` (`ImplementsList`).

`RingLinked` is not inductive: two rings, one of them without `m_pTag`, satisfy
it, and taking the last node off the right one would leave the head at `m_pTag`
with the count above 0.  The invariant `IInv` says that the pointers follow one
order of all the keys, from `m_pTag` to `m_pTag` (`Ring`).  Linking a node
appends to that order and deleting one drops a place of it (`LinkedRing`,
`WithoutKeyRing`); the removals at the ends are removals of a key
(`EndsAreKeys`), and moving a node behind the tail sets the pointers as
deleting and linking it would (`RefreshedRing`), so the two lemmas cover every
operation.

The refinement mapping walks the ring with a recursive function of the
pointers.  That the walk gives the order of `Ring` (`WalkIsOrder`) is an
induction over places; it is made by the least counterexample (`Smallest`,
from `WFMin` of the library), since the induction theorems of the library take
operators the provers cannot instantiate.  From then on each operation is one
on the list of the records in that order (`MappedIsList`): an append, a removal
at a place, or both.

### Dialog table (`SipDialogProofs`)

For any calls, tasks and living times, from the assumptions of `SipDialog`:
`DialogTypes` (`TypeOK`), `RefreshOrder` (`OldestFirst`), `CleaningExact`
(`CleanedExactly`), `DialogTablesAgree` (`TablesAgree`) and `LastSpeakerOwns`
(`LastTaskOwns`).

`OldestFirst` needs `ReadLast`: a handler refreshes a record with the time it
read at its beginning, and the record goes behind the others, so nothing in the
tables may be younger than that reading.  `TablesAgree` says nothing of the
states inside a handler, so it is not inductive.  `InStep` does: the backward
table mirrors the forward table from some place on, in the same order and with
the same ages (`Mirrored`).  That place is the first between two handlers; one
entry is in excess at the end of the forward table during an insertion; and
expired entries are in excess at its beginning during a cleaning, which starts
with the backward table.  The mirror holds because both tables are refreshed
together and in the same order.  `FiledOnce` adds that a dialog is filed under
one of its two ids only, which is what makes a look-up in both tables
unambiguous.

### Sockets (`SocketStreamProofs`)

For buffers of any size and reserve, any limits of `send()` and any number of
calls and connections, from `SizeAssumption` and `ReserveAssumption`:
`TypeCorrect` (`TypeOK`), `Accounting` (`WireAccounted`), `Framing`
(`FramesIntact`) and `HandedOut` (`NothingLeftBehind`).  The scaled delimiter
and length are those of the model.

*The ring.*  `Sound` says of a buffer which cells hold its bytes (`Holds`) and
that the tail is behind the last of them, counted around the memory (`Linked`).
`Written`, `Popped` and `Rearranged` say what the three operations do to the
contents, as sequences; from then on no proof looks at cells.

*Sending.*  `SendEffect` reduces a call of `sendCode`, whichever of its ways it
takes, to one fact: some bytes go out, and those together with what is kept are
what was kept before and the whole code, or what was kept before.  `Accounted`
follows, also for a closed socket that still has a buffer.  A socket that was
closed with its buffer cleared has lost the end of the stream; then only `Sent`
holds, that the connection carries the beginning of the codes.

*Receiving.*  `FramesIntact` is not inductive: it does not say where in the
stream the receive buffer begins.  `FramedAt` does.  The bytes kept begin
behind the codes returned, and when the next call reads from the socket, the
next code is not yet complete.  That `_readFromBuff` finds that code and nothing
before it (`ReadIs`) is an invariant of its walk (`Place`): in which state it is
at each byte before, inside and behind the delimiter.  It needs that bytes in
front of the first code hold no head (`Headless`), which is true of the end of a
code an earlier connection began (`NoHeadBehind`): behind the zero of a delimiter
comes the length, and no zero in a code is followed by the byte 255.  This is a
property of the codes of the model, where the length is one byte below 255 and
the content, of one or two bytes, begins with the number of its call, which is
never zero.  It is not one of any content: a cut content that itself looks like
a head is beyond this theorem.
`reConnect` establishes it again: the codes that are whole in the send buffer
are a suffix of the accepted ones, and what is in front of them is a proper end
of one more (`RestIs`).

The walk is written as a recursive function over the places of the bytes, and
its invariant is proved for the places one by one (`FromZero`).

### HTTP parsers (`HttpParseProofs`)

For any requests, responses, letters and version, and any cutting of a stream
into pieces, from `StreamsAssumption`: `RequestsExact` (`RequestExact`),
`FirstIsPosted` (`FirstPosted`) and `ResponsesWhole` (`ResponseWhole`).  The
assumption is the grammar of peers that keep to the protocol: no blank in a
method, a path, a query, a code or the version, no `?` in a path, no CR in a
line, and a body as long as its header says.  The invariance theorem is
`ParseInvariance`.

None of the three is inductive, since they speak of messages that were posted.
`ParseIInv` speaks of the one that is being read, and of the text that is
still to come instead of the one that was read: a parser in state `GetPath`, for
instance, holds the first part of the path, and what comes is the rest of the
path and then everything behind it (`Within`, `AtPath`).  There is one such
predicate for each state of the two parsers (`AtMethod` ... `AtContent`,
`AtStatus` ... `AtBody`).  One character then takes the first of the text that
is to come and leads to the predicate of the next state, one lemma for each
state (`StepMethod` ... `StepBody`).  The place in the header is the number of
lines that are read (`Header`), and the length is that of the last line among
them that gives one (`LengthTo`).

`AfterPieceIs` and `AfterPieceOfResponseIs` carry this over a piece of any
length: the recursion over its characters has one solution, and the characters
are done one by one (`FromZero`).  The end of a piece is where the two parsers
differ.  The server is done as soon as it has anything of the body (`PieceEnd`),
and drops the skip over the slash, which is why `Paths` has a path with the
slash and one without.  The client is done exactly if nothing is to come
(`ResponsePieceEnd`): its content then is as long as the length it was told.

`ServerReads` promises nothing of a message that began where no request stands.
A piece that reaches from one request into the next leaves the server in such a
place, since what is behind the first is dropped; nothing is claimed of what it
makes of the rest, and `RequestExact` speaks of every request that does stand
where a message begins.

### HTTP server (`HttpServerProofs`)

For any number of clients, requests and parts and any size of a send buffer,
from `PartsAssumption` and `LinkAssumption`: `AnswersArriveWhole`
(`AnswersWhole`).

The invariant says of each link whose client waits for its answers what the two
threads are doing to its stream, by where each of them is (`Place`, `Turn`),
whatever its socket does.  It is empty (`Quiet`), the Receiver fills it
(`Filling`), the HTTP thread sends it (`Sending`) or clears it (`Emptying`).
What the socket was given is then all of the answers, or all but the last and
the first `pos` parts of that (`Whole`, `Begun`).  The four exclude each other,
which is why no lock is needed.  The Receiver finds the stream with `content`
NULL and `pos` 0, since a request is not read before the last answer is whole,
and the thread that reads it is the one that has cleared `content` and `pos`
before.  It fills the stream while the HTTP thread may pass by: that looks at
`content`, which is stored last.  `clear` stores `len` last, when a request can
not yet have been read, so it does not overwrite the next length.

`Asking` carries the first half of this: a client that keeps the rule has at
most one request, and it is unread, posted once (`Once`), or being answered.
The lemmas per kind of step (`AskLink`, `AnswerLink`, `LenLink`, `PartLink`,
`ClearLink` and the others) speak of one link by values; those per action place
them in the state.  A client that asks too early is out of the promise for good
(`EarlyStays`).

The sockets have a part of the invariant of their own (`Sockets`): what a socket
was given has gone out or is kept, unless it refused a part or sent bytes again.
The threads need it in one place.  A client that has its answer whole, and asks
again, must have had all of it given to its socket (`ServedIs`): if its socket
repeated bytes, the client can not have the answer whole.  The first part of
`AnswersWhole`, `AnswersHanded`, needs no such excuse; the second follows from
it and `Sockets`: the two accidents of a socket, which `lost` and `repeated`
record, are the only ways such an answer comes to harm.

### Only model-checked

Liveness is beyond the prover and stays with TLC: `MessageWakesThread`,
`DueTimerLeaves` and `QueuedTimeoutFires` of `TaskRuntime`,
`TransactionsComplete` and `MessagesHandled` of `Framework`, `ExpiredLeave` of
`SipDialog` and `AnswerLeaves` of `HttpServer`.  Every safety property of the
passing runs is proved.

## 5. Findings

1. `abstracttask.C` 67: a wait of 0 ms becomes a wait without a limit; a timer
   due in the current millisecond is late until some message arrives.
2. `taskselector.C` 246 and `framectrl.C` 40: a multicast to a task that is not
   registered is deleted twice.

Other places where the code does less than one might expect are part of the
models, so that the properties around them are exact:

* a multicast passes over the first instance of its task (`taskselector.C`
  254-256; `MulticastMissesFirstOnly`);
* an instance can handle a message before `preTaskStart` (`framemng.C` 196);
* a send buffer sends bytes again when the second of two `send()` calls blocks,
  cuts a code when emergency codes have left less than the reserve free, and
  keeps a code twice when it holds more than one `send()` may take, for which
  the limit must be set below its default (`harm` in `SocketStream`); the first
  of these may also happen to an HTTP answer (`repeated` in `HttpServer`);
* `reConnect` keeps the send buffer, so a new connection may begin with the end
  of a code (`rest`);
* the server posts a request when its header and the first of its body are
  there, with as much of the body as came in the same piece, and the rest of a
  piece behind the first request is dropped (`HttpParse`, `HttpServer`);
* a part of an answer that the socket does not accept is left out, and a client
  that asks again before its answer is there may get parts of either (`lost`
  and `early` in `HttpServer`).

## 6. Not modelled

Third-party code (TinyXML, the Boost example client and server, getopt_pp, the
MySQL headers, which are the larger part of the repository), encodings of
messages, strings, logging, and the reading of configuration files, which
happens once before the threads start.  `TaskTimerQueue::stop`, and the
heartbeat and shutdown events, have no caller.  The bounded, sorted and
time-limited fifos have no user.  Of the expire buffer the iteration and
`clear` have no caller (`clear` leaves the tail on a deleted node), of the
dialog table `RemoveDialogTab` and the maximum count.  What becomes of a SIP
message after the dialog table was asked (`sendSipMessage`, `sendMsg`) changes
nothing there; the SIP library is not in the repository.

`SipOverflow`: nothing creates it or asks it, so the order of its calls is
unknown.  `RegisterCS.C` is not in the makefile of its directory, and the
database wrapper has no other user.  `RegisterTask` passes each message on and
keeps nothing.  The HTTP thread deletes a request right after it posted it
(`httpserver.C`), and the receiver and the sender read it later: what they read
is undefined, so the flow of a request behind `post` is left out, and only the
answers are followed.  `findByLinkId` walks the list of links in the receiver's
thread, and the HTTP thread appends to it and erases from it; nothing locks the
list (`socket.C` 2418, 2437-2445, 2551-2553).  A walk that meets a change half
way, and the use of a link that was deleted after the walk, are undefined
behaviour and not followed: the walk is one step (`Answer`), and the send stream
of a deleted link is written but not read.  A client may write a response to a
file instead of keeping it (`downloadFile`, `httpclient.C` 101-111); `HttpParse`
has the response that is kept.  UDP sockets, socket options and the non-blocking connect
wrap system calls.

## 7. Plan

1. *Done*: `TimerService`, `TaskRuntime`, `TaskSelector`, `Framework`,
   `ExpireList`, `ExpireBuffer`, `SipDialog`, `StreamBuffer`, `SocketStream`,
   `HttpParse`, `HttpServer`; the safety invariants of `TaskRuntime`,
   `TaskSelector`, `Framework`, `ExpireBuffer`, `SipDialog`, `SocketStream`,
   `HttpParse` and `HttpServer`, and both refinements, proved.
2. The watch client in `Framework`: two clients, and whose reply goes where.
