----------------------------- MODULE TaskRuntime -----------------------------
(***************************************************************************)
(* The thread of one application task: its timer queue (a priority queue   *)
(* and a table of the keys still valid), the message fifo the kernel adds  *)
(* to, and the loop TAbstractTask::process.  The timers are named by the   *)
(* order in which the task sets them: timer n is the n-th call of setTimer.*)
(***************************************************************************)
EXTENDS Integers, Sequences, Functions

CONSTANTS MaxTimers,    \* bound on the calls of setTimer
          KeyMod,       \* number of values of a timer key, 2^32 in the code
          Delays,       \* delays a task asks for
          StepMax,      \* longest timed wait of the loop, 1000 ms in the code
          MaxTime,      \* bound on the clock
          MaxQueue      \* bound on the fifo, for the messages of other threads

ASSUME RuntimeAssumption ==
    /\ MaxTimers \in Nat
    /\ KeyMod \in Nat \ {0, 1}
    /\ Delays \subseteq Nat
    /\ StepMax \in Nat \ {0}
    /\ MaxTime \in Nat
    /\ MaxQueue \in Nat \ {0}

\* The keys handed out during one run of the task are distinct: a task sets
\* fewer than 2^32 timers.  With more, the key of a live timer is handed out
\* again and the two timers share one entry of the table.
ASSUME NoKeyWrap == MaxTimers < KeyMod

Timer == 1 .. MaxTimers
External == 0           \* a message of the fifo that is not a time-out

VARIABLES
    now,                \* the clock getTimeMs reads, in milliseconds
    made,               \* number of calls of setTimer so far
    mTimerKey,          \* TaskTimerQueue: the key handed out last
    key, when,          \* the TTimer objects: their key and due instant
    mTimers,            \* the priority queue, as the set of its timers
    mTimerStoped,       \* the keys in the table of timers not yet cancelled
    mFifo,              \* the fifo: External, or n for the time-out of timer n
    pc,                 \* where the task thread is
    snapshot,           \* the clock as process() read it before the drain
    nextstep,           \* the wait process() asks of getNext
    deadline,           \* instant at which the timed wait gives up
    cur,                \* the message in the handler
    freed,              \* how often the parameter of each timer was deleted
    fired,              \* history: the timers passed to onTimeOut, in order
    cancelled           \* history: timers deleted before they expired

timerVars == <<made, mTimerKey, key, when, mTimers, mTimerStoped, cancelled>>
waitVars == <<snapshot, nextstep, deadline>>
vars == <<now, made, mTimerKey, key, when, mTimers, mTimerStoped, mFifo, pc,
          snapshot, nextstep, deadline, cur, freed, fired, cancelled>>

Locations == {"init", "loop", "drain", "polled", "wait", "waitForever",
              "awake", "handle"}

Init ==
    /\ now = 0
    /\ made = 0
    /\ mTimerKey = 0
    /\ key = [n \in Timer |-> 0]
    /\ when = [n \in Timer |-> 0]
    /\ mTimers = {}
    /\ mTimerStoped = {}
    /\ mFifo = <<>>
    /\ pc = "init"
    /\ snapshot = 0
    /\ nextstep = 0
    /\ deadline = 0
    /\ cur = External
    /\ freed = [n \in Timer |-> 0]
    /\ fired = <<>>
    /\ cancelled = {}

-----------------------------------------------------------------------------
(* The clock and the other threads.                                        *)

Tick == /\ now < MaxTime
        /\ now' = now + 1
        /\ UNCHANGED <<timerVars, waitVars, mFifo, pc, cur, freed, fired>>

\* Variant with a fault: only the timed wait is signalled.
Signalled_TimedOnly(loc) == IF loc = "wait" THEN "awake" ELSE loc

\* The condition variable: a signal lets a waiting thread go on.
Signalled(loc) == IF loc \in {"wait", "waitForever"} THEN "awake" ELSE loc

\* Fifo::add, called by the kernel or the manager through TAbstractTask::add.
Post == /\ Len(mFifo) < MaxQueue
        /\ mFifo' = Append(mFifo, External)
        /\ pc' = Signalled(pc)
        /\ UNCHANGED <<now, timerVars, waitVars, cur, freed, fired>>

-----------------------------------------------------------------------------
(* Calls the application makes from onInit (before the thread runs) or     *)
(* from a handler.                                                         *)

InApplication == pc \in {"init", "handle"}

\* The key after k: a UINT that skips 0 when it wraps.
NextKey(k) == IF (k + 1) % KeyMod = 0 THEN 1 ELSE (k + 1) % KeyMod

SetTimer(d) ==
    /\ InApplication
    /\ made < MaxTimers
    /\ now + d <= MaxTime
    /\ made' = made + 1
    /\ mTimerKey' = NextKey(mTimerKey)
    /\ key' = [key EXCEPT ![made'] = mTimerKey']
    /\ when' = [when EXCEPT ![made'] = now + d]
    /\ mTimers' = mTimers \union {made'}
    /\ mTimerStoped' = mTimerStoped \union {mTimerKey'}
    /\ UNCHANGED <<now, mFifo, pc, waitVars, cur, freed, fired, cancelled>>

\* The timer stays in the priority queue until it is due; a timer that has
\* already expired is not affected.
DelTimer(n) ==
    /\ InApplication
    /\ n <= made
    /\ mTimerStoped' = mTimerStoped \ {key[n]}
    /\ cancelled' = cancelled \union ({n} \intersect mTimers)
    /\ UNCHANGED <<now, made, mTimerKey, key, when, mTimers, mFifo, pc,
                   waitVars, cur, freed, fired>>

-----------------------------------------------------------------------------
(* The loop of the task thread.                                            *)

Start == /\ pc = "init"
         /\ pc' = "loop"
         /\ UNCHANGED <<now, timerVars, waitVars, mFifo, cur, freed, fired>>

\* TimerQueue::process reads the clock once for the whole drain.
BeginProcess ==
    /\ pc = "loop"
    /\ pc' = "drain"
    /\ snapshot' = now
    /\ UNCHANGED <<now, timerVars, nextstep, deadline, mFifo, cur, freed,
                   fired>>

\* Variant with a fault: the priority queue ordered the wrong way round.
Earliest_Reversed(n) == n \in mTimers /\ \A m \in mTimers : when[n] >= when[m]

Earliest(n) == n \in mTimers /\ \A m \in mTimers : when[n] <= when[m]

\* Variant with a fault: a timer counts as due one tick early.
Due_Early(n) == when[n] <= snapshot + 1

Due(n) == when[n] <= snapshot

\* Variant with a fault: the key stays in the table.
TimeOut_KeepKey(n) == /\ key[n] \in mTimerStoped
                      /\ mFifo' = Append(mFifo, n)
                      /\ UNCHANGED <<mTimerStoped, freed>>

\* A timer whose key is still in the table becomes a time-out message, which
\* owns the parameter.
TimeOut(n) == /\ key[n] \in mTimerStoped
              /\ mFifo' = Append(mFifo, n)
              /\ mTimerStoped' = mTimerStoped \ {key[n]}
              /\ UNCHANGED freed

\* Variant with a fault: the parameter of a cancelled timer is not deleted.
DropTimer_Leak(n) == /\ key[n] \notin mTimerStoped
                     /\ UNCHANGED <<mFifo, mTimerStoped, freed>>

\* The parameter of a cancelled timer is deleted with the timer.
DropTimer(n) == /\ key[n] \notin mTimerStoped
                /\ freed' = [freed EXCEPT ![n] = @ + 1]
                /\ UNCHANGED <<mFifo, mTimerStoped>>

ProcessTimer(n) ==
    /\ pc = "drain"
    /\ Earliest(n)
    /\ Due(n)
    /\ mTimers' = mTimers \ {n}
    /\ TimeOut(n) \/ DropTimer(n)
    /\ UNCHANGED <<now, made, mTimerKey, key, when, cancelled, pc, waitVars,
                   cur, fired>>

AtMost(a, b) == IF a <= b THEN a ELSE b

\* Variant with a fault: the wait is not cut to the longest one.
StepTo_Uncut(n) == IF now > when[n] THEN 0 ELSE when[n] - now

\* The wait until timer n is due, by a second reading of the clock.
StepTo(n) == IF now > when[n] THEN 0 ELSE AtMost(when[n] - now, StepMax)

EndDrain ==
    /\ pc = "drain"
    /\ \A n \in mTimers : ~Due(n)
    /\ pc' = "polled"
    /\ \/ mTimers = {} /\ nextstep' = StepMax
       \/ \E n \in Timer : Earliest(n) /\ nextstep' = StepTo(n)
    /\ UNCHANGED <<now, timerVars, snapshot, deadline, mFifo, cur, freed,
                   fired>>

\* Variant with a fault: the newest message first.
Take_Newest == LET last == mFifo[Len(mFifo)] IN
               /\ pc' = "handle"
               /\ cur' = last
               /\ mFifo' = SubSeq(mFifo, 1, Len(mFifo) - 1)
               /\ fired' = IF last = External THEN fired ELSE Append(fired, last)

\* The message at the head of the fifo goes to its handler.
Take == /\ pc' = "handle"
        /\ cur' = Head(mFifo)
        /\ mFifo' = Tail(mFifo)
        /\ fired' = IF Head(mFifo) = External THEN fired
                                              ELSE Append(fired, Head(mFifo))

\* AbstractFifo::getNext(ms): a wait of 0 ms is a wait without a limit.
GetNext ==
    /\ pc = "polled"
    /\ \/ /\ mFifo # <<>>
          /\ Take
          /\ UNCHANGED deadline
       \/ /\ mFifo = <<>>
          /\ nextstep = 0
          /\ pc' = "waitForever"
          /\ UNCHANGED <<deadline, mFifo, cur, fired>>
       \/ /\ mFifo = <<>>
          /\ nextstep > 0
          /\ pc' = "wait"
          /\ deadline' = AtMost(now + nextstep, MaxTime)
          /\ UNCHANGED <<mFifo, cur, fired>>
    /\ UNCHANGED <<now, timerVars, snapshot, nextstep, freed>>

\* A signalled thread finds the message: no other thread takes from this fifo.
Wake == /\ pc = "awake"
        /\ mFifo # <<>>
        /\ Take
        /\ UNCHANGED <<now, timerVars, waitVars, freed>>

\* Variant with a fault: the wait is renewed instead of returning.
GiveUp_WaitAgain ==
          /\ pc = "wait"
          /\ now >= deadline
          /\ pc' = "polled"
          /\ UNCHANGED <<now, timerVars, waitVars, mFifo, cur, freed, fired>>

\* The timed wait gives up and process() returns without a message.
GiveUp == /\ pc = "wait"
          /\ now >= deadline
          /\ pc' = "loop"
          /\ UNCHANGED <<now, timerVars, waitVars, mFifo, cur, freed, fired>>

\* The handler returns; the message is deleted, and a time-out message deletes
\* the parameter of its timer.
EndHandle ==
    /\ pc = "handle"
    /\ pc' = "loop"
    /\ cur' = External
    /\ freed' = IF cur = External THEN freed
                                  ELSE [freed EXCEPT ![cur] = @ + 1]
    /\ UNCHANGED <<now, timerVars, waitVars, mFifo, fired>>

-----------------------------------------------------------------------------
Application == \/ \E d \in Delays : SetTimer(d)
               \/ \E n \in Timer : DelTimer(n)

Thread == \/ Start
          \/ BeginProcess
          \/ \E n \in Timer : ProcessTimer(n)
          \/ EndDrain
          \/ GetNext
          \/ Wake
          \/ GiveUp
          \/ EndHandle

Next == Tick \/ Post \/ Application \/ Thread

Spec == Init /\ [][Next]_vars

\* Time passes and the thread is scheduled.  Nothing obliges another thread to
\* send a message, nor the application to set or delete a timer.
FairSpec == Spec /\ WF_vars(Tick) /\ WF_vars(Thread)
-----------------------------------------------------------------------------
(* Safety.                                                                 *)

\* Every variable has its type.  The one clause that needs an argument is the
\* last: the parameter of a timer is never deleted twice.
TypeOK ==
    /\ now \in 0 .. MaxTime
    /\ made \in 0 .. MaxTimers
    /\ mTimerKey \in 0 .. KeyMod - 1
    /\ key \in [Timer -> 0 .. KeyMod - 1]
    /\ when \in [Timer -> 0 .. MaxTime]
    /\ mTimers \subseteq 1 .. made
    /\ mTimerStoped \subseteq 1 .. KeyMod - 1
    /\ mFifo \in Seq(0 .. made)
    /\ pc \in Locations
    /\ snapshot \in 0 .. MaxTime
    /\ nextstep \in 0 .. StepMax
    /\ deadline \in 0 .. MaxTime
    /\ cur \in 0 .. made
    /\ fired \in Seq(1 .. made)
    /\ cancelled \subseteq 1 .. made
    /\ freed \in [Timer -> {0, 1}]

Queued(n) == n \in Range(mFifo)

\* No time-out occurs twice in a sequence of messages.
OnceEach(s) == \A i, j \in DOMAIN s : s[i] = s[j] /\ s[i] # External => i = j

\* The parameter the application hands to setTimer has exactly one owner at
\* any time: the priority queue, a message of the fifo, the message in the
\* handler, or nobody once it was deleted.  So it is neither deleted twice nor
\* leaked, whatever the order of delTimer, expiry and handler (the comments at
\* abstracttask.C 164, 165 and 170 ask the application to rely on it).
OwnedOnce(n) ==
    \/ n \in mTimers /\ ~Queued(n) /\ cur # n /\ freed[n] = 0
    \/ n \notin mTimers /\ Queued(n) /\ cur # n /\ freed[n] = 0
    \/ n \notin mTimers /\ ~Queued(n) /\ cur = n /\ freed[n] = 0
    \/ n \notin mTimers /\ ~Queued(n) /\ cur # n /\ freed[n] = 1

ParaOwnedOnce == OnceEach(mFifo) /\ \A n \in 1 .. made : OwnedOnce(n)

\* The table of valid keys and the priority queue agree although delTimer,
\* expiry and setTimer each change only part of them: the keys in the table
\* are those of the queued timers not cancelled.  A key left behind would be a
\* leak, a missing one a time-out silently lost.
TableMatchesQueue ==
    mTimerStoped = {key[n] : n \in mTimers \ cancelled}

\* The messages that left the priority queue: the handled ones first.
Outgoing == fired \o mFifo

\* Time-outs reach the application in the order they are due, across all
\* drains of the queue and whatever is set or cancelled between two of them.
TimeoutsInOrder ==
    \A i, j \in 1 .. Len(Outgoing) :
       i < j /\ Outgoing[i] # External /\ Outgoing[j] # External
          => when[Outgoing[i]] <= when[Outgoing[j]]

\* The comments at abstracttask.C 65 and 67: the thread waits for a message at
\* most until the next timer is due, and never more than a second.
WaitBounded == pc = "waitForever" => mTimers = {}

-----------------------------------------------------------------------------
(* The service the task sees.                                              *)

Fate(n) == CASE n > made -> "unset"
             [] n \in mTimers \intersect cancelled -> "cancelled"
             [] n \in mTimers \ cancelled -> "armed"
             [] Queued(n) -> "expired"
             [] n \in Range(fired) -> "fired"
             [] OTHER -> "dropped"

Service == INSTANCE TimerService
              WITH clock <- now, due <- when, fate <- [n \in Timer |-> Fate(n)]

\* The runtime implements the service: a timer times out once, not before it
\* is due, in due order, and never after a delTimer that found it running.
ImplementsService == Service!Spec

-----------------------------------------------------------------------------
(* Liveness.                                                               *)

\* A message added to the fifo is followed by the call of a handler: the add
\* of another thread is not lost between the empty test and the wait.
MessageWakesThread == (mFifo # <<>>) ~> (pc = "handle")

\* A timer that is due leaves the priority queue, unless the thread sits in
\* the unlimited wait.
DueTimerLeaves ==
    \A n \in Timer :
       (n \in mTimers /\ when[n] <= now)
          ~> (n \notin mTimers \/ pc = "waitForever")

\* A time-out in the fifo reaches onTimeOut, whatever is added behind it.
QueuedTimeoutFires == \A n \in Timer : Queued(n) ~> (n \in Range(fired))
=============================================================================
