-------------------------- MODULE TaskRuntimeProofs --------------------------
(***************************************************************************)
(* Proofs about TaskRuntime, for every number of timers, every set of      *)
(* delays and every bound on the fifo and the clock.                       *)
(***************************************************************************)
EXTENDS TaskRuntime, SequenceTheorems, TLAPS

-----------------------------------------------------------------------------
(* The fifo as a sequence.                                                 *)

\* Adding a message adds one member to the fifo.
LEMMA RangeOfAppend ==
    ASSUME NEW S, NEW s \in Seq(S), NEW x \in S
    PROVE  Range(Append(s, x)) = Range(s) \union {x}
<1>1. /\ Len(Append(s, x)) = Len(s) + 1
      /\ DOMAIN s = 1 .. Len(s)
      /\ DOMAIN Append(s, x) = 1 .. Len(s) + 1
      /\ Len(s) \in Nat
    OBVIOUS
<1>2. Append(s, x)[Len(s) + 1] = x
    OBVIOUS
<1>3. \A i \in 1 .. Len(s) : Append(s, x)[i] = s[i]
    OBVIOUS
<1>4. \A y : y \in Range(Append(s, x)) => y \in Range(s) \union {x}
  <2> SUFFICES ASSUME NEW i \in 1 .. Len(s) + 1
               PROVE  Append(s, x)[i] \in Range(s) \union {x}
      BY <1>1 DEF Range
  <2>1. CASE i = Len(s) + 1
      BY <2>1, <1>2
  <2>2. CASE i \in 1 .. Len(s)
      BY <2>2, <1>1, <1>3 DEF Range
  <2> QED BY <2>1, <2>2, <1>1
<1>5. \A y \in Range(s) : y \in Range(Append(s, x))
    BY <1>1, <1>3 DEF Range
<1>6. x \in Range(Append(s, x))
    BY <1>1, <1>2 DEF Range
<1> QED BY <1>4, <1>5, <1>6

\* The head and the tail of a sequence, by index.
LEMMA HeadAndTail ==
    ASSUME NEW S, NEW s \in Seq(S), s # <<>>
    PROVE  /\ Len(s) \in Nat \ {0}
           /\ Head(s) \in S /\ Head(s) = s[1]
           /\ Tail(s) \in Seq(S)
           /\ Len(Tail(s)) = Len(s) - 1
           /\ \A i \in 1 .. Len(s) - 1 : Tail(s)[i] = s[i + 1]
    BY HeadTailProperties, EmptySeq

\* Taking the head leaves the members of the tail.
LEMMA RangeOfTail ==
    ASSUME NEW S, NEW s \in Seq(S), s # <<>>
    PROVE  Range(s) = Range(Tail(s)) \union {Head(s)}
<1>1. /\ Len(s) \in Nat \ {0}
      /\ Len(Tail(s)) = Len(s) - 1
      /\ DOMAIN s = 1 .. Len(s)
      /\ DOMAIN Tail(s) = 1 .. Len(s) - 1
      /\ Head(s) = s[1]
      /\ \A i \in 1 .. Len(s) - 1 : Tail(s)[i] = s[i + 1]
    BY HeadTailProperties, EmptySeq
<1>2. \A y \in Range(s) : y \in Range(Tail(s)) \union {Head(s)}
  <2> SUFFICES ASSUME NEW i \in 1 .. Len(s)
               PROVE  s[i] \in Range(Tail(s)) \union {Head(s)}
      BY <1>1 DEF Range
  <2>1. CASE i = 1
      BY <2>1, <1>1
  <2>2. CASE i # 1
    <3>1. i - 1 \in 1 .. Len(s) - 1 /\ Tail(s)[i - 1] = s[i]
        BY <2>2, <1>1
    <3> QED BY <3>1, <1>1 DEF Range
  <2> QED BY <2>1, <2>2
<1>3. \A y \in Range(Tail(s)) : y \in Range(s)
    BY <1>1 DEF Range
<1>4. Head(s) \in Range(s)
    BY <1>1 DEF Range
<1> QED BY <1>2, <1>3, <1>4

\* A message not yet in the fifo, or one of another thread, keeps the time-outs
\* of the fifo distinct.
LEMMA OnceEachAppend ==
    ASSUME NEW S, NEW s \in Seq(S), NEW x \in S, OnceEach(s),
           x = External \/ x \notin Range(s)
    PROVE  OnceEach(Append(s, x))
<1>1. /\ DOMAIN s = 1 .. Len(s)
      /\ DOMAIN Append(s, x) = 1 .. Len(s) + 1
      /\ Len(s) \in Nat
      /\ Append(s, x)[Len(s) + 1] = x
      /\ \A i \in 1 .. Len(s) : Append(s, x)[i] = s[i]
    OBVIOUS
<1>2. \A i \in 1 .. Len(s) : s[i] \in Range(s)
    BY <1>1 DEF Range
<1>3. \A i \in 1 .. Len(s) + 1 : i \in 1 .. Len(s) \/ i = Len(s) + 1
    BY <1>1
<1> SUFFICES ASSUME NEW i \in 1 .. Len(s) + 1, NEW j \in 1 .. Len(s) + 1,
                    Append(s, x)[i] = Append(s, x)[j],
                    Append(s, x)[i] # External
             PROVE  i = j
    BY <1>1 DEF OnceEach
<1> QED BY <1>1, <1>2, <1>3 DEF OnceEach

\* The time-out at the head of the fifo is nowhere behind it.
LEMMA OnceEachTail ==
    ASSUME NEW S, NEW s \in Seq(S), s # <<>>, OnceEach(s)
    PROVE  /\ OnceEach(Tail(s))
           /\ Head(s) # External => Head(s) \notin Range(Tail(s))
<1>1. /\ Len(s) \in Nat \ {0}
      /\ DOMAIN s = 1 .. Len(s)
      /\ DOMAIN Tail(s) = 1 .. Len(s) - 1
      /\ Head(s) = s[1]
      /\ \A i \in 1 .. Len(s) - 1 : Tail(s)[i] = s[i + 1]
    BY HeadTailProperties, EmptySeq
<1>2. \A i \in 1 .. Len(s) - 1 : i + 1 \in 1 .. Len(s) /\ i + 1 # 1
    BY <1>1
<1>3. OnceEach(Tail(s))
    BY <1>1, <1>2 DEF OnceEach
<1>4. Head(s) # External => Head(s) \notin Range(Tail(s))
    BY <1>1, <1>2 DEF OnceEach, Range
<1> QED BY <1>3, <1>4

-----------------------------------------------------------------------------
(* The inductive invariant.  Ownership alone is not inductive: a timer set *)
(* anew must not be found in the fifo already (the types bound the fifo    *)
(* and the handler by the number of timers made), a cancelled timer must   *)
(* not share its key with another (keys are the serial numbers), and only  *)
(* a running handler holds a message.                                      *)

KeysAreSerials == mTimerKey = made /\ \A n \in 1 .. made : key[n] = n

HandlerHolds == pc # "handle" => cur = External

\* The parameters of timers not yet set were not touched.
UnsetUntouched == \A n \in Timer : n > made => freed[n] = 0

\* With serial keys, TableMatchesQueue without the detour through the keys.
TableIsRunning == mTimerStoped = mTimers \ cancelled

IInv == /\ TypeOK
        /\ ParaOwnedOnce
        /\ TableIsRunning
        /\ KeysAreSerials
        /\ HandlerHolds
        /\ UnsetUntouched

\* The invariant implies that the table and the priority queue agree.
LEMMA TableFromIInv == IInv => TableMatchesQueue
<1> SUFFICES ASSUME IInv PROVE TableMatchesQueue
    OBVIOUS
<1>1. \A n \in mTimers \ cancelled : key[n] = n
    BY DEF IInv, TypeOK, KeysAreSerials
<1>2. {key[n] : n \in mTimers \ cancelled} = mTimers \ cancelled
    BY <1>1
<1> QED BY <1>2 DEF IInv, TableIsRunning, TableMatchesQueue

\* The first state satisfies the invariant.
LEMMA InitIInv == Init => IInv
<1> SUFFICES ASSUME Init PROVE IInv
    OBVIOUS
<1> USE RuntimeAssumption DEF Init, External, Timer
<1>1. TypeOK
  <2>1. <<>> \in Seq(0 .. made) /\ <<>> \in Seq(1 .. made)
      OBVIOUS
  <2>2. /\ 0 \in 0 .. MaxTime /\ 0 \in 0 .. MaxTimers
        /\ 0 \in 0 .. KeyMod - 1 /\ 0 \in 0 .. StepMax
      OBVIOUS
  <2> QED BY <2>1, <2>2 DEF TypeOK, Locations
<1>2. ParaOwnedOnce
    BY DEF ParaOwnedOnce, OnceEach
<1>3. TableIsRunning
    BY DEF TableIsRunning
<1>4. KeysAreSerials /\ HandlerHolds /\ UnsetUntouched
    BY DEF KeysAreSerials, HandlerHolds, UnsetUntouched
<1> QED BY <1>1, <1>2, <1>3, <1>4 DEF IInv

\* Steps that move no parameter: the clock, the thread's own bookkeeping and
\* delTimer, seen by ownership alone.
LEMMA OwnershipKept ==
    ASSUME ParaOwnedOnce, UNCHANGED <<made, mTimers, mFifo, cur, freed>>
    PROVE  ParaOwnedOnce'
BY DEF ParaOwnedOnce, OwnedOnce, OnceEach, Queued, Range

\* Other threads add to the fifo; the timers do not notice.
LEMMA PostIInv == IInv /\ Post => IInv'
<1> SUFFICES ASSUME IInv, Post PROVE IInv'
    OBVIOUS
<1> USE RuntimeAssumption
<1>1. mFifo' \in Seq(0 .. made) /\ pc' \in Locations
    BY DEF IInv, TypeOK, Post, Signalled, Locations, External
<1>2. TypeOK'
    BY <1>1 DEF IInv, TypeOK, Post, timerVars, waitVars
<1>3. Range(mFifo') = Range(mFifo) \union {External} /\ OnceEach(mFifo')
    BY RangeOfAppend, OnceEachAppend
       DEF IInv, TypeOK, ParaOwnedOnce, Post, External
<1>4. ParaOwnedOnce'
  <2> SUFFICES ASSUME NEW n \in 1 .. made PROVE OwnedOnce(n)'
      BY <1>3 DEF ParaOwnedOnce, Post, timerVars, OnceEach
  <2>1. Queued(n)' <=> Queued(n)
      BY <1>3 DEF Queued, External, IInv, TypeOK
  <2> QED BY <2>1 DEF IInv, ParaOwnedOnce, OwnedOnce, Post, timerVars
<1>5. TableIsRunning' /\ KeysAreSerials' /\ UnsetUntouched'
    BY DEF IInv, TableIsRunning, KeysAreSerials, UnsetUntouched, Post,
           timerVars
<1>6. HandlerHolds'
    BY DEF IInv, HandlerHolds, Post, Signalled
<1> QED BY <1>2, <1>4, <1>5, <1>6 DEF IInv

\* setTimer: the new serial number is in nobody's hands.
LEMMA SetTimerIInv == ASSUME IInv, NEW d \in Delays, SetTimer(d) PROVE IInv'
<1> USE RuntimeAssumption, NoKeyWrap
<1>1. /\ made \in Nat /\ made' = made + 1 /\ made' \in Timer
      /\ mTimers' = mTimers \union {made'}
      /\ made' \notin mTimers /\ made' \notin cancelled
      /\ mTimers \subseteq 1 .. made
    BY DEF IInv, TypeOK, SetTimer, Timer
<1>2. mTimerKey' = made' /\ made' \in 1 .. KeyMod - 1
  <2>1. made + 1 \in 1 .. KeyMod - 1
      BY <1>1 DEF Timer
  <2>2. (made + 1) % KeyMod = made + 1
      BY <2>1, <1>1
  <2> QED BY <2>1, <2>2, <1>1 DEF IInv, KeysAreSerials, SetTimer, NextKey
<1>3. /\ mFifo \in Seq(0 .. made') /\ fired \in Seq(1 .. made')
      /\ cur \in 0 .. made' /\ cancelled \subseteq 1 .. made'
      /\ mTimers' \subseteq 1 .. made'
  <2>1. 0 .. made \subseteq 0 .. made' /\ 1 .. made \subseteq 1 .. made'
      BY <1>1
  <2> QED BY <2>1, <1>1, SeqMonotonic DEF IInv, TypeOK
<1>4. now + d \in 0 .. MaxTime
    BY DEF IInv, TypeOK, SetTimer
<1>5. TypeOK'
  <2>1. key' \in [Timer -> 0 .. KeyMod - 1]
      BY <1>1, <1>2 DEF IInv, TypeOK, SetTimer
  <2>2. when' \in [Timer -> 0 .. MaxTime]
      BY <1>4 DEF IInv, TypeOK, SetTimer
  <2>3. made' \in 0 .. MaxTimers /\ mTimerKey' \in 0 .. KeyMod - 1
      BY <1>1, <1>2 DEF Timer
  <2>4. mTimerStoped' \subseteq 1 .. KeyMod - 1
      BY <1>2 DEF IInv, TypeOK, SetTimer
  <2> QED BY <1>3, <2>1, <2>2, <2>3, <2>4 DEF IInv, TypeOK, SetTimer, waitVars
<1>6. ParaOwnedOnce'
  <2>1. ~Queued(made') /\ cur # made' /\ freed[made'] = 0
    <3>1. Range(mFifo) \subseteq 0 .. made
        BY DEF IInv, TypeOK, Range
    <3> QED BY <3>1, <1>1 DEF IInv, TypeOK, Queued, UnsetUntouched
  <2>2. OnceEach(mFifo)'
      BY DEF IInv, ParaOwnedOnce, SetTimer, OnceEach
  <2>3. ASSUME NEW n \in 1 .. made' PROVE OwnedOnce(n)'
    <3>1. CASE n = made'
        BY <3>1, <2>1, <1>1 DEF OwnedOnce, Queued, SetTimer
    <3>2. CASE n # made'
      <4>1. n \in 1 .. made /\ (n \in mTimers' <=> n \in mTimers)
          BY <3>2, <1>1
      <4> QED BY <4>1 DEF IInv, ParaOwnedOnce, OwnedOnce, Queued, SetTimer
    <3> QED BY <3>1, <3>2
  <2> QED BY <2>2, <2>3 DEF ParaOwnedOnce
<1>7. TableIsRunning'
    BY <1>1, <1>2 DEF IInv, TableIsRunning, SetTimer
<1>8. KeysAreSerials'
  <2>1. key'[made'] = made'
      BY <1>1, <1>2 DEF IInv, TypeOK, SetTimer
  <2>2. \A n \in 1 .. made : key'[n] = key[n]
      BY <1>1 DEF IInv, TypeOK, SetTimer, Timer
  <2>3. \A n \in 1 .. made' : n \in 1 .. made \/ n = made'
      BY <1>1
  <2> QED BY <1>2, <2>1, <2>2, <2>3 DEF IInv, KeysAreSerials
<1>9. HandlerHolds' /\ UnsetUntouched'
    BY <1>1 DEF IInv, HandlerHolds, UnsetUntouched, SetTimer, Timer
<1> QED BY <1>5, <1>6, <1>7, <1>8, <1>9 DEF IInv

\* delTimer: the key of timer n is the key of no other timer.
LEMMA DelTimerIInv == ASSUME IInv, NEW n \in Timer, DelTimer(n) PROVE IInv'
<1>1. n \in 1 .. made /\ key[n] = n
    BY RuntimeAssumption DEF IInv, TypeOK, KeysAreSerials, DelTimer, Timer
<1>2. TypeOK'
    BY <1>1 DEF IInv, TypeOK, DelTimer, waitVars
<1>3. ParaOwnedOnce'
    BY OwnershipKept DEF IInv, DelTimer
<1>4. TableIsRunning'
    BY <1>1 DEF IInv, TableIsRunning, DelTimer
<1>5. KeysAreSerials' /\ HandlerHolds' /\ UnsetUntouched'
    BY DEF IInv, KeysAreSerials, HandlerHolds, UnsetUntouched, DelTimer
<1> QED BY <1>2, <1>3, <1>4, <1>5 DEF IInv

\* Expiry: the parameter moves into a message, or is deleted.
LEMMA ProcessTimerIInv ==
    ASSUME IInv, NEW n \in Timer, ProcessTimer(n) PROVE IInv'
<1>1. /\ n \in 1 .. made /\ n \in mTimers /\ key[n] = n
      /\ mTimers' = mTimers \ {n}
    BY DEF IInv, TypeOK, KeysAreSerials, ProcessTimer, Earliest
<1>2. ~Queued(n) /\ cur # n /\ freed[n] = 0
    BY <1>1 DEF IInv, ParaOwnedOnce, OwnedOnce
<1>3. HandlerHolds' /\ KeysAreSerials'
    BY DEF IInv, HandlerHolds, KeysAreSerials, ProcessTimer
<1>4. CASE n \in mTimerStoped
  <2>1. /\ mFifo' = Append(mFifo, n)
        /\ mTimerStoped' = mTimerStoped \ {n}
        /\ freed' = freed
      BY <1>1, <1>4 DEF ProcessTimer, TimeOut, DropTimer
  <2>2. Range(mFifo') = Range(mFifo) \union {n} /\ OnceEach(mFifo')
      BY <2>1, <1>1, <1>2, RangeOfAppend, OnceEachAppend
         DEF IInv, TypeOK, ParaOwnedOnce, Queued
  <2>3. TypeOK'
      BY <1>1, <2>1, SMTT(30) DEF IInv, TypeOK, ProcessTimer, waitVars
  <2>4. ASSUME NEW m \in 1 .. made PROVE OwnedOnce(m)'
    <3>1. CASE m = n
        BY <3>1, <1>1, <1>2, <2>1, <2>2 DEF OwnedOnce, Queued, ProcessTimer
    <3>2. CASE m # n
      <4>1. Queued(m)' <=> Queued(m)
          BY <3>2, <2>2 DEF Queued
      <4> QED BY <3>2, <4>1, <1>1, <2>1
              DEF IInv, ParaOwnedOnce, OwnedOnce, ProcessTimer
    <3> QED BY <3>1, <3>2
  <2>5. ParaOwnedOnce'
      BY <2>2, <2>4 DEF ParaOwnedOnce, ProcessTimer, OnceEach
  <2>6. TableIsRunning' /\ UnsetUntouched'
      BY <1>1, <2>1 DEF IInv, TableIsRunning, UnsetUntouched, ProcessTimer
  <2> QED BY <1>3, <2>3, <2>5, <2>6 DEF IInv
<1>5. CASE n \notin mTimerStoped
  <2>1. /\ mFifo' = mFifo
        /\ mTimerStoped' = mTimerStoped
        /\ freed' = [freed EXCEPT ![n] = @ + 1]
      BY <1>1, <1>5 DEF ProcessTimer, TimeOut, DropTimer
  <2>2. /\ freed'[n] = 1
        /\ \A m \in Timer : m # n => freed'[m] = freed[m]
        /\ freed' \in [Timer -> {0, 1}]
      BY <2>1, <1>2 DEF IInv, TypeOK
  <2>3. TypeOK'
      BY <1>1, <2>1, <2>2 DEF IInv, TypeOK, ProcessTimer, waitVars
  <2>4. ASSUME NEW m \in 1 .. made PROVE OwnedOnce(m)'
    <3>1. m \in Timer
        BY RuntimeAssumption DEF IInv, TypeOK, Timer
    <3>2. Queued(m)' <=> Queued(m)
        BY <2>1 DEF Queued
    <3>3. CASE m = n
        BY <3>2, <3>3, <1>1, <1>2, <2>2 DEF OwnedOnce, ProcessTimer
    <3>4. CASE m # n
        BY <3>1, <3>2, <3>4, <1>1, <2>2
           DEF IInv, ParaOwnedOnce, OwnedOnce, ProcessTimer
    <3> QED BY <3>3, <3>4
  <2>5. ParaOwnedOnce'
      BY <2>1, <2>4 DEF IInv, ParaOwnedOnce, ProcessTimer, OnceEach
  <2>6. TableIsRunning'
      BY <1>1, <1>5, <2>1 DEF IInv, TableIsRunning, ProcessTimer
  <2>7. UnsetUntouched'
      BY <1>1, <2>2 DEF IInv, TypeOK, UnsetUntouched, ProcessTimer, Timer
  <2> QED BY <1>3, <2>3, <2>5, <2>6, <2>7 DEF IInv
<1> QED BY <1>4, <1>5

\* The head of the fifo moves to the handler, with the parameter it owns.
LEMMA TakeIInv ==
    ASSUME IInv, Take, mFifo # <<>>, pc # "handle",
           UNCHANGED <<now, timerVars, snapshot, nextstep, freed>>,
           deadline' \in 0 .. MaxTime
    PROVE  IInv'
<1>1. /\ Head(mFifo) \in 0 .. made
      /\ Tail(mFifo) \in Seq(0 .. made)
      /\ cur' = Head(mFifo) /\ mFifo' = Tail(mFifo) /\ pc' = "handle"
    BY HeadTailProperties DEF IInv, TypeOK, Take
<1>2. /\ Range(mFifo) = Range(mFifo') \union {cur'}
      /\ OnceEach(mFifo')
      /\ cur' # External => cur' \notin Range(mFifo')
    BY <1>1, RangeOfTail, OnceEachTail DEF IInv, TypeOK, ParaOwnedOnce
<1>3. cur = External
    BY DEF IInv, HandlerHolds
<1>4. TypeOK'
  <2>1. fired' \in Seq(1 .. made)
    <3>1. CASE Head(mFifo) = External
        BY <3>1 DEF IInv, TypeOK, Take
    <3>2. CASE Head(mFifo) # External
      <4>1. Head(mFifo) \in 1 .. made
          BY <1>1, <3>2, RuntimeAssumption DEF External, IInv, TypeOK
      <4> QED BY <4>1, <3>2 DEF IInv, TypeOK, Take
    <3> QED BY <3>1, <3>2
  <2> QED BY <1>1, <2>1 DEF IInv, TypeOK, timerVars, Locations
<1>5. ParaOwnedOnce'
  <2>1. ASSUME NEW n \in 1 .. made PROVE OwnedOnce(n)'
    <3>0. n # External
        BY RuntimeAssumption DEF External, IInv, TypeOK
    <3>1. CASE n = cur'
      <4>1. Queued(n) /\ ~Queued(n)'
          BY <3>0, <3>1, <1>2 DEF Queued
      <4> QED BY <4>1, <3>1, <1>3 DEF IInv, ParaOwnedOnce, OwnedOnce, timerVars
    <3>2. CASE n # cur'
      <4>1. Queued(n)' <=> Queued(n)
          BY <3>2, <1>2 DEF Queued
      <4> QED BY <4>1, <3>0, <3>2, <1>3
              DEF IInv, ParaOwnedOnce, OwnedOnce, timerVars
    <3> QED BY <3>1, <3>2
  <2> QED BY <2>1, <1>2 DEF ParaOwnedOnce, timerVars, OnceEach
<1>6. TableIsRunning' /\ KeysAreSerials' /\ UnsetUntouched' /\ HandlerHolds'
    BY <1>1 DEF IInv, TableIsRunning, KeysAreSerials, UnsetUntouched,
                HandlerHolds, timerVars
<1> QED BY <1>4, <1>5, <1>6 DEF IInv

\* getNext, with a message there or not.
LEMMA GetNextIInv == ASSUME IInv, GetNext PROVE IInv'
<1>1. CASE mFifo # <<>>
    BY <1>1, TakeIInv DEF IInv, TypeOK, GetNext
<1>2. CASE mFifo = <<>>
  <2>1. /\ UNCHANGED <<now, timerVars, snapshot, nextstep, freed, mFifo, cur,
                       fired>>
        /\ pc' \in {"wait", "waitForever"}
        /\ pc # "handle"
      BY <1>2 DEF GetNext
  <2>2. deadline' \in 0 .. MaxTime
      BY <1>2, RuntimeAssumption DEF IInv, TypeOK, GetNext, AtMost
  <2>3. TypeOK'
      BY <2>1, <2>2 DEF IInv, TypeOK, timerVars, Locations
  <2>4. ParaOwnedOnce'
      BY <2>1, OwnershipKept DEF IInv, timerVars
  <2>5. TableIsRunning' /\ KeysAreSerials' /\ UnsetUntouched' /\ HandlerHolds'
      BY <2>1 DEF IInv, TableIsRunning, KeysAreSerials, UnsetUntouched,
                  HandlerHolds, timerVars
  <2> QED BY <2>3, <2>4, <2>5 DEF IInv
<1> QED BY <1>1, <1>2

\* The handler of a time-out ends: its parameter is deleted, for once.
LEMMA EndHandleIInv == ASSUME IInv, EndHandle PROVE IInv'
<1>1. CASE cur = External
  <2>1. UNCHANGED <<now, timerVars, waitVars, mFifo, fired, cur, freed>>
      BY <1>1 DEF EndHandle
  <2>2. TypeOK'
      BY <2>1 DEF IInv, TypeOK, EndHandle, timerVars, waitVars, Locations
  <2>3. ParaOwnedOnce'
      BY <2>1, OwnershipKept DEF IInv, timerVars
  <2>4. TableIsRunning' /\ KeysAreSerials' /\ UnsetUntouched' /\ HandlerHolds'
      BY <1>1, <2>1 DEF IInv, TableIsRunning, KeysAreSerials, UnsetUntouched,
                        HandlerHolds, timerVars
  <2> QED BY <2>2, <2>3, <2>4 DEF IInv
<1>2. CASE cur # External
  <2>1. /\ cur \in 1 .. made /\ cur \in Timer
        /\ UNCHANGED <<now, timerVars, waitVars, mFifo, fired>>
        /\ cur' = External /\ External \in 0 .. made /\ External \notin 1 .. made
        /\ freed' = [freed EXCEPT ![cur] = @ + 1]
      BY <1>2, RuntimeAssumption DEF IInv, TypeOK, External, EndHandle, Timer
  <2>2. freed[cur] = 0 /\ cur \notin mTimers /\ ~Queued(cur)
      BY <2>1 DEF IInv, ParaOwnedOnce, OwnedOnce
  <2>3. /\ freed'[cur] = 1
        /\ \A m \in Timer : m # cur => freed'[m] = freed[m]
        /\ freed' \in [Timer -> {0, 1}]
      BY <2>1, <2>2 DEF IInv, TypeOK
  <2>4. TypeOK'
      BY <2>1, <2>3 DEF IInv, TypeOK, EndHandle, timerVars, waitVars, Locations
  <2>5. ASSUME NEW n \in 1 .. made PROVE OwnedOnce(n)'
    <3>1. n \in Timer
        BY RuntimeAssumption DEF IInv, TypeOK, Timer
    <3>2. Queued(n)' <=> Queued(n)
        BY <2>1 DEF Queued
    <3>3. cur' # n
        BY <2>1
    <3>4. CASE n = cur
        BY <3>2, <3>3, <3>4, <2>1, <2>2, <2>3 DEF OwnedOnce, timerVars
    <3>5. CASE n # cur
        BY <3>1, <3>2, <3>3, <3>5, <2>1, <2>3
           DEF IInv, ParaOwnedOnce, OwnedOnce, timerVars
    <3> QED BY <3>4, <3>5
  <2>6. ParaOwnedOnce'
      BY <2>1, <2>5 DEF IInv, ParaOwnedOnce, OnceEach, timerVars
  <2>7. TableIsRunning' /\ KeysAreSerials' /\ HandlerHolds'
      BY <2>1 DEF IInv, TableIsRunning, KeysAreSerials, HandlerHolds, timerVars
  <2>8. UnsetUntouched'
    <3>1. \A n \in Timer : n > made => n # cur
        BY <2>1, RuntimeAssumption DEF Timer, IInv, TypeOK
    <3> QED BY <3>1, <2>1, <2>3 DEF IInv, UnsetUntouched, timerVars
  <2> QED BY <2>4, <2>6, <2>7, <2>8 DEF IInv
<1> QED BY <1>1, <1>2

\* Steps of the clock and of the loop that touch neither timer nor message.
LEMMA QuietIInv ==
    ASSUME IInv,
           UNCHANGED <<timerVars, mFifo, cur, freed, fired>>,
           now' \in 0 .. MaxTime, snapshot' \in 0 .. MaxTime,
           nextstep' \in 0 .. StepMax, deadline' \in 0 .. MaxTime,
           pc' \in Locations, pc = "handle" => pc' = "handle"
    PROVE  IInv'
<1>1. TypeOK'
    BY DEF IInv, TypeOK, timerVars
<1>2. ParaOwnedOnce'
    BY OwnershipKept DEF IInv, timerVars
<1>3. TableIsRunning' /\ KeysAreSerials' /\ UnsetUntouched'
    BY DEF IInv, TableIsRunning, KeysAreSerials, UnsetUntouched, timerVars
<1>4. HandlerHolds'
    BY DEF IInv, HandlerHolds
<1> QED BY <1>1, <1>2, <1>3, <1>4 DEF IInv

LEMMA NextIInv == IInv /\ [Next]_vars => IInv'
<1> SUFFICES ASSUME IInv, [Next]_vars PROVE IInv'
    OBVIOUS
<1> USE RuntimeAssumption
<1>0. /\ now \in 0 .. MaxTime /\ snapshot \in 0 .. MaxTime
      /\ nextstep \in 0 .. StepMax /\ deadline \in 0 .. MaxTime
      /\ pc \in Locations
    BY DEF IInv, TypeOK
<1>1. CASE Tick
    BY <1>0, <1>1, QuietIInv DEF Tick, waitVars
<1>2. CASE Post
    BY <1>2, PostIInv
<1>3. CASE Application
    BY <1>3, SetTimerIInv, DelTimerIInv DEF Application
<1>4. CASE Start
    BY <1>0, <1>4, QuietIInv DEF Start, waitVars, Locations
<1>5. CASE BeginProcess
    BY <1>0, <1>5, QuietIInv DEF BeginProcess, Locations
<1>6. CASE \E n \in Timer : ProcessTimer(n)
    BY <1>6, ProcessTimerIInv
<1>7. CASE EndDrain
  <2>1. nextstep' \in 0 .. StepMax
    <3>1. CASE nextstep' = StepMax
        BY <3>1
    <3>2. ASSUME NEW n \in Timer, nextstep' = StepTo(n)
          PROVE  nextstep' \in 0 .. StepMax
        BY <3>2, <1>0 DEF StepTo, AtMost, IInv, TypeOK
    <3> QED BY <3>1, <3>2, <1>7 DEF EndDrain
  <2> QED BY <1>0, <1>7, <2>1, QuietIInv DEF EndDrain, Locations
<1>8. CASE GetNext
    BY <1>8, GetNextIInv
<1>9. CASE Wake
    BY <1>0, <1>9, TakeIInv DEF Wake, waitVars
<1>10. CASE GiveUp
    BY <1>0, <1>10, QuietIInv DEF GiveUp, waitVars, Locations
<1>11. CASE EndHandle
    BY <1>11, EndHandleIInv
<1>12. CASE UNCHANGED vars
    BY <1>0, <1>12, QuietIInv DEF vars, timerVars
<1> QED BY <1>1, <1>2, <1>3, <1>4, <1>5, <1>6, <1>7, <1>8, <1>9, <1>10,
           <1>11, <1>12 DEF Next, Thread

\* The inductive invariant holds throughout.
THEOREM RuntimeInvariant == Spec => []IInv
<1> QED BY InitIInv, NextIInv, PTL DEF Spec

-----------------------------------------------------------------------------

\* Every variable keeps its type; in particular no parameter is deleted twice.
THEOREM TypeCorrect == Spec => []TypeOK
<1>1. IInv => TypeOK
    BY DEF IInv
<1> QED BY <1>1, RuntimeInvariant, PTL

\* The parameter handed to setTimer has one owner at a time and is deleted at
\* most once, under every interleaving of delTimer, expiry and handlers.
THEOREM ParameterOwnership == Spec => []ParaOwnedOnce
<1>1. IInv => ParaOwnedOnce
    BY DEF IInv
<1> QED BY <1>1, RuntimeInvariant, PTL

\* The table holds the keys of the running timers, none left behind and none
\* lost, as long as keys are not handed out twice (NoKeyWrap).
THEOREM TableAgrees == Spec => []TableMatchesQueue
<1> QED BY TableFromIInv, RuntimeInvariant, PTL

-----------------------------------------------------------------------------
(* The order of time-outs.  What makes it inductive: all that left the     *)
(* priority queue was due at the last reading of the clock, so it is due   *)
(* before whatever is still queued and whatever will be set.               *)

OutgoingIsPast ==
    \A i \in 1 .. Len(Outgoing) :
       Outgoing[i] # External =>
          /\ when[Outgoing[i]] <= snapshot
          /\ \A m \in mTimers : when[Outgoing[i]] <= when[m]

OrderInv == TimeoutsInOrder /\ OutgoingIsPast /\ snapshot <= now

\* The outgoing messages as a sequence of handled and queued ones.
LEMMA OutgoingType ==
    ASSUME TypeOK
    PROVE  /\ Outgoing \in Seq(0 .. made)
           /\ Len(Outgoing) = Len(fired) + Len(mFifo)
           /\ Len(fired) \in Nat /\ Len(mFifo) \in Nat
           /\ \A i \in 1 .. Len(fired) + Len(mFifo) :
                 Outgoing[i] = IF i <= Len(fired) THEN fired[i]
                                                  ELSE mFifo[i - Len(fired)]
<1>1. 1 .. made \subseteq 0 .. made
    OBVIOUS
<1>2. fired \in Seq(0 .. made) /\ mFifo \in Seq(0 .. made)
    BY <1>1, SeqMonotonic DEF TypeOK
<1> QED BY <1>2, ConcatProperties, LenProperties DEF Outgoing

\* Messages that leave the priority queue join the end.
LEMMA OutgoingAppend ==
    ASSUME TypeOK, NEW x \in 0 .. made, mFifo' = Append(mFifo, x),
           fired' = fired
    PROVE  /\ Len(Outgoing') = Len(Outgoing) + 1
           /\ Len(Outgoing) \in Nat
           /\ Outgoing'[Len(Outgoing) + 1] = x
           /\ \A i \in 1 .. Len(Outgoing) : Outgoing'[i] = Outgoing[i]
<1>1. 1 .. made \subseteq 0 .. made
    OBVIOUS
<1>2. fired \in Seq(0 .. made) /\ mFifo \in Seq(0 .. made)
    BY <1>1, SeqMonotonic DEF TypeOK
<1>3. Outgoing' = Append(Outgoing, x)
    BY <1>2 DEF Outgoing
<1>4. Outgoing \in Seq(0 .. made)
    BY OutgoingType
<1> QED BY <1>3, <1>4

\* Handling a message removes nothing but messages of other threads, and keeps
\* the order of the rest.
LEMMA OutgoingTake ==
    ASSUME TypeOK, mFifo # <<>>, Take
    PROVE  /\ Len(Outgoing') \in Nat /\ Len(Outgoing) \in Nat
           /\ \E f \in [1 .. Len(Outgoing') -> 1 .. Len(Outgoing)] :
                 /\ \A i \in 1 .. Len(Outgoing') :
                       Outgoing'[i] = Outgoing[f[i]]
                 /\ \A i, j \in 1 .. Len(Outgoing') : i < j => f[i] < f[j]
<1>1. 1 .. made \subseteq 0 .. made
    OBVIOUS
<1>2. fired \in Seq(0 .. made) /\ mFifo \in Seq(0 .. made)
    BY <1>1, SeqMonotonic DEF TypeOK
<1>0. Len(mFifo) \in Nat \ {0} /\ Len(fired) \in Nat
    BY <1>2, EmptySeq, LenProperties
<1>3. /\ Head(mFifo) \in 0 .. made
      /\ Tail(mFifo) \in Seq(0 .. made)
      /\ Len(mFifo) \in Nat \ {0} /\ Len(fired) \in Nat
      /\ Len(Tail(mFifo)) = Len(mFifo) - 1
      /\ Head(mFifo) = mFifo[1]
      /\ \A i \in 1 .. Len(mFifo) - 1 : Tail(mFifo)[i] = mFifo[i + 1]
    BY <1>0, <1>2, HeadAndTail
<1>4. CASE Head(mFifo) = External
  <2>1. Outgoing' = fired \o Tail(mFifo)
      BY <1>4 DEF Outgoing, Take
  <2>2. /\ Len(Outgoing') = Len(fired) + Len(mFifo) - 1
        /\ \A i \in 1 .. Len(fired) + Len(mFifo) - 1 :
              Outgoing'[i] = IF i <= Len(fired)
                                THEN fired[i] ELSE Tail(mFifo)[i - Len(fired)]
      BY <2>1, <1>2, <1>3, ConcatProperties
  <2> DEFINE f == [i \in 1 .. Len(Outgoing') |->
                      IF i <= Len(fired) THEN i ELSE i + 1]
  <2>3. f \in [1 .. Len(Outgoing') -> 1 .. Len(Outgoing)]
      BY <2>2, <1>3, OutgoingType
  <2>4. ASSUME NEW i \in 1 .. Len(Outgoing')
        PROVE  Outgoing'[i] = Outgoing[f[i]]
    <3>1. CASE i <= Len(fired)
        BY <3>1, <2>2, <1>3, OutgoingType, SMTT(30)
    <3>2. CASE i > Len(fired)
      <4>1. i - Len(fired) \in 1 .. Len(mFifo) - 1
          BY <3>2, <2>2, <1>3
      <4>2. Outgoing'[i] = mFifo[i - Len(fired) + 1]
          BY <4>1, <3>2, <2>2, <1>3
      <4>3. Outgoing[i + 1] = mFifo[i + 1 - Len(fired)]
          BY <3>2, <2>2, <1>3, OutgoingType
      <4>4. i + 1 - Len(fired) = i - Len(fired) + 1 /\ f[i] = i + 1
          BY <3>2, <2>2, <1>3
      <4> QED BY <4>2, <4>3, <4>4
    <3> QED BY <3>1, <3>2, <1>3, <2>2
  <2>5. \A i, j \in 1 .. Len(Outgoing') : i < j => f[i] < f[j]
      BY <2>2, <1>3
  <2>6. Len(Outgoing') \in Nat /\ Len(Outgoing) \in Nat
      BY <2>2, <1>3, OutgoingType
  <2> HIDE DEF f
  <2> QED BY <2>3, <2>4, <2>5, <2>6
<1>5. CASE Head(mFifo) # External
  <2>1. Outgoing' = Append(fired, Head(mFifo)) \o Tail(mFifo)
      BY <1>5 DEF Outgoing, Take
  <2>2. Outgoing' \in Seq(0 .. made) /\ Outgoing \in Seq(0 .. made)
      BY <2>1, <1>2, <1>3, ConcatProperties, OutgoingType
  <2>3. /\ Append(fired, Head(mFifo)) \in Seq(0 .. made)
        /\ Len(Append(fired, Head(mFifo))) = Len(fired) + 1
        /\ Append(fired, Head(mFifo))[Len(fired) + 1] = Head(mFifo)
        /\ \A i \in 1 .. Len(fired) :
              Append(fired, Head(mFifo))[i] = fired[i]
      BY <1>2, <1>3
  <2>4. /\ Len(Outgoing') = Len(fired) + Len(mFifo)
        /\ \A i \in 1 .. Len(fired) + Len(mFifo) :
              Outgoing'[i] = IF i <= Len(fired) + 1
                                THEN Append(fired, Head(mFifo))[i]
                                ELSE Tail(mFifo)[i - (Len(fired) + 1)]
      BY <2>1, <2>3, <1>3, ConcatProperties
  <2>5. ASSUME NEW i \in 1 .. Len(fired) + Len(mFifo)
        PROVE  Outgoing'[i] = Outgoing[i]
    <3>1. CASE i <= Len(fired)
        BY <3>1, <2>3, <2>4, <1>3, OutgoingType
    <3>2. CASE i = Len(fired) + 1
        BY <3>2, <2>3, <2>4, <1>3, OutgoingType
    <3>3. CASE i > Len(fired) + 1
      <4>1. i - (Len(fired) + 1) \in 1 .. Len(mFifo) - 1
          BY <3>3, <1>3
      <4>2. Outgoing'[i] = mFifo[i - (Len(fired) + 1) + 1]
          BY <4>1, <3>3, <2>4, <1>3
      <4>3. i - (Len(fired) + 1) + 1 = i - Len(fired)
          BY <1>3
      <4> QED BY <4>2, <4>3, <3>3, <1>3, OutgoingType, SMTT(30)
    <3> QED BY <3>1, <3>2, <3>3, <1>3
  <2> DEFINE f == [i \in 1 .. Len(Outgoing') |-> i]
  <2>6. Len(Outgoing') = Len(Outgoing) /\ Len(Outgoing) \in Nat
      BY <2>4, <1>3, OutgoingType
  <2>7. /\ f \in [1 .. Len(Outgoing') -> 1 .. Len(Outgoing)]
        /\ \A i \in 1 .. Len(Outgoing') : Outgoing'[i] = Outgoing[f[i]]
        /\ \A i, j \in 1 .. Len(Outgoing') : i < j => f[i] < f[j]
      BY <2>4, <2>5, <2>6
  <2> HIDE DEF f
  <2> QED BY <2>6, <2>7
<1> QED BY <1>4, <1>5

\* Dropping outgoing messages keeps the order; so does a timer set from now on.
LEMMA OrderSubsequence ==
    ASSUME TypeOK, TypeOK', OrderInv, Len(Outgoing) \in Nat,
           Len(Outgoing') \in Nat,
           NEW f \in [1 .. Len(Outgoing') -> 1 .. Len(Outgoing)],
           \A i \in 1 .. Len(Outgoing') : Outgoing'[i] = Outgoing[f[i]],
           \A i, j \in 1 .. Len(Outgoing') : i < j => f[i] < f[j],
           \A n \in 1 .. made : when'[n] = when[n],
           snapshot <= snapshot', snapshot' <= now',
           \A m \in mTimers' : m \in mTimers \/ when'[m] >= snapshot
    PROVE  OrderInv'
<1> USE RuntimeAssumption
<1>1. \A i \in 1 .. Len(Outgoing) :
         Outgoing[i] # External => /\ Outgoing[i] \in 1 .. made
                                   /\ when'[Outgoing[i]] = when[Outgoing[i]]
                                   /\ when[Outgoing[i]] \in Int
  <2>1. \A i \in 1 .. Len(Outgoing) : Outgoing[i] \in 0 .. made
      BY OutgoingType, ElementOfSeq
  <2>2. \A n \in 0 .. made : n # External => n \in 1 .. made
      BY DEF TypeOK, External
  <2>3. \A n \in 1 .. made : when[n] \in Int
      BY SMTT(30) DEF TypeOK, Timer
  <2> QED BY <2>1, <2>2, <2>3
<1>2. \A m \in mTimers : when'[m] = when[m]
    BY DEF TypeOK
<1>3. \A m \in mTimers' : when'[m] \in Int
    BY SMTT(30) DEF TypeOK, Timer
<1>4. snapshot \in Int /\ snapshot' \in Int
    BY DEF TypeOK
<1>5. TimeoutsInOrder'
  <2> SUFFICES ASSUME NEW i \in 1 .. Len(Outgoing'),
                      NEW j \in 1 .. Len(Outgoing'), i < j,
                      Outgoing'[i] # External, Outgoing'[j] # External
               PROVE  when'[Outgoing'[i]] <= when'[Outgoing'[j]]
      BY DEF TimeoutsInOrder
  <2>1. f[i] \in 1 .. Len(Outgoing) /\ f[j] \in 1 .. Len(Outgoing)
      OBVIOUS
  <2>2. f[i] < f[j] /\ Outgoing'[i] = Outgoing[f[i]]
                    /\ Outgoing'[j] = Outgoing[f[j]]
      OBVIOUS
  <2>3. when[Outgoing[f[i]]] <= when[Outgoing[f[j]]]
      BY <2>1, <2>2 DEF OrderInv, TimeoutsInOrder
  <2> QED BY <2>1, <2>2, <2>3, <1>1
<1>6. OutgoingIsPast'
  <2> SUFFICES ASSUME NEW i \in 1 .. Len(Outgoing'), Outgoing'[i] # External
               PROVE  /\ when'[Outgoing'[i]] <= snapshot'
                      /\ \A m \in mTimers' : when'[Outgoing'[i]] <= when'[m]
      BY DEF OutgoingIsPast
  <2>1. f[i] \in 1 .. Len(Outgoing) /\ Outgoing'[i] = Outgoing[f[i]]
      OBVIOUS
  <2>2. /\ when[Outgoing[f[i]]] <= snapshot
        /\ \A m \in mTimers : when[Outgoing[f[i]]] <= when[m]
      BY <2>1 DEF OrderInv, OutgoingIsPast
  <2>3. when'[Outgoing'[i]] = when[Outgoing[f[i]]] /\ when[Outgoing[f[i]]] \in Int
      BY <2>1, <1>1
  <2>4. when'[Outgoing'[i]] <= snapshot'
      BY <2>2, <2>3, <1>4
  <2>5. \A m \in mTimers' : when'[Outgoing'[i]] <= when'[m]
      BY <2>2, <2>3, <1>2, <1>3, <1>4
  <2> QED BY <2>4, <2>5
<1> QED BY <1>5, <1>6 DEF OrderInv

\* A message joins the fifo: one of another thread, or the earliest timer.
LEMMA OrderAppend ==
    ASSUME TypeOK, OrderInv, NEW x \in 0 .. made,
           mFifo' = Append(mFifo, x),
           UNCHANGED <<fired, when, snapshot, now>>,
           mTimers' \subseteq mTimers,
           \/ x = External
           \/ x \in mTimers /\ when[x] <= snapshot
                            /\ \A m \in mTimers : when[x] <= when[m]
    PROVE  OrderInv'
<1>1. /\ Len(Outgoing') = Len(Outgoing) + 1
      /\ Len(Outgoing) \in Nat
      /\ Outgoing'[Len(Outgoing) + 1] = x
      /\ \A i \in 1 .. Len(Outgoing) : Outgoing'[i] = Outgoing[i]
    BY OutgoingAppend
<1>2. \A i \in 1 .. Len(Outgoing') :
         i \in 1 .. Len(Outgoing) \/ i = Len(Outgoing) + 1
    BY <1>1
<1>3. TimeoutsInOrder'
  <2> SUFFICES ASSUME NEW i \in 1 .. Len(Outgoing'),
                      NEW j \in 1 .. Len(Outgoing'), i < j,
                      Outgoing'[i] # External, Outgoing'[j] # External
               PROVE  when[Outgoing'[i]] <= when[Outgoing'[j]]
      BY DEF TimeoutsInOrder
  <2>1. i \in 1 .. Len(Outgoing) /\ Outgoing'[i] = Outgoing[i]
      BY <1>1, <1>2
  <2>2. CASE j \in 1 .. Len(Outgoing)
      BY <2>1, <2>2, <1>1 DEF OrderInv, TimeoutsInOrder
  <2>3. CASE j = Len(Outgoing) + 1
      BY <2>1, <2>3, <1>1 DEF OrderInv, OutgoingIsPast
  <2> QED BY <2>2, <2>3, <1>2
<1>4. OutgoingIsPast'
  <2> SUFFICES ASSUME NEW i \in 1 .. Len(Outgoing'), Outgoing'[i] # External
               PROVE  /\ when[Outgoing'[i]] <= snapshot
                      /\ \A m \in mTimers' : when[Outgoing'[i]] <= when[m]
      BY DEF OutgoingIsPast
  <2>1. CASE i \in 1 .. Len(Outgoing)
      BY <2>1, <1>1 DEF OrderInv, OutgoingIsPast
  <2>2. CASE i = Len(Outgoing) + 1
      BY <2>2, <1>1
  <2> QED BY <2>1, <2>2, <1>2
<1> QED BY <1>3, <1>4 DEF OrderInv

\* A step that leaves the outgoing messages as they are.
LEMMA OrderUnchanged ==
    ASSUME TypeOK, TypeOK', OrderInv, UNCHANGED <<fired, mFifo>>,
           \A n \in 1 .. made : when'[n] = when[n],
           snapshot <= snapshot', snapshot' <= now',
           \A m \in mTimers' : m \in mTimers \/ when'[m] >= snapshot
    PROVE  OrderInv'
<1> DEFINE f == [i \in 1 .. Len(Outgoing') |-> i]
<1>1. Outgoing' = Outgoing /\ Len(Outgoing) \in Nat
    BY OutgoingType DEF Outgoing
<1>2. /\ f \in [1 .. Len(Outgoing') -> 1 .. Len(Outgoing)]
      /\ \A i \in 1 .. Len(Outgoing') : Outgoing'[i] = Outgoing[f[i]]
      /\ \A i, j \in 1 .. Len(Outgoing') : i < j => f[i] < f[j]
    BY <1>1
<1> HIDE DEF f
<1> QED BY <1>1, <1>2, OrderSubsequence

\* A message moves from the fifo to the handler.
LEMMA OrderTake ==
    ASSUME TypeOK, TypeOK', OrderInv, mFifo # <<>>, Take,
           UNCHANGED <<when, snapshot, now, mTimers>>
    PROVE  OrderInv'
<1>1. PICK f \in [1 .. Len(Outgoing') -> 1 .. Len(Outgoing)] :
         /\ \A i \in 1 .. Len(Outgoing') : Outgoing'[i] = Outgoing[f[i]]
         /\ \A i, j \in 1 .. Len(Outgoing') : i < j => f[i] < f[j]
    BY OutgoingTake
<1>2. Len(Outgoing) \in Nat /\ Len(Outgoing') \in Nat
    BY OutgoingTake
<1>3. snapshot <= snapshot' /\ snapshot' <= now'
    BY DEF OrderInv, TypeOK
<1> QED BY <1>1, <1>2, <1>3, OrderSubsequence

LEMMA InitOrder == Init => OrderInv
<1> SUFFICES ASSUME Init PROVE OrderInv
    OBVIOUS
<1>1. Outgoing = <<>> /\ Len(Outgoing) = 0
    BY DEF Init, Outgoing
<1>2. 1 .. Len(Outgoing) = {}
    BY <1>1
<1> QED BY <1>2 DEF OrderInv, TimeoutsInOrder, OutgoingIsPast, Init

LEMMA NextOrder == IInv /\ OrderInv /\ [Next]_vars => OrderInv'
<1> SUFFICES ASSUME IInv, OrderInv, [Next]_vars PROVE OrderInv'
    OBVIOUS
<1> USE RuntimeAssumption
<1>0. /\ TypeOK /\ TypeOK'
      /\ now \in Int /\ snapshot \in Int /\ snapshot <= now
  <2>1. IInv'
      BY NextIInv
  <2>2. TypeOK /\ TypeOK'
      BY <2>1 DEF IInv
  <2>3. now \in Int /\ snapshot \in Int
      BY <2>2 DEF TypeOK
  <2>4. snapshot <= now
      BY DEF OrderInv
  <2> QED BY <2>2, <2>3, <2>4
<1>1. CASE Tick
    BY <1>0, <1>1, OrderUnchanged DEF Tick, timerVars, waitVars
<1>2. CASE Post
    BY <1>0, <1>2, OrderAppend DEF Post, timerVars, waitVars, External, TypeOK
<1>3. CASE \E d \in Delays : SetTimer(d)
  <2> SUFFICES ASSUME NEW d \in Delays, SetTimer(d) PROVE OrderInv'
      BY <1>3
  <2>1. made' \in Timer /\ when'[made'] = now + d
      BY <1>0 DEF SetTimer, TypeOK, Timer
  <2>2. \A n \in 1 .. made : when'[n] = when[n]
      BY <1>0 DEF SetTimer, TypeOK
  <2>3. \A m \in mTimers' : m \in mTimers \/ when'[m] >= snapshot
      BY <1>0, <2>1 DEF SetTimer
  <2> QED BY <1>0, <2>2, <2>3, OrderUnchanged DEF SetTimer, waitVars
<1>4. CASE \E n \in Timer : DelTimer(n)
    BY <1>0, <1>4, OrderUnchanged DEF DelTimer, waitVars
<1>5. CASE Start
    BY <1>0, <1>5, OrderUnchanged DEF Start, timerVars, waitVars
<1>6. CASE BeginProcess
    BY <1>0, <1>6, OrderUnchanged DEF BeginProcess, timerVars
<1>7. CASE \E n \in Timer : ProcessTimer(n)
  <2> SUFFICES ASSUME NEW n \in Timer, ProcessTimer(n) PROVE OrderInv'
      BY <1>7
  <2>1. CASE key[n] \in mTimerStoped
    <3>1. n \in 0 .. made /\ mFifo' = Append(mFifo, n)
        BY <1>0, <2>1 DEF ProcessTimer, TimeOut, DropTimer, Earliest, TypeOK
    <3> QED BY <1>0, <3>1, OrderAppend DEF ProcessTimer, Earliest, Due, waitVars
  <2>2. CASE key[n] \notin mTimerStoped
      BY <1>0, <2>2, OrderUnchanged
         DEF ProcessTimer, TimeOut, DropTimer, waitVars
  <2> QED BY <2>1, <2>2
<1>8. CASE EndDrain
    BY <1>0, <1>8, OrderUnchanged DEF EndDrain, timerVars
<1>9. CASE GetNext
  <2>1. CASE mFifo # <<>>
      BY <1>0, <1>9, <2>1, OrderTake DEF GetNext, timerVars
  <2>2. CASE mFifo = <<>>
      BY <1>0, <1>9, <2>2, OrderUnchanged DEF GetNext, timerVars
  <2> QED BY <2>1, <2>2
<1>10. CASE Wake
    BY <1>0, <1>10, OrderTake DEF Wake, timerVars, waitVars
<1>11. CASE GiveUp
    BY <1>0, <1>11, OrderUnchanged DEF GiveUp, timerVars, waitVars
<1>12. CASE EndHandle
    BY <1>0, <1>12, OrderUnchanged DEF EndHandle, timerVars, waitVars
<1>13. CASE UNCHANGED vars
    BY <1>0, <1>13, OrderUnchanged DEF vars
<1> QED BY <1>1, <1>2, <1>3, <1>4, <1>5, <1>6, <1>7, <1>8, <1>9, <1>10,
           <1>11, <1>12, <1>13 DEF Next, Thread, Application

\* Time-outs reach onTimeOut in the order they are due, for any number of
\* timers and any delays, as long as the clock does not go back.
THEOREM DueOrder == Spec => []TimeoutsInOrder
<1>1. Spec => [](IInv /\ OrderInv)
  <2>1. Init => IInv /\ OrderInv
      BY InitIInv, InitOrder
  <2>2. (IInv /\ OrderInv) /\ [Next]_vars => (IInv /\ OrderInv)'
      BY NextIInv, NextOrder
  <2> QED BY <2>1, <2>2, PTL DEF Spec
<1>2. IInv /\ OrderInv => TimeoutsInOrder
    BY DEF OrderInv
<1> QED BY <1>1, <1>2, PTL

-----------------------------------------------------------------------------
(* The runtime implements the timer service.  The fate of a timer is read  *)
(* off the place it is found in, so the places must exclude each other:    *)
(* what ownership does not say is that a timer the application has seen    *)
(* expire is gone from the priority queue and from the fifo.               *)

FiredGone == \A n \in Range(fired) : n \notin mTimers /\ ~Queued(n)

RefinementInv == IInv /\ OrderInv /\ FiredGone

LEMMA InitFiredGone == Init => FiredGone
BY DEF Init, FiredGone, Range

\* A timer handed to its handler was the only one of its name.
LEMMA TakeFiredGone ==
    ASSUME IInv, FiredGone, Take, mFifo # <<>>, UNCHANGED mTimers
    PROVE  FiredGone'
<1>1. /\ Range(mFifo) = Range(mFifo') \union {Head(mFifo)}
      /\ Head(mFifo) # External => Head(mFifo) \notin Range(mFifo')
      /\ Head(mFifo) \in 0 .. made
    BY RangeOfTail, OnceEachTail, HeadTailProperties
       DEF Take, IInv, TypeOK, ParaOwnedOnce
<1>2. CASE Head(mFifo) = External
    BY <1>1, <1>2 DEF Take, FiredGone, Queued
<1>3. CASE Head(mFifo) # External
  <2>1. Head(mFifo) \in 1 .. made
      BY <1>1, <1>3 DEF External, IInv, TypeOK
  <2>2. Range(fired') = Range(fired) \union {Head(mFifo)}
    <3>1. fired \in Seq(1 .. made) /\ fired' = Append(fired, Head(mFifo))
        BY <1>3 DEF Take, IInv, TypeOK
    <3>2. Range(Append(fired, Head(mFifo))) = Range(fired) \union {Head(mFifo)}
      <4> DEFINE S == 1 .. made
                 h == Head(mFifo)
      <4>1. fired \in Seq(S) /\ h \in S
          BY <2>1, <3>1
      <4> HIDE DEF S, h
      <4>2. Range(Append(fired, h)) = Range(fired) \union {h}
          BY <4>1, RangeOfAppend
      <4> QED BY <4>2 DEF h
    <3> QED BY <3>1, <3>2
  <2>3. Head(mFifo) \notin mTimers
      BY <1>1, <2>1 DEF IInv, ParaOwnedOnce, OwnedOnce, Queued
  <2> QED BY <1>1, <1>3, <2>2, <2>3 DEF FiredGone, Queued
<1> QED BY <1>2, <1>3

LEMMA NextFiredGone == IInv /\ FiredGone /\ [Next]_vars => FiredGone'
<1> SUFFICES ASSUME IInv, FiredGone, [Next]_vars PROVE FiredGone'
    OBVIOUS
<1>0. fired \in Seq(1 .. made) /\ made \in Nat /\ mFifo \in Seq(0 .. made)
    BY DEF IInv, TypeOK
<1>1. \A n \in Range(fired) : n \in 1 .. made
    BY <1>0 DEF Range
<1>2. CASE Tick \/ Start \/ BeginProcess \/ EndDrain \/ GiveUp \/ EndHandle
           \/ UNCHANGED vars
  <2>1. UNCHANGED <<fired, mTimers, mFifo>>
      BY <1>2 DEF Tick, Start, BeginProcess, EndDrain, GiveUp, EndHandle,
                  timerVars, vars
  <2> QED BY <2>1 DEF FiredGone, Queued
<1>3. CASE Post
  <2>1. Range(mFifo') = Range(mFifo) \union {External}
      BY <1>0, <1>3, RangeOfAppend DEF Post, External
  <2> QED BY <1>0, <1>1, <1>3, <2>1
          DEF Post, timerVars, FiredGone, Queued, External
<1>4. CASE \E d \in Delays : SetTimer(d)
    BY <1>0, <1>1, <1>4 DEF SetTimer, FiredGone, Queued
<1>5. CASE \E n \in Timer : DelTimer(n)
    BY <1>5 DEF DelTimer, FiredGone, Queued
<1>6. CASE \E n \in Timer : ProcessTimer(n)
  <2> SUFFICES ASSUME NEW n \in Timer, ProcessTimer(n) PROVE FiredGone'
      BY <1>6
  <2>1. n \in mTimers /\ n \in 1 .. made /\ n \notin Range(fired)
      BY DEF ProcessTimer, Earliest, FiredGone, IInv, TypeOK
  <2>2. Range(mFifo') \subseteq Range(mFifo) \union {n}
    <3>1. CASE TimeOut(n)
        BY <1>0, <2>1, <3>1, RangeOfAppend, SMTT(30) DEF TimeOut
    <3>2. CASE DropTimer(n)
        BY <3>2 DEF DropTimer
    <3> QED BY <3>1, <3>2 DEF ProcessTimer
  <2> QED BY <2>1, <2>2 DEF ProcessTimer, FiredGone, Queued
<1>7. CASE GetNext
  <2>1. CASE mFifo # <<>>
      BY <1>7, <2>1, TakeFiredGone DEF GetNext, timerVars
  <2>2. CASE mFifo = <<>>
      BY <1>7, <2>2 DEF GetNext, timerVars, FiredGone, Queued
  <2> QED BY <2>1, <2>2
<1>8. CASE Wake
    BY <1>8, TakeFiredGone DEF Wake, timerVars
<1> QED BY <1>2, <1>3, <1>4, <1>5, <1>6, <1>7, <1>8
        DEF Next, Thread, Application

\* The fate of a timer by the place it is in; the places exclude each other.
FateByPlace ==
    \A n \in Timer :
       /\ n > made => Fate(n) = "unset"
       /\ n \in mTimers \intersect cancelled => Fate(n) = "cancelled"
       /\ n \in mTimers \ cancelled => Fate(n) = "armed"
       /\ Queued(n) => Fate(n) = "expired"
       /\ n \in Range(fired) => Fate(n) = "fired"
       /\ n \in 1 .. made /\ n \notin mTimers /\ ~Queued(n)
             /\ n \notin Range(fired) => Fate(n) = "dropped"

LEMMA FatesByPlace == IInv /\ FiredGone => FateByPlace
<1> SUFFICES ASSUME IInv, FiredGone, NEW n \in Timer
             PROVE  /\ n > made => Fate(n) = "unset"
                    /\ n \in mTimers \intersect cancelled
                          => Fate(n) = "cancelled"
                    /\ n \in mTimers \ cancelled => Fate(n) = "armed"
                    /\ Queued(n) => Fate(n) = "expired"
                    /\ n \in Range(fired) => Fate(n) = "fired"
                    /\ n \in 1 .. made /\ n \notin mTimers /\ ~Queued(n)
                          /\ n \notin Range(fired) => Fate(n) = "dropped"
    BY DEF FateByPlace
<1>1. /\ fired \in Seq(1 .. made) /\ made \in Nat /\ mFifo \in Seq(0 .. made)
      /\ mTimers \subseteq 1 .. made /\ n \in Nat \ {0}
    BY DEF IInv, TypeOK, Timer
<1>2. n \in Range(fired) => n \in 1 .. made
    BY <1>1 DEF Range
<1>3. Queued(n) => n \in 1 .. made
    BY <1>1 DEF Range, Queued
<1>4. n \in mTimers => n \in 1 .. made /\ ~Queued(n)
    BY <1>1 DEF IInv, ParaOwnedOnce, OwnedOnce
<1>5. n \in Range(fired) => n \notin mTimers /\ ~Queued(n)
    BY DEF FiredGone
<1>6. n \in 1 .. made <=> ~(n > made)
    BY <1>1
<1> HIDE DEF Queued
<1> QED BY <1>2, <1>3, <1>4, <1>5, <1>6 DEF Fate

\* When no timer changes its place, the service stutters or only its clock
\* goes on.
LEMMA FatesKept ==
    ASSUME FateByPlace, FateByPlace', TypeOK,
           UNCHANGED <<made, mTimers, cancelled>>,
           \A n \in Timer : Queued(n)' <=> Queued(n),
           \A n \in Timer : n \in Range(fired)' <=> n \in Range(fired)
    PROVE  [n \in Timer |-> Fate(n)]' = [n \in Timer |-> Fate(n)]
<1>1. ASSUME NEW n \in Timer PROVE Fate(n)' = Fate(n)
  <2>1. n \in 1 .. made \/ n > made
      BY DEF TypeOK, Timer
  <2> QED BY <2>1 DEF FateByPlace
<1> QED BY <1>1

\* One timer changes its fate and the others keep theirs.
LEMMA FateChanged ==
    ASSUME FateByPlace, FateByPlace', TypeOK,
           NEW n \in Timer, NEW f, Fate(n)' = f,
           UNCHANGED made,
           \A m \in Timer \ {n} :
              /\ m \in mTimers' <=> m \in mTimers
              /\ m \in cancelled' <=> m \in cancelled
              /\ Queued(m)' <=> Queued(m)
              /\ m \in Range(fired)' <=> m \in Range(fired)
    PROVE  [m \in Timer |-> Fate(m)]' =
              [[m \in Timer |-> Fate(m)] EXCEPT ![n] = f]
<1>1. ASSUME NEW m \in Timer \ {n} PROVE Fate(m)' = Fate(m)
  <2>1. m \in 1 .. made \/ m > made
      BY DEF TypeOK, Timer
  <2> QED BY <2>1 DEF FateByPlace
<1> QED BY <1>1

\* setTimer arms a timer of the service.
LEMMA SetTimerServes ==
    ASSUME IInv, FateByPlace, FateByPlace', IInv', FiredGone',
           NEW d \in Delays, SetTimer(d)
    PROVE  Service!Next
<1> DEFINE n == made + 1
           F == [m \in Timer |-> Fate(m)]
<1>1. /\ made \in Nat /\ made' = n /\ n \in Timer /\ n > made
      /\ mTimers \subseteq 1 .. made /\ cancelled \subseteq 1 .. made
    BY SMTT(30) DEF IInv, TypeOK, SetTimer, Timer
<1>2. Fate(n) = "unset"
    BY <1>1 DEF FateByPlace
<1>3. n \in (mTimers \ cancelled)'
    BY <1>1 DEF SetTimer
<1>4. F' = [F EXCEPT ![n] = "armed"]
  <2>1. ASSUME NEW m \in Timer \ {n} PROVE Fate(m)' = Fate(m)
    <3>1. /\ m > made <=> m > made'
          /\ m \in 1 .. made \/ m > made
          /\ m \in mTimers' <=> m \in mTimers
          /\ m \in cancelled' <=> m \in cancelled
          /\ Queued(m)' <=> Queued(m)
          /\ m \in Range(fired)' <=> m \in Range(fired)
        BY <1>1 DEF SetTimer, Queued, Timer
    <3>2. m \in 1 .. made' <=> m \in 1 .. made
        BY <1>1 DEF Timer
    <3> QED BY <3>1, <3>2 DEF FateByPlace
  <2>2. ASSUME NEW m \in Timer, m = n PROVE Fate(m)' = "armed"
      BY <1>1, <1>3, <2>2 DEF FateByPlace
  <2> QED BY <2>1, <2>2, <1>1
<1>5. when' = [when EXCEPT ![n] = now + d] /\ now' = now
    BY <1>1 DEF SetTimer
<1>6. F[n] = "unset"
    BY <1>1, <1>2
<1>7. Service!Set(n, d)
    BY <1>4, <1>5, <1>6 DEF Service!Set
<1> HIDE DEF n
<1> QED BY <1>1, <1>7 DEF Service!Next

\* The time-out at the head of the fifo is due first among those in the fifo.
LEMMA EarliestAtHead ==
    ASSUME TypeOK, TimeoutsInOrder, mFifo # <<>>, Head(mFifo) # External
    PROVE  \A m \in Timer : Queued(m) => when[Head(mFifo)] <= when[m]
<1> SUFFICES ASSUME NEW m \in Timer, Queued(m)
             PROVE  when[Head(mFifo)] <= when[m]
    OBVIOUS
<1>1. /\ Len(mFifo) \in Nat \ {0} /\ DOMAIN mFifo = 1 .. Len(mFifo)
      /\ Head(mFifo) = mFifo[1] /\ Head(mFifo) \in 0 .. made
    BY HeadTailProperties, EmptySeq DEF TypeOK
<1>2. PICK i \in 1 .. Len(mFifo) : mFifo[i] = m
    BY <1>1 DEF Queued, Range
<1>3. m # External /\ when[m] \in Int
  <2>1. m # External
      BY DEF External, Timer
  <2>2. when[m] \in 0 .. MaxTime
      BY DEF TypeOK
  <2> QED BY <2>1, <2>2
<1>4. CASE i = 1
    BY <1>1, <1>2, <1>3, <1>4
<1>5. CASE i # 1
  <2> DEFINE a == Len(fired) + 1
             b == Len(fired) + i
  <2>1. /\ a \in 1 .. Len(Outgoing) /\ b \in 1 .. Len(Outgoing) /\ a < b
        /\ Outgoing[a] = mFifo[1] /\ Outgoing[b] = mFifo[i]
      BY <1>1, <1>2, <1>5, OutgoingType
  <2> HIDE DEF a, b
  <2> QED BY <1>1, <1>2, <1>3, <2>1 DEF TimeoutsInOrder
<1> QED BY <1>4, <1>5

\* delTimer cancels a running timer; otherwise the service does not notice.
LEMMA DelTimerServes ==
    ASSUME IInv, FateByPlace, FateByPlace', NEW n \in Timer, DelTimer(n)
    PROVE  Service!Next \/ UNCHANGED Service!serviceVars
<1> DEFINE F == [m \in Timer |-> Fate(m)]
<1>1. /\ TypeOK
      /\ UNCHANGED <<now, when, made, mTimers, mFifo, fired>>
      /\ \A m \in Timer : Queued(m)' <=> Queued(m)
    BY DEF IInv, DelTimer, Queued
<1>2. CASE n \in mTimers \ cancelled
  <2>1. Fate(n) = "armed"
      BY <1>2 DEF FateByPlace
  <2>2. n \in (mTimers \intersect cancelled)'
      BY <1>2 DEF DelTimer
  <2>3. Fate(n)' = "cancelled"
      BY <2>2 DEF FateByPlace
  <2>4. \A m \in Timer \ {n} : m \in cancelled' <=> m \in cancelled
      BY DEF DelTimer
  <2>5. F' = [F EXCEPT ![n] = "cancelled"]
      BY <1>1, <2>3, <2>4, FateChanged
  <2>6. F[n] = "armed"
      BY <2>1
  <2>7. Service!Cancel(n)
      BY <1>1, <2>5, <2>6 DEF Service!Cancel, Service!Become
  <2> QED BY <2>7 DEF Service!Next
<1>3. CASE n \notin mTimers \ cancelled
  <2>1. cancelled' = cancelled
      BY <1>3 DEF DelTimer
  <2>2. F' = F
      BY <1>1, <2>1, FatesKept
  <2> QED BY <1>1, <2>2 DEF Service!serviceVars
<1> QED BY <1>2, <1>3

\* A timer that leaves the priority queue is due, and none in the queue is due
\* earlier: the service expires it or, if it was cancelled, drops it.
LEMMA ProcessTimerServes ==
    ASSUME IInv, IInv', OrderInv, FiredGone, FateByPlace, FateByPlace',
           NEW n \in Timer, ProcessTimer(n)
    PROVE  Service!Next
<1> DEFINE F == [m \in Timer |-> Fate(m)]
<1>1. /\ TypeOK /\ made \in Nat /\ mFifo \in Seq(0 .. made)
      /\ n \in mTimers /\ n \in 1 .. made
      /\ UNCHANGED <<now, when, made, cancelled, fired>>
      /\ mTimers' = mTimers \ {n}
      /\ ~Queued(n) /\ n \notin Range(fired)
    BY SMTT(30) DEF IInv, TypeOK, ParaOwnedOnce, OwnedOnce, FiredGone, ProcessTimer,
           Earliest, waitVars
<1>2. key[n] = n /\ (n \in mTimerStoped <=> n \notin cancelled)
    BY <1>1 DEF IInv, KeysAreSerials, TableIsRunning
<1>3. /\ when[n] <= now
      /\ \A m \in mTimers : when[n] <= when[m]
  <2>1. when[n] <= snapshot /\ snapshot <= now
      BY DEF ProcessTimer, Due, OrderInv
  <2>2. when[n] \in Int /\ snapshot \in Int /\ now \in Int
      BY DEF IInv, TypeOK
  <2> QED BY <2>1, <2>2 DEF ProcessTimer, Earliest
<1>4. \A m \in Timer : F[m] \in {"armed", "cancelled"} => m \in mTimers
  <2> SUFFICES ASSUME NEW m \in Timer, m \notin mTimers
               PROVE  Fate(m) \notin {"armed", "cancelled"}
      OBVIOUS
  <2>1. m \in 1 .. made \/ m > made
      BY <1>1 DEF Timer
  <2> QED BY <2>1 DEF FateByPlace
<1>5. Service!IsNext(n)
    BY <1>3, <1>4 DEF Service!IsNext, Service!Pending
<1>6. CASE TimeOut(n)
  <2>1. n \notin cancelled /\ mFifo' = Append(mFifo, n)
      BY <1>2, <1>6 DEF TimeOut
  <2>2. Range(mFifo') = Range(mFifo) \union {n}
    <3>1. n \in 0 .. made
        BY <1>1
    <3> QED BY <1>1, <2>1, <3>1, RangeOfAppend
  <2>3. Fate(n) = "armed" /\ Fate(n)' = "expired"
      BY <1>1, <2>1, <2>2 DEF FateByPlace, Queued
  <2>4. \A m \in Timer \ {n} : Queued(m)' <=> Queued(m)
      BY <2>2 DEF Queued
  <2>5. F' = [F EXCEPT ![n] = "expired"]
      BY <1>1, <2>3, <2>4, FateChanged
  <2>6. F[n] = "armed"
      BY <2>3
  <2>7. Service!Expire(n)
      BY <1>1, <1>5, <2>5, <2>6 DEF Service!Expire, Service!Become
  <2> QED BY <2>7 DEF Service!Next
<1>7. CASE DropTimer(n)
  <2>1. n \in cancelled /\ mFifo' = mFifo
      BY <1>2, <1>7 DEF DropTimer
  <2>2. \A m \in Timer : Queued(m)' <=> Queued(m)
      BY <2>1 DEF Queued
  <2>3. Fate(n) = "cancelled" /\ Fate(n)' = "dropped"
      BY <1>1, <2>1, <2>2 DEF FateByPlace
  <2>4. F' = [F EXCEPT ![n] = "dropped"]
      BY <1>1, <2>2, <2>3, FateChanged
  <2>5. F[n] = "cancelled"
      BY <2>3
  <2>6. Service!Drop(n)
      BY <1>1, <1>5, <2>4, <2>5 DEF Service!Drop, Service!Become
  <2> QED BY <2>6 DEF Service!Next
<1> QED BY <1>6, <1>7 DEF ProcessTimer

\* The head of the fifo, if it is a time-out, was due before those behind it:
\* the service fires it.
LEMMA TakeServes ==
    ASSUME IInv, IInv', OrderInv, FiredGone, FateByPlace, FateByPlace',
           Take, mFifo # <<>>, UNCHANGED <<now, timerVars>>
    PROVE  Service!Next \/ UNCHANGED Service!serviceVars
<1> DEFINE F == [m \in Timer |-> Fate(m)]
<1>1. /\ TypeOK /\ made \in 0 .. MaxTimers
      /\ UNCHANGED <<now, when, made, mTimers, cancelled>>
    BY DEF IInv, TypeOK, timerVars
<1>2. /\ Range(mFifo) = Range(mFifo') \union {Head(mFifo)}
      /\ Head(mFifo) # External => Head(mFifo) \notin Range(mFifo')
      /\ Head(mFifo) \in 0 .. made
    BY RangeOfTail, OnceEachTail, HeadTailProperties
       DEF Take, IInv, TypeOK, ParaOwnedOnce
<1>3. CASE Head(mFifo) = External
  <2>1. \A m \in Timer : Queued(m)' <=> Queued(m)
      BY <1>2, <1>3 DEF Queued, External, Timer
  <2>2. fired' = fired
      BY <1>3 DEF Take
  <2>3. F' = F
      BY <1>1, <2>1, <2>2, FatesKept
  <2> QED BY <1>1, <2>3 DEF Service!serviceVars
<1>4. CASE Head(mFifo) # External
  <2>1. PICK n \in 1 .. made : n = Head(mFifo)
      BY <1>1, <1>2, <1>4 DEF External
  <2>2. n \in Timer
      BY <1>1, RuntimeAssumption DEF Timer
  <2>3. Range(fired') = Range(fired) \union {n}
    <3> DEFINE S == 1 .. made
    <3>1. fired' = Append(fired, n)
        BY <1>4, <2>1 DEF Take
    <3>2. fired \in Seq(S) /\ n \in S
        BY DEF IInv, TypeOK
    <3> HIDE DEF S
    <3> QED BY <3>1, <3>2, RangeOfAppend
  <2>4. Queued(n)
      BY <1>2, <2>1 DEF Queued
  <2>5. /\ \A m \in Timer \ {n} : Queued(m)' <=> Queued(m)
        /\ \A m \in Timer \ {n} : m \in Range(fired)' <=> m \in Range(fired)
      BY <1>2, <2>1, <2>3 DEF Queued
  <2>6. Fate(n) = "expired" /\ Fate(n)' = "fired"
      BY <2>2, <2>3, <2>4 DEF FateByPlace
  <2>7. F' = [F EXCEPT ![n] = "fired"]
      BY <1>1, <2>2, <2>5, <2>6, FateChanged
  <2>8. \A m \in Timer : F[m] = "expired" => Queued(m)
    <3> SUFFICES ASSUME NEW m \in Timer, ~Queued(m)
                 PROVE  Fate(m) # "expired"
        OBVIOUS
    <3>1. m \in 1 .. made \/ m > made
        BY <1>1 DEF Timer
    <3> QED BY <3>1 DEF FateByPlace
  <2>9. \A m \in Timer : Queued(m) => when[n] <= when[m]
      BY <1>4, <2>1, EarliestAtHead DEF IInv, OrderInv, TypeOK
  <2>10. Service!Fire(n)
      BY <1>1, <2>2, <2>6, <2>7, <2>8, <2>9
         DEF Service!Fire, Service!Become
  <2> QED BY <2>2, <2>10 DEF Service!Next
<1> QED BY <1>3, <1>4

LEMMA ServiceInit == Init => Service!Init
<1> SUFFICES ASSUME Init PROVE Service!Init
    OBVIOUS
<1>1. ASSUME NEW n \in Timer PROVE Fate(n) = "unset"
  <2>1. n > made /\ n \notin mTimers /\ ~Queued(n) /\ n \notin Range(fired)
      BY DEF Init, Timer, Queued, Range
  <2> HIDE DEF Queued
  <2> QED BY <2>1 DEF Fate
<1> QED BY <1>1 DEF Init, Service!Init

\* Every step of the runtime is a step of the service or none.
LEMMA ServiceStep ==
    RefinementInv /\ RefinementInv' /\ [Next]_vars
       => [Service!Next]_(Service!serviceVars)
<1> SUFFICES ASSUME RefinementInv, RefinementInv', [Next]_vars
             PROVE  Service!Next \/ UNCHANGED Service!serviceVars
    OBVIOUS
<1> DEFINE F == [n \in Timer |-> Fate(n)]
<1>0. /\ IInv /\ IInv' /\ TypeOK /\ OrderInv /\ FiredGone /\ FiredGone'
      /\ FateByPlace
    BY FatesByPlace DEF RefinementInv, IInv
<1>a. FateByPlace'
    BY FatesByPlace, PTL DEF RefinementInv
<1>1. CASE Tick
  <2>1. F' = F
    <3>1. /\ UNCHANGED <<made, mTimers, cancelled>>
          /\ \A n \in Timer : Queued(n)' <=> Queued(n)
          /\ \A n \in Timer : n \in Range(fired)' <=> n \in Range(fired)
        BY <1>1 DEF Tick, timerVars, Queued
    <3> QED BY <1>0, <1>a, <3>1, FatesKept
  <2>2. when' = when /\ now' \in now + 1 .. MaxTime
      BY <1>0, <1>1, RuntimeAssumption DEF Tick, timerVars, TypeOK
  <2>3. Service!Advance
      BY <2>1, <2>2 DEF Service!Advance
  <2> QED BY <2>3 DEF Service!Next
<1>2. CASE Post
  <2>1. /\ UNCHANGED <<made, mTimers, cancelled, now, when>>
        /\ \A n \in Timer : n \in Range(fired)' <=> n \in Range(fired)
      BY <1>2 DEF Post, timerVars
  <2>2. \A n \in Timer : Queued(n)' <=> Queued(n)
    <3>1. mFifo \in Seq(0 .. made) /\ External \in 0 .. made
        BY <1>0 DEF TypeOK, External
    <3>2. mFifo' = Append(mFifo, External)
        BY <1>2 DEF Post
    <3>3. Range(mFifo') = Range(mFifo) \union {External}
      <4> DEFINE S == 0 .. made
      <4>1. mFifo \in Seq(S) /\ External \in S
          BY <3>1
      <4> HIDE DEF S
      <4> QED BY <3>2, <4>1, RangeOfAppend
    <3> QED BY <3>3 DEF Queued, Timer, External
  <2>3. F' = F
      BY <1>0, <1>a, <2>1, <2>2, FatesKept
  <2> QED BY <2>1, <2>3 DEF Service!serviceVars
<1>3. CASE Application
    BY <1>0, <1>a, <1>3, SetTimerServes, DelTimerServes DEF Application
<1>4. CASE \/ Start \/ BeginProcess \/ EndDrain \/ GiveUp \/ EndHandle
           \/ UNCHANGED vars \/ (GetNext /\ mFifo = <<>>)
  <2>1. UNCHANGED <<made, mTimers, cancelled, now, when, mFifo, fired>>
      BY <1>4 DEF Start, BeginProcess, EndDrain, GiveUp, EndHandle, GetNext,
                  timerVars, vars
  <2>2. \A n \in Timer : /\ Queued(n)' <=> Queued(n)
                         /\ n \in Range(fired)' <=> n \in Range(fired)
      BY <2>1 DEF Queued
  <2>3. F' = F
      BY <1>0, <1>a, <2>1, <2>2, FatesKept
  <2> QED BY <2>1, <2>3 DEF Service!serviceVars
<1>5. CASE \E n \in Timer : ProcessTimer(n)
    BY <1>0, <1>a, <1>5, ProcessTimerServes
<1>6. CASE GetNext /\ mFifo # <<>>
    BY <1>0, <1>a, <1>6, TakeServes DEF GetNext
<1>7. CASE Wake
    BY <1>0, <1>a, <1>7, TakeServes DEF Wake
<1> QED BY <1>1, <1>2, <1>3, <1>4, <1>5, <1>6, <1>7 DEF Next, Thread

\* The runtime implements the service: whatever the interleaving of the task,
\* its clock and the threads that send to it, a timer set with setTimer fires
\* at most once, not before it is due, in due order, and never after a
\* delTimer that found it running.
THEOREM Implements == Spec => ImplementsService
<1>1. Init => RefinementInv
    BY InitIInv, InitOrder, InitFiredGone DEF RefinementInv
<1>2. RefinementInv /\ [Next]_vars => RefinementInv'
    BY NextIInv, NextOrder, NextFiredGone DEF RefinementInv
<1> QED BY <1>1, <1>2, ServiceInit, ServiceStep, PTL
        DEF Spec, ImplementsService, Service!Spec
=============================================================================
