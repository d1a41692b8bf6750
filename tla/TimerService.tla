---------------------------- MODULE TimerService ----------------------------
(***************************************************************************)
(* What setTimer, delTimer and onTimeOut promise an application task       *)
(* (xframe/include/task/abstracttask.h 99-121), with no queue, table or    *)
(* thread in sight.  A timer is armed once; from then on it either times   *)
(* out, never before it is due and never ahead of one due earlier, or is   *)
(* cancelled and silently dropped.  TaskRuntime implements this module.    *)
(***************************************************************************)
EXTENDS Integers

CONSTANTS Timer,        \* the timers a task may set, in the order it sets them
          Delays,       \* delays a task asks for, in milliseconds
          MaxTime       \* bound on the clock

VARIABLES clock,        \* the clock getTimeMs reads
          due,          \* the instant each timer was set for
          fate          \* what has become of each timer

serviceVars == <<clock, due, fate>>

Fates == {"unset", "armed", "cancelled", "dropped", "expired", "fired"}

Pending(n) == fate[n] \in {"armed", "cancelled"}

Init == /\ clock = 0
        /\ due = [n \in Timer |-> 0]
        /\ fate = [n \in Timer |-> "unset"]

Advance == /\ clock' \in clock + 1 .. MaxTime
           /\ UNCHANGED <<due, fate>>

Become(n, f) == /\ fate' = [fate EXCEPT ![n] = f]
                /\ UNCHANGED <<clock, due>>

\* setTimer
Set(n, d) == /\ fate[n] = "unset"
             /\ fate' = [fate EXCEPT ![n] = "armed"]
             /\ due' = [due EXCEPT ![n] = clock + d]
             /\ UNCHANGED clock

\* delTimer, while the timer is still running
Cancel(n) == fate[n] = "armed" /\ Become(n, "cancelled")

\* The delay has run out: the timers leave in the order they are due.
IsNext(n) == /\ due[n] <= clock
             /\ \A m \in Timer : Pending(m) => due[n] <= due[m]

Expire(n) == fate[n] = "armed" /\ IsNext(n) /\ Become(n, "expired")

Drop(n) == fate[n] = "cancelled" /\ IsNext(n) /\ Become(n, "dropped")

\* onTimeOut, in the order the timers are due
Fire(n) == /\ fate[n] = "expired"
           /\ \A m \in Timer : fate[m] = "expired" => due[n] <= due[m]
           /\ Become(n, "fired")

Next == \/ Advance
        \/ \E n \in Timer :
              \/ \E d \in Delays : Set(n, d)
              \/ Cancel(n) \/ Expire(n) \/ Drop(n) \/ Fire(n)

Spec == Init /\ [][Next]_serviceVars
=============================================================================
