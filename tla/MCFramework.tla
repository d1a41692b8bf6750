---------------------------- MODULE MCFramework ----------------------------
(* Values of the constants of Framework for TLC. *)
EXTENDS Framework

\* Task 1 has two instances with that of task 2 between them on the start
\* list; task 3 is not on it.
MCTask == {1, 2, 3}
MCTaskOf == <<1, 2, 1>>
MCInst == DOMAIN MCTaskOf

\* One instance of each of the two tasks.
MCFewTaskOf == <<1, 2>>
MCFewInst == DOMAIN MCFewTaskOf

To(t, i, type) == [to |-> t, inst |-> i, msgType |-> type]

MCAddresses == {To(1, AnyInst, ORDINARY), To(2, 2, ORDINARY),
                To(3, AnyInst, ORDINARY), To(1, AnyInst, DIALOG_BROADCAST),
                To(1, AnyInst, DIALOG_MULTICAST)}

\* As above, and a multicast to the task that is not registered.
MCAllAddresses == MCAddresses \union {To(3, AnyInst, DIALOG_MULTICAST)}

MCCommands == {[kind |-> "reload", taskId |-> AllTasks, instId |-> -1],
               [kind |-> "statues", taskId |-> 2, instId |-> 2],
               [kind |-> "reload", taskId |-> 2, instId |-> -1]}
=============================================================================
