--------------------------- MODULE MCTaskRuntime ---------------------------
(* Values of the constants of TaskRuntime for TLC. *)
EXTENDS TaskRuntime
MCDelays == {0, 1, 3}
MCShortDelays == {0, 2}
=============================================================================
