--------------------------- MODULE MCTaskSelector ---------------------------
(* Values of the constants of TaskSelector for TLC. *)
EXTENDS TaskSelector
MCTask == {1, 2}
MCInst == 1 .. 3
=============================================================================
