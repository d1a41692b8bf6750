--------------------------- MODULE MCExpireBuffer ---------------------------
(* Values of the constants of ExpireBuffer for TLC. *)
EXTENDS ExpireBuffer

MCMaxCounts == {0, 2}
=============================================================================
