--------------------------- MODULE MCSocketStream ---------------------------
(* Values of the constants of SocketStream for TLC. *)
EXTENDS SocketStream

MCSendLimits == {4, Size}
=============================================================================
