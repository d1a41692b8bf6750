---------------------------- MODULE MCHttpServer ----------------------------
(* Values of the constants of HttpServer for TLC. *)
EXTENDS HttpServer

MCLink == {1, 2}
\* The second client asks once, for one part.
MCMaxRequests == <<2, 1>>
MCMaxParts == <<2, 1>>
=============================================================================
