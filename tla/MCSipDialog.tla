---------------------------- MODULE MCSipDialog ----------------------------
(* Values of the constants of SipDialog for TLC. *)
EXTENDS SipDialog, TLC

CONSTANTS a, b

\* The two directions of a call.
MCRev == (a :> b) @@ (b :> a)
MCUnnamed == {}
MCLivings == {0, 1}
=============================================================================
