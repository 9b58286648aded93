----------------------------- MODULE MCResponse -----------------------------
(***************************************************************************)
(* The instance of Response for TLC.                                       *)
(***************************************************************************)
EXTENDS Response
=============================================================================
