--------------------------- MODULE MCHttpService ---------------------------
(***************************************************************************)
(* Instances of HttpService for TLC.                                       *)
(***************************************************************************)
EXTENDS HttpService
=============================================================================
