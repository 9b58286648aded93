------------------------------ MODULE MCIoBufs ------------------------------
(***************************************************************************)
(* Instances of IoBufs for TLC.                                            *)
(***************************************************************************)
EXTENDS Bitset
=============================================================================
