----------------------------- MODULE MCFrontend -----------------------------
(***************************************************************************)
(* A small instance of Frontend for TLC.                                   *)
(***************************************************************************)
EXTENDS Frontend

CONSTANTS t1, t2
=============================================================================
