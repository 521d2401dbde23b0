---------------------------- MODULE MCLlmClient ----------------------------
(***************************************************************************)
(* Small instances of LlmClient for TLC.                                   *)
(***************************************************************************)
EXTENDS LlmClient

CONSTANTS t1, t2, m1

\* A dictionary for the model and for each thread that still uses an old one;
\* were they too few, Record would wait and ChatEnds fail.
EnoughCells == 1..3
=============================================================================
