--------------------------- MODULE MCTaskPipeline ---------------------------
(***************************************************************************)
(* Small instances of TaskPipeline for TLC.                                *)
(***************************************************************************)
EXTENDS TaskPipeline, TLC

CONSTANTS t1, t2, t3, u1, u2, a1, a2, f1, f2

\* Faults that leave one carrier for every task.
CleanFaults == FaultKinds \ {"ambiguous", "redeliver"}

\* Faults after which a worker still tells the row.
OutsideFaults == {"browser", "llm"}

\* Worker processes of one pool behave alike.
WorkerSymmetry == Permutations({a1, a2}) \cup Permutations({f1, f2})
=============================================================================
