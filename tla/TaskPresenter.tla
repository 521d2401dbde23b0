--------------------------- MODULE TaskPresenter ---------------------------
(***************************************************************************)
(* What a client of the API is told about a row of the table               *)
(* scraping_tasks: the pure translation of services/task_presenter.py and  *)
(* of the last lines of the /result handler of main.py.                    *)
(*                                                                         *)
(* A row is a record with (at least) the fields                            *)
(*   status     the text of the status column                              *)
(*   data       whether extracted_data holds a non-empty list              *)
(*   started    whether started_at is set                                  *)
(*   completed  whether completed_at is set                                *)
(*   err        whether error_message is set                               *)
(***************************************************************************)
EXTENDS Naturals

\* The values of schemas.TaskStatus.
ApiStatuses == {"PENDING", "IN_PROGRESS", "SUCCESS", "FAILED"}

\* Mutant of NormalizeStatus: no guard against a late FAILED.
RawStatus(r) == IF r.status \in ApiStatuses THEN r.status ELSE "FAILED"

\* normalize_status: data wins over a late FAILED, STARTED is the worker's
\* name for IN_PROGRESS, anything else is reported as FAILED.
NormalizeStatus(r) ==
  CASE r.status = "FAILED" /\ r.data -> "SUCCESS"
    [] r.status = "STARTED" -> "IN_PROGRESS"
    [] r.status \in ApiStatuses /\ ~(r.status = "FAILED" /\ r.data) -> r.status
    [] OTHER -> "FAILED"

\* derive_progress: a percentage made up from the status and the timestamps.
DeriveProgress(r) ==
  CASE NormalizeStatus(r) = "SUCCESS"     -> 100
    [] NormalizeStatus(r) = "FAILED"      -> IF r.completed THEN 100 ELSE 0
    [] NormalizeStatus(r) = "IN_PROGRESS" -> IF r.started THEN 50 ELSE 10
    [] NormalizeStatus(r) = "PENDING"     -> 0

\* derive_message: a stored error message is shown whatever the status is.
DeriveMessage(r) == IF r.err THEN "error" ELSE NormalizeStatus(r)

\* get_task_result. PENDING and IN_PROGRESS are looked up in a set, by
\* equality; FAILED is tested with `is`, and the text that normalize_status
\* returns is a fresh result of upper(), so that only the fallback branch,
\* which returns the class attribute itself, is recognised as a failure.
IsFailedAttribute(r) ==
  /\ NormalizeStatus(r) = "FAILED"
  /\ r.status \notin ApiStatuses

ResultCode(r) ==
  IF NormalizeStatus(r) \in {"PENDING", "IN_PROGRESS"} THEN 202
  ELSE IF IsFailedAttribute(r) THEN 400 ELSE 200
=============================================================================
