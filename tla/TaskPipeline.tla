---------------------------- MODULE TaskPipeline ----------------------------
(***************************************************************************)
(* The life of a scraping task, from POST /api/v1/process (or the tick of  *)
(* the scheduler) to a final status, across the processes that work on it: *)
(*                                                                         *)
(*   API / scheduler --request--> AI worker --fetch--> headless worker     *)
(*                                AI worker <--content-------+             *)
(*                                                                         *)
(* The processes share the table scraping_tasks and the Redis queues; each *)
(* step below is one database transaction, one message sent or one call to *)
(* the outside (page, language model), so that every interleaving of       *)
(* transactions and messages of concurrent handlers is a behaviour.        *)
(*                                                                         *)
(* Celery acknowledges a message when a worker starts it (no acks_late),   *)
(* so a handler that dies takes its message with it.                       *)
(***************************************************************************)
EXTENDS TaskPresenter

CONSTANTS
  Tasks,            \* task ids (uuid4, or scheduled-<job>-<second>)
  Users,            \* account ids
  NoOwner,          \* owner_id IS NULL
  NoTask,           \* an idle worker's task
  AIWorkers,        \* worker processes that consume ai_queue
  FetchWorkers,     \* worker processes that consume fetching_queue
  Unsafe,           \* the tasks whose prompt sanitize_user_input refuses
  Faults,           \* what may go wrong, see FaultKinds
  MaxRedeliveries   \* bound on the messages that the broker duplicates

\* db        a statement fails and stores nothing
\* broker    a message is not published, after the publish retries
\* ambiguous an error is reported for a commit or a publish that took effect
\* crash     a process dies: killed, out of memory, hard time limit
\* redeliver a message is queued twice: publish retry, visibility timeout
\* browser   the page cannot be opened or captured
\* llm       the client has no usable configuration, or extraction raises
FaultKinds == {"db", "broker", "ambiguous", "crash", "redeliver", "browser", "llm"}

Workers == AIWorkers \cup FetchWorkers

\* The Celery tasks: process_request_full, fetch_page and process_content.
Kinds == {"request", "fetch", "content"}

ASSUME PipelineAssumption ==
  /\ NoOwner \notin Users
  /\ NoTask \notin Tasks
  /\ AIWorkers \cap FetchWorkers = {}
  /\ Unsafe \subseteq Tasks
  /\ Faults \subseteq FaultKinds
  /\ MaxRedeliveries \in Nat

VARIABLES
  row,      \* row[t]: the row of scraping_tasks, or Absent
  submit,   \* submit[t]: the request that creates t (API or scheduler)
  queue,    \* queue[k][t]: the messages of kind k for t in the broker
  job,      \* job[w]: the handler that worker w runs, its session included
  copies,   \* messages duplicated so far
  lost      \* lost[t]: (history) an event after which nobody works on t

vars == <<row, submit, queue, job, copies, lost>>

Absent == [status |-> "absent", owner |-> NoOwner, data |-> FALSE,
           started |-> FALSE, completed |-> FALSE, err |-> FALSE]

Idle == [pc |-> "idle", task |-> NoTask, poisoned |-> FALSE]

NotSubmitted == [pc |-> "none", user |-> NoOwner, via |-> "api", recorded |-> FALSE]

Init ==
  /\ row = [t \in Tasks |-> Absent]
  /\ submit = [t \in Tasks |-> NotSubmitted]
  /\ queue = [k \in Kinds |-> [t \in Tasks |-> 0]]
  /\ job = [w \in Workers |-> Idle]
  /\ copies = 0
  /\ lost = [t \in Tasks |-> FALSE]

-----------------------------------------------------------------------------
(***************************************************************************)
(* shared/database/utils.py: what each write does to a row. A write to a   *)
(* row that does not exist changes nothing and raises nothing.             *)
(***************************************************************************)
NewRow(status, owner) == [Absent EXCEPT !.status = status, !.owner = owner]

Exists(t) == row[t].status # "absent"

\* Mutant of UpdateStatus: a final status without completed_at.
UpdateStatusUntimed(r, status) ==
  IF r.status = "absent" THEN r
  ELSE [r EXCEPT !.status = status, !.err = (status = "FAILED"),
                 !.started = @ \/ status = "IN_PROGRESS"]

\* update_task_status: the status is overwritten, whatever it was.
UpdateStatus(r, status) ==
  IF r.status = "absent" THEN r
  ELSE [r EXCEPT !.status = status,
                 !.err = (status = "FAILED"),
                 !.started = @ \/ status = "IN_PROGRESS",
                 !.completed = @ \/ status \in {"SUCCESS", "FAILED"}]

\* update_task_sources, as far as the row itself is concerned.
UpdateSources(r) == IF r.status = "absent" THEN r ELSE [r EXCEPT !.started = TRUE]

\* Mutant of PersistResult: the status is committed, the data is not.
PersistStatusOnly(r) == [r EXCEPT !.status = "SUCCESS", !.completed = TRUE]

\* persist_extraction_result: error_message keeps its value.
PersistResult(r) ==
  IF r.status = "absent" THEN r
  ELSE [r EXCEPT !.status = "SUCCESS", !.data = TRUE,
                 !.started = TRUE, !.completed = TRUE]

-----------------------------------------------------------------------------
(***************************************************************************)
(* Building blocks of the handlers. A handler ends normally in "end"; in   *)
(* "escape" it ends because its except clause raised as well.              *)
(***************************************************************************)
Send(k, t) == queue' = [queue EXCEPT ![k][t] = @ + 1]

\* Mutant of Moved: the worker keeps the task of the handler that ended.
MovedHoldingTask(w, pc, p) ==
  IF pc \in {"end", "escape"} THEN [job[w] EXCEPT !.pc = "idle", !.poisoned = FALSE]
  ELSE [job[w] EXCEPT !.pc = pc, !.poisoned = p]

\* The worker's handler after it moved to pc with a session that is, or is
\* not, poisoned: SQLAlchemy refuses every further statement of a session
\* whose transaction failed until rollback, which no worker calls.
Moved(w, pc, p) ==
  IF pc \in {"end", "escape"} THEN Idle
  ELSE [job[w] EXCEPT !.pc = pc, !.poisoned = p]

Goto(w, pc) == job' = [job EXCEPT ![w] = Moved(w, pc, job[w].poisoned)]

\* Nobody works on t any more once a handler escaped, or ended although
\* there was no row its outcome could be written to.
NoteEnd(t, pc) ==
  lost' = [lost EXCEPT ![t] = @ \/ pc = "escape"
                                \/ (pc = "end" /\ row'[t].status = "absent")]

\* One transaction of w that replaces its task's row by r: it commits and
\* goes on at ok, or it raises, with or without effect, and goes on at bad.
Transaction(w, r, ok, bad) ==
  LET t == job[w].task IN
  \/ /\ ~job[w].poisoned
     /\ row' = [row EXCEPT ![t] = r]
     /\ Goto(w, ok)
     /\ NoteEnd(t, ok)
  \/ /\ job[w].poisoned \/ "db" \in Faults
     /\ \E p \in BOOLEAN :
          /\ job[w].poisoned => p
          /\ job' = [job EXCEPT ![w] = Moved(w, bad, p)]
     /\ row' = row
     /\ NoteEnd(t, bad)
  \/ /\ ~job[w].poisoned
     /\ "ambiguous" \in Faults
     /\ row' = [row EXCEPT ![t] = r]
     /\ \E p \in BOOLEAN : job' = [job EXCEPT ![w] = Moved(w, bad, p)]
     /\ NoteEnd(t, bad)

\* Mutant of HandOver: the handler falls into its except clause after sending.
HandOverAndFail(w, k, bad) == Send(k, job[w].task) /\ Goto(w, bad)

\* The last step of a handler: it hands its task over to the next queue and
\* ends, or the publish raises, with or without effect.
HandOver(w, k, bad) ==
  \/ Send(k, job[w].task) /\ Goto(w, "end")
  \/ "broker" \in Faults /\ Goto(w, bad) /\ UNCHANGED queue
  \/ "ambiguous" \in Faults /\ Send(k, job[w].task) /\ Goto(w, bad)

\* Mutant of Take: the message stays in the queue.
TakeUnacked(w, W, k, t, pc) ==
  /\ w \in W
  /\ job[w] = Idle
  /\ queue[k][t] > 0
  /\ job' = [job EXCEPT ![w] = [pc |-> pc, task |-> t, poisoned |-> FALSE]]
  /\ UNCHANGED <<row, submit, queue, copies, lost>>

\* An idle worker of W takes a message, which the broker forgets at once.
Take(w, W, k, t, pc) ==
  /\ w \in W
  /\ job[w] = Idle
  /\ queue[k][t] > 0
  /\ queue' = [queue EXCEPT ![k][t] = @ - 1]
  /\ job' = [job EXCEPT ![w] = [pc |-> pc, task |-> t, poisoned |-> FALSE]]
  /\ UNCHANGED <<row, submit, copies, lost>>

At(w, pc) == job[w].pc = pc

-----------------------------------------------------------------------------
(***************************************************************************)
(* TaskService.create_task, and the same two steps of the scheduler, which *)
(* gives up when the row cannot be created. The API refuses an unsafe      *)
(* prompt before it creates anything; the scheduler does not look at it.   *)
(***************************************************************************)
\* StartSubmitEnqueued is a mutant of StartSubmit: the message is sent first.
StartSubmitEnqueued(t, u, via) ==
  /\ submit[t].pc = "none"
  /\ via = "api" => t \notin Unsafe
  /\ submit' = [submit EXCEPT ![t] = [pc |-> "persist", user |-> u,
                                      via |-> via, recorded |-> FALSE]]
  /\ Send("request", t)
  /\ UNCHANGED <<row, job, copies, lost>>

StartSubmit(t, u, via) ==
  /\ submit[t].pc = "none"
  /\ via = "api" => t \notin Unsafe
  /\ submit' = [submit EXCEPT ![t] = [pc |-> "persist", user |-> u,
                                      via |-> via, recorded |-> FALSE]]
  /\ UNCHANGED <<row, queue, job, copies, lost>>

\* The row is committed before the message is sent.
RecordTask(t) ==
  LET gaveUp == IF submit[t].via = "api" THEN "enqueue" ELSE "refused"
      created == [row EXCEPT ![t] = NewRow("PENDING", submit[t].user)]
  IN
  /\ submit[t].pc = "persist"
  /\ \/ /\ row' = created
        /\ submit' = [submit EXCEPT ![t].pc = "enqueue", ![t].recorded = TRUE]
     \/ /\ "db" \in Faults
        /\ row' = row
        /\ submit' = [submit EXCEPT ![t].pc = gaveUp]
     \/ /\ "ambiguous" \in Faults
        /\ row' = created
        /\ submit' = [submit EXCEPT ![t].pc = gaveUp]
  /\ UNCHANGED <<queue, job, copies, lost>>

\* A failed publish is logged, and the task id is returned all the same.
EnqueueTask(t) ==
  /\ submit[t].pc = "enqueue"
  /\ submit' = [submit EXCEPT ![t].pc = "accepted"]
  /\ \/ Send("request", t) /\ UNCHANGED lost
     \/ "broker" \in Faults /\ lost' = [lost EXCEPT ![t] = TRUE] /\ UNCHANGED queue
     \/ "ambiguous" \in Faults /\ Send("request", t) /\ UNCHANGED lost
  /\ UNCHANGED <<row, job, copies>>

-----------------------------------------------------------------------------
(***************************************************************************)
(* process_request_full                                                    *)
(***************************************************************************)
TakeRequest(w, t) == Take(w, AIWorkers, "request", t, "lookup")

\* Mutant of LookUp: the sanitizer's verdict is logged, not obeyed.
LookUpUnsanitized(w) ==
  /\ At(w, "lookup")
  /\ Goto(w, IF Exists(job[w].task) THEN "mark" ELSE "create")
  /\ UNCHANGED <<row, submit, queue, copies, lost>>

\* The row is looked up; what was read decides which branch is taken later.
LookUp(w) ==
  LET t == job[w].task
      next == IF t \in Unsafe THEN (IF Exists(t) THEN "block" ELSE "blockcreate")
              ELSE (IF Exists(t) THEN "mark" ELSE "create")
  IN
  /\ At(w, "lookup")
  /\ \/ Goto(w, next)
     \/ /\ "db" \in Faults
        /\ \E p \in BOOLEAN : job' = [job EXCEPT ![w] = Moved(w, "failing", p)]
  /\ UNCHANGED <<row, submit, queue, copies, lost>>

\* The missing row is created, without an owner. An exception is passed
\* over; that of a row created meanwhile leaves the session poisoned.
InsertMissing(w, status, next) ==
  LET t == job[w].task
      created == [row EXCEPT ![t] = NewRow(status, NoOwner)]
  IN
  /\ \/ ~Exists(t) /\ row' = created /\ Goto(w, next)
     \/ /\ Exists(t)
        /\ row' = row
        /\ job' = [job EXCEPT ![w] = Moved(w, next, TRUE)]
     \/ /\ "db" \in Faults
        /\ row' = row
        /\ \E p \in BOOLEAN : job' = [job EXCEPT ![w] = Moved(w, next, p)]
     \/ /\ "ambiguous" \in Faults /\ ~Exists(t)
        /\ row' = created
        /\ \E p \in BOOLEAN : job' = [job EXCEPT ![w] = Moved(w, next, p)]
  /\ NoteEnd(t, next)
  /\ UNCHANGED <<submit, queue, copies>>

\* The row of a refused prompt is created as FAILED, and the handler is done:
\* a branch that no task takes, as the API refuses such a prompt first and
\* the scheduler sends no message unless it recorded the row.
CreateMissing(w) ==
  LET refused == At(w, "blockcreate") IN
  /\ job[w].pc \in {"create", "blockcreate"}
  /\ InsertMissing(w, IF refused THEN "FAILED" ELSE "PENDING",
                      IF refused THEN "end" ELSE "mark")

BlockTask(w) ==
  /\ At(w, "block")
  /\ Transaction(w, UpdateStatus(row[job[w].task], "FAILED"), "end", "failing")
  /\ UNCHANGED <<submit, queue, copies>>

\* Mutant of MarkInProgress: goes on although the status was not written.
MarkInProgressAnyway(w) ==
  /\ At(w, "mark")
  /\ Transaction(w, UpdateStatus(row[job[w].task], "IN_PROGRESS"), "intent", "intent")
  /\ UNCHANGED <<submit, queue, copies>>

MarkInProgress(w) ==
  /\ At(w, "mark")
  /\ Transaction(w, UpdateStatus(row[job[w].task], "IN_PROGRESS"), "intent", "failing")
  /\ UNCHANGED <<submit, queue, copies>>

\* LLMClient.from_env may raise; extract_intent falls back to keywords.
AnalyzeIntent(w) ==
  /\ At(w, "intent")
  /\ \/ Goto(w, "sendfetch")
     \/ "llm" \in Faults /\ Goto(w, "failing")
  /\ UNCHANGED <<row, submit, queue, copies, lost>>

DelegateFetch(w) ==
  /\ At(w, "sendfetch")
  /\ HandOver(w, "fetch", "failing")
  /\ UNCHANGED <<row, submit, copies, lost>>

\* The except clause of both AI handlers, in the session that may have
\* failed already.
MarkFailed(w) ==
  /\ At(w, "failing")
  /\ Transaction(w, UpdateStatus(row[job[w].task], "FAILED"), "end", "escape")
  /\ UNCHANGED <<submit, queue, copies>>

-----------------------------------------------------------------------------
(***************************************************************************)
(* fetch_page                                                              *)
(***************************************************************************)
TakeFetch(w, t) == Take(w, FetchWorkers, "fetch", t, "browse")

Browse(w) ==
  /\ At(w, "browse")
  /\ \/ Goto(w, "sendcontent")
     \/ "browser" \in Faults /\ Goto(w, "fetchfailed")
  /\ UNCHANGED <<row, submit, queue, copies, lost>>

\* Mutant of DelegateContent: a failed publish just ends the handler.
DelegateContentOrGiveUp(w) ==
  /\ At(w, "sendcontent")
  /\ HandOver(w, "content", "end")
  /\ UNCHANGED <<row, submit, copies, lost>>

DelegateContent(w) ==
  /\ At(w, "sendcontent")
  /\ HandOver(w, "content", "fetchfailed")
  /\ UNCHANGED <<row, submit, copies, lost>>

\* Mutant of MarkFetchFailed: the except clause only logs.
LogFetchFailed(w) ==
  /\ At(w, "fetchfailed")
  /\ Goto(w, "end")
  /\ UNCHANGED <<row, submit, queue, copies, lost>>

\* The except clause opens a session of its own.
MarkFetchFailed(w) ==
  /\ At(w, "fetchfailed")
  /\ Transaction(w, UpdateStatus(row[job[w].task], "FAILED"), "end", "escape")
  /\ UNCHANGED <<submit, queue, copies>>

-----------------------------------------------------------------------------
(***************************************************************************)
(* process_content                                                         *)
(***************************************************************************)
TakeContent(w, t) == Take(w, AIWorkers, "content", t, "sources")

\* A failure to store the sources is only a warning.
SaveSources(w) ==
  /\ At(w, "sources")
  /\ Transaction(w, UpdateSources(row[job[w].task]), "extract", "extract")
  /\ UNCHANGED <<submit, queue, copies>>

\* Cache lookups and extraction, which use the session as well: they find
\* data, find none, or raise. Some of their database errors are swallowed,
\* and what the caching thread does to the shared session counts as one.
Extract(w) ==
  /\ At(w, "extract")
  /\ \/ ~job[w].poisoned /\ Goto(w, "persist")
     \/ ~job[w].poisoned /\ Goto(w, "nodata")
     \/ (job[w].poisoned \/ "llm" \in Faults) /\ Goto(w, "failing")
     \/ /\ "db" \in Faults
        /\ ~job[w].poisoned
        /\ \E pc \in {"persist", "nodata", "failing"}, p \in BOOLEAN :
             job' = [job EXCEPT ![w] = Moved(w, pc, p)]
  /\ UNCHANGED <<row, submit, queue, copies, lost>>

SaveResult(w) ==
  /\ At(w, "persist")
  /\ Transaction(w, PersistResult(row[job[w].task]), "end", "failing")
  /\ UNCHANGED <<submit, queue, copies>>

\* Mutant of MarkNoData: an empty result leaves the row as it is.
IgnoreNoData(w) ==
  /\ At(w, "nodata")
  /\ Goto(w, "end")
  /\ UNCHANGED <<row, submit, queue, copies, lost>>

MarkNoData(w) ==
  /\ At(w, "nodata")
  /\ Transaction(w, UpdateStatus(row[job[w].task], "FAILED"), "end", "failing")
  /\ UNCHANGED <<submit, queue, copies>>

-----------------------------------------------------------------------------
(***************************************************************************)
(* The environment                                                         *)
(***************************************************************************)
Crash(w) ==
  /\ "crash" \in Faults
  /\ job[w] # Idle
  /\ lost' = [lost EXCEPT ![job[w].task] = TRUE]
  /\ job' = [job EXCEPT ![w] = Idle]
  /\ UNCHANGED <<row, submit, queue, copies>>

\* The API or the scheduler dies between the row and the message.
SubmitterCrash(t) ==
  /\ "crash" \in Faults
  /\ submit[t].pc \in {"persist", "enqueue"}
  /\ submit' = [submit EXCEPT ![t].pc = "refused"]
  /\ UNCHANGED <<row, queue, job, copies, lost>>

Redeliver(k, t) ==
  /\ "redeliver" \in Faults
  /\ copies < MaxRedeliveries
  /\ queue[k][t] > 0
  /\ Send(k, t)
  /\ copies' = copies + 1
  /\ UNCHANGED <<row, submit, job, lost>>

-----------------------------------------------------------------------------
Submission(t) == RecordTask(t) \/ EnqueueTask(t)

Taking(w) == \E t \in Tasks : TakeRequest(w, t) \/ TakeFetch(w, t) \/ TakeContent(w, t)

Handling(w) ==
  \/ LookUp(w) \/ CreateMissing(w) \/ BlockTask(w)
  \/ MarkInProgress(w) \/ AnalyzeIntent(w) \/ DelegateFetch(w) \/ MarkFailed(w)
  \/ Browse(w) \/ DelegateContent(w) \/ MarkFetchFailed(w)
  \/ SaveSources(w) \/ Extract(w) \/ SaveResult(w) \/ MarkNoData(w)

Next ==
  \/ \E t \in Tasks, u \in Users, via \in {"api", "sched"} : StartSubmit(t, u, via)
  \/ \E t \in Tasks : Submission(t)
  \/ \E w \in Workers : Taking(w) \/ Handling(w)
  \/ \E w \in Workers : Crash(w)
  \/ \E t \in Tasks : SubmitterCrash(t)
  \/ \E k \in Kinds, t \in Tasks : Redeliver(k, t)

Spec == Init /\ [][Next]_vars

\* A request that was started goes on, a worker process takes messages while
\* there are some, and a handler that runs goes on: the loops of uvicorn and
\* of the Celery workers, which the time limits keep from blocking.
Fairness ==
  /\ \A t \in Tasks : WF_vars(Submission(t))
  /\ \A w \in Workers : WF_vars(Taking(w)) /\ WF_vars(Handling(w))

FairSpec == Spec /\ Fairness

-----------------------------------------------------------------------------
(***************************************************************************)
(* What the submitter of t sees of it, and who still works on it.          *)
(***************************************************************************)
\* TaskService.get_task_for_user, then normalize_status.
View(t) ==
  IF ~Exists(t) THEN "404"
  ELSE IF row[t].owner # submit[t].user THEN "403"
  ELSE NormalizeStatus(row[t])

Final == {"SUCCESS", "FAILED"}

\* The queues, the handlers and the submission that may still carry t on.
Carriers(t) ==
  {<<"queue", k>> : k \in {k \in Kinds : queue[k][t] > 0}}
    \cup {<<"worker", w>> : w \in {w \in Workers : job[w].task = t}}
    \cup {<<"submit", u>> : u \in {u \in {t} : submit[u].pc \in {"persist", "enqueue"}}}

-----------------------------------------------------------------------------
(***************************************************************************)
(* Properties                                                              *)
(***************************************************************************)
Pcs == {"idle", "lookup", "blockcreate", "block", "create", "mark", "intent",
        "sendfetch", "failing", "browse", "sendcontent", "fetchfailed",
        "sources", "extract", "persist", "nodata"}

RowType == [status : ApiStatuses \cup {"absent"}, owner : Users \cup {NoOwner},
            data : BOOLEAN, started : BOOLEAN, completed : BOOLEAN, err : BOOLEAN]

SubmitType == [pc : {"none", "persist", "enqueue", "accepted", "refused"},
               user : Users \cup {NoOwner}, via : {"api", "sched"}, recorded : BOOLEAN]

JobType == [pc : Pcs, task : Tasks \cup {NoTask}, poisoned : BOOLEAN]

\* The shape of the tables, queues and handlers; a worker is idle exactly
\* when it has no task.
TypeOK ==
  /\ row \in [Tasks -> RowType]
  /\ submit \in [Tasks -> SubmitType]
  /\ queue \in [Kinds -> [Tasks -> Nat]]
  /\ job \in [Workers -> JobType]
  /\ \A w \in Workers : (job[w].pc = "idle") <=> (job[w].task = NoTask)
  /\ copies \in Nat
  /\ lost \in [Tasks -> BOOLEAN]

\* A task that was accepted and has no final status is still in some queue
\* or handler, unless a message, a handler or its last write was lost: no
\* error path of the three handlers drops a task silently.
AccountedFor ==
  \A t \in Tasks :
    submit[t].pc = "accepted" =>
      row[t].status \in Final \/ lost[t] \/ Carriers(t) # {}

\* A row is only ever without its owner when the submission failed to record
\* it: the row is committed before the message that lets a worker create it.
OwnerlessOnlyIfUnrecorded ==
  \A t \in Tasks :
    Exists(t) /\ row[t].owner # submit[t].user =>
      ~submit[t].recorded /\ submit[t].pc = "accepted"

\* Workers and messages exist only for tasks whose submission is over, and a
\* recorded row stays: nobody works on, or creates, a row before its turn.
WorkFollowsSubmission ==
  \A t \in Tasks :
    /\ \A k \in Kinds : queue[k][t] > 0 => submit[t].pc = "accepted"
    /\ \A w \in Workers : job[w].task = t => submit[t].pc = "accepted"
    /\ submit[t].pc \in {"none", "persist"} => ~Exists(t)
    /\ submit[t].recorded => Exists(t)

\* A prompt that the worker refuses is never fetched or extracted, and its
\* task is never shown as running, whatever copies of the message race.
UnsafeIsBlocked ==
  \A t \in Unsafe :
    /\ queue["fetch"][t] = 0 /\ queue["content"][t] = 0
    /\ row[t].status \in {"absent", "PENDING", "FAILED"}
    /\ \A w \in Workers :
         job[w].task = t =>
           /\ job[w].pc \in {"lookup", "block", "blockcreate", "failing"}
           /\ job[w].pc = "blockcreate" => row[t].status \in {"absent", "FAILED"}

\* A row that says SUCCESS has its data: nobody reports a success whose
\* result is still to be written, or was refused.
SuccessHasData ==
  \A t \in Tasks : row[t].status = "SUCCESS" => row[t].data /\ row[t].completed

\* Once a result is stored no step takes it away, and no step makes the
\* owner see FAILED, however late a failing handler writes (the guard of
\* normalize_status).
ResultIsKept ==
  [][\A t \in Tasks : row[t].data => row'[t].data /\ NormalizeStatus(row'[t]) # "FAILED"]_vars

\* Nobody works twice on the same task when no message is duplicated and
\* errors are what they seem: one queue, handler or submission at a time.
OneCarrier ==
  \A t \in Tasks :
    /\ \A a, b \in Carriers(t) : a = b
    /\ \A k \in Kinds : queue[k][t] <= 1

\* A task shown as SUCCESS carries no error message of an earlier attempt
\* (persist_extraction_result does not clear it), when nobody works twice.
SuccessIsClean ==
  \A t \in Tasks : View(t) = "SUCCESS" => DeriveMessage(row[t]) # "error"

\* The progress that polls report never goes back, when nobody works twice.
ProgressNeverDrops ==
  [][\A t \in Tasks : Exists(t) => DeriveProgress(row'[t]) >= DeriveProgress(row[t])]_vars

\* Every accepted task is finally shown SUCCESS or FAILED to its owner, and
\* for good, unless a crash or a lost message or write took it; a task whose
\* row the API failed to record ends as well, though nobody may read it.
SubmitterIsAnswered ==
  \A t \in Tasks :
    submit[t].pc = "accepted" ~>
      (lost[t] \/ [](IF submit[t].recorded THEN View(t) \in Final
                                           ELSE row[t].status \in Final))

-----------------------------------------------------------------------------
\* The table, read as the abstract TaskLifecycle reads it.
Phase(t) == IF Exists(t) THEN NormalizeStatus(row[t]) ELSE "unknown"

Lifecycle == INSTANCE TaskLifecycle
               WITH phase <- [t \in Tasks |-> Phase(t)],
                    result <- [t \in Tasks |-> row[t].data]

\* When nobody works twice the table only moves forward, ends once, and has a
\* result exactly for SUCCESS.
ImplementsLifecycle == Lifecycle!Spec

\* The fairness of TaskLifecycle: every task that has a row ends, unless it
\* was lost or its submission broke off before the message.
ImplementsFairLifecycle ==
  \A t \in Tasks :
    Lifecycle!Progresses(t) \/ <>(lost[t] \/ submit[t].pc = "refused")

-----------------------------------------------------------------------------
(***************************************************************************)
(* What documents of the repository say and the code does not do.          *)
(***************************************************************************)
\* docstring of get_task_result: "If it failed, return 400".
FailedResultIs400 ==
  \A t \in Tasks : View(t) = "FAILED" => ResultCode(row[t]) = 400
=============================================================================
