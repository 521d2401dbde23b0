------------------------------ MODULE Scheduler ------------------------------
(***************************************************************************)
(* The scheduled jobs: the table scheduled_jobs, its endpoints, and the    *)
(* periodic Celery task scheduler.check_due_jobs ("a tick"), which creates *)
(* and enqueues a scraping task for every job that is due.                 *)
(*                                                                         *)
(* Beat sends a tick every ten seconds to ai_queue, where it waits behind  *)
(* the extraction tasks, so that several ticks may be handled at once, by  *)
(* different worker processes.  What becomes of an enqueued task is the    *)
(* subject of TaskPipeline; here a task is its id, scheduled-<job>-<s>,    *)
(* the pair of a job and of the second at which the tick read the clock.   *)
(***************************************************************************)
EXTENDS Integers, FiniteSets

CONSTANTS
  Jobs,         \* ids of scheduled_jobs
  NoJob,        \* a tick between two jobs
  BadCron,      \* the jobs whose cron expression croniter refuses
  Ticks,        \* worker processes of ai_queue that can run check_due_jobs
  MaxTime,      \* bound on the clock, in seconds
  MaxBacklog,   \* bound on the ticks waiting in ai_queue
  Cron,         \* Cron[j][s]: the next occurrence of j after second s
  Faults        \* what may go wrong: "db", "broker", "ambiguous", "crash"

Times == 1 .. MaxTime

\* The value of a time stamp that is NULL.
Null == 0

\* croniter's get_next is later than its base, and monotone in it.
ASSUME SchedulerAssumption ==
  /\ NoJob \notin Jobs
  /\ BadCron \subseteq Jobs
  /\ MaxTime \in Nat \ {0}
  /\ MaxBacklog \in Nat
  /\ Cron \in [Jobs -> [Times -> Nat]]
  /\ \A j \in Jobs, s \in Times :
       Cron[j][s] > s /\ \A r \in Times : s <= r => Cron[j][s] <= Cron[j][r]
  /\ Faults \subseteq {"db", "broker", "ambiguous", "crash"}

VARIABLES
  clock,    \* the time, the same on every host
  table,    \* table[j]: the row of scheduled_jobs
  backlog,  \* ticks that wait in ai_queue
  tick,     \* tick[w]: the tick that w runs
  runs,     \* the pairs <<j, s>> that have a row in scraping_tasks
  sent      \* sent[<<j, s>>]: the messages sent for that row

vars == <<clock, table, backlog, tick, runs, sent>>

\* A tick that is not running. cached: the job objects still hold what the
\* query loaded; a commit or a rollback expires them all.
NoTick == [pc |-> "idle", now |-> Null, todo |-> {}, cur |-> NoJob, cached |-> FALSE]

NoRow == [state |-> "none", last |-> Null, next |-> Null]

Init ==
  /\ clock = 1
  /\ table = [j \in Jobs |-> NoRow]
  /\ backlog = 0
  /\ tick = [w \in Ticks |-> NoTick]
  /\ runs = {}
  /\ sent = [id \in Jobs \X Times |-> 0]

Live(j) == table[j].state = "live"

\* Mutant of Due: whatever is due before the next tick is taken now.
DueAhead(j, now) == Live(j) /\ (table[j].next = Null \/ table[j].next <= now + 1)

\* The filter of the query: next_run_at is NULL or not in the future.
Due(j, now) == Live(j) /\ (table[j].next = Null \/ table[j].next <= now)

RunOf(w) == <<tick[w].cur, tick[w].now>>

-----------------------------------------------------------------------------
\* POST /api/v1/jobs: the cron expression is stored unread, next_run_at NULL.
CreateJob(j) ==
  /\ table[j].state = "none"
  /\ table' = [table EXCEPT ![j] = [NoRow EXCEPT !.state = "live"]]
  /\ UNCHANGED <<clock, backlog, tick, runs, sent>>

\* DELETE /api/v1/jobs/{id}: the row is gone, whoever works on it.
DeleteJob(j) ==
  /\ Live(j)
  /\ table' = [table EXCEPT ![j].state = "deleted"]
  /\ UNCHANGED <<clock, backlog, tick, runs, sent>>

Beat ==
  /\ backlog < MaxBacklog
  /\ backlog' = backlog + 1
  /\ UNCHANGED <<clock, table, tick, runs, sent>>

Advance ==
  /\ clock < MaxTime
  /\ clock' = clock + 1
  /\ UNCHANGED <<table, backlog, tick, runs, sent>>

-----------------------------------------------------------------------------
\* A worker takes a tick and reads the clock.
StartTick(w) ==
  /\ tick[w].pc = "idle"
  /\ backlog > 0
  /\ backlog' = backlog - 1
  /\ tick' = [tick EXCEPT ![w] = [NoTick EXCEPT !.pc = "query", !.now = clock]]
  /\ UNCHANGED <<clock, table, runs, sent>>

\* The whole tick ends: nothing is left to do, or an exception left the loop.
Leave(w) == tick' = [tick EXCEPT ![w] = NoTick]

\* The list of due jobs is read once, at the start of the tick.
QueryDueJobs(w) ==
  /\ tick[w].pc = "query"
  /\ \/ tick' = [tick EXCEPT ![w].pc = "next", ![w].cached = TRUE,
                             ![w].todo = {j \in Jobs : Due(j, tick[w].now)}]
     \/ "db" \in Faults /\ Leave(w)
  /\ UNCHANGED <<clock, table, backlog, runs, sent>>

\* The except clause: log the job's id, roll back, go on with the next job.
NextOne(w) ==
  tick' = [tick EXCEPT ![w].pc = "next", ![w].cur = NoJob, ![w].cached = FALSE]

\* When a flush failed, logging job.id makes the session raise once more,
\* outside the try statement; when only the commit failed it may not.
FailOne(w) == Leave(w) \/ NextOne(w)

\* Mutant of PickJob: a refused cron expression ends the tick.
PickJobOrStop(w) ==
  /\ tick[w].pc = "next"
  /\ \/ tick[w].todo = {} /\ Leave(w)
     \/ \E j \in tick[w].todo :
          \/ j \in BadCron /\ Leave(w)
          \/ j \notin BadCron /\ tick' = [tick EXCEPT ![w].todo = @ \ {j},
                                            ![w].cur = j, ![w].pc = "advance"]
  /\ UNCHANGED <<clock, table, backlog, runs, sent>>

\* The head of the loop: job.id of a job that is gone raises outside the try
\* statement, unless it is still cached; then croniter computes the next
\* occurrence, or refuses the expression and the loop goes on.
PickJob(w) ==
  /\ tick[w].pc = "next"
  /\ \/ tick[w].todo = {} /\ Leave(w)
     \/ \E j \in tick[w].todo :
          \/ ~tick[w].cached /\ (~Live(j) \/ "db" \in Faults) /\ Leave(w)
          \/ /\ tick[w].cached \/ Live(j)
             /\ tick' = IF j \in BadCron
                        THEN [tick EXCEPT ![w].todo = @ \ {j}, ![w].cached = FALSE]
                        ELSE [tick EXCEPT ![w].todo = @ \ {j},
                                          ![w].cur = j, ![w].pc = "advance"]
  /\ UNCHANGED <<clock, table, backlog, runs, sent>>

\* The tick goes on at pc with its current job, which is to be loaded again.
Continue(w, pc) == tick' = [tick EXCEPT ![w].pc = pc, ![w].cached = FALSE]

\* Mutant of Scheduled: the next occurrence after the one that was due.
ScheduledAfterDue(j, now) ==
  [table EXCEPT ![j].last = now,
                ![j].next = IF @ \in Times THEN Cron[j][@] ELSE Cron[j][now]]

\* The row of j once it was triggered at second now.
Scheduled(j, now) == [table EXCEPT ![j].last = now, ![j].next = Cron[j][now]]

\* last_run_at and next_run_at are committed before anything is created,
\* whatever another tick wrote meanwhile; an update of no row raises.
AdvanceJob(w) ==
  LET j == tick[w].cur IN
  /\ tick[w].pc = "advance"
  /\ \/ Live(j) /\ table' = Scheduled(j, tick[w].now) /\ Continue(w, "reload")
     \/ ~Live(j) /\ UNCHANGED table /\ Leave(w)
     \/ "db" \in Faults /\ UNCHANGED table /\ FailOne(w)
     \/ "ambiguous" \in Faults /\ Live(j) /\ table' = Scheduled(j, tick[w].now) /\ FailOne(w)
  /\ UNCHANGED <<clock, backlog, runs, sent>>

\* The job is read again, for the task id, its URL, prompt and owner.
ReloadJob(w) ==
  /\ tick[w].pc = "reload"
  /\ \/ Live(tick[w].cur) /\ Continue(w, "record")
     \/ ~Live(tick[w].cur) /\ Leave(w)
     \/ "db" \in Faults /\ FailOne(w)
  /\ UNCHANGED <<clock, table, backlog, runs, sent>>

\* Mutant of RecordRun: a row that exists already will do.
RecordRunOnce(w) ==
  /\ tick[w].pc = "record"
  /\ runs' = runs \cup {RunOf(w)}
  /\ Continue(w, "send")
  /\ UNCHANGED <<clock, table, backlog, sent>>

\* Mutant of RecordRun: the id is made of the time at which it is needed.
RecordRunByClock(w) ==
  /\ tick[w].pc = "record"
  /\ runs' = runs \cup {<<tick[w].cur, clock>>}
  /\ tick' = [tick EXCEPT ![w].pc = "send", ![w].cached = FALSE, ![w].now = clock]
  /\ UNCHANGED <<clock, table, backlog, sent>>

\* create_scraping_task: task_id is unique, a second row with it raises.
RecordRun(w) ==
  /\ tick[w].pc = "record"
  /\ \/ RunOf(w) \notin runs /\ runs' = runs \cup {RunOf(w)} /\ Continue(w, "send")
     \/ RunOf(w) \in runs /\ UNCHANGED runs /\ Leave(w)
     \/ "db" \in Faults /\ UNCHANGED runs /\ FailOne(w)
     \/ /\ "ambiguous" \in Faults
        /\ RunOf(w) \notin runs
        /\ runs' = runs \cup {RunOf(w)}
        /\ FailOne(w)
  /\ UNCHANGED <<clock, table, backlog, sent>>

Publish(w) == sent' = [sent EXCEPT ![RunOf(w)] = @ + 1]

\* The job is read once more for the arguments of the message.
SendRun(w) ==
  /\ tick[w].pc = "send"
  /\ \/ Live(tick[w].cur) /\ Publish(w) /\ NextOne(w)
     \/ ~Live(tick[w].cur) /\ UNCHANGED sent /\ Leave(w)
     \/ "db" \in Faults /\ UNCHANGED sent /\ FailOne(w)
     \/ "broker" \in Faults /\ Live(tick[w].cur) /\ UNCHANGED sent /\ NextOne(w)
     \/ "ambiguous" \in Faults /\ Live(tick[w].cur) /\ Publish(w) /\ NextOne(w)
  /\ UNCHANGED <<clock, table, backlog, runs>>

\* The process dies, and the tick with it: its message was acknowledged.
Crash(w) ==
  /\ "crash" \in Faults
  /\ tick[w].pc # "idle"
  /\ Leave(w)
  /\ UNCHANGED <<clock, table, backlog, runs, sent>>

-----------------------------------------------------------------------------
Running(w) ==
  \/ QueryDueJobs(w) \/ PickJob(w) \/ AdvanceJob(w)
  \/ ReloadJob(w) \/ RecordRun(w) \/ SendRun(w)

Next ==
  \/ \E j \in Jobs : CreateJob(j) \/ DeleteJob(j)
  \/ Beat \/ Advance
  \/ \E w \in Ticks : StartTick(w) \/ Running(w) \/ Crash(w)

Spec == Init /\ [][Next]_vars

\* Time passes, beat sends ticks, the workers take them and go on with them.
Fairness ==
  /\ WF_vars(Beat) /\ WF_vars(Advance)
  /\ \A w \in Ticks : WF_vars(StartTick(w)) /\ WF_vars(Running(w))

FairSpec == Spec /\ Fairness

-----------------------------------------------------------------------------
(***************************************************************************)
(* Properties                                                              *)
(***************************************************************************)
RowType == [state : {"none", "live", "deleted"},
            last : Times \cup {Null}, next : Nat]

TickType == [pc : {"idle", "query", "next", "advance", "reload", "record", "send"},
             now : Times \cup {Null}, todo : SUBSET Jobs, cur : Jobs \cup {NoJob},
             cached : BOOLEAN]

\* The shape of the state; a tick that holds a job has read the clock, and
\* a job that ever ran is due again only later.
TypeOK ==
  /\ clock \in Times
  /\ table \in [Jobs -> RowType]
  /\ backlog \in Nat
  /\ tick \in [Ticks -> TickType]
  /\ \A w \in Ticks :
       /\ tick[w].pc # "idle" => tick[w].now \in 1 .. clock
       /\ tick[w].pc \in {"advance", "reload", "record", "send"} => tick[w].cur \in Jobs
  /\ \A j \in Jobs : table[j].last # Null => table[j].next > table[j].last
  /\ runs \subseteq Jobs \X Times
  /\ sent \in [Jobs \X Times -> Nat]

\* However many ticks overlap, crash or fail, a scheduled task is sent to
\* the workers at most once, and only when it has its row: the unique task id
\* lets one of the ticks of a second win, before any message is sent.
SentOnce ==
  \A id \in Jobs \X Times : sent[id] <= 1 /\ (sent[id] > 0 => id \in runs)

\* While one tick runs at a time, a job is triggered at most once for each
\* occurrence of its cron expression, even after crashes and database errors:
\* the next occurrence lies between any two of its runs.
RunsAreSpaced ==
  \A j \in Jobs, r, s \in Times :
    <<j, r>> \in runs /\ <<j, s>> \in runs /\ r < s => Cron[j][r] <= s

\* Without faults no trigger is lost, though ticks overlap and jobs are
\* deleted in the middle of them: the run that last_run_at names was sent, or
\* some tick is about to send it.
TriggeredIsSent ==
  \A j \in Jobs :
    Live(j) /\ table[j].last # Null =>
      \/ sent[<<j, table[j].last>>] > 0
      \/ \E w \in Ticks : /\ RunOf(w) = <<j, table[j].last>>
                          /\ tick[w].pc \in {"reload", "record", "send"}

\* A job with a valid expression does not stay due for ever, whatever invalid
\* jobs are listed beside it and whatever jobs vanish while a tick runs.
DueJobsRun == \A j \in Jobs \ BadCron : []<>~Due(j, clock)
=============================================================================
