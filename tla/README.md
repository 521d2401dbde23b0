# TLA+ specifications of the Intelligent Web Data Aggregator

The program (`src/`) takes a URL and a prompt, fetches the page with a headless browser, extracts data
from it with a language model or with cached patterns, and lets the owner of the task poll for the
result. It also runs such tasks on a schedule. Its processes share a PostgreSQL database and Redis
queues; nothing else coordinates them. These specifications are about that coordination: which
interleavings of transactions, messages, failures and crashes can happen, and what still holds in all of
them.

## Inventory

| Component | State | Operations | What makes it correct |
|---|---|---|---|
| Submission and polling (`services/api`) | none of its own: rows of `scraping_tasks`, messages | `process_request`, `get_task_status`, `get_task_result` | who is answered 202 can poll the task; polls go forward; a result, once shown, stays |
| Task table (`shared/database/utils.py`) | `scraping_tasks` | create, status, sources, result | SUCCESS has data, the owner is kept |
| AI worker (`services/ai_worker/tasks.py`) | a session per handler | `process_request_full`, `process_content` | each path ends in a final status or hands the task over; refused prompts go no further |
| Headless worker (`services/headless_worker`) | a browser per handler | `fetch_page` | the same |
| Celery (`shared/celery_app.py`) | queues in Redis | send, deliver, retry a publish, limits | nothing of its own: early acknowledgement, possible duplicates |
| Scheduler (`services/scheduler`, job endpoints) | `scheduled_jobs` | create, delete, list, tick | no run twice, no trigger lost, no job starves |
| Parser cache (`workflows.py`, `utils.py`) | `parsers_cache`, `domains` | look up, use, invalidate, create, the caching thread | what is active can be found, what is invalid stays so, a lookup overlooks nothing that matches |
| LLM client (`llm_client.py`) | `_breaker_state`, one dictionary for each model and process, shared by threads without a lock | `chat` with retries, fallback, breaker | the breaker opens by failures that happened and not for ever; every chat ends |
| Parser generation (`parser_factory.py`, `*_generation.py`, the loops in `workflows.py`) | the locals of nested loops around the model | generate, validate, refine, fall back, compare | what is kept shows the values it was made from; no field is left out; the loops end |
| Intent extraction, sanitization | none | pure functions with a model call | fallbacks are total |
| Authentication | `users` | register, log in, resolve a token | one account per name |
| Frontend (`app.js`) | token, current task, poll timer, two result panels | log in and out, submit, poll, view, toggle | no interval is forgotten; what is shown is true; the outcome is finally shown |

How they interact: the API stores a row and sends `process_request_full` to `ai_queue`; the AI worker
marks the row, analyses the prompt and sends `fetch_page` to `fetching_queue`; the headless worker fetches
and sends `process_content` to `ai_queue`; the AI worker extracts and stores the result. Every handler has
an `except` clause that writes FAILED. Beat sends `check_due_jobs` to `ai_queue` every ten seconds; the
tick stores rows and sends `process_request_full` like the API.

What is hard about it:

- *No transaction spans the row and the message*, so that each order of the two can fail half way
  (`task_service.py:67,78`, `scheduler/tasks.py:48`).
- *Messages are acknowledged when a handler starts* (no `acks_late`), so that a crash loses the task;
  and they can be queued twice (publish retry, visibility timeout), so that two handlers overlap.
- *A failed statement poisons a SQLAlchemy session* until `rollback`, which no worker calls: the `except`
  clause that should write FAILED then raises as well.
- *Status writes overwrite*, whatever was there; only `normalize_status` guards against a late FAILED.
- *Ticks overlap*, since they wait behind slow extraction tasks, and work on objects that expire at each commit.
- *Confidences of parsers are read, changed and written without a lock*, by handlers that
  hold lists of parsers which others invalidate meanwhile.
- *The circuit breaker is shared by threads without a lock*: increments get lost, and a thread that records a failure puts
  back a dictionary which another thread's success has dropped (`llm_client.py:270-273`).
- *Whatever the model answers, three nested loops around it must end*, and keep only parsers that work, although a
  parser is validated in one way, compared in another and run in a third (`workflows.py:300`, `parser_factory.py:129`).
- *Answers to polls arrive out of order* in the page, after its session, its current task or its interval changed.
- *A thread stores parsers through the session of the handler that started it*, while that handler persists its
  result and after it closed the session (`workflows.py:229`).

The full list, with lines, is under `hazards` in `PROJECT.json`.

## Modules

| Module | Models |
|---|---|
| `TaskPresenter` | `task_presenter.py` and the last lines of `get_task_result`: the pure translation of a row into what a client is told |
| `TaskPipeline` | API submission, both AI handlers, the headless handler, the task table, queues, crashes, duplicates |
| `TaskLifecycle` | the abstract promise: a task moves forward, ends once, has a result exactly on SUCCESS |
| `TaskPipelineProofs` | TLAPS proofs about `TaskPipeline`, under every fault |
| `TaskCleanProofs` | TLAPS proofs about `TaskPipeline` without duplicates, with the refinement of `TaskLifecycle` |
| `Scheduler` | job endpoints, beat, overlapping ticks |
| `SchedulerProofs` | TLAPS proofs about `Scheduler` |
| `ParserCache` | the extraction phase of `process_content`: lookup, use and invalidation of cached parsers, the extraction with a model, the thread that stores new parsers |
| `ParserCacheProofs` | TLAPS proofs about `ParserCache`, under every fault |
| `ParserMissProofs` | TLAPS proofs about what a lookup of `ParserCache` that finds nothing leaves behind |
| `LlmClient` | `LLMClient.chat` and the circuit breaker, with the threads of a worker process |
| `LlmClientProofs` | TLAPS proofs about `LlmClient` |
| `ParserGeneration` | how one request's parsers are generated, validated, refined and compared |
| `ParserDraft` | the abstract promise of the generation, which `ParserCache` relies on |
| `ParserGenerationProofs` | TLAPS proofs about `ParserGeneration` |
| `Frontend` | one page of `app.js` over the abstract service `TaskLifecycle` |
| `FrontendProofs` | TLAPS proofs about `Frontend` |
| `MCTaskPipeline`, `MCScheduler`, `MCParserCache`, `MCLlmClient`, `MCParserGeneration`, `MCFrontend` | values for the constants, for TLC |

### TaskPipeline

| Variable | In the code |
|---|---|
| `row[t]` | the row of `scraping_tasks`: status, `owner_id`, and whether `extracted_data`, `started_at`, `completed_at`, `error_message` are set |
| `submit[t]` | the request of the API or the scheduler that creates `t`: before the row, before the message, accepted; `recorded` says whether it saw its row committed |
| `queue[k][t]` | messages of `process_request_full` ("request"), `fetch_page` ("fetch"), `process_content` ("content") |
| `job[w]` | the handler a worker process runs: its next step, its task, whether its session is poisoned |
| `copies`, `lost` | messages duplicated so far (a bound), and history: an event after which nobody works on the task |

One action is one transaction, one message or one outside call, so that other processes can act between
any two of them; the steps of a handler are named after what they do (`LookUp`, `MarkInProgress`,
`AnalyzeIntent`, `DelegateFetch`, `Browse`, `DelegateContent`, `SaveSources`, `Extract`, `SaveResult`,
`MarkNoData`, `MarkFailed`, `MarkFetchFailed`). `Transaction` gives every write its three outcomes: it
commits; it raises and has no effect; it raises although it took effect (the connection was lost at the
commit). A write that raises may leave the session poisoned, and a poisoned session raises at each
further statement. "db" in the step `Extract` also stands for what the parser-caching thread does to the
handler's session, and "db" in `SaveSources` for the collision of two copies of a message in
`task_source_data`. The constant `Faults` says which of these happen in a run.

A task in `Unsafe` has a prompt `sanitize_user_input` refuses. The API never submits one, as it runs the same
function first (what that function returns passes it again: every blank in its patterns is `\s`); the
scheduler stores prompts unread.

`TaskLifecycle` is implemented with `phase[t]` the normalized status and `result[t]` whether data is stored.

### Scheduler

`table` is `scheduled_jobs` (`last_run_at`, `next_run_at`, 0 for NULL), `backlog` counts the
ticks waiting in `ai_queue`, `tick[w]` is the tick a worker runs: the second at which it read the clock,
the jobs of its query still to do, the current job, and whether the loaded objects are still cached.
`runs` are the rows `scheduled-<job>-<second>` and `sent` their messages. `Cron[j][s]` is the next
occurrence after `s`, any function that is later and monotone. After a commit every object is
expired: the job is read again (`ReloadJob`, `SendRun`, the head of the loop in `PickJob`), which raises
when it was deleted. An exception at `job.id` in the head of the loop, or in the logging line of the
`except` clause after a failed flush, ends the tick for all jobs (`Leave`); otherwise the loop goes on
(`NextOne`).

### ParserCache

The inside of `TaskPipeline`'s step `Extract`: a handler starts with the page it was sent and the fields it was asked for,
and leaves to persist its result, to report that there is no data, or to fail.

| Variable | In the code |
|---|---|
| `page[u]` | the version of the page that is online; a handler may hold an older one |
| `hosts` | the names in `domains` |
| `parser[i]` | the row of `parsers_cache`: `url_pattern`, `keyword_set`, `source_type`, `is_active`, `confidence_score`, and the versions of the page on which it finds something |
| `job[w]` | the handler in a worker: its step, its request, the parsers it chose (`chosen`) or still has to try (`cands`), the confidences it loaded (`seen`), whether its session is poisoned; `known` is history: the parsers there were when it started |
| `draft[w]` | the parsers that its thread, or for keywords the handler itself, still has to store |

`process_content` runs `check_cached_parser` for the source types `Passes`, one after the other. Each run looks a parser up for
each field (`FindFieldParser`), applies them all if all fields have one (`ApplyFieldParser`, which counts a use whether or
not anything matched), and otherwise, or if one of them did not match, looks up up to three parsers for the whole request
(`FindParsers`) and tries them in turn (`HitParser`, `DropParser`). A failing use or invalidation in the latter is swallowed, but not
the reload of the next parser, which the commit or the rollback before it has expired; the failures of the others end the handler.
A lookup (`Found`) is a query that returns the `QueryLimit` (20) most confident active parsers of the page and source type, whatever fields they serve
(`Queried`), and only then a choice of those that serve the fields, cut at `Limit` (three, or one for a field; `Ranked`). As field parsers are never
invalidated, the first cut is within reach of a page that is asked for often. `update_parser_usage` writes a confidence computed from the loaded one (`Used`), and the commit expires what
was loaded (`Reloaded`). With no hit, `ExtractWithModel` follows: for a schema the items are returned while a thread
generates parsers (`GenerateForSchema`, one for each field or one for all) and stores them (`ReadHost`, `InsertParser`), for
keywords the handler does so itself, one keyword after the other (`GenerateForKeyword`). `Raises` and `StoreFails` give a
statement its failures, with or without effect, as `Transaction` does in `TaskPipeline`; `InsertParser` fails by itself when another worker has stored the same
host since `ReadHost`.

Left out: `times_used` and `success_rate`, which nothing reads; the ties of a lookup by last use, which are broken in every
way; the order of the fields, which is any; `parser_samples`. What the text of a
page, a pattern and a model's answer do to each other is a choice: a generated parser finds something in the version it was
made from, and in any others.

### LlmClient

| Variable | In the code |
|---|---|
| `breaker[m]` | `_breaker_state[m]`: which inner dictionary the class-level dictionary holds for the model, or none |
| `cell[c]` | an inner dictionary: `fail_count`, the age of `opened_at`; `hits` is history: the failures that were written into it |
| `thread[t]` | a thread in `chat`: its statement, the role of its model, its attempt, and in `_breaker_record_failure` its dictionary `st` and the count it read |
| `streak[m]`, `disturbed[m]` | history: the failures of `m` since the last reset and the age of the first; whether updates of its breaker overlapped, or one broke off, since it was last reset undisturbed |

The threads are the one that runs the handlers and the daemon threads of `run_schema_extraction`, which are not joined.
One action is one access to shared memory (`Record` is `setdefault`, `ReadCount` and `WriteCount` are the two halves of
`+= 1`, then `TestCount`, `StampOpened`, `Store`), because the interpreter may switch threads between any two. A thread may
go on with an inner dictionary that another one's `Reset` popped; that is why dictionaries have identities. `_breaker_open` is one
step: between its reads `fail_count` and `opened_at` only grow. `Interrupt` is the soft time limit of Celery, which raises
anywhere in the handler's thread: inside the `try` statement it is counted as a failure of the provider (`Call` covers this),
and so it is between the reset and the return of an answer (`InterruptReturn`), while in the `except` clause, to which the sleep before the next attempt belongs,
it leaves the method, perhaps in the middle of an update. Time passes in ticks, and ages stop at the
cooldown.

A half-open state does not exist: after the cooldown every chat is let through, and as `opened_at` is the time of the first
failure only, the breaker then stays closed until a success drops the dictionary. `StreakIsCounted` says just that.

Left out: reading the configuration, counting tokens (which of the two models is first is a choice), the mock client, taking the text
out of a response.

### ParserGeneration

| Variable | In the code |
|---|---|
| `request` | what the generation is called with: for a schema or a keyword, the kind of content, the fields asked for, the keys of the first item, which items have which fields, which values are strings, which are found in the page |
| `pc` | the loop: choosing a strategy (`generate_parser`), CSS selectors, JSONPath, regexes, the comparison, or how it ended |
| `attempt` | the failed attempts of the surrounding loop in `workflows.py` |
| `todo` | the targets that have no parser yet: single fields, or one set of fields |
| `tries` | the answers of the model that were refused for the present target |
| `made` | the parsers of this attempt |

A parser is what becomes of each expected value when it is run on the page: extracted as it is, within a longer text, in
part, or not at all. `ValidSelector`, `ValidPath` and `ValidRegex` are the validators over that; `SimilarFor` is
`_check_values_similarity`, in which the similarity of `SequenceMatcher` is the constant `Ratio` (of each outcome, with
and without the label that `apply_regex_matches` puts before the text of a match). Two different values may be alike: `Alike`
says how much, and `KeptMissesFew` is weaker the larger it is; for values such as "Example 1" and "Example 2" it says next to nothing,
and neither does the code's comparison. A map of parsers is made field by field; one failure drops all of them, in CSS to fall back to
regexes (`FallBack`), there to give up the attempt (`NoRegex`). Raising differs: the caching thread catches everything and goes on to the next
attempt, the handler of a keyword does not (`RaiseOut`).

`Drafted` maps a state to `ParserDraft`, the abstract generation: nothing, an exception (keywords only), one parser for the request, or, for
a schema, a map with one for each of some fields, all of one type. These are the outcomes that `GenerateForSchema` and `GenerateForKeyword` of
`ParserCache` choose from; that every chat ends is `LlmClient`'s `ChatEnds`, and the fairness here.

Left out: prompts, snippets, and limits on lengths and numbers of matches; `validate_attribute_regex`, which nothing calls; `expected_count`, which no
caller passes; the characters of flags, of which only counts whether they are the "s" a component is later run with.

### Frontend

| Variable | In the code |
|---|---|
| `phase`, `result` | the service: an instance of `TaskLifecycle`, the promise that `TaskPipeline` is shown to keep |
| `token`, `currentTaskId`, `pollTimer` | the fields of `state` of these names |
| `intervals` | the intervals the browser really runs, each named after the task whose submission set it |
| `currentResult`, `panel` | `state.currentResult` and `currentResultTarget`; what the cards "latest" and "preview" show |
| `ask` | the request of the user under way; the overlay (`showLoading`) keeps it the only one |
| `polls` | the runs of `pollTaskStatus` that wait: for a status ("status"), with an answer on its way ("told"), for the result ("result") |
| `disturbed` | history, see `ResultIsShown` |

JavaScript runs a handler undisturbed up to its next `await`, so that an action is what happens between two of them:
`Tick` sends a poll, `ServeStatus` is the moment the service reads the status, and `ReceiveSuccess`, `ReceiveFailed`,
`ReceiveOngoing` and `ReceiveResult` are the continuations, in any order among the polls. `PollFails` is the `catch`
clause, `PollRefused`, `AskRefused` and `RefreshRefused` are the 401 of `api.request`, which logs out. `Reload` is the page
loaded again, with the token from the local storage.

`ResultIsShown` says what a user expects, that the outcome of the current task is finally shown and stays, up to the
disturbances the code has and no document excludes: an answer about an earlier task clears the new task's interval or
overwrites its panel; an "in progress" that was asked for before the final status arrives after it; the request for the
result fails after the interval was cleared; the toggle puts an older result into the panel. `disturbed` records them.

Left out: the lists of tasks and jobs and the job forms, which only show what was answered; the registration form, which
logs in by itself; several users of one browser, and several tabs; the keyboard under the overlay.

## Runs

| Run | Instance | Shows |
|---|---|---|
| `TaskOverlap` | 2 tasks (one refused), 2 AI workers, 1 headless worker, all faults, 2 duplicates | the safety properties, when handlers of one task overlap |
| `TaskClean` | 3 tasks (one refused), 1 + 1 workers, all faults but duplicates and ambiguous errors | one carrier per task, clean successes, monotone progress, refinement of `TaskLifecycle` with its fairness, every submission answered for good unless lost |
| `TicksOverlap` | 2 jobs (one invalid), 2 workers, 2 seconds, backlog 2, no faults | no run twice, no trigger lost, no starvation |
| `TicksInTurn` | 2 jobs, 1 worker, 4 seconds, backlog 1, all faults | one run per occurrence |
| `CacheShared` | 1 page that changes once, requests for one of 2 fields, 2 workers and their threads, 3 parsers, the query cut at 2 and the lookup at 1, no faults | lookups and parsers stay sound when handlers and threads interleave |
| `CacheFaults` | 1 worker and its thread, 4 kinds of request, CSS and regex parsers, 2 parsers, both for a lookup, all faults | active parsers stay selectable under failures; every extraction ends |
| `Breaker` | a handler and a caching thread, one model in every role, threshold 2, 1 retry, the soft time limit | the breaker opens only by failures recorded in it, counts exactly without overlap, never stays open; every chat ends |
| `Generation` | 2 fields, 3 items, 2 of them examples, the limits of the code, 65 requests | what is kept shows its values; maps are whole; refinement of `ParserDraft` with its fairness |
| `PagePolls` | 2 tasks, 2 polls under way, all faults | the page: no forgotten interval, true panels, polling ends, the outcome is shown |
| `FailedResult`, `CachedRegex`, `ExactRegex` | small | three statements of the documentation that the code contradicts |

Bounds and why they are enough. Tasks share nothing but the workers, so that two show every interference
through a worker and three allow a queue behind a busy one. `MaxRedeliveries` bounds the duplicates of the
broker: two let three handlers of one task overlap, or two at two different stages. In `TaskOverlap` two AI workers run
both copies; one headless worker suffices, as the headless handler's only write is its last one; where each task has one carrier (`TaskClean`), one
AI worker for three tasks makes them wait for each other. In the
scheduler `EvenSeconds` makes every other second an occurrence, so that within four seconds a job has
two occurrences with a second between them, at which a run must not happen. `MaxBacklog` = 2 lets the two ticks
start together. In the cache two workers are enough for every race on a row or a host; with three parsers and cuts at two and one
each of the two limits of a lookup leaves a matching parser out, and neither does with fewer (without either of its two exceptions `MissLeavesNone` is violated); the schemas of `CacheShared` ask for one field,
so that parsers of the other one, which the examples may show too, compete with its own; requests for both fields, where each field has its own
parser, and lookups that try one parser and then the other, are in `CacheFaults`; the confidences
0 to 3 stand for 0, the threshold 70, 85, 90 and 100 in their order, so that the cap is reached after one or two uses; a worker
starts no extraction while its last thread runs, so that there is one thread for each worker. Breakers of different models share nothing, so that
one model in all three roles, which meets itself again as its own fallback, shows what a model's breaker can go through; two threads
suffice for a lost update and for a dictionary that comes back after a reset; three dictionaries are the one in use and one for each
thread (were they too few, `Record` would wait and `ChatEnds` fail); with threshold 2 the first failure, which sets `opened_at`, is another than the
one that opens. In the generation two fields let one succeed and the other fail; with two examples "one" and "half" differ from "all", and
the third item is compared without having been an example; attempts, retries and iterations have the values of the code. In the page two polls under way are enough for every
reordering of two answers, of one task or of an earlier and the current one. `CHECK_DEADLOCK FALSE` is set in the runs of the pipeline and the scheduler, because a finished set of tasks, or a bounded clock,
really stops. Symmetry is used for worker processes and parsers, in runs without temporal formulas other than an action property.

Fairness. `TaskPipeline!Fairness` says that a request that was started goes on, that an idle worker takes messages, and
that a handler goes on: uvicorn and the Celery loops run as long as their processes, and the soft and hard time limits
end a handler that blocks. The strength is weak fairness for each worker; no message is favoured over another, and no
fault or redelivery is fair. `Scheduler!Fairness` adds beat and the clock. `ParserCache!Fairness` lets each handler and each thread go on, since calls to the model and the database time out; pages need not change. `LlmClient!Fairness` lets each chat
go on, because `completion` is called with a timeout and the operating system runs every thread, and lets time pass. `ParserGeneration` goes on after each chat, which `ChatEnds` says ends. `Frontend!Fairness` lets the service work and intervals
fire weakly, and asks strongly that polls be served and their answers be received, since a request may always fail: not every one of them
does. Submitting, creating and deleting jobs, clicks,
crashes and faults are never required.

### What the violations show

- `FailedResult`: `normalize_status` returns the fresh string that `upper()` made, so that `is TaskStatus.FAILED` in
  `get_task_result` is false for a stored FAILED, and the client is answered 200 with an empty result instead of 400.
- `CachedRegex`: `process_content` looks parsers up as SEMANTIC, CSS and HTML, while the generators make, and the workflows
  store, CSS, JSONPATH and REGEX: a cached regex is never found, and each request generates another one.
- `ExactRegex`: a regex for a keyword is compared with the examples by the text of its matches, which begins with "value: " (or the name of its group), and
  the similarity of a value of n characters to that is 2n / (2n + 7): below the required 0.9 for fewer than 32. A regex that extracts exactly the
  examples is refused in every attempt, so that short keyword values are never cached as a regex.

One more disagreement has no run of its own. src/docs_old/ARCHITECTURE.md:177 says "If broker is down, enqueuing fails fast with logged
correlation id; clients receive an error instead of hanging." A message that the broker never got is logged only (`task_service.py:78`):
the client is answered 202, and its task stays PENDING for ever. `TaskPipeline` has this step, and `AccountedFor` and
`SubmitterIsAnswered` have it among the events that set `lost`.

## Proofs

Every safety invariant, every action property and the safety part of every refinement that a run checks is also a theorem. All theorems hold for every
set of tasks, users, workers, jobs, pages, parsers, threads, fields and items, and for every set of faults unless a theorem names those it excludes; the assumptions are
`PipelineAssumption`, `SchedulerAssumption`, `CacheAssumption`, `FrontendAssumption`, `LimitedAssumption`, `ModelAssumption`, `NumberAssumption`, `CellAssumption` and `GenerationAssumption`, which only say that sentinels are not members of the sets, that the two
worker pools are disjoint, and that a cron function is later than its argument and monotone, that there is a page,
that the parsers, fields and items are finitely many, that a new parser's confidence is between a positive threshold and the maximum, that limits, thresholds and
cooldowns are numbers (positive where the code's defaults and loops need it), and that a request is one the callers can make.

`TaskPipelineProofs`. None of the safety properties is inductive alone. `AccountedFor` needs that a handler's
task was accepted before (`WorkFollowsSubmission`), since otherwise a step of the submission could find a handler at work; `OwnerlessOnlyIfUnrecorded`
needs that no row exists before its submission recorded it; `UnsafeIsBlocked` needs `BlockedIsUnsafe`, that the steps
that block belong to refused tasks; `ResultIsKept` needs `AbsentHasNoData`. `IInv` is their conjunction with `TypeOK`.
The proof goes through lemmas about the building blocks: what `Moved`, `Transaction` and `HandOver` do to the
invariant for any target step, so that each action of a handler is an instance of one of them, with its targets named.
`PipelineInvariant` is the inductive invariant; `TypeCorrect`, `NothingDroppedSilently`, `OwnerIsRecorded`,
`RefusedGoesNoFurther`, `SuccessIsBacked`, `WorkComesAfter` follow from it, and `ResultSurvives` is the action property under it.

`TaskCleanProofs` proves what only holds while nobody works twice on a task. Its theorems begin with `NoDuplicates`: "ambiguous" and "redeliver"
are not among the faults, the two ways in which a message gets a copy or a handler goes on with a task it gave up. Every other
fault remains, crashes too: this is the fault set of the run `TaskClean`, or any part of it. `CleanInv` adds to `IInv`, for each task, that there is
one place for it (`OnePlace`) and that its row fits there (`RowFits`). `OneCarrier` is about places only, but it is inductive
only because `IInv` says what a submission has already done. The row is needed for the rest: the handler writes SUCCESS over whatever is there, and
`SuccessIsClean` holds only because a handler in that step finds an IN_PROGRESS row (or none), which is so because the row is followed
through each queue (`Waits`) and each step (`Fits`). Two lemmas hold for every step: at most one row changes (`OneRow`), and it moves as `Moves` allows (`CleanStep`). From `Moves` follow
`ProgressOnlyGrows` and `PipelineIsLifecycle`, that each step is a step of `TaskLifecycle` on one task or none. With the faults of `TaskOverlap` all four are
false, and either of the two excluded faults alone makes `OneCarrier` and `SuccessIsClean` false, as TLC shows; what `TaskPipelineProofs` proves is what is left then.

`SchedulerProofs`. `SentOnce` needs `OneSender`: a tick about to send a run has seen its row created, no message was sent
for it, and no other tick is about to send the same one. The insert establishes it, because it fails for an id that
exists; every other step is *quiet* (`QuietStep`): it leads no tick to sending and sends nothing. `NoRunIsSentTwice` is
the result, with any number of overlapping, failing and crashing ticks; TLC checks it without faults only, since the
proof covers the rest. `RunsKeepApart` is proved for one worker (`InTurn`): `Spaced` adds that what a tick holds is due until it triggers it,
and that a job's last run is the one in its row; the row is written before the run exists, so that a crash in between only loses a run.
`NoTriggerIsLost` is proved for `Faults = {}`: a tick that finds the row of its run there already gives up, and `Backed` says that then another tick
sends it, or did; `Unborn`, that nothing is known of a job before it is created.

`ParserCacheProofs`. `ActiveIsSelectable` is not inductive, because a use writes a confidence that was computed from the one
its handler loaded. `GoodJob` is what it needs: each parser that a handler has chosen and not yet applied, or still has to
try, is stored, and its loaded confidence is above the threshold unless it was invalidated meanwhile. Other workers'
steps keep this because no step makes a parser active again (`Later`), which is also `InvalidIsFinal`. The lemmas go
through what a lookup returns (`FoundSelectable`), what the two writes do to the table (`UsedGood`, `InvalidatedGood`),
and what a failing statement leaves behind (`RaisesGood`); each action then is one of a few kinds of step.

`ParserMissProofs` proves `MissLeavesNone` for `NoDbFaults`: no statement fails but those of a session that is poisoned already. With failing statements it is
false, as TLC shows: the code only logs a failed invalidation and tries the next parser. `MissLeavesNone` speaks of the moment the model is asked, long after
the lookups: `MissJob` carries along that the source types looked up so far have no active parser left among those that were known (`Settled`), and
that the candidates of the present type contain the active ones (`Listed`), both for the source types for which neither limit leaves any out (`Few`: at most `QueryLimit` parsers of the page and type, at most
`Limit` of them for the request). Other handlers and their threads run
in between; they only add parsers and deactivate them (`Grows`), which makes `Few` harder and `Settled` easier to keep.

`LlmClientProofs`. `OpenIsEarned` compares the count in a dictionary with the failures written into it, but a thread writes a count it read before:
`Counted` adds that what it read does not exceed them either. A dictionary is only known to be empty when it is new
(`UnusedIsFresh`), and a revived one must belong to the same model (`Owned`). For `StreakIsCounted`, `Tracked` follows a model's dictionary
while the updates neither overlap nor break off: either no thread updates it and it agrees with `streak` (`Settled`), or exactly
one does and each statement has its own relation (`Underway`). `IInv` is the conjunction with `TypeOK`; the lemmas go through
the statements of the breaker one by one and through what the other models keep.

`ParserGenerationProofs`. A kept parser was accepted in some earlier step, under guards that are gone: `Validated` keeps that each parser of the attempt passed its
validator, and `Covers` that each target is still to do or has a parser, made in one and the same way. A fallback changes
the way and with it the targets, and the invariant holds only because it drops all that was made. With `Complete` (nothing to do, something made) the
end of an attempt is a step of `ParserDraft` (`GenerationIsDraft`), since a map then has one type and a set for each target. `FewValuesMissed` is about an average over a
finite set of any size. The sum of `MapThenSumSet` is defined by recursion over subsets; that such a sum exists (`SumExists`) and what bounds it (`SumBound`) is shown
by induction, put as the least counterexample (`LeastNumber`, from the library's `WFMin`), since its induction theorems take an operator that no prover here
can instantiate. Then a missed value scores at most `Alike`, and an average of nine tenths leaves room for few of them.

`FrontendProofs`. `ShownIsTrue` is about the panels, but what is shown next is what a poll, a request or `currentResult`
remembers. `KnownIsTrue` says that all of these agree with the service, and stay so because the service only moves forward
(`ServiceMoves`): a status that was told was reached, a result that is asked for is there, an interval polls a task that was
accepted. `IInv` is cut into five parts, one for each group of variables, so that an action is proved part by part and what
it leaves alone follows from `Untouched`.

Only model-checked: everything temporal (`SubmitterIsAnswered`, `DueJobsRun`, `ExtractionEnds`, `ChatEnds`, `OpenIsLeft`, `PollingEnds`, `ResultIsShown`,
the fairness of the refinements `ImplementsFairLifecycle` and `ImplementsDraft`), as liveness and ENABLED are out of the prover's reach.

## Not modelled, and plan

Left out for good: configuration, logging and correlation ids (no state a property tells apart), migrations and
containers, what Playwright does inside a page, the wording of prompts, the regular expressions of the sanitizer; the lists and forms of
the page. Registration has one race, two requests that check before either inserts, and the unique column decides it: no state goes wrong, so that
there is nothing to check.

Planned, in this order:

1. The thread and the handler on one session, statement by statement, composed with `SaveResult` and `close`
   of `TaskPipeline`; so far `ParserCache` has the poisoned session and `TaskPipeline` its effect on a task.
2. A run that shows the composite strategy keeping a field's parser that no longer matches, which the documentation's
   "self-healing" excludes.
3. The coercion of the model's answer in the intent extraction (`_coerce_schema`) against a reference definition.
