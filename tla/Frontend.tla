------------------------------ MODULE Frontend ------------------------------
(***************************************************************************)
(* The page of frontend/app.js in one browser: its session, the form that  *)
(* submits a task, the interval that polls the current task, and the two   *)
(* panels that show results. JavaScript runs each handler undisturbed up   *)
(* to its next await, so one action is what a handler does between two of  *)
(* them; answers travel, and may arrive in another order than they were    *)
(* asked for. The service is the abstract TaskLifecycle.                   *)
(*                                                                         *)
(* The overlay of showLoading covers the page while a request of the user  *)
(* is under way: there is one such request at a time (ask). The polls are  *)
(* not covered by it.                                                      *)
(***************************************************************************)
EXTENDS Naturals, FiniteSets

CONSTANTS
  Tasks,
  NoTask,
  MaxPolls,  \* a bound on the polls that wait for an answer
  Faults     \* which requests may go wrong, a subset of FaultKinds

FaultKinds == {"request",   \* a request is not answered, or with an error
               "session"}   \* the service no longer accepts the token, or got
                            \* none with a refresh of the lists

ASSUME FrontendAssumption ==
  NoTask \notin Tasks /\ MaxPolls \in Nat /\ Faults \subseteq FaultKinds

VARIABLES
  phase, result,   \* the service, see TaskLifecycle
  token,           \* state.token: whether the page has one
  currentTaskId,
  pollTimer,       \* state.pollTimer: an interval, named after the task
                   \* whose submission set it, or NoTask
  intervals,       \* the intervals that the browser runs
  currentResult,   \* state.currentResult and state.currentResultTarget
  panel,           \* what the panels "latest" and "preview" show
  ask,             \* the request of the user that is under way
  polls,           \* the runs of pollTaskStatus that wait for an answer
  disturbed        \* history: something put the outcome of the current task
                   \* out of sight and nothing will bring it back

service == <<phase, result>>
timer == <<pollTimer, intervals>>
shown == <<panel, currentResult>>
vars == <<service, token, currentTaskId, timer, shown, ask, polls, disturbed>>

Service == INSTANCE TaskLifecycle

Final == {"SUCCESS", "FAILED"}

Nothing == [task |-> NoTask, status |-> "hidden"]
Hidden == [p \in {"latest", "preview"} |-> Nothing]
NoResult == [task |-> NoTask, target |-> "latest"]
NoAsk == [op |-> "none", task |-> NoTask, done |-> FALSE]

Init ==
  /\ Service!Init
  /\ token = FALSE
  /\ currentTaskId = NoTask
  /\ pollTimer = NoTask
  /\ intervals = {}
  /\ currentResult = NoResult
  /\ panel = Hidden
  /\ ask = NoAsk
  /\ polls = {}
  /\ disturbed = FALSE

-----------------------------------------------------------------------------
(***************************************************************************)
(* What the handlers share.                                                *)
(***************************************************************************)
ClearTimer == intervals' = intervals \ {pollTimer} /\ pollTimer' = NoTask

Logout == token' = FALSE /\ ClearTimer

Show(p, t, status) == panel' = [panel EXCEPT ![p] = [task |-> t, status |-> status]]

\* displayResult
Display(t, p) ==
  /\ Show(p, t, "SUCCESS")
  /\ currentResult' = [task |-> t, target |-> p]

\* The user can click: there is no overlay over the page.
Ready == ask = NoAsk

Ask(op, t) == ask' = [op |-> op, task |-> t, done |-> FALSE]

-----------------------------------------------------------------------------
(***************************************************************************)
(* The user, and the answers to the user's requests. Lists of tasks and of *)
(* jobs are left out: a list may show any task that succeeded.             *)
(***************************************************************************)
\* The form to log in; the one to register logs in by itself afterwards.
SubmitLogin ==
  /\ Ready /\ ~token
  /\ Ask("login", NoTask)
  /\ UNCHANGED <<service, token, currentTaskId, timer, shown, polls, disturbed>>

AnswerLogin ==
  /\ ask.op = "login"
  /\ token' = TRUE
  /\ ask' = NoAsk
  /\ UNCHANGED <<service, currentTaskId, timer, shown, polls, disturbed>>

ClickLogout ==
  /\ Ready /\ token
  /\ Logout
  /\ UNCHANGED <<service, currentTaskId, shown, ask, polls, disturbed>>

SubmitScrape(t) ==
  /\ Ready /\ token
  /\ phase[t] = "unknown"
  /\ Ask("submit", t)
  /\ UNCHANGED <<service, token, currentTaskId, timer, shown, polls, disturbed>>

\* The service takes the submission; its answer is under way.
ServeSubmit ==
  /\ ask.op = "submit" /\ ~ask.done
  /\ Service!Record(ask.task) /\ phase'[ask.task] = "PENDING"
  /\ ask' = [ask EXCEPT !.done = TRUE]
  /\ UNCHANGED <<token, currentTaskId, timer, shown, polls, disturbed>>

\* Mutant of AnswerSubmit: the interval of the task before goes on.
AnswerSubmitOnly ==
  /\ ask.op = "submit" /\ ask.done
  /\ currentTaskId' = ask.task
  /\ intervals' = intervals \cup {ask.task}
  /\ pollTimer' = ask.task
  /\ Show("latest", ask.task, "PENDING")
  /\ ask' = NoAsk
  /\ UNCHANGED <<service, token, currentResult, polls, disturbed>>

\* The page turns to the new task, whatever happened to its session meanwhile.
AnswerSubmit ==
  /\ ask.op = "submit" /\ ask.done
  /\ currentTaskId' = ask.task
  /\ intervals' = (intervals \ {pollTimer}) \cup {ask.task}
  /\ pollTimer' = ask.task
  /\ Show("latest", ask.task, "PENDING")
  /\ ask' = NoAsk
  /\ UNCHANGED <<service, token, currentResult, polls, disturbed>>

\* viewTaskResult, viewTaskRaw: the button is there for a task that succeeded.
ClickView(t) ==
  /\ Ready /\ token
  /\ phase[t] = "SUCCESS"
  /\ Ask("view", t)
  /\ UNCHANGED <<service, token, currentTaskId, timer, shown, polls, disturbed>>

AnswerView ==
  /\ ask.op = "view"
  /\ Display(ask.task, "preview")
  /\ ask' = NoAsk
  /\ UNCHANGED <<service, token, currentTaskId, timer, polls, disturbed>>

\* Any request of the user may fail: the catch clause tells it.
AskFails ==
  /\ ask.op # "none"
  /\ "request" \in Faults
  /\ ask' = NoAsk
  /\ UNCHANGED <<service, token, currentTaskId, timer, shown, polls, disturbed>>

\* api.request logs the user out when the service answers 401.
AskRefused ==
  /\ ask.op \in {"submit", "view"} /\ ~ask.done
  /\ "session" \in Faults
  /\ Logout
  /\ ask' = NoAsk
  /\ UNCHANGED <<service, currentTaskId, shown, polls, disturbed>>

\* loadUserActivity refreshes the lists in the background, after a login, a
\* final status or a click; what it may do to the rest is to be refused.
RefreshRefused ==
  /\ "session" \in Faults
  /\ Logout
  /\ UNCHANGED <<service, currentTaskId, shown, ask, polls, disturbed>>

\* Mutant of ToggleView: a button that is always there, and no check.
ToggleAnyView ==
  /\ Ready /\ token
  /\ Display(currentResult.task, currentResult.target)
  /\ disturbed' = (disturbed \/ (panel'["latest"] # panel["latest"] /\ pollTimer = NoTask))
  /\ UNCHANGED <<service, token, currentTaskId, timer, ask, polls>>

\* toggleResultView: the button of either panel toggles the result that was
\* displayed last, in the panel it was displayed in.
ToggleView ==
  /\ Ready /\ token
  /\ \E p \in {"latest", "preview"} : panel[p].status = "SUCCESS"
  /\ currentResult # NoResult
  /\ Display(currentResult.task, currentResult.target)
  /\ disturbed' = (disturbed \/ (panel'["latest"] # panel["latest"] /\ pollTimer = NoTask))
  /\ UNCHANGED <<service, token, currentTaskId, timer, ask, polls>>

\* The user loads the page again; the token is in the local storage.
Reload ==
  /\ currentTaskId' = NoTask
  /\ pollTimer' = NoTask
  /\ intervals' = {}
  /\ currentResult' = NoResult
  /\ panel' = Hidden
  /\ ask' = NoAsk
  /\ polls' = {}
  /\ UNCHANGED <<service, token, disturbed>>

-----------------------------------------------------------------------------
(***************************************************************************)
(* pollTaskStatus                                                          *)
(***************************************************************************)
GoOn(p, q) == polls' = (polls \ {p}) \cup {q}
Forget(p) == polls' = polls \ {p}

\* An interval fires: it asks for the status of the task that is current now.
Tick ==
  /\ intervals # {}
  /\ Cardinality(polls) < MaxPolls
  /\ polls' = polls \cup {[pc |-> "status", task |-> currentTaskId, auth |-> token,
                           status |-> "unknown"]}
  /\ UNCHANGED <<service, token, currentTaskId, timer, shown, ask, disturbed>>

ServeStatus(p) ==
  /\ p.pc = "status" /\ p.auth
  /\ GoOn(p, [p EXCEPT !.pc = "told", !.status = phase[p.task]])
  /\ UNCHANGED <<service, token, currentTaskId, timer, shown, ask, disturbed>>

\* Mutant of ReceiveSuccess: the result of the current task is asked for.
ReceiveSuccessOfCurrent(p) ==
  /\ p.pc = "told" /\ p.status = "SUCCESS"
  /\ ClearTimer
  /\ GoOn(p, [p EXCEPT !.pc = "result", !.task = currentTaskId, !.auth = token])
  /\ UNCHANGED <<service, token, currentTaskId, shown, ask, disturbed>>

\* The interval that is cleared is that of the current task, whichever task
\* the answer is about; then the result is asked for, with the token of now.
ReceiveSuccess(p) ==
  /\ p.pc = "told" /\ p.status = "SUCCESS"
  /\ ClearTimer
  /\ GoOn(p, [p EXCEPT !.pc = "result", !.auth = token])
  /\ disturbed' = (disturbed \/ (p.task # currentTaskId /\ pollTimer # NoTask))
  /\ UNCHANGED <<service, token, currentTaskId, shown, ask>>

\* Mutant of ReceiveFailed: a task that failed is shown and polled on.
ReceiveFailedAndGoOn(p) ==
  /\ p.pc = "told" /\ p.status = "FAILED"
  /\ Show("latest", p.task, "FAILED")
  /\ Forget(p)
  /\ UNCHANGED <<service, token, currentTaskId, timer, currentResult, ask, disturbed>>

ReceiveFailed(p) ==
  /\ p.pc = "told" /\ p.status = "FAILED"
  /\ ClearTimer
  /\ Show("latest", p.task, "FAILED")
  /\ Forget(p)
  /\ disturbed' = (disturbed \/ p.task # currentTaskId)
  /\ UNCHANGED <<service, token, currentTaskId, currentResult, ask>>

\* An answer that has become stale is shown all the same.
ReceiveOngoing(p) ==
  /\ p.pc = "told" /\ p.status \notin Final
  /\ Show("latest", p.task, p.status)
  /\ Forget(p)
  /\ disturbed' = (disturbed \/ pollTimer = NoTask)
  /\ UNCHANGED <<service, token, currentTaskId, timer, currentResult, ask>>

ReceiveResult(p) ==
  /\ p.pc = "result" /\ p.auth
  /\ Display(p.task, "latest")
  /\ Forget(p)
  /\ disturbed' = (disturbed \/ (p.task # currentTaskId /\ pollTimer = NoTask))
  /\ UNCHANGED <<service, token, currentTaskId, timer, ask>>

\* Mutant of PollFails: the catch clause clears the interval.
PollFailsForGood(p) ==
  /\ "request" \in Faults
  /\ ClearTimer
  /\ Forget(p)
  /\ UNCHANGED <<service, token, currentTaskId, shown, ask, disturbed>>

\* The catch clause only logs: a status is asked for again by the interval,
\* a result is not.
PollFails(p) ==
  /\ "request" \in Faults
  /\ Forget(p)
  /\ disturbed' = (disturbed \/ p.pc = "result")
  /\ UNCHANGED <<service, token, currentTaskId, timer, shown, ask>>

PollRefused(p) ==
  /\ p.pc \in {"status", "result"}
  /\ ~p.auth \/ "session" \in Faults
  /\ Logout
  /\ Forget(p)
  /\ disturbed' = (disturbed \/ p.pc = "result")
  /\ UNCHANGED <<service, currentTaskId, shown, ask>>

-----------------------------------------------------------------------------
Work(t) ==
  /\ Service!Progress(t)
  /\ UNCHANGED <<token, currentTaskId, timer, shown, ask, polls, disturbed>>

Click ==
  \/ SubmitLogin
  \/ ClickLogout
  \/ \E t \in Tasks : SubmitScrape(t) \/ ClickView(t)
  \/ ToggleView
  \/ Reload

Asked == AnswerLogin \/ ServeSubmit \/ AnswerSubmit
           \/ AnswerView \/ AskFails \/ AskRefused \/ RefreshRefused

Receive(p) == ReceiveSuccess(p) \/ ReceiveFailed(p) \/ ReceiveOngoing(p) \/ ReceiveResult(p)

Next ==
  \/ Click
  \/ Asked
  \/ Tick
  \/ \E p \in polls : ServeStatus(p) \/ Receive(p) \/ PollFails(p) \/ PollRefused(p)
  \/ \E t \in Tasks : Work(t)

Spec == Init /\ [][Next]_vars

\* The service works on its tasks, the browser runs intervals, and not every
\* poll fails.
Fairness ==
  /\ \A t \in Tasks : WF_vars(Work(t))
  /\ WF_vars(Tick)
  /\ SF_vars(\E p \in polls : ServeStatus(p))
  /\ SF_vars(\E p \in polls : Receive(p))
  /\ SF_vars(\E p \in polls : ~p.auth /\ PollRefused(p))

FairSpec == Spec /\ Fairness

-----------------------------------------------------------------------------
(***************************************************************************)
(* Properties                                                              *)
(***************************************************************************)
Statuses == {"PENDING", "IN_PROGRESS", "SUCCESS", "FAILED"}

\* The shape of the page; a panel, a request and a poll are about a task
\* unless they are empty.
TypeOK ==
  /\ phase \in [Tasks -> Statuses \cup {"unknown"}]
  /\ result \in [Tasks -> BOOLEAN]
  /\ token \in BOOLEAN
  /\ currentTaskId \in Tasks \cup {NoTask}
  /\ pollTimer \in Tasks \cup {NoTask}
  /\ intervals \subseteq Tasks
  /\ currentResult \in [task : Tasks \cup {NoTask}, target : {"latest", "preview"}]
  /\ panel \in [{"latest", "preview"} ->
                  [task : Tasks, status : Statuses] \cup {Nothing}]
  /\ ask \in [op : {"submit", "view"}, task : Tasks, done : BOOLEAN]
               \cup [op : {"none", "login"}, task : {NoTask}, done : {FALSE}]
  /\ polls \subseteq [pc : {"status", "told", "result"}, task : Tasks,
                      auth : BOOLEAN, status : Statuses \cup {"unknown"}]
  /\ disturbed \in BOOLEAN

\* No interval runs that the page has forgotten: at most one at a time, which
\* the next submission, a final status or a logout stops.
OneTimer == intervals \subseteq {pollTimer}

\* s is the status of t, or was.
Reached(t, s) ==
  \/ s = "PENDING" /\ phase[t] \in Statuses
  \/ s = "IN_PROGRESS" /\ phase[t] \in {"IN_PROGRESS"} \cup Final
  \/ s \in Final /\ phase[t] = s

\* However late an answer arrives, a panel shows for a task only what it has
\* been, a final status only when it has that one, a result when there is one.
ShownIsTrue ==
  \A p \in {"latest", "preview"} :
    panel[p] # Nothing =>
      /\ Reached(panel[p].task, panel[p].status)
      /\ panel[p].status = "SUCCESS" => result[panel[p].task]

\* The page stops polling: because of a final status, or of a logout.
PollingEnds == pollTimer # NoTask ~> pollTimer = NoTask

Outcome(t) == phase[t] \in Final /\ panel["latest"] = [task |-> t, status |-> phase[t]]

\* The outcome of a task that is polled is finally shown and stays there
\* while the task is the current one, unless the user is logged out, or an
\* answer about another or an earlier state, a result that could not be
\* fetched or a toggle put it out of sight.
ResultIsShown ==
  \A t \in Tasks :
    (pollTimer # NoTask /\ currentTaskId = t)
      ~> \/ ~token \/ currentTaskId # t \/ disturbed
         \/ [](Outcome(t) \/ currentTaskId # t \/ disturbed)
=============================================================================
