--------------------------- MODULE FrontendProofs ---------------------------
(***************************************************************************)
(* Proofs about Frontend for every set of tasks, every number of polls     *)
(* under way and every set of faults.                                      *)
(***************************************************************************)
EXTENDS Frontend, TLAPS

\* t has ended well and its result can be read.
Succeeded(t) == phase[t] = "SUCCESS" /\ result[t]

\* What a poll that waits for an answer knows is true of its task.
PollOK(p) ==
  /\ phase[p.task] \in Statuses
  /\ p.pc = "told" => Reached(p.task, p.status)
  /\ p.pc = "result" => Succeeded(p.task)

PanelOK(c) ==
  c # Nothing => Reached(c.task, c.status) /\ (c.status = "SUCCESS" => result[c.task])

\* What the page remembers, or waits for, is true of the service: a result is
\* there for each success, the current task was accepted, and so on. This is
\* what makes ShownIsTrue inductive.
KnownIsTrue ==
  /\ \A t \in Tasks : phase[t] = "SUCCESS" => result[t]
  /\ \A p \in polls : PollOK(p)
  /\ currentTaskId # NoTask => phase[currentTaskId] \in Statuses
  /\ currentResult # NoResult => currentResult.task \in Tasks /\ Succeeded(currentResult.task)
  /\ ask.op = "view" => Succeeded(ask.task)
  /\ ask.op = "submit" /\ ask.done => phase[ask.task] \in Statuses
  /\ intervals # {} => currentTaskId # NoTask

IInv == TypeOK /\ OneTimer /\ ShownIsTrue /\ KnownIsTrue

PanelType == [task : Tasks, status : Statuses] \cup {Nothing}
PollType == [pc : {"status", "told", "result"}, task : Tasks,
             auth : BOOLEAN, status : Statuses \cup {"unknown"}]
AskType == [op : {"submit", "view"}, task : Tasks, done : BOOLEAN]
             \cup [op : {"none", "login"}, task : {NoTask}, done : {FALSE}]
Panels == {"latest", "preview"}

\* The invariant in four parts: what it says of the session and the timer, of
\* the panels, of the polls and of the request of the user.
TimerPart ==
  /\ token \in BOOLEAN /\ disturbed \in BOOLEAN
  /\ currentTaskId \in Tasks \cup {NoTask}
  /\ pollTimer \in Tasks \cup {NoTask}
  /\ intervals \subseteq Tasks
  /\ OneTimer
  /\ currentTaskId # NoTask => phase[currentTaskId] \in Statuses
  /\ intervals # {} => currentTaskId # NoTask

ShownPart ==
  /\ currentResult \in [task : Tasks \cup {NoTask}, target : Panels]
  /\ currentResult # NoResult => currentResult.task \in Tasks /\ Succeeded(currentResult.task)
  /\ panel \in [Panels -> PanelType]
  /\ \A p \in Panels : PanelOK(panel[p])

PollsPart == polls \subseteq PollType /\ \A p \in polls : PollOK(p)

AskPart ==
  /\ ask \in AskType
  /\ ask.op = "view" => Succeeded(ask.task)
  /\ ask.op = "submit" /\ ask.done => phase[ask.task] \in Statuses

ServicePart ==
  /\ phase \in [Tasks -> Statuses \cup {"unknown"}]
  /\ result \in [Tasks -> BOOLEAN]
  /\ \A t \in Tasks : phase[t] = "SUCCESS" => result[t]

LEMMA Parts == IInv <=> ServicePart /\ TimerPart /\ ShownPart /\ PollsPart /\ AskPart
  BY DEF IInv, TypeOK, ShownIsTrue, KnownIsTrue, ServicePart, TimerPart, ShownPart,
         PollsPart, AskPart, PanelType, PollType, AskType, Panels, PanelOK

LEMMA PartsNext ==
  (IInv')
    <=> ServicePart' /\ TimerPart' /\ ShownPart' /\ PollsPart' /\ AskPart'
  BY DEF IInv, TypeOK, ShownIsTrue, KnownIsTrue, ServicePart, TimerPart, ShownPart,
         PollsPart, AskPart, PanelType, PollType, AskType, Panels, PanelOK

\* The service only moves forward.
LEMMA ServiceMoves ==
  ASSUME ServicePart, NEW t \in Tasks, Service!Record(t) \/ Service!Progress(t)
  PROVE  /\ ServicePart'
         /\ \A u \in Tasks : phase[u] \in Statuses => phase'[u] \in Statuses
         /\ \A u \in Tasks : Succeeded(u) => Succeeded(u)'
         /\ \A u \in Tasks, s \in Statuses : Reached(u, s) => Reached(u, s)'
  <1>1. /\ phase' = [phase EXCEPT ![t] = phase'[t]]
        /\ result' = [result EXCEPT ![t] = result'[t]]
    BY DEF Service!Record, Service!Progress, Service!Start, Service!Succeed, Service!Fail,
           ServicePart
  <1>2. \/ phase[t] = "unknown" /\ phase'[t] \in {"PENDING", "FAILED"} /\ result'[t] = result[t]
        \/ phase[t] = "PENDING" /\ phase'[t] \in {"IN_PROGRESS", "FAILED"} /\ result'[t] = result[t]
        \/ phase[t] = "IN_PROGRESS" /\ phase'[t] = "FAILED" /\ result'[t] = result[t]
        \/ phase[t] = "IN_PROGRESS" /\ phase'[t] = "SUCCESS" /\ result'[t] = TRUE
    BY DEF Service!Record, Service!Progress, Service!Start, Service!Succeed, Service!Fail,
           ServicePart
  <1>3. ServicePart'
    BY <1>1, <1>2 DEF ServicePart, Statuses
  <1>4. \A u \in Tasks : u # t => phase'[u] = phase[u] /\ result'[u] = result[u]
    BY <1>1 DEF ServicePart
  <1>5. \A u \in Tasks : phase[u] \in Statuses => phase'[u] \in Statuses
    BY <1>2, <1>4 DEF Statuses
  <1>6. \A u \in Tasks : Succeeded(u) => Succeeded(u)'
    BY <1>2, <1>4 DEF Succeeded
  <1>7. \A u \in Tasks, s \in Statuses : Reached(u, s) => Reached(u, s)'
    BY <1>2, <1>4 DEF Reached, Statuses, Final
  <1> QED
    BY <1>3, <1>5, <1>6, <1>7

\* So a step of the service alone keeps everything the page knows.
LEMMA ServiceKeeps ==
  ASSUME IInv, NEW t \in Tasks, Service!Record(t) \/ Service!Progress(t),
         UNCHANGED <<token, currentTaskId, timer, shown, polls, disturbed>>
  PROVE  /\ ServicePart' /\ TimerPart' /\ ShownPart' /\ PollsPart'
         /\ ask.op = "view" => phase'[ask.task] = "SUCCESS" /\ result'[ask.task]
         /\ ask.op = "submit" /\ ask.done => phase'[ask.task] \in Statuses
  <1> USE Parts, PartsNext
  <1>1. /\ ServicePart'
        /\ \A u \in Tasks : phase[u] \in Statuses => phase'[u] \in Statuses
        /\ \A u \in Tasks : Succeeded(u) => Succeeded(u)'
        /\ \A u \in Tasks, s \in Statuses : Reached(u, s) => Reached(u, s)'
    BY ServiceMoves
  <1>2. TimerPart'
    BY <1>1 DEF TimerPart, timer, OneTimer
  <1>3. ShownPart'
    <2>1. \A c \in PanelType : PanelOK(c) => PanelOK(c)'
      <3> SUFFICES ASSUME NEW c \in PanelType, PanelOK(c), c # Nothing
                   PROVE  PanelOK(c)'
        BY DEF PanelOK
      <3>1. c.task \in Tasks /\ c.status \in Statuses
        BY DEF PanelType
      <3>2. Reached(c.task, c.status)'
        BY <1>1, <3>1 DEF PanelOK
      <3>3. c.status = "SUCCESS" => Succeeded(c.task)
        BY DEF PanelOK, Reached, Succeeded
      <3> QED
        BY <1>1, <3>1, <3>2, <3>3 DEF PanelOK, Succeeded
    <2>2. currentResult # NoResult => /\ phase'[currentResult.task] = "SUCCESS"
                                      /\ result'[currentResult.task]
      BY <1>1 DEF ShownPart, Succeeded
    <2> QED
      BY <2>1, <2>2 DEF ShownPart, shown, Succeeded
  <1>4. PollsPart'
    <2>1. \A p \in PollType : PollOK(p) => PollOK(p)'
      <3> SUFFICES ASSUME NEW p \in PollType, PollOK(p)
                   PROVE  PollOK(p)'
        OBVIOUS
      <3>1. p.task \in Tasks /\ p.status \in Statuses \cup {"unknown"}
        BY DEF PollType
      <3>2. p.pc = "told" => p.status \in Statuses
        BY <3>1 DEF PollOK, Reached, Statuses, Final
      <3> QED
        BY <1>1, <3>1, <3>2 DEF PollOK
    <2> QED
      BY <2>1 DEF PollsPart
  <1>5. ask.op \in {"submit", "view"} => ask.task \in Tasks
    BY DEF AskPart, AskType
  <1> QED
    BY <1>1, <1>2, <1>3, <1>4, <1>5 DEF AskPart, Succeeded

-----------------------------------------------------------------------------
(***************************************************************************)
(* What the handlers' parts do.                                            *)
(***************************************************************************)
LEMMA ClearTimerKeeps ==
  ASSUME TimerPart, ClearTimer, token' \in BOOLEAN, disturbed' \in BOOLEAN,
         UNCHANGED <<service, currentTaskId>>
  PROVE  TimerPart'
  BY DEF TimerPart, ClearTimer, OneTimer, service

LEMMA ShowKeeps ==
  ASSUME ShownPart, NEW p \in Panels, NEW t \in Tasks, NEW s \in Statuses,
         Show(p, t, s), Reached(t, s), s = "SUCCESS" => result[t],
         UNCHANGED service
  PROVE  /\ panel' \in [Panels -> PanelType]
         /\ \A q \in Panels : PanelOK(panel[q])'
  <1> DEFINE c == [task |-> t, status |-> s]
  <1>1. panel' = [panel EXCEPT ![p] = c] /\ panel \in [Panels -> PanelType]
    BY DEF Show, ShownPart
  <1>2. c \in PanelType /\ PanelOK(c)
    BY DEF PanelType, PanelOK
  <1> HIDE DEF c
  <1>3. \A d : PanelOK(d) => PanelOK(d)'
    BY DEF PanelOK, Reached, service
  <1>4. \A q \in Panels : panel'[q] = c \/ panel'[q] = panel[q]
    BY <1>1
  <1>5. \A q \in Panels : PanelOK(panel[q])'
    BY <1>2, <1>3, <1>4 DEF ShownPart
  <1> QED
    BY <1>1, <1>2, <1>5

LEMMA DisplayKeeps ==
  ASSUME ServicePart, ShownPart, NEW p \in Panels, NEW t \in Tasks, Display(t, p),
         Succeeded(t), UNCHANGED service
  PROVE  ShownPart'
  <1>1. Reached(t, "SUCCESS") /\ "SUCCESS" \in Statuses /\ result[t]
    BY DEF Reached, Succeeded, Final, Statuses
  <1>2. Show(p, t, "SUCCESS") /\ currentResult' = [task |-> t, target |-> p]
    BY DEF Display
  <1>3. /\ panel' \in [Panels -> PanelType]
        /\ \A q \in Panels : PanelOK(panel[q])'
    BY <1>1, <1>2, ShowKeeps
  <1> QED
    BY <1>2, <1>3 DEF ShownPart, Succeeded, service

LEMMA PollsKeep ==
  ASSUME PollsPart, UNCHANGED service, NEW p \in PollType, PollOK(p),
         polls' \subseteq polls \cup {p}
  PROVE  PollsPart'
  <1>1. \A q : PollOK(q) => PollOK(q)'
    BY DEF PollOK, Reached, Succeeded, service
  <1> QED
    BY <1>1 DEF PollsPart

LEMMA FewerPollsKeep ==
  ASSUME PollsPart, UNCHANGED service, polls' \subseteq polls
  PROVE  PollsPart'
  <1>1. \A q : PollOK(q) => PollOK(q)'
    BY DEF PollOK, Reached, Succeeded, service
  <1> QED
    BY <1>1 DEF PollsPart

\* Whatever is unchanged keeps its part while the service is.
LEMMA Untouched ==
  ASSUME UNCHANGED service
  PROVE  /\ ServicePart => ServicePart'
         /\ TimerPart /\ UNCHANGED <<token, currentTaskId, timer, disturbed>> => TimerPart'
         /\ TimerPart /\ UNCHANGED <<token, currentTaskId, timer>> /\ disturbed' \in BOOLEAN
              => TimerPart'
         /\ ShownPart /\ UNCHANGED shown => ShownPart'
         /\ AskPart /\ UNCHANGED ask => AskPart'
         /\ PollsPart /\ UNCHANGED polls => PollsPart'
  <1>1. ServicePart => ServicePart'
    BY DEF ServicePart, service
  <1>2. TimerPart /\ UNCHANGED <<token, currentTaskId, timer>> /\ disturbed' \in BOOLEAN
          => TimerPart'
    BY DEF TimerPart, OneTimer, timer, service
  <1>3. ShownPart /\ UNCHANGED shown => ShownPart'
    BY DEF ShownPart, shown, service, PanelOK, Reached, Succeeded
  <1>4. AskPart /\ UNCHANGED ask => AskPart'
    BY DEF AskPart, service, Succeeded
  <1>5. PollsPart /\ UNCHANGED polls => PollsPart'
    BY FewerPollsKeep
  <1>6. TimerPart => disturbed \in BOOLEAN
    BY DEF TimerPart
  <1> QED
    BY <1>1, <1>2, <1>3, <1>4, <1>5, <1>6

LEMMA NoAskOK == NoAsk \in AskType /\ NoAsk.op = "none"
  BY DEF NoAsk, AskType

LEMMA FreshAsk ==
  ASSUME ask' = NoAsk
  PROVE  AskPart'
  BY NoAskOK DEF AskPart

-----------------------------------------------------------------------------
LEMMA InitInv == Init => IInv
  <1> SUFFICES ASSUME Init PROVE ServicePart /\ TimerPart /\ ShownPart /\ PollsPart /\ AskPart
    BY Parts
  <1>1. ServicePart
    BY DEF Init, Service!Init, ServicePart
  <1>2. TimerPart
    BY DEF Init, TimerPart, OneTimer
  <1>3. ShownPart
    BY DEF Init, ShownPart, Hidden, Panels, PanelType, PanelOK, NoResult
  <1>4. PollsPart
    BY DEF Init, PollsPart
  <1>5. AskPart
    BY NoAskOK DEF Init, AskPart
  <1> QED
    BY <1>1, <1>2, <1>3, <1>4, <1>5

\* The clicks of the user keep the invariant.
LEMMA ClickKeeps ==
  ASSUME IInv, Click
  PROVE  IInv'
  <1> USE Parts, PartsNext
  <1>1. CASE SubmitLogin
    <2>1. AskPart'
      BY <1>1 DEF SubmitLogin, Ask, AskPart, AskType
    <2> QED
      BY <1>1, <2>1, Untouched DEF SubmitLogin
  <1>2. CASE ClickLogout
    <2>1. TimerPart'
      BY <1>2, ClearTimerKeeps DEF ClickLogout, Logout, TimerPart
    <2> QED
      BY <1>2, <2>1, Untouched DEF ClickLogout
  <1>3. ASSUME NEW t \in Tasks, SubmitScrape(t) PROVE IInv'
    <2>1. AskPart'
      BY <1>3 DEF SubmitScrape, Ask, AskPart, AskType
    <2> QED
      BY <1>3, <2>1, Untouched DEF SubmitScrape
  <1>4. ASSUME NEW t \in Tasks, ClickView(t) PROVE IInv'
    <2>1. Succeeded(t)
      BY <1>4 DEF ClickView, ServicePart, Succeeded
    <2>2. AskPart'
      BY <1>4, <2>1 DEF ClickView, Ask, AskPart, AskType, Succeeded, service
    <2> QED
      BY <1>4, <2>2, Untouched DEF ClickView
  <1>5. CASE ToggleView
    <2>1. /\ currentResult.task \in Tasks /\ currentResult.target \in Panels
          /\ Succeeded(currentResult.task)
      BY <1>5 DEF ToggleView, ShownPart
    <2>2. UNCHANGED service /\ Display(currentResult.task, currentResult.target)
      BY <1>5 DEF ToggleView
    <2>3. ShownPart'
      BY <2>1, <2>2, DisplayKeeps
    <2>4. disturbed' \in BOOLEAN
      BY <1>5 DEF ToggleView
    <2> QED
      BY <1>5, <2>3, <2>4, Untouched DEF ToggleView
  <1>6. CASE Reload
    <2>1. UNCHANGED <<service, token, disturbed>> /\ ask' = NoAsk /\ polls' = {}
      BY <1>6 DEF Reload
    <2>2. TimerPart'
      BY <1>6 DEF Reload, TimerPart, OneTimer
    <2>3. ShownPart'
      BY <1>6 DEF Reload, ShownPart, Hidden, Panels, PanelType, PanelOK, NoResult
    <2> QED
      BY <2>1, <2>2, <2>3, FewerPollsKeep, FreshAsk, Untouched
  <1> QED
    BY <1>1, <1>2, <1>3, <1>4, <1>5, <1>6 DEF Click

\* The answers to the user's requests keep it.
LEMMA AskedKeeps ==
  ASSUME IInv, Asked
  PROVE  IInv'
  <1> USE Parts, PartsNext
  <1>1. CASE AnswerLogin
    <2>1. UNCHANGED <<service, currentTaskId, timer, shown, polls, disturbed>>
          /\ ask' = NoAsk /\ token' = TRUE
      BY <1>1 DEF AnswerLogin
    <2>2. TimerPart'
      BY <2>1 DEF TimerPart, OneTimer, timer, service
    <2> QED
      BY <2>1, <2>2, FreshAsk, Untouched
  <1>2. CASE ServeSubmit
    <2>1. /\ ask.op = "submit" /\ ~ask.done
          /\ Service!Record(ask.task) /\ phase'[ask.task] = "PENDING"
          /\ ask' = [ask EXCEPT !.done = TRUE]
          /\ UNCHANGED <<token, currentTaskId, timer, shown, polls, disturbed>>
      BY <1>2 DEF ServeSubmit
    <2>2. ask \in [op : {"submit", "view"}, task : Tasks, done : BOOLEAN]
      BY <2>1 DEF AskPart, AskType
    <2>3. ServicePart' /\ TimerPart' /\ ShownPart' /\ PollsPart'
      BY <2>1, <2>2, ServiceKeeps
    <2>4. AskPart'
      BY <2>1, <2>2 DEF AskPart, AskType, Statuses
    <2> QED
      BY <2>3, <2>4
  <1>3. CASE AnswerSubmit
    <2>1. /\ ask.op = "submit" /\ ask.done
          /\ UNCHANGED <<service, token, currentResult, polls, disturbed>>
          /\ ask' = NoAsk
          /\ Show("latest", ask.task, "PENDING")
      BY <1>3 DEF AnswerSubmit
    <2>2. ask.task \in Tasks /\ phase[ask.task] \in Statuses
      BY <2>1 DEF AskPart, AskType
    <2>3. /\ currentTaskId' = ask.task /\ pollTimer' = ask.task
          /\ intervals' = (intervals \ {pollTimer}) \cup {ask.task}
          /\ UNCHANGED <<phase, token, disturbed>>
      BY <1>3 DEF AnswerSubmit, service
    <2>4. TimerPart'
      <3>1. intervals' = {ask.task}
        BY <2>3 DEF TimerPart, OneTimer
      <3>2. /\ token' \in BOOLEAN /\ disturbed' \in BOOLEAN
            /\ phase'[currentTaskId'] \in Statuses
        BY <2>2, <2>3 DEF TimerPart
      <3> QED
        BY FrontendAssumption, <2>2, <2>3, <3>1, <3>2 DEF TimerPart, OneTimer
    <2>5. Reached(ask.task, "PENDING") /\ "PENDING" \in Statuses /\ "latest" \in Panels
      BY <2>2 DEF Reached, Statuses, Panels
    <2>6. /\ panel' \in [Panels -> PanelType]
          /\ \A q \in Panels : PanelOK(panel[q])'
      BY <2>1, <2>2, <2>5, ShowKeeps
    <2>7. ShownPart'
      BY <2>1, <2>6 DEF ShownPart, Succeeded, service
    <2> QED
      BY <2>1, <2>4, <2>7, FreshAsk, Untouched
  <1>4. CASE AnswerView
    <2>1. /\ ask.op = "view" /\ Display(ask.task, "preview") /\ ask' = NoAsk
          /\ UNCHANGED <<service, token, currentTaskId, timer, polls, disturbed>>
      BY <1>4 DEF AnswerView
    <2>2. ask.task \in Tasks /\ Succeeded(ask.task) /\ "preview" \in Panels
      BY <2>1 DEF AskPart, AskType, Panels
    <2>3. ShownPart'
      BY <2>1, <2>2, DisplayKeeps
    <2> QED
      BY <2>1, <2>3, FreshAsk, Untouched
  <1>5. CASE AskFails
    BY <1>5, FreshAsk, Untouched DEF AskFails
  <1>6. CASE AskRefused
    <2>1. TimerPart'
      BY <1>6, ClearTimerKeeps DEF AskRefused, Logout, TimerPart
    <2> QED
      BY <1>6, <2>1, FreshAsk, Untouched DEF AskRefused
  <1>7. CASE RefreshRefused
    <2>1. TimerPart'
      BY <1>7, ClearTimerKeeps DEF RefreshRefused, Logout, TimerPart
    <2> QED
      BY <1>7, <2>1, Untouched DEF RefreshRefused
  <1> QED
    BY <1>1, <1>2, <1>3, <1>4, <1>5, <1>6, <1>7 DEF Asked

\* An interval keeps it: it polls a task that was accepted.
LEMMA TickKeeps ==
  ASSUME IInv, Tick
  PROVE  IInv'
  <1> USE Parts, PartsNext
  <1> DEFINE p == [pc |-> "status", task |-> currentTaskId, auth |-> token,
                   status |-> "unknown"]
  <1>1. /\ intervals # {} /\ polls' = polls \cup {p}
        /\ UNCHANGED <<service, token, currentTaskId, timer, shown, ask, disturbed>>
    BY DEF Tick
  <1>2. currentTaskId \in Tasks /\ phase[currentTaskId] \in Statuses /\ token \in BOOLEAN
    BY <1>1 DEF TimerPart
  <1>3. p \in PollType /\ PollOK(p)
    BY <1>2 DEF PollType, PollOK
  <1> HIDE DEF p
  <1>4. PollsPart'
    BY <1>1, <1>3, PollsKeep
  <1> QED
    BY <1>1, <1>4, Untouched

\* The answers to a poll keep it.
LEMMA PolledKeeps ==
  ASSUME IInv, NEW p \in polls,
         ServeStatus(p) \/ Receive(p) \/ PollFails(p) \/ PollRefused(p)
  PROVE  IInv'
  <1> USE Parts, PartsNext
  <1>0. p \in PollType /\ PollOK(p) /\ p.task \in Tasks
    BY DEF PollsPart, PollType
  <1>1. CASE ServeStatus(p)
    <2> DEFINE q == [p EXCEPT !.pc = "told", !.status = phase[p.task]]
    <2>1. /\ polls' = (polls \ {p}) \cup {q}
          /\ UNCHANGED <<service, token, currentTaskId, timer, shown, ask, disturbed>>
      BY <1>1 DEF ServeStatus, GoOn
    <2>2. phase[p.task] \in Statuses
      BY <1>0 DEF PollOK
    <2>3. Reached(p.task, phase[p.task])
      BY <2>2 DEF Reached, Statuses, Final
    <2>4. q \in PollType /\ q.task = p.task /\ q.pc = "told" /\ q.status = phase[p.task]
      BY <1>0, <2>2 DEF PollType
    <2> HIDE DEF q
    <2>5. PollOK(q)
      BY <2>2, <2>3, <2>4 DEF PollOK
    <2>6. PollsPart'
      BY <2>1, <2>4, <2>5, PollsKeep
    <2> QED
      BY <2>1, <2>6, Untouched
  <1>2. CASE ReceiveSuccess(p)
    <2> DEFINE q == [p EXCEPT !.pc = "result", !.auth = token]
    <2>1. /\ p.pc = "told" /\ p.status = "SUCCESS" /\ ClearTimer
          /\ polls' = (polls \ {p}) \cup {q}
          /\ disturbed' \in BOOLEAN
          /\ UNCHANGED <<service, token, currentTaskId, shown, ask>>
      BY <1>2 DEF ReceiveSuccess, GoOn
    <2>2. Succeeded(p.task) /\ phase[p.task] \in Statuses
      BY <1>0, <2>1 DEF PollOK, Reached, Succeeded, ServicePart, Final, Statuses
    <2>3. token \in BOOLEAN /\ token' \in BOOLEAN
      BY <2>1 DEF TimerPart
    <2>4. q \in PollType /\ q.task = p.task /\ q.pc = "result"
      BY <1>0, <2>3 DEF PollType
    <2> HIDE DEF q
    <2>5. PollOK(q)
      BY <2>2, <2>4 DEF PollOK
    <2>6. PollsPart'
      BY <2>1, <2>4, <2>5, PollsKeep
    <2>7. TimerPart'
      BY <2>1, <2>3, ClearTimerKeeps
    <2> QED
      BY <2>1, <2>6, <2>7, Untouched
  <1>3. CASE ReceiveFailed(p)
    <2>1. /\ p.pc = "told" /\ p.status = "FAILED" /\ ClearTimer
          /\ Show("latest", p.task, "FAILED") /\ polls' \subseteq polls
          /\ disturbed' \in BOOLEAN
          /\ UNCHANGED <<service, token, currentTaskId, currentResult, ask>>
      BY <1>3 DEF ReceiveFailed, Forget
    <2>2. Reached(p.task, "FAILED") /\ "FAILED" \in Statuses /\ "latest" \in Panels
      BY <1>0, <2>1 DEF PollOK, Statuses, Panels
    <2>3. /\ panel' \in [Panels -> PanelType]
          /\ \A q \in Panels : PanelOK(panel[q])'
      BY <1>0, <2>1, <2>2, ShowKeeps
    <2>4. ShownPart'
      BY <2>1, <2>3 DEF ShownPart, Succeeded, service
    <2>5. TimerPart'
      BY <2>1, ClearTimerKeeps DEF TimerPart
    <2> QED
      BY <2>1, <2>4, <2>5, FewerPollsKeep, Untouched
  <1>4. CASE ReceiveOngoing(p)
    <2>1. /\ p.pc = "told" /\ p.status \notin Final
          /\ Show("latest", p.task, p.status) /\ polls' \subseteq polls
          /\ disturbed' \in BOOLEAN
          /\ UNCHANGED <<service, token, currentTaskId, timer, currentResult, ask>>
      BY <1>4 DEF ReceiveOngoing, Forget
    <2>2. /\ Reached(p.task, p.status) /\ p.status \in Statuses /\ p.status # "SUCCESS"
          /\ "latest" \in Panels
      BY <1>0, <2>1 DEF PollOK, PollType, Reached, Statuses, Final, Panels
    <2>3. /\ panel' \in [Panels -> PanelType]
          /\ \A q \in Panels : PanelOK(panel[q])'
      BY <1>0, <2>1, <2>2, ShowKeeps
    <2>4. ShownPart'
      BY <2>1, <2>3 DEF ShownPart, Succeeded, service
    <2> QED
      BY <2>1, <2>4, FewerPollsKeep, Untouched
  <1>5. CASE ReceiveResult(p)
    <2>1. /\ p.pc = "result" /\ Display(p.task, "latest") /\ polls' \subseteq polls
          /\ disturbed' \in BOOLEAN
          /\ UNCHANGED <<service, token, currentTaskId, timer, ask>>
      BY <1>5 DEF ReceiveResult, Forget
    <2>2. Succeeded(p.task) /\ "latest" \in Panels
      BY <1>0, <2>1 DEF PollOK, Panels
    <2>3. ShownPart'
      BY <1>0, <2>1, <2>2, DisplayKeeps
    <2> QED
      BY <2>1, <2>3, FewerPollsKeep, Untouched
  <1>6. CASE PollFails(p)
    <2>1. /\ polls' \subseteq polls /\ disturbed' \in BOOLEAN
          /\ UNCHANGED <<service, token, currentTaskId, timer, shown, ask>>
      BY <1>6 DEF PollFails, Forget
    <2> QED
      BY <2>1, FewerPollsKeep, Untouched
  <1>7. CASE PollRefused(p)
    <2>1. /\ polls' \subseteq polls /\ disturbed' \in BOOLEAN
          /\ token' \in BOOLEAN /\ ClearTimer
          /\ UNCHANGED <<service, currentTaskId, shown, ask>>
      BY <1>7 DEF PollRefused, Forget, Logout
    <2>2. TimerPart'
      BY <2>1, ClearTimerKeeps
    <2> QED
      BY <2>1, <2>2, FewerPollsKeep, Untouched
  <1> QED
    BY <1>1, <1>2, <1>3, <1>4, <1>5, <1>6, <1>7 DEF Receive

\* The work of the service keeps it.
LEMMA WorkKeeps ==
  ASSUME IInv, NEW t \in Tasks, Work(t)
  PROVE  IInv'
  <1> USE Parts, PartsNext
  <1>1. /\ ServicePart' /\ TimerPart' /\ ShownPart' /\ PollsPart'
        /\ ask.op = "view" => phase'[ask.task] = "SUCCESS" /\ result'[ask.task]
        /\ ask.op = "submit" /\ ask.done => phase'[ask.task] \in Statuses
    BY ServiceKeeps DEF Work
  <1>2. AskPart'
    BY <1>1 DEF Work, AskPart, Succeeded
  <1> QED
    BY <1>1, <1>2

LEMMA StepInv == IInv /\ [Next]_vars => IInv'
  <1> SUFFICES ASSUME IInv, [Next]_vars PROVE IInv'
    OBVIOUS
  <1>1. CASE Next
    BY <1>1, ClickKeeps, AskedKeeps, TickKeeps, PolledKeeps, WorkKeeps DEF Next
  <1>2. CASE UNCHANGED vars
    BY <1>2, Parts, PartsNext, Untouched DEF vars
  <1> QED
    BY <1>1, <1>2

\* What the page shows, knows and waits for agrees with the service in every
\* reachable state (app.js against the lifecycle of a task).
THEOREM PageInvariant == Spec => []IInv
  BY InitInv, StepInv, PTL DEF Spec

\* The state of app.js keeps its shape; a poll is always about a task.
THEOREM TypeCorrect == Spec => []TypeOK
  <1>1. IInv => TypeOK
    BY DEF IInv
  <1> QED
    BY <1>1, PageInvariant, PTL

\* setInterval and clearInterval are paired: whatever the order of answers,
\* logouts and submissions, no interval runs that the page has forgotten.
THEOREM NoForgottenInterval == Spec => []OneTimer
  <1>1. IInv => OneTimer
    BY DEF IInv
  <1> QED
    BY <1>1, PageInvariant, PTL

\* pollTaskStatus, displayResult and toggleResultView show for a task only
\* what it has been, for any number of answers out of order.
THEOREM PanelsAreTrue == Spec => []ShownIsTrue
  <1>1. IInv => ShownIsTrue
    BY DEF IInv
  <1> QED
    BY <1>1, PageInvariant, PTL
=============================================================================
