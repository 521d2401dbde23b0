--------------------------- MODULE SchedulerProofs ---------------------------
(***************************************************************************)
(* Proofs about Scheduler for every set of jobs and worker processes,      *)
(* every clock bound, every cron function and every set of faults.         *)
(***************************************************************************)
EXTENDS Scheduler, TLAPS

Steps == {"idle", "query", "next", "advance", "reload", "record", "send"}
WithJob == {"advance", "reload", "record", "send"}

\* The clauses of TypeOK about the ticks, for one state t of a tick.
TickOK(t) ==
  /\ t \in TickType
  /\ t.pc # "idle" => t.now \in 1 .. clock
  /\ t.pc \in WithJob => t.cur \in Jobs

RowOK(r) == r \in RowType /\ (r.last # Null => r.next > r.last)

\* Whoever is about to send a run is the only one, and the run has its row
\* and no message yet. This is what makes SentOnce inductive.
OneSender ==
  \A w \in Ticks :
    tick[w].pc = "send" =>
      /\ RunOf(w) \in runs
      /\ sent[RunOf(w)] = 0
      /\ \A v \in Ticks : tick[v].pc = "send" /\ RunOf(v) = RunOf(w) => v = w

IInv == TypeOK /\ SentOnce /\ OneSender

LEMMA TypeParts ==
  TypeOK <=> /\ clock \in Times
             /\ table \in [Jobs -> RowType] /\ \A j \in Jobs : RowOK(table[j])
             /\ backlog \in Nat
             /\ tick \in [Ticks -> TickType] /\ \A w \in Ticks : TickOK(tick[w])
             /\ runs \subseteq Jobs \X Times
             /\ sent \in [Jobs \X Times -> Nat]
  BY DEF TypeOK, TickOK, RowOK, WithJob

\* What a tick triggers is a job and a second.
LEMMA RunType ==
  ASSUME TypeOK, NEW w \in Ticks, tick[w].pc \in WithJob
  PROVE  RunOf(w) \in Jobs \X Times /\ tick[w].now \in Times /\ tick[w].cur \in Jobs
  <1>1. TickOK(tick[w]) /\ clock \in Times
    BY TypeParts
  <1>2. tick[w].pc # "idle"
    BY DEF WithJob
  <1>3. 1 .. clock \subseteq Times
    BY <1>1, SchedulerAssumption DEF Times
  <1> QED
    BY <1>1, <1>2, <1>3 DEF TickOK, RunOf

\* The states to which the steps of a tick lead.
LEMMA NoTickOK == TickOK(NoTick) /\ NoTick.pc = "idle"
  BY DEF NoTick, TickOK, TickType, WithJob, Null

LEMMA NextOneOK ==
  ASSUME TypeOK, NEW w \in Ticks, tick[w].pc # "idle", NextOne(w)
  PROVE  \E t : TickOK(t) /\ t.pc = "next" /\ tick' = [tick EXCEPT ![w] = t]
  <1> DEFINE t == [tick[w] EXCEPT !.pc = "next", !.cur = NoJob, !.cached = FALSE]
  <1>1. TickOK(tick[w]) /\ tick \in [Ticks -> TickType]
    BY TypeParts
  <1>2. TickOK(t) /\ t.pc = "next"
    BY <1>1 DEF TickOK, TickType, WithJob
  <1>3. tick' = [tick EXCEPT ![w] = t]
    BY <1>1 DEF NextOne, TickType
  <1> QED
    BY <1>2, <1>3

\* A tick that fails with its job sends nothing.
LEMMA FailOneOK ==
  ASSUME TypeOK, NEW w \in Ticks, tick[w].pc # "idle",
         Leave(w) \/ NextOne(w) \/ FailOne(w)
  PROVE  \E t : TickOK(t) /\ t.pc # "send" /\ tick' = [tick EXCEPT ![w] = t]
  BY NextOneOK, NoTickOK DEF FailOne, Leave

LEMMA ContinueOK ==
  ASSUME TypeOK, NEW w \in Ticks, tick[w].pc \in WithJob,
         NEW pc \in WithJob, Continue(w, pc)
  PROVE  \E t : /\ TickOK(t) /\ t.pc = pc
                /\ t.now = tick[w].now /\ t.cur = tick[w].cur
                /\ tick' = [tick EXCEPT ![w] = t]
  <1> DEFINE t == [tick[w] EXCEPT !.pc = pc, !.cached = FALSE]
  <1>1. TickOK(tick[w]) /\ tick \in [Ticks -> TickType]
    BY TypeParts
  <1>2. TickOK(t) /\ t.pc = pc /\ t.now = tick[w].now /\ t.cur = tick[w].cur
    BY <1>1 DEF TickOK, TickType, WithJob
  <1>3. tick' = [tick EXCEPT ![w] = t]
    BY <1>1 DEF Continue, TickType
  <1> QED
    BY <1>2, <1>3

\* Replacing one tick by one that is well typed keeps the type invariant.
LEMMA TickUpdate ==
  ASSUME TypeOK, NEW w \in Ticks, NEW t, TickOK(t),
         tick' = [tick EXCEPT ![w] = t], clock' = clock
  PROVE  /\ tick' \in [Ticks -> TickType] /\ \A v \in Ticks : TickOK(tick[v])'
         /\ tick'[w] = t
         /\ \A v \in Ticks : v # w => tick'[v] = tick[v]
  BY TypeParts DEF TickOK

\* A step of a tick that does not lead to sending, and sends nothing.
LEMMA QuietStep ==
  ASSUME IInv, NEW w \in Ticks, NEW t, TickOK(t), t.pc # "send",
         tick' = [tick EXCEPT ![w] = t], clock' = clock,
         runs \subseteq runs', runs' \subseteq Jobs \X Times, sent' = sent,
         table' \in [Jobs -> RowType], \A j \in Jobs : RowOK(table'[j]), backlog' \in Nat
  PROVE  IInv'
  <1>1. /\ tick' \in [Ticks -> TickType] /\ \A v \in Ticks : TickOK(tick[v])'
        /\ tick'[w] = t
        /\ \A v \in Ticks : v # w => tick'[v] = tick[v]
    BY TickUpdate DEF IInv
  <1>2. TypeOK'
    <2>1. clock' \in Times /\ sent' \in [Jobs \X Times -> Nat]
      BY TypeParts DEF IInv, Times
    <2> QED
      BY <1>1, <2>1 DEF TypeOK, TickOK, RowOK, WithJob, Times
  <1>3. SentOnce'
    BY DEF IInv, SentOnce, Times
  <1>4. OneSender'
    <2> SUFFICES ASSUME NEW v \in Ticks, tick'[v].pc = "send"
                 PROVE  /\ RunOf(v)' \in runs'
                        /\ sent'[RunOf(v)'] = 0
                        /\ \A u \in Ticks :
                             tick'[u].pc = "send" /\ RunOf(u)' = RunOf(v)' => u = v
      BY DEF OneSender
    <2>1. \A u \in Ticks : tick'[u].pc = "send" => u # w /\ RunOf(u)' = RunOf(u)
      BY <1>1 DEF RunOf
    <2>2. \A u \in Ticks : tick'[u].pc = "send" => tick[u].pc = "send"
      BY <1>1
    <2> QED
      BY <2>1, <2>2 DEF IInv, OneSender
  <1> QED
    BY <1>2, <1>3, <1>4 DEF IInv

-----------------------------------------------------------------------------
LEMMA InitInv == ASSUME Init PROVE IInv
  <1>1. 1 \in Times
    BY SchedulerAssumption DEF Times
  <1>2. TypeOK
    BY <1>1 DEF Init, TypeOK, NoTick, NoRow, TickType, RowType, Null, Times
  <1>3. SentOnce /\ OneSender
    BY DEF Init, SentOnce, OneSender, NoTick
  <1> QED
    BY <1>2, <1>3 DEF IInv

LEMMA ScheduledOK ==
  ASSUME TypeOK, NEW j \in Jobs, NEW s \in Times, table' = Scheduled(j, s)
  PROVE  table' \in [Jobs -> RowType] /\ \A k \in Jobs : RowOK(table'[k])
  <1>1. Cron[j][s] \in Nat /\ Cron[j][s] > s
    BY SchedulerAssumption
  <1>2. table \in [Jobs -> RowType] /\ \A k \in Jobs : RowOK(table[k])
    BY TypeParts
  <1>3. [table[j] EXCEPT !.last = s, !.next = Cron[j][s]] \in RowType
    BY <1>1, <1>2 DEF RowType
  <1>4. table' = [table EXCEPT ![j] = [table[j] EXCEPT !.last = s, !.next = Cron[j][s]]]
    BY <1>2 DEF Scheduled
  <1>5. RowOK([table[j] EXCEPT !.last = s, !.next = Cron[j][s]])
    BY <1>1, <1>2, <1>3 DEF RowOK, RowType
  <1> QED
    BY <1>2, <1>3, <1>4, <1>5

LEMMA NextInv == ASSUME IInv, [Next]_vars PROVE IInv'
  <1> USE DEF Times
  <1>t. /\ TypeOK /\ clock \in Times
        /\ table \in [Jobs -> RowType] /\ \A j \in Jobs : RowOK(table[j])
        /\ backlog \in Nat
        /\ tick \in [Ticks -> TickType] /\ \A w \in Ticks : TickOK(tick[w])
        /\ runs \subseteq Jobs \X Times
        /\ sent \in [Jobs \X Times -> Nat]
    BY TypeParts DEF IInv
  <1>0. CASE UNCHANGED vars
    BY <1>0 DEF vars, IInv, TypeOK, SentOnce, OneSender, RunOf
  <1>1. ASSUME NEW j \in Jobs, CreateJob(j) \/ DeleteJob(j)
        PROVE  IInv'
    <2>1. table' \in [Jobs -> RowType] /\ \A k \in Jobs : RowOK(table'[k])
      <3>1. CASE CreateJob(j)
        <4>1. RowOK([NoRow EXCEPT !.state = "live"])
          BY <1>t DEF NoRow, RowOK, RowType, Null
        <4> QED
          BY <3>1, <4>1, <1>t DEF CreateJob, RowOK
      <3>2. CASE DeleteJob(j)
        <4>1. RowOK([table[j] EXCEPT !.state = "deleted"])
          BY <1>t DEF RowOK, RowType
        <4>2. table' = [table EXCEPT ![j] = [table[j] EXCEPT !.state = "deleted"]]
          BY <3>2, <1>t DEF DeleteJob
        <4> QED
          BY <4>1, <4>2, <1>t DEF RowOK
      <3> QED
        BY <1>1, <3>1, <3>2
    <2>2. UNCHANGED <<clock, backlog, tick, runs, sent>>
      BY <1>1 DEF CreateJob, DeleteJob
    <2>3. TypeOK'
      BY <2>1, <2>2, <1>t DEF TypeOK, RowOK
    <2> QED
      BY <2>2, <2>3 DEF IInv, SentOnce, OneSender, RunOf
  <1>2. CASE Beat \/ Advance
    <2>1. UNCHANGED <<table, tick, runs, sent>>
      BY <1>2 DEF Beat, Advance
    <2>2. backlog' \in Nat /\ clock' \in Times /\ clock' >= clock
      BY <1>2, <1>t, SchedulerAssumption DEF Beat, Advance
    <2>3. TypeOK'
      BY <2>1, <2>2, <1>t DEF TypeOK
    <2> QED
      BY <2>1, <2>3 DEF IInv, SentOnce, OneSender, RunOf
  <1>3. ASSUME NEW w \in Ticks, StartTick(w)
        PROVE  IInv'
    <2> DEFINE t == [NoTick EXCEPT !.pc = "query", !.now = clock]
    <2>0. NoTick \in TickType
      BY NoTickOK DEF TickOK
    <2>n. clock \in 1 .. clock /\ clock \in Times
      BY <1>t, SchedulerAssumption
    <2>1. t \in TickType /\ t.pc = "query" /\ t.now = clock
      BY <2>0, <2>n DEF TickType
    <2>k. TickOK(t) /\ t.pc # "send"
      BY <2>1, <2>n DEF TickOK, WithJob
    <2>2. /\ tick' = [tick EXCEPT ![w] = t] /\ clock' = clock
          /\ runs' = runs /\ sent' = sent /\ table' = table /\ backlog' \in Nat
      BY <1>3, <1>t DEF StartTick
    <2> QED
      BY <2>k, <2>2, <1>t, QuietStep
  <1>4. ASSUME NEW w \in Ticks, QueryDueJobs(w)
        PROVE  IInv'
    <2> DEFINE t == [tick[w] EXCEPT !.pc = "next", !.cached = TRUE,
                                    !.todo = {j \in Jobs : Due(j, tick[w].now)}]
    <2>1. TickOK(t) /\ t.pc # "send"
      BY <1>4, <1>t DEF TickOK, TickType, QueryDueJobs, WithJob
    <2>2. \/ tick' = [tick EXCEPT ![w] = t]
          \/ tick' = [tick EXCEPT ![w] = NoTick]
      BY <1>4, <1>t DEF QueryDueJobs, Leave, TickType
    <2>3. UNCHANGED <<clock, table, backlog, runs, sent>>
      BY <1>4 DEF QueryDueJobs
    <2> QED
      BY <2>1, <2>2, <2>3, <1>t, NoTickOK, QuietStep
  <1>5. ASSUME NEW w \in Ticks, PickJob(w)
        PROVE  IInv'
    <2>1. UNCHANGED <<clock, table, backlog, runs, sent>> /\ tick[w].pc = "next"
      BY <1>5 DEF PickJob
    <2>2. \/ Leave(w)
          \/ \E j \in tick[w].todo :
               \/ tick' = [tick EXCEPT ![w].todo = @ \ {j}, ![w].cached = FALSE]
               \/ tick' = [tick EXCEPT ![w].todo = @ \ {j}, ![w].cur = j, ![w].pc = "advance"]
      BY <1>5 DEF PickJob
    <2>3. ASSUME NEW j \in tick[w].todo
          PROVE  /\ TickOK([tick[w] EXCEPT !.todo = @ \ {j}, !.cached = FALSE])
                 /\ [tick[w] EXCEPT !.todo = @ \ {j}, !.cached = FALSE].pc # "send"
                 /\ TickOK([tick[w] EXCEPT !.todo = @ \ {j}, !.cur = j, !.pc = "advance"])
                 /\ [tick[w] EXCEPT !.todo = @ \ {j}, !.cur = j, !.pc = "advance"].pc # "send"
      BY <2>1, <1>t DEF TickOK, TickType, WithJob
    <2>4. \E t : TickOK(t) /\ t.pc # "send" /\ tick' = [tick EXCEPT ![w] = t]
      <3>1. CASE Leave(w)
        BY <3>1, NoTickOK DEF Leave
      <3>2. ASSUME NEW j \in tick[w].todo,
                   tick' = [tick EXCEPT ![w].todo = @ \ {j}, ![w].cached = FALSE]
            PROVE  tick' = [tick EXCEPT ![w] = [tick[w] EXCEPT !.todo = @ \ {j}, !.cached = FALSE]]
        BY <3>2, <1>t DEF TickType
      <3>3. ASSUME NEW j \in tick[w].todo,
                   tick' = [tick EXCEPT ![w].todo = @ \ {j}, ![w].cur = j, ![w].pc = "advance"]
            PROVE  tick' = [tick EXCEPT ![w] =
                              [tick[w] EXCEPT !.todo = @ \ {j}, !.cur = j, !.pc = "advance"]]
        BY <3>3, <1>t DEF TickType
      <3> QED
        BY <2>2, <2>3, <3>1, <3>2, <3>3
    <2> QED
      BY <2>1, <2>4, <1>t, QuietStep
  <1>6. ASSUME NEW w \in Ticks, AdvanceJob(w)
        PROVE  IInv'
    <2>1. /\ tick[w].pc = "advance" /\ tick[w].pc \in WithJob /\ tick[w].pc # "idle"
          /\ UNCHANGED <<clock, backlog, runs, sent>>
      BY <1>6 DEF AdvanceJob, WithJob
    <2>2. Continue(w, "reload") \/ Leave(w) \/ FailOne(w)
      BY <1>6 DEF AdvanceJob
    <2>3. \E t : TickOK(t) /\ t.pc # "send" /\ tick' = [tick EXCEPT ![w] = t]
      <3>1. CASE Continue(w, "reload")
        <4>1. "reload" \in WithJob /\ "reload" # "send"
          BY DEF WithJob
        <4> QED
          BY <3>1, <4>1, <2>1, <1>t, ContinueOK
      <3> QED
        BY <2>1, <2>2, <3>1, <1>t, FailOneOK
    <2>4. table' = table \/ table' = Scheduled(tick[w].cur, tick[w].now)
      BY <1>6 DEF AdvanceJob
    <2>5. table' \in [Jobs -> RowType] /\ \A k \in Jobs : RowOK(table'[k])
      BY <2>1, <2>4, <1>t, RunType, ScheduledOK
    <2> QED
      BY <2>1, <2>3, <2>5, <1>t, QuietStep
  <1>7. ASSUME NEW w \in Ticks, ReloadJob(w)
        PROVE  IInv'
    <2>1. /\ tick[w].pc \in WithJob /\ tick[w].pc # "idle"
          /\ UNCHANGED <<clock, table, backlog, runs, sent>>
      BY <1>7 DEF ReloadJob, WithJob
    <2>2. Continue(w, "record") \/ Leave(w) \/ FailOne(w)
      BY <1>7 DEF ReloadJob
    <2>3. \E t : TickOK(t) /\ t.pc # "send" /\ tick' = [tick EXCEPT ![w] = t]
      <3>1. "record" \in WithJob /\ "record" # "send"
        BY DEF WithJob
      <3> QED
        BY <2>1, <2>2, <3>1, <1>t, ContinueOK, FailOneOK
    <2> QED
      BY <2>1, <2>3, <1>t, QuietStep
  <1>8. ASSUME NEW w \in Ticks, RecordRun(w)
        PROVE  IInv'
    <2>1. /\ tick[w].pc = "record" /\ tick[w].pc \in WithJob /\ tick[w].pc # "idle"
          /\ UNCHANGED <<clock, table, backlog, sent>>
      BY <1>8 DEF RecordRun, WithJob
    <2>2. RunOf(w) \in Jobs \X Times
      BY <2>1, <1>t, RunType
    <2>3. CASE Leave(w) \/ FailOne(w)
      <3>1. \E t : TickOK(t) /\ t.pc # "send" /\ tick' = [tick EXCEPT ![w] = t]
        BY <2>1, <2>3, <1>t, FailOneOK
      <3>2. runs \subseteq runs' /\ runs' \subseteq Jobs \X Times
        BY <1>8, <2>2, <1>t DEF RecordRun
      <3> QED
        BY <2>1, <3>1, <3>2, <1>t, QuietStep
    <2>4. CASE RunOf(w) \notin runs /\ runs' = runs \cup {RunOf(w)} /\ Continue(w, "send")
      <3>0. "send" \in WithJob
        BY DEF WithJob
      <3>1. PICK t : /\ TickOK(t) /\ t.pc = "send"
                     /\ t.now = tick[w].now /\ t.cur = tick[w].cur
                     /\ tick' = [tick EXCEPT ![w] = t]
        BY <2>1, <2>4, <3>0, <1>t, ContinueOK
      <3>2. /\ tick' \in [Ticks -> TickType] /\ \A v \in Ticks : TickOK(tick[v])'
            /\ tick'[w] = t
            /\ \A v \in Ticks : v # w => tick'[v] = tick[v]
        BY <2>1, <3>1, <1>t, TickUpdate
      <3>3. TypeOK'
        <4>1. runs' \subseteq Jobs \X Times
          BY <2>2, <2>4, <1>t
        <4> QED
          BY <2>1, <3>2, <4>1, <1>t DEF TypeOK, TickOK, RowOK, WithJob
      <3>4. SentOnce'
        BY <2>1, <2>4 DEF IInv, SentOnce
      <3>5. \A v \in Ticks : RunOf(v)' = RunOf(v)
        BY <3>1, <3>2 DEF RunOf
      <3>6. sent[RunOf(w)] = 0
        BY <2>2, <2>4, <1>t DEF IInv, SentOnce
      <3>7. \A v \in Ticks : tick[v].pc = "send" => RunOf(v) # RunOf(w)
        BY <2>4 DEF IInv, OneSender
      <3>8. OneSender'
        <4> SUFFICES ASSUME NEW v \in Ticks, tick'[v].pc = "send"
                     PROVE  /\ RunOf(v) \in runs'
                            /\ sent[RunOf(v)] = 0
                            /\ \A u \in Ticks :
                                 tick'[u].pc = "send" /\ RunOf(u) = RunOf(v) => u = v
          BY <2>1, <3>5 DEF OneSender
        <4>1. \A u \in Ticks : u = w \/ tick[u].pc = tick'[u].pc
          BY <3>2
        <4>2. CASE v = w
          BY <4>1, <4>2, <2>4, <3>6, <3>7
        <4>3. CASE v # w
          BY <4>1, <4>3, <2>4, <3>7 DEF IInv, OneSender
        <4> QED
          BY <4>2, <4>3
      <3> QED
        BY <3>3, <3>4, <3>8 DEF IInv
    <2> QED
      BY <1>8, <2>3, <2>4 DEF RecordRun
  <1>9. ASSUME NEW w \in Ticks, SendRun(w)
        PROVE  IInv'
    <2>1. /\ tick[w].pc = "send" /\ tick[w].pc \in WithJob /\ tick[w].pc # "idle"
          /\ UNCHANGED <<clock, table, backlog, runs>>
      BY <1>9 DEF SendRun, WithJob
    <2>2. RunOf(w) \in Jobs \X Times
      BY <2>1, <1>t, RunType
    <2>3. PICK t : TickOK(t) /\ t.pc # "send" /\ tick' = [tick EXCEPT ![w] = t]
      BY <1>9, <2>1, <1>t, FailOneOK DEF SendRun
    <2>4. CASE sent' = sent
      BY <2>1, <2>3, <2>4, <1>t, QuietStep
    <2>5. CASE Publish(w)
      <3>1. /\ tick' \in [Ticks -> TickType] /\ \A v \in Ticks : TickOK(tick[v])'
            /\ tick'[w] = t
            /\ \A v \in Ticks : v # w => tick'[v] = tick[v]
        BY <2>1, <2>3, <1>t, TickUpdate
      <3>2. /\ sent' = [sent EXCEPT ![RunOf(w)] = sent[RunOf(w)] + 1]
            /\ sent[RunOf(w)] = 0 /\ RunOf(w) \in runs
        BY <2>1, <2>5 DEF Publish, IInv, OneSender
      <3>3. sent' \in [Jobs \X Times -> Nat]
        BY <2>2, <3>2, <1>t
      <3>4. /\ sent'[RunOf(w)] = 1
            /\ \A id \in Jobs \X Times : id # RunOf(w) => sent'[id] = sent[id]
        BY <2>2, <3>2, <1>t
      <3>5. TypeOK'
        BY <2>1, <3>1, <3>3, <1>t DEF TypeOK, TickOK, RowOK, WithJob
      <3>6. SentOnce'
        BY <2>1, <2>2, <3>2, <3>4 DEF IInv, SentOnce
      <3>7. OneSender'
        <4> SUFFICES ASSUME NEW v \in Ticks, tick'[v].pc = "send"
                     PROVE  /\ RunOf(v)' \in runs'
                            /\ sent'[RunOf(v)'] = 0
                            /\ \A u \in Ticks :
                                 tick'[u].pc = "send" /\ RunOf(u)' = RunOf(v)' => u = v
          BY DEF OneSender
        <4>1. \A u \in Ticks :
                tick'[u].pc = "send" => u # w /\ tick[u].pc = "send" /\ RunOf(u)' = RunOf(u)
          BY <2>3, <3>1 DEF RunOf
        <4>2. RunOf(v) # RunOf(w) /\ RunOf(v) \in Jobs \X Times
          <5>1. tick[v].pc \in WithJob
            BY <4>1 DEF WithJob
          <5> QED
            BY <4>1, <5>1, <2>1, <1>t, RunType DEF IInv, OneSender
        <4> QED
          BY <4>1, <4>2, <3>4, <2>1 DEF IInv, OneSender
      <3> QED
        BY <3>5, <3>6, <3>7 DEF IInv
    <2> QED
      BY <1>9, <2>4, <2>5 DEF SendRun
  <1>10. ASSUME NEW w \in Ticks, Crash(w)
         PROVE  IInv'
    <2>1. tick' = [tick EXCEPT ![w] = NoTick] /\ UNCHANGED <<clock, table, backlog, runs, sent>>
      BY <1>10 DEF Crash, Leave
    <2>2. NoTick.pc # "send"
      BY NoTickOK
    <2> QED
      BY <2>1, <2>2, <1>t, NoTickOK, QuietStep
  <1> QED
    BY <1>0, <1>1, <1>2, <1>3, <1>4, <1>5, <1>6, <1>7, <1>8, <1>9, <1>10
       DEF Next, Running

-----------------------------------------------------------------------------
\* IInv is an invariant: the base of the theorems below.
THEOREM SchedulerInvariant == Spec => []IInv
  <1>1. Init => IInv
    BY InitInv
  <1>2. IInv /\ [Next]_vars => IInv'
    BY NextInv
  <1> QED
    BY <1>1, <1>2, PTL DEF Spec

\* The tables, the ticks and the messages keep their shape, and a job that
\* ran is due again only later.
THEOREM TypeCorrect == Spec => []TypeOK
  <1>1. IInv => TypeOK
    BY DEF IInv
  <1> QED
    BY <1>1, SchedulerInvariant, PTL

\* No scheduled task is ever sent twice, or without its row, by any number of
\* overlapping, failing and crashing ticks.
THEOREM NoRunIsSentTwice == Spec => []SentOnce
  <1>1. IInv => SentOnce
    BY DEF IInv
  <1> QED
    BY <1>1, SchedulerInvariant, PTL

-----------------------------------------------------------------------------
(***************************************************************************)
(* One tick at a time                                                      *)
(***************************************************************************)
\* The assumption of RunsAreSpaced: there is one worker for ticks.
InTurn == \A v, w \in Ticks : v = w

\* A job that ran before is due at second s.
Ready(j, s) == table[j].last # Null => table[j].next <= s

\* The runs of j are not later than the last one, which the row tells, and
\* the next occurrence after each earlier one was not later either.
RowSpaced(j) ==
  /\ table[j].state = "none" => table[j].last = Null
  /\ table[j].last # Null => table[j].next = Cron[j][table[j].last]
  /\ \A r \in Times : <<j, r>> \in runs =>
       /\ table[j].last \in Times
       /\ r <= table[j].last
       /\ r # table[j].last => Cron[j][r] <= table[j].last

\* A tick's jobs are due until it triggers them, each of them once; a run it
\* is about to record is the last one of its job.
TickSpaced(t) ==
  /\ \A j \in t.todo : Ready(j, t.now)
  /\ t.pc \in WithJob => t.cur \notin t.todo
  /\ t.pc = "advance" => Ready(t.cur, t.now)
  /\ t.pc \in {"reload", "record"} => table[t.cur].last = t.now

Spaced ==
  /\ \A j \in Jobs : RowSpaced(j)
  /\ \A w \in Ticks : TickSpaced(tick[w])
  /\ RunsAreSpaced

\* A step that leaves the rows and the runs alone needs a look at its tick only.
LEMMA SpacedTick ==
  ASSUME TypeOK, Spaced, NEW w \in Ticks, NEW t, TickSpaced(t),
         tick' = [tick EXCEPT ![w] = t], table' = table, runs' = runs
  PROVE  Spaced'
  <1>1. \A v \in Ticks : TickSpaced(tick'[v])
    BY TypeParts DEF Spaced
  <1>2. \A v \in Ticks : TickSpaced(tick[v])'
    BY <1>1 DEF TickSpaced, Ready
  <1>3. \A j \in Jobs : RowSpaced(j)'
    BY DEF Spaced, RowSpaced
  <1> QED
    BY <1>2, <1>3 DEF Spaced, RunsAreSpaced

LEMMA NoTickSpaced == TickSpaced(NoTick)
  BY DEF TickSpaced, NoTick, WithJob

\* The tick after a job that it gives up.
LEMMA NextOneSpaced ==
  ASSUME TypeOK, NEW w \in Ticks, TickSpaced(tick[w]), Leave(w) \/ NextOne(w) \/ FailOne(w)
  PROVE  \E t : /\ TickSpaced(t) /\ t.pc \notin WithJob
                /\ t.todo \subseteq tick[w].todo
                /\ t.todo # {} => t.now = tick[w].now
                /\ tick' = [tick EXCEPT ![w] = t]
  <1> DEFINE t == [tick[w] EXCEPT !.pc = "next", !.cur = NoJob, !.cached = FALSE]
  <1>1. tick \in [Ticks -> TickType]
    BY TypeParts
  <1>2. CASE Leave(w)
    BY <1>2, NoTickSpaced DEF Leave, NoTick, WithJob
  <1>3. CASE NextOne(w)
    <2>1. TickSpaced(t) /\ t.pc \notin WithJob /\ t.todo = tick[w].todo /\ t.now = tick[w].now
      BY <1>1 DEF TickSpaced, TickType, WithJob
    <2>2. tick' = [tick EXCEPT ![w] = t]
      BY <1>1, <1>3 DEF NextOne, TickType
    <2> QED
      BY <2>1, <2>2
  <1> QED
    BY <1>2, <1>3 DEF FailOne

\* A job that is triggered while it is ready keeps its runs apart.
LEMMA ScheduledSpaced ==
  ASSUME TypeOK, Spaced, NEW j \in Jobs, NEW s \in Times, Live(j), Ready(j, s),
         table' = Scheduled(j, s), runs' = runs
  PROVE  /\ \A k \in Jobs : RowSpaced(k)'
         /\ table'[j].last = s
         /\ \A k \in Jobs : k # j => table'[k] = table[k]
  <1> USE DEF Times
  <1>1. /\ table \in [Jobs -> RowType] /\ \A k \in Jobs : RowOK(table[k])
        /\ runs \subseteq Jobs \X Times
    BY TypeParts
  <1>2. table' = [table EXCEPT ![j] = [table[j] EXCEPT !.last = s, !.next = Cron[j][s]]]
    BY <1>1 DEF Scheduled
  <1>3. /\ table'[j].last = s /\ table'[j].next = Cron[j][s] /\ table'[j].state = "live"
        /\ \A k \in Jobs : k # j => table'[k] = table[k]
    BY <1>1, <1>2 DEF RowType, Live
  <1>4. ASSUME NEW k \in Jobs, k # j
        PROVE  RowSpaced(k)'
    BY <1>3, <1>4 DEF Spaced, RowSpaced
  <1>5. RowSpaced(j)'
    <2> SUFFICES ASSUME NEW r \in Times, <<j, r>> \in runs
                 PROVE  r <= s /\ (r # s => Cron[j][r] <= s)
      BY <1>3 DEF RowSpaced
    <2>1. /\ table[j].last \in Times /\ table[j].next = Cron[j][table[j].last]
          /\ r <= table[j].last /\ (r # table[j].last => Cron[j][r] <= table[j].last)
      BY SchedulerAssumption DEF Spaced, RowSpaced, Null
    <2>2. table[j].next <= s /\ table[j].next > table[j].last
      BY <1>1, <2>1, SchedulerAssumption DEF Ready, RowOK, Null
    <2>3. Cron[j][r] \in Nat /\ table[j].next \in Nat /\ r \in Nat /\ table[j].last \in Nat
      BY <1>1, <2>1, SchedulerAssumption DEF RowType
    <2> QED
      BY <2>1, <2>2, <2>3, SchedulerAssumption
  <1> QED
    BY <1>3, <1>4, <1>5

\* A step that changes of the rows only what does not count: their state, or
\* the next occurrence of a job that never ran.
LEMMA RowsKept ==
  ASSUME TypeOK, Spaced,
         \A k \in Jobs : /\ table'[k].last = table[k].last
                         /\ table[k].last # Null => table'[k].next = table[k].next
                         /\ table'[k].state # "none" \/ table'[k] = table[k],
         tick' = tick, runs' = runs
  PROVE  Spaced'
  <1>1. ASSUME NEW k \in Jobs
        PROVE  RowSpaced(k)'
    BY DEF Spaced, RowSpaced
  <1>2. ASSUME NEW w \in Ticks
        PROVE  TickSpaced(tick[w])'
    <2>1. \A k \in Jobs : \A s : Ready(k, s) => Ready(k, s)'
      BY DEF Ready
    <2>2. TickSpaced(tick[w]) /\ TickOK(tick[w]) /\ tick[w].todo \subseteq Jobs
      BY TypeParts DEF Spaced, TickType
    <2> QED
      BY <2>1, <2>2 DEF TickSpaced, TickOK, WithJob
  <1>3. RunsAreSpaced'
    BY DEF Spaced, RunsAreSpaced
  <1> QED
    BY <1>1, <1>2, <1>3 DEF Spaced

\* Recording the last run of a job keeps its runs apart.
LEMMA RecordedSpaced ==
  ASSUME TypeOK, Spaced, NEW j \in Jobs, NEW s \in Times, table[j].last = s,
         table' = table, runs' = runs \cup {<<j, s>>}
  PROVE  (\A k \in Jobs : RowSpaced(k)') /\ RunsAreSpaced'
  <1> USE DEF Times
  <1>1. ASSUME NEW k \in Jobs
        PROVE  RowSpaced(k)'
    BY DEF Spaced, RowSpaced
  <1>2. RunsAreSpaced'
    <2> SUFFICES ASSUME NEW k \in Jobs, NEW r \in Times, NEW q \in Times,
                        <<k, r>> \in runs', <<k, q>> \in runs', r < q
                 PROVE  Cron[k][r] <= q
      BY DEF RunsAreSpaced
    <2>1. CASE <<k, r>> \in runs /\ <<k, q>> \in runs
      BY <2>1 DEF Spaced, RunsAreSpaced
    <2>2. CASE <<k, q>> = <<j, s>>
      <3>1. <<k, r>> \in runs /\ r # s /\ k = j
        BY <2>2, SchedulerAssumption
      <3> QED
        BY <2>2, <3>1 DEF Spaced, RowSpaced
    <2>3. CASE <<k, r>> = <<j, s>> /\ <<k, q>> \in runs
      <3>1. q <= s
        BY <2>3 DEF Spaced, RowSpaced
      <3> QED
        BY <2>3, <3>1, SchedulerAssumption
    <2> QED
      BY <2>1, <2>2, <2>3
  <1> QED
    BY <1>1, <1>2

\* The trigger as a step of the only tick.
LEMMA TriggeredSpaced ==
  ASSUME InTurn, TypeOK, Spaced, NEW w \in Ticks, NEW t,
         NEW j \in Jobs, NEW s \in Times, Live(j), Ready(j, s),
         j \notin tick[w].todo, t.todo \subseteq tick[w].todo,
         t.todo # {} => t.now = tick[w].now,
         t.pc \notin WithJob \/ (t.pc = "reload" /\ t.cur = j /\ t.now = s),
         table' = Scheduled(j, s), runs' = runs, tick' = [tick EXCEPT ![w] = t]
  PROVE  Spaced'
  <1>1. /\ \A k \in Jobs : RowSpaced(k)'
        /\ table'[j].last = s
        /\ \A k \in Jobs : k # j => table'[k] = table[k]
    BY ScheduledSpaced
  <1>2. /\ tick'[w] = t /\ tick[w].todo \subseteq Jobs
        /\ \A k \in tick[w].todo : Ready(k, tick[w].now)
    BY TypeParts DEF TickType, Spaced, TickSpaced
  <1>3. \A k \in t.todo : Ready(k, t.now)'
    BY <1>1, <1>2 DEF Ready
  <1>4. TickSpaced(tick[w])'
    BY <1>1, <1>2, <1>3 DEF TickSpaced, WithJob, Ready
  <1>5. \A v \in Ticks : v = w
    BY DEF InTurn
  <1>6. RunsAreSpaced'
    BY DEF Spaced, RunsAreSpaced
  <1> QED
    BY <1>1, <1>4, <1>5, <1>6 DEF Spaced

LEMMA SpacedInit == ASSUME Init PROVE Spaced
  <1>1. \A j \in Jobs : RowSpaced(j)
    BY DEF Init, RowSpaced, NoRow
  <1>2. \A w \in Ticks : TickSpaced(tick[w])
    BY NoTickSpaced DEF Init
  <1> QED
    BY <1>1, <1>2 DEF Init, Spaced, RunsAreSpaced

LEMMA SpacedNext == ASSUME InTurn, TypeOK, Spaced, [Next]_vars PROVE Spaced'
  <1> USE DEF Times
  <1>t. /\ clock \in Times
        /\ table \in [Jobs -> RowType] /\ \A j \in Jobs : RowOK(table[j])
        /\ tick \in [Ticks -> TickType] /\ \A w \in Ticks : TickOK(tick[w])
        /\ runs \subseteq Jobs \X Times
        /\ \A w \in Ticks : TickSpaced(tick[w])
    BY TypeParts DEF Spaced
  <1>0. CASE UNCHANGED <<table, tick, runs>>
    BY <1>0 DEF Spaced, RowSpaced, TickSpaced, Ready, RunsAreSpaced
  <1>1. ASSUME NEW j \in Jobs, CreateJob(j) \/ DeleteJob(j)
        PROVE  Spaced'
    <2>1. CASE CreateJob(j)
      <3>1. /\ \A k \in Jobs \ {j} : table'[k] = table[k]
            /\ table'[j] = [NoRow EXCEPT !.state = "live"] /\ table[j].state = "none"
            /\ UNCHANGED <<tick, runs>>
        BY <2>1, <1>t DEF CreateJob
      <3>2. table'[j].last = Null /\ table[j].last = Null /\ table'[j].state # "none"
        BY <3>1 DEF Spaced, RowSpaced, NoRow
      <3> QED
        BY <3>1, <3>2, RowsKept
    <2>2. CASE DeleteJob(j)
      <3>1. table' = [table EXCEPT ![j] = [table[j] EXCEPT !.state = "deleted"]]
        BY <2>2, <1>t DEF DeleteJob
      <3>2. \A k \in Jobs : /\ table'[k].last = table[k].last
                            /\ table'[k].next = table[k].next
                            /\ table'[k].state # "none" \/ table'[k] = table[k]
        BY <3>1, <1>t DEF RowType
      <3>3. UNCHANGED <<tick, runs>>
        BY <2>2 DEF DeleteJob
      <3> QED
        BY <3>2, <3>3, RowsKept
    <2> QED
      BY <1>1, <2>1, <2>2
  <1>2. CASE Beat \/ Advance
    BY <1>0, <1>2 DEF Beat, Advance
  <1>3. ASSUME NEW w \in Ticks, StartTick(w)
        PROVE  Spaced'
    <2> DEFINE t == [NoTick EXCEPT !.pc = "query", !.now = clock]
    <2>1. TickSpaced(t)
      BY DEF TickSpaced, NoTick, WithJob
    <2> QED
      BY <1>3, <2>1, SpacedTick DEF StartTick
  <1>4. ASSUME NEW w \in Ticks, QueryDueJobs(w)
        PROVE  Spaced'
    <2> DEFINE t == [tick[w] EXCEPT !.pc = "next", !.cached = TRUE,
                                    !.todo = {j \in Jobs : Due(j, tick[w].now)}]
    <2>0. UNCHANGED <<table, runs>>
      BY <1>4 DEF QueryDueJobs
    <2>1. \A j \in Jobs : Due(j, tick[w].now) => Ready(j, tick[w].now)
      <3>1. \A j \in Jobs : table[j].last # Null => table[j].next # Null
        BY <1>t DEF RowOK, RowType, Null
      <3> QED
        BY <3>1 DEF Due, Ready
    <2>2. /\ t.pc = "next" /\ t.now = tick[w].now
          /\ t.todo = {j \in Jobs : Due(j, tick[w].now)}
      BY <1>t DEF TickType
    <2>3. TickSpaced(t)
      BY <2>1, <2>2 DEF TickSpaced, WithJob
    <2>4. tick' = [tick EXCEPT ![w] = t] \/ tick' = [tick EXCEPT ![w] = NoTick]
      BY <1>4, <1>t DEF QueryDueJobs, Leave, TickType
    <2> QED
      BY <2>0, <2>3, <2>4, NoTickSpaced, SpacedTick
  <1>5. ASSUME NEW w \in Ticks, PickJob(w)
        PROVE  Spaced'
    <2>0. UNCHANGED <<table, runs>> /\ tick[w].pc = "next"
      BY <1>5 DEF PickJob
    <2>1. \/ Leave(w)
          \/ \E j \in tick[w].todo :
               \/ tick' = [tick EXCEPT ![w].todo = @ \ {j}, ![w].cached = FALSE]
               \/ tick' = [tick EXCEPT ![w].todo = @ \ {j}, ![w].cur = j, ![w].pc = "advance"]
      BY <1>5 DEF PickJob
    <2>2. CASE Leave(w)
      BY <2>0, <2>2, NoTickSpaced, SpacedTick DEF Leave
    <2>3. ASSUME NEW j \in tick[w].todo,
                 tick' = [tick EXCEPT ![w].todo = @ \ {j}, ![w].cached = FALSE]
          PROVE  Spaced'
      <3> DEFINE t == [tick[w] EXCEPT !.todo = @ \ {j}, !.cached = FALSE]
      <3>1. t.pc = "next" /\ t.now = tick[w].now /\ t.todo \subseteq tick[w].todo
        BY <2>0, <1>t DEF TickType
      <3>2. TickSpaced(t)
        BY <3>1, <1>t DEF TickSpaced, WithJob
      <3>3. tick' = [tick EXCEPT ![w] = t]
        BY <2>3, <1>t DEF TickType
      <3> QED
        BY <2>0, <3>2, <3>3, SpacedTick
    <2>4. ASSUME NEW j \in tick[w].todo,
                 tick' = [tick EXCEPT ![w].todo = @ \ {j}, ![w].cur = j, ![w].pc = "advance"]
          PROVE  Spaced'
      <3> DEFINE t == [tick[w] EXCEPT !.todo = @ \ {j}, !.cur = j, !.pc = "advance"]
      <3>1. t.pc = "advance" /\ t.now = tick[w].now /\ t.todo = tick[w].todo \ {j} /\ t.cur = j
        BY <1>t DEF TickType
      <3>2. TickSpaced(t)
        BY <3>1, <1>t DEF TickSpaced
      <3>3. tick' = [tick EXCEPT ![w] = t]
        BY <2>4, <1>t DEF TickType
      <3> QED
        BY <2>0, <3>2, <3>3, SpacedTick
    <2> QED
      BY <2>1, <2>2, <2>3, <2>4
  <1>6. ASSUME NEW w \in Ticks, AdvanceJob(w)
        PROVE  Spaced'
    <2> DEFINE j == tick[w].cur
               s == tick[w].now
    <2>1. /\ tick[w].pc = "advance" /\ tick[w].pc \in WithJob /\ runs' = runs
          /\ j \in Jobs /\ s \in Times /\ Ready(j, s) /\ j \notin tick[w].todo
      BY <1>6, <1>t, RunType DEF AdvanceJob, WithJob, TickSpaced
    <2>2. CASE table' = table /\ (Leave(w) \/ FailOne(w))
      BY <2>1, <2>2, <1>t, NextOneSpaced, SpacedTick
    <2>3. ASSUME Live(j), table' = Scheduled(j, s), FailOne(w)
          PROVE  Spaced'
      <3>1. PICK t : /\ TickSpaced(t) /\ t.pc \notin WithJob
                     /\ t.todo \subseteq tick[w].todo
                     /\ t.todo # {} => t.now = tick[w].now
                     /\ tick' = [tick EXCEPT ![w] = t]
        BY <2>3, <1>t, NextOneSpaced
      <3> QED
        BY <2>1, <2>3, <3>1, TriggeredSpaced
    <2>4. ASSUME Live(j), table' = Scheduled(j, s), Continue(w, "reload")
          PROVE  Spaced'
      <3> DEFINE t == [tick[w] EXCEPT !.pc = "reload", !.cached = FALSE]
      <3>1. /\ t.pc = "reload" /\ t.todo = tick[w].todo /\ t.now = tick[w].now
            /\ t.cur = tick[w].cur
        BY <1>t DEF TickType
      <3>2. tick' = [tick EXCEPT ![w] = t]
        BY <2>4, <1>t DEF Continue, TickType
      <3> HIDE DEF t
      <3> QED
        BY <2>1, <2>4, <3>1, <3>2, TriggeredSpaced
    <2> QED
      BY <1>6, <2>2, <2>3, <2>4 DEF AdvanceJob
  <1>7. ASSUME NEW w \in Ticks, ReloadJob(w)
        PROVE  Spaced'
    <2>1. tick[w].pc = "reload" /\ UNCHANGED <<table, runs>>
      BY <1>7 DEF ReloadJob
    <2>2. CASE Continue(w, "record")
      <3> DEFINE t == [tick[w] EXCEPT !.pc = "record", !.cached = FALSE]
      <3>1. /\ t.pc = "record" /\ t.todo = tick[w].todo /\ t.now = tick[w].now
            /\ t.cur = tick[w].cur
        BY <1>t DEF TickType
      <3>2. tick' = [tick EXCEPT ![w] = t]
        BY <2>2, <1>t DEF Continue, TickType
      <3>3. TickSpaced(t)
        BY <2>1, <3>1, <1>t DEF TickSpaced, WithJob
      <3> QED
        BY <2>1, <3>2, <3>3, SpacedTick
    <2>3. CASE Leave(w) \/ FailOne(w)
      BY <2>1, <2>3, <1>t, NextOneSpaced, SpacedTick
    <2> QED
      BY <1>7, <2>2, <2>3 DEF ReloadJob
  <1>8. ASSUME NEW w \in Ticks, RecordRun(w)
        PROVE  Spaced'
    <2> DEFINE j == tick[w].cur
               s == tick[w].now
    <2>1. /\ tick[w].pc = "record" /\ tick[w].pc \in WithJob /\ table' = table
          /\ j \in Jobs /\ s \in Times /\ table[j].last = s
      BY <1>8, <1>t, RunType DEF RecordRun, WithJob, TickSpaced
    <2>2. (\A k \in Jobs : RowSpaced(k)') /\ RunsAreSpaced'
      <3>1. CASE runs' = runs
        BY <2>1, <3>1 DEF Spaced, RowSpaced, RunsAreSpaced
      <3>2. CASE runs' = runs \cup {<<j, s>>}
        BY <2>1, <3>2, RecordedSpaced
      <3> QED
        BY <1>8, <3>1, <3>2 DEF RecordRun, RunOf
    <2>3. PICK t : TickSpaced(t) /\ tick' = [tick EXCEPT ![w] = t]
      <3> DEFINE t == [tick[w] EXCEPT !.pc = "send", !.cached = FALSE]
      <3>1. TickSpaced(t)
        BY <2>1, <1>t DEF TickSpaced, TickType, WithJob
      <3>2. Continue(w, "send") => tick' = [tick EXCEPT ![w] = t]
        BY <1>t DEF Continue, TickType
      <3>3. Leave(w) \/ FailOne(w) => \E u : TickSpaced(u) /\ tick' = [tick EXCEPT ![w] = u]
        BY <1>t, NextOneSpaced
      <3> QED
        BY <1>8, <3>1, <3>2, <3>3 DEF RecordRun
    <2>4. \A v \in Ticks : TickSpaced(tick'[v])
      BY <2>3, <1>t
    <2>5. \A v \in Ticks : TickSpaced(tick[v])'
      BY <2>1, <2>4 DEF TickSpaced, Ready
    <2> QED
      BY <2>2, <2>5 DEF Spaced
  <1>9. ASSUME NEW w \in Ticks, SendRun(w) \/ Crash(w)
        PROVE  Spaced'
    <2>1. (Leave(w) \/ NextOne(w) \/ FailOne(w)) /\ UNCHANGED <<table, runs>>
      BY <1>9 DEF SendRun, Crash
    <2> QED
      BY <2>1, <1>t, NextOneSpaced, SpacedTick
  <1> QED
    BY <1>0, <1>1, <1>2, <1>3, <1>4, <1>5, <1>6, <1>7, <1>8, <1>9
       DEF Next, Running, vars

\* While one tick runs at a time, the next occurrence of a job lies between
\* any two of its runs, for every cron function and under every fault.
THEOREM RunsKeepApart == InTurn => (Spec => []RunsAreSpaced)
  <1> SUFFICES ASSUME InTurn PROVE Spec => []RunsAreSpaced
    OBVIOUS
  <1>1. Init => Spaced
    BY SpacedInit
  <1>2. TypeOK /\ Spaced /\ [Next]_vars => Spaced'
    BY SpacedNext
  <1>3. Spaced => RunsAreSpaced
    BY DEF Spaced
  <1> QED
    BY <1>1, <1>2, <1>3, TypeCorrect, PTL DEF Spec

-----------------------------------------------------------------------------
(***************************************************************************)
(* No trigger is lost                                                      *)
(***************************************************************************)
\* The assumption of TriggeredIsSent.
NoFaults == Faults = {}

Carrying == {"reload", "record", "send"}

\* A run with a row was sent or is about to be, unless its job is gone.
Backed ==
  \A j \in Jobs, s \in Times :
    Live(j) /\ <<j, s>> \in runs =>
      \/ sent[<<j, s>>] > 0
      \/ \E w \in Ticks : tick[w].pc = "send" /\ RunOf(w) = <<j, s>>

\* Nothing is known, and no tick works on, a job before it is created.
Unborn ==
  /\ \A j \in Jobs : table[j].state = "none" =>
       table[j].last = Null /\ \A s \in Times : <<j, s>> \notin runs
  /\ \A w \in Ticks :
       /\ \A j \in tick[w].todo : table[j].state # "none"
       /\ tick[w].pc \in WithJob => table[tick[w].cur].state # "none"

Delivered == Backed /\ Unborn /\ TriggeredIsSent

\* The step of one tick: whatever it was about to send is sent, still to be
\* sent, or in the hands of another one; and what it records it will send.
LEMMA HandedOn ==
  ASSUME TypeOK, Delivered, NEW w \in Ticks, table' = table,
         \A v \in Ticks : v # w => tick'[v] = tick[v],
         \A id \in Jobs \X Times : sent[id] > 0 => sent'[id] > 0,
         tick[w].pc = "send" /\ Live(tick[w].cur) => sent'[RunOf(w)] > 0,
         tick[w].pc \in Carrying /\ Live(tick[w].cur) =>
           \/ sent'[RunOf(w)] > 0
           \/ tick'[w].pc \in Carrying /\ RunOf(w)' = RunOf(w)
           \/ \E v \in Ticks : v # w /\ tick[v].pc = "send" /\ RunOf(v) = RunOf(w),
         \/ runs' = runs
         \/ runs' = runs \cup {RunOf(w)} /\ tick'[w].pc = "send" /\ RunOf(w)' = RunOf(w)
  PROVE  Backed' /\ TriggeredIsSent'
  <1>0. \A v \in Ticks : v # w => RunOf(v)' = RunOf(v)
    BY DEF RunOf
  <1>1. ASSUME NEW j \in Jobs, NEW s \in Times, Live(j)', <<j, s>> \in runs'
        PROVE  \/ sent'[<<j, s>>] > 0
               \/ \E v \in Ticks : tick'[v].pc = "send" /\ RunOf(v)' = <<j, s>>
    <2>1. CASE <<j, s>> \in runs
      <3>1. CASE sent[<<j, s>>] > 0
        BY <3>1
      <3>2. ASSUME NEW v \in Ticks, tick[v].pc = "send", RunOf(v) = <<j, s>>
            PROVE  \/ sent'[<<j, s>>] > 0
                   \/ \E u \in Ticks : tick'[u].pc = "send" /\ RunOf(u)' = <<j, s>>
        <4>1. CASE v = w
          BY <1>1, <3>2, <4>1 DEF RunOf, Live
        <4>2. CASE v # w
          BY <1>0, <3>2, <4>2
        <4> QED
          BY <4>1, <4>2
      <3> QED
        BY <1>1, <2>1, <3>1, <3>2 DEF Delivered, Backed, Live
    <2>2. CASE <<j, s>> \notin runs
      BY <1>1, <2>2
    <2> QED
      BY <2>1, <2>2
  <1>2. ASSUME NEW j \in Jobs, Live(j)', table'[j].last # Null
        PROVE  \/ sent'[<<j, table'[j].last>>] > 0
               \/ \E v \in Ticks : /\ RunOf(v)' = <<j, table'[j].last>>
                                   /\ tick'[v].pc \in Carrying
    <2> DEFINE s == table[j].last
    <2>0. s \in Times /\ Live(j)
      BY <1>2, TypeParts DEF RowType, Live
    <2>1. CASE sent[<<j, s>>] > 0
      BY <2>0, <2>1
    <2>2. ASSUME NEW v \in Ticks, RunOf(v) = <<j, s>>, tick[v].pc \in Carrying
          PROVE  \/ sent'[<<j, s>>] > 0
                 \/ \E u \in Ticks : RunOf(u)' = <<j, s>> /\ tick'[u].pc \in Carrying
      <3>1. CASE v = w
        <4>1. Live(tick[w].cur)
          BY <2>0, <2>2, <3>1 DEF RunOf
        <4> QED
          BY <1>0, <2>2, <3>1, <4>1 DEF Carrying
      <3>2. CASE v # w
        BY <1>0, <2>2, <3>2
      <3> QED
        BY <3>1, <3>2
    <2> QED
      BY <1>2, <2>0, <2>1, <2>2 DEF Delivered, TriggeredIsSent, Carrying
  <1> QED
    BY <1>1, <1>2 DEF Backed, TriggeredIsSent, Carrying

\* A tick that holds nothing keeps what others hold.
LEMMA IdleHands ==
  ASSUME TypeOK, Delivered, NEW w \in Ticks, NEW t, tick[w].pc \notin Carrying,
         tick' = [tick EXCEPT ![w] = t], UNCHANGED <<table, runs, sent>>
  PROVE  Backed' /\ TriggeredIsSent'
  <1>1. \A v \in Ticks : v # w => tick'[v] = tick[v]
    BY TypeParts
  <1>2. tick[w].pc # "send"
    BY DEF Carrying
  <1> QED
    BY <1>1, <1>2, HandedOn

\* The trigger of a job is the new run that its tick will send.
LEMMA Triggered ==
  ASSUME TypeOK, Delivered, NEW w \in Ticks, tick[w].pc = "advance",
         table' = Scheduled(tick[w].cur, tick[w].now), Continue(w, "reload"),
         UNCHANGED <<runs, sent>>
  PROVE  Backed' /\ TriggeredIsSent'
  <1> DEFINE j == tick[w].cur
             s == tick[w].now
             t == [tick[w] EXCEPT !.pc = "reload", !.cached = FALSE]
  <1>1. /\ tick \in [Ticks -> TickType] /\ tick[w].pc \in WithJob
        /\ table \in [Jobs -> RowType]
    BY TypeParts DEF WithJob
  <1>2. j \in Jobs /\ s \in Times
    BY <1>1, RunType
  <1>3. tick' = [tick EXCEPT ![w] = t] /\ t.pc = "reload" /\ t.cur = j /\ t.now = s
    BY <1>1 DEF Continue, TickType
  <1>4. /\ tick'[w] = t /\ \A v \in Ticks : v # w => tick'[v] = tick[v]
    BY <1>1, <1>3
  <1>5. \A v \in Ticks : RunOf(v)' = RunOf(v)
    BY <1>3, <1>4 DEF RunOf
  <1>6. \A v \in Ticks : v # w => tick'[v].pc = tick[v].pc
    BY <1>4
  <1>7. table' = [table EXCEPT ![j] = [table[j] EXCEPT !.last = s, !.next = Cron[j][s]]]
    BY <1>1 DEF Scheduled
  <1>8. /\ table'[j].last = s
        /\ \A k \in Jobs : Live(k)' <=> Live(k)
        /\ \A k \in Jobs : k # j => table'[k].last = table[k].last
    BY <1>1, <1>2, <1>7 DEF Live, RowType
  <1>9. Backed'
    BY <1>5, <1>6, <1>8 DEF Delivered, Backed
  <1>10. TriggeredIsSent'
    <2> SUFFICES ASSUME NEW k \in Jobs, Live(k), table'[k].last # Null
                 PROVE  \/ sent[<<k, table'[k].last>>] > 0
                        \/ \E v \in Ticks : /\ RunOf(v) = <<k, table'[k].last>>
                                            /\ tick'[v].pc \in Carrying
      BY <1>5, <1>8 DEF TriggeredIsSent, Carrying
    <2>1. CASE k = j
      BY <2>1, <1>3, <1>4, <1>8 DEF RunOf, Carrying
    <2>2. CASE k # j
      BY <2>2, <1>6, <1>8 DEF Delivered, TriggeredIsSent, Carrying
    <2> QED
      BY <2>1, <2>2
  <1> QED
    BY <1>9, <1>10

\* A step of one tick that takes no job from elsewhere.
LEMMA UnbornTick ==
  ASSUME TypeOK, Unborn, NEW w \in Ticks, NEW t,
         tick' = [tick EXCEPT ![w] = t],
         \A j \in Jobs : /\ table[j].state # "none" => table'[j].state # "none"
                         /\ table[j].state = "none" => table'[j] = table[j],
         \A j \in t.todo : j \in Jobs /\ table[j].state # "none",
         t.pc \in WithJob => t.cur \in Jobs /\ table[t.cur].state # "none",
         runs' = runs \/ (runs' = runs \cup {RunOf(w)} /\ tick[w].pc \in WithJob)
  PROVE  Unborn'
  <1>1. tick \in [Ticks -> TickType] /\ \A v \in Ticks : TickOK(tick[v])
    BY TypeParts
  <1>2. tick'[w] = t /\ \A v \in Ticks : v # w => tick'[v] = tick[v]
    BY <1>1
  <1>3. ASSUME NEW j \in Jobs, table'[j].state = "none"
        PROVE  table'[j].last = Null /\ \A s \in Times : <<j, s>> \notin runs'
    <2>1. table[j].state = "none" /\ table'[j] = table[j]
      BY <1>3
    <2>2. tick[w].pc \in WithJob => tick[w].cur # j
      BY <2>1 DEF Unborn
    <2> QED
      BY <2>1, <2>2 DEF Unborn, RunOf
  <1>4. ASSUME NEW v \in Ticks
        PROVE  /\ \A j \in tick'[v].todo : table'[j].state # "none"
               /\ tick'[v].pc \in WithJob => table'[tick'[v].cur].state # "none"
    <2>1. CASE v = w
      BY <1>2, <2>1
    <2>2. CASE v # w
      <3>1. tick[v].todo \subseteq Jobs /\ (tick[v].pc \in WithJob => tick[v].cur \in Jobs)
        BY <1>1 DEF TickOK, TickType
      <3> QED
        BY <1>2, <2>2, <3>1 DEF Unborn
    <2> QED
      BY <2>1, <2>2
  <1> QED
    BY <1>3, <1>4 DEF Unborn

\* The jobs of a tick exist, and still do when it leaves or goes on.
LEMMA UnbornMove ==
  ASSUME TypeOK, Unborn, NEW w \in Ticks, tick[w].pc \in WithJob,
         \/ Leave(w) \/ NextOne(w)
         \/ \E pc \in WithJob : Continue(w, pc),
         \A j \in Jobs : /\ table[j].state # "none" => table'[j].state # "none"
                         /\ table[j].state = "none" => table'[j] = table[j],
         runs' = runs \/ runs' = runs \cup {RunOf(w)}
  PROVE  Unborn'
  <1>1. tick \in [Ticks -> TickType] /\ tick[w].cur \in Jobs
    BY TypeParts, RunType
  <1>2. tick[w].todo \subseteq Jobs
    BY <1>1 DEF TickType
  <1>3. CASE Leave(w)
    <2>1. NoTick.todo = {} /\ NoTick.pc \notin WithJob
      BY DEF NoTick, WithJob
    <2> QED
      BY <1>3, <2>1, UnbornTick DEF Leave
  <1>4. CASE NextOne(w)
    <2> DEFINE t == [tick[w] EXCEPT !.pc = "next", !.cur = NoJob, !.cached = FALSE]
    <2>1. tick' = [tick EXCEPT ![w] = t] /\ t.todo = tick[w].todo /\ t.pc \notin WithJob
      BY <1>1, <1>4 DEF NextOne, TickType, WithJob
    <2>2. \A j \in t.todo : j \in Jobs /\ table[j].state # "none"
      BY <1>2, <2>1 DEF Unborn
    <2> HIDE DEF t
    <2> QED
      BY <2>1, <2>2, UnbornTick
  <1>5. ASSUME NEW pc \in WithJob, Continue(w, pc)
        PROVE  Unborn'
    <2> DEFINE t == [tick[w] EXCEPT !.pc = pc, !.cached = FALSE]
    <2>0. tick' = [tick EXCEPT ![w] = t]
      BY <1>1, <1>5 DEF Continue, TickType
    <2>1. t.todo = tick[w].todo /\ t.cur = tick[w].cur
      BY <1>1 DEF TickType
    <2>2. \A j \in t.todo : j \in Jobs /\ table[j].state # "none"
      BY <1>2, <2>1 DEF Unborn
    <2>3. t.cur \in Jobs /\ table[t.cur].state # "none"
      BY <1>1, <2>1 DEF Unborn
    <2> HIDE DEF t
    <2> QED
      BY <2>0, <2>1, <2>2, <2>3, UnbornTick
  <1> QED
    BY <1>3, <1>4, <1>5

LEMMA DeliveredInit == ASSUME Init PROVE Delivered
  BY DEF Init, Delivered, Backed, Unborn, TriggeredIsSent, NoRow, NoTick, WithJob, Live

LEMMA DeliveredNext == ASSUME NoFaults, TypeOK, Delivered, [Next]_vars PROVE Delivered'
  <1>t. /\ table \in [Jobs -> RowType]
        /\ tick \in [Ticks -> TickType] /\ \A w \in Ticks : TickOK(tick[w])
        /\ runs \subseteq Jobs \X Times
        /\ sent \in [Jobs \X Times -> Nat]
        /\ Unborn
    BY TypeParts DEF Delivered
  <1>0. CASE UNCHANGED <<table, tick, runs, sent>>
    BY <1>0 DEF Delivered, Backed, Unborn, TriggeredIsSent, Live, RunOf
  <1>1. ASSUME NEW j \in Jobs, CreateJob(j) \/ DeleteJob(j)
        PROVE  Delivered'
    <2>1. /\ \A k \in Jobs : Live(k)' /\ k # j => Live(k)
          /\ \A k \in Jobs : k # j => table'[k] = table[k]
          /\ UNCHANGED <<tick, runs, sent>>
      BY <1>1, <1>t DEF CreateJob, DeleteJob, Live
    <2>2. CASE CreateJob(j)
      <3>1. /\ table'[j].last = Null /\ table'[j].state = "live"
            /\ \A s \in Times : <<j, s>> \notin runs
        BY <2>2, <1>t DEF CreateJob, NoRow, Unborn
      <3>2. Unborn'
        BY <2>1, <3>1, <1>t DEF Unborn, TickOK, TickType
      <3>3. Backed' /\ TriggeredIsSent'
        BY <2>1, <3>1 DEF Delivered, Backed, TriggeredIsSent, Live, RunOf
      <3> QED
        BY <3>2, <3>3 DEF Delivered
    <2>3. CASE DeleteJob(j)
      <3>1. table'[j].state = "deleted"
        BY <2>3, <1>t DEF DeleteJob, RowType
      <3>2. Unborn'
        BY <2>1, <3>1, <1>t DEF Unborn, TickOK, TickType
      <3>3. Backed' /\ TriggeredIsSent'
        BY <2>1, <3>1 DEF Delivered, Backed, TriggeredIsSent, Live, RunOf
      <3> QED
        BY <3>2, <3>3 DEF Delivered
    <2> QED
      BY <1>1, <2>2, <2>3
  <1>2. CASE Beat \/ Advance
    BY <1>0, <1>2 DEF Beat, Advance
  <1>3. ASSUME NEW w \in Ticks, StartTick(w) \/ QueryDueJobs(w) \/ PickJob(w)
        PROVE  Delivered'
    <2>1. /\ tick[w].pc \in {"idle", "query", "next"} /\ tick[w].pc \notin Carrying
          /\ UNCHANGED <<table, runs, sent>>
      BY <1>3 DEF StartTick, QueryDueJobs, PickJob, Carrying
    <2>2. \E t : /\ tick' = [tick EXCEPT ![w] = t]
                 /\ \A j \in t.todo : j \in Jobs /\ table[j].state # "none"
                 /\ t.pc \in WithJob => t.cur \in Jobs /\ table[t.cur].state # "none"
      <3>1. CASE Leave(w)
        <4>1. NoTick.todo = {} /\ NoTick.pc \notin WithJob
          BY DEF NoTick, WithJob
        <4> QED
          BY <3>1, <4>1 DEF Leave
      <3>2. CASE StartTick(w)
        <4>1. [NoTick EXCEPT !.pc = "query", !.now = clock].todo = {}
              /\ [NoTick EXCEPT !.pc = "query", !.now = clock].pc \notin WithJob
          BY DEF NoTick, WithJob
        <4> QED
          BY <3>2, <4>1 DEF StartTick
      <3>3. CASE QueryDueJobs(w) /\ ~Leave(w)
        <4> DEFINE t == [tick[w] EXCEPT !.pc = "next", !.cached = TRUE,
                                        !.todo = {j \in Jobs : Due(j, tick[w].now)}]
        <4>1. tick' = [tick EXCEPT ![w] = t]
          BY <3>3, <1>t DEF QueryDueJobs, TickType
        <4>2. t.todo = {j \in Jobs : Due(j, tick[w].now)} /\ t.pc \notin WithJob
          BY <1>t DEF TickType, WithJob
        <4> HIDE DEF t
        <4> QED
          BY <4>1, <4>2 DEF Due, Live
      <3>4. ASSUME NEW j \in tick[w].todo,
                   tick' = [tick EXCEPT ![w].todo = @ \ {j}, ![w].cached = FALSE],
                   tick[w].pc = "next"
            PROVE  \E t : /\ tick' = [tick EXCEPT ![w] = t]
                          /\ t.todo \subseteq tick[w].todo /\ t.pc \notin WithJob
        <4> DEFINE t == [tick[w] EXCEPT !.todo = @ \ {j}, !.cached = FALSE]
        <4>1. /\ tick' = [tick EXCEPT ![w] = t]
              /\ t.todo \subseteq tick[w].todo /\ t.pc \notin WithJob
          BY <3>4, <1>t DEF TickType, WithJob
        <4> QED
          BY <4>1
      <3>5. ASSUME NEW j \in tick[w].todo,
                   tick' = [tick EXCEPT ![w].todo = @ \ {j}, ![w].cur = j, ![w].pc = "advance"]
            PROVE  \E t : /\ tick' = [tick EXCEPT ![w] = t]
                          /\ t.todo \subseteq tick[w].todo /\ t.cur = j
        <4> DEFINE t == [tick[w] EXCEPT !.todo = @ \ {j}, !.cur = j, !.pc = "advance"]
        <4>1. /\ tick' = [tick EXCEPT ![w] = t]
              /\ t.todo \subseteq tick[w].todo /\ t.cur = j
          BY <3>5, <1>t DEF TickType
        <4> QED
          BY <4>1
      <3>6. \A j \in tick[w].todo : j \in Jobs /\ table[j].state # "none"
        BY <1>t DEF TickType, Unborn
      <3>7. CASE PickJob(w) /\ ~Leave(w)
        <4>1. PICK j \in tick[w].todo :
                \/ tick' = [tick EXCEPT ![w].todo = @ \ {j}, ![w].cached = FALSE]
                \/ tick' = [tick EXCEPT ![w].todo = @ \ {j}, ![w].cur = j, ![w].pc = "advance"]
          BY <3>7 DEF PickJob
        <4>2. tick[w].pc = "next"
          BY <3>7 DEF PickJob
        <4>3. CASE tick' = [tick EXCEPT ![w].todo = @ \ {j}, ![w].cached = FALSE]
          <5>1. PICK t : /\ tick' = [tick EXCEPT ![w] = t]
                         /\ t.todo \subseteq tick[w].todo /\ t.pc \notin WithJob
            BY <3>4, <4>2, <4>3
          <5> QED
            BY <5>1, <3>6
        <4>4. CASE tick' = [tick EXCEPT ![w].todo = @ \ {j}, ![w].cur = j, ![w].pc = "advance"]
          <5>1. PICK t : /\ tick' = [tick EXCEPT ![w] = t]
                         /\ t.todo \subseteq tick[w].todo /\ t.cur = j
            BY <3>5, <4>4
          <5> QED
            BY <5>1, <3>6
        <4> QED
          BY <4>1, <4>3, <4>4
      <3> QED
        BY <1>3, <3>1, <3>2, <3>3, <3>7
    <2> QED
      BY <2>1, <2>2, <1>t, IdleHands, UnbornTick DEF Delivered
  <1>4. ASSUME NEW w \in Ticks, AdvanceJob(w)
        PROVE  Delivered'
    <2>1. /\ tick[w].pc = "advance" /\ tick[w].pc \in WithJob /\ tick[w].pc \notin Carrying
          /\ UNCHANGED <<runs, sent>> /\ "reload" \in WithJob
      BY <1>4 DEF AdvanceJob, WithJob, Carrying
    <2>2. CASE Leave(w) /\ table' = table
      BY <2>1, <2>2, <1>t, UnbornMove, IdleHands DEF Delivered, Leave
    <2>3. CASE /\ Live(tick[w].cur) /\ Continue(w, "reload")
               /\ table' = Scheduled(tick[w].cur, tick[w].now)
      <3>1. tick[w].cur \in Jobs
        BY <2>1, <1>t DEF TickOK
      <3>2. \A j \in Jobs : /\ table[j].state # "none" => table'[j].state # "none"
                            /\ table[j].state = "none" => table'[j] = table[j]
        BY <2>3, <3>1, <1>t DEF Scheduled, Live, RowType
      <3> QED
        BY <2>1, <2>3, <3>2, <1>t, UnbornMove, Triggered DEF Delivered
    <2> QED
      BY <1>4, <2>2, <2>3 DEF AdvanceJob, NoFaults
  <1>5. ASSUME NEW w \in Ticks, ReloadJob(w)
        PROVE  Delivered'
    <2>1. /\ tick[w].pc = "reload" /\ tick[w].pc \in WithJob
          /\ UNCHANGED <<table, runs, sent>>
      BY <1>5 DEF ReloadJob, WithJob
    <2>2. \/ Live(tick[w].cur) /\ Continue(w, "record")
          \/ ~Live(tick[w].cur) /\ Leave(w)
      BY <1>5 DEF ReloadJob, NoFaults
    <2>3. Unborn'
      BY <2>1, <2>2, <1>t, UnbornMove DEF WithJob
    <2>4. /\ \A v \in Ticks : v # w => tick'[v] = tick[v]
          /\ Live(tick[w].cur) => tick'[w].pc \in Carrying /\ RunOf(w)' = RunOf(w)
      BY <2>2, <1>t DEF Continue, Leave, TickType, RunOf, Carrying
    <2> QED
      BY <2>1, <2>3, <2>4, HandedOn DEF Delivered
  <1>6. ASSUME NEW w \in Ticks, RecordRun(w)
        PROVE  Delivered'
    <2>1. /\ tick[w].pc = "record" /\ tick[w].pc \in WithJob
          /\ UNCHANGED <<table, sent>>
      BY <1>6 DEF RecordRun, WithJob
    <2>2. \/ RunOf(w) \notin runs /\ runs' = runs \cup {RunOf(w)} /\ Continue(w, "send")
          \/ RunOf(w) \in runs /\ runs' = runs /\ Leave(w)
      BY <1>6 DEF RecordRun, NoFaults
    <2>3. Unborn'
      BY <2>1, <2>2, <1>t, UnbornMove DEF WithJob
    <2>4. \A v \in Ticks : v # w => tick'[v] = tick[v]
      BY <2>2, <1>t DEF Continue, Leave
    <2>5. CASE runs' = runs \cup {RunOf(w)} /\ Continue(w, "send")
      <3>1. tick'[w].pc = "send" /\ RunOf(w)' = RunOf(w)
        BY <2>5, <1>t DEF Continue, TickType, RunOf
      <3> QED
        BY <2>1, <2>3, <2>4, <2>5, <3>1, HandedOn DEF Delivered, Carrying
    <2>6. CASE RunOf(w) \in runs /\ runs' = runs
      <3>1. RunOf(w) \in Jobs \X Times /\ tick[w].cur \in Jobs /\ tick[w].now \in Times
        BY <2>1, RunType
      <3>2. Live(tick[w].cur) =>
              \/ sent[RunOf(w)] > 0
              \/ \E v \in Ticks : v # w /\ tick[v].pc = "send" /\ RunOf(v) = RunOf(w)
        <4>1. RunOf(w) = <<tick[w].cur, tick[w].now>>
          BY DEF RunOf
        <4> HIDE DEF RunOf
        <4> QED
          BY <2>1, <2>6, <3>1, <4>1 DEF Delivered, Backed
      <3> QED
        BY <2>1, <2>3, <2>4, <2>6, <3>2, HandedOn DEF Delivered
    <2> QED
      BY <2>2, <2>5, <2>6
  <1>7. ASSUME NEW w \in Ticks, SendRun(w)
        PROVE  Delivered'
    <2>1. /\ tick[w].pc = "send" /\ tick[w].pc \in WithJob
          /\ UNCHANGED <<table, runs>>
      BY <1>7 DEF SendRun, WithJob
    <2>2. \/ Live(tick[w].cur) /\ Publish(w) /\ NextOne(w)
          \/ ~Live(tick[w].cur) /\ sent' = sent /\ Leave(w)
      BY <1>7 DEF SendRun, NoFaults
    <2>3. Unborn'
      BY <2>1, <2>2, <1>t, UnbornMove
    <2>4. \A v \in Ticks : v # w => tick'[v] = tick[v]
      BY <2>2, <1>t DEF NextOne, Leave
    <2>5. RunOf(w) \in Jobs \X Times
      BY <2>1, RunType
    <2>6. /\ \A id \in Jobs \X Times : sent[id] > 0 => sent'[id] > 0
          /\ Live(tick[w].cur) => sent'[RunOf(w)] > 0
      BY <2>2, <2>5, <1>t DEF Publish
    <2> QED
      BY <2>1, <2>3, <2>4, <2>6, HandedOn DEF Delivered
  <1> QED
    BY <1>0, <1>1, <1>2, <1>3, <1>4, <1>5, <1>6, <1>7
       DEF Next, Running, Crash, NoFaults, vars

\* Without faults the run that last_run_at names is sent or about to be,
\* though any number of ticks overlap and jobs are deleted in the middle.
THEOREM NoTriggerIsLost == NoFaults => (Spec => []TriggeredIsSent)
  <1> SUFFICES ASSUME NoFaults PROVE Spec => []TriggeredIsSent
    OBVIOUS
  <1>1. Init => Delivered
    BY DeliveredInit
  <1>2. TypeOK /\ Delivered /\ [Next]_vars => Delivered'
    BY DeliveredNext
  <1>3. Delivered => TriggeredIsSent
    BY DEF Delivered
  <1> QED
    BY <1>1, <1>2, <1>3, TypeCorrect, PTL DEF Spec
=============================================================================
