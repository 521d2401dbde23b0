--------------------------- MODULE TaskCleanProofs ---------------------------
(***************************************************************************)
(* What TaskPipeline guarantees when no message is duplicated and every    *)
(* reported error is one, for every set of tasks, users and workers and    *)
(* with every other fault: database, broker, browser and model failures    *)
(* and crashes of any process at any step.                                 *)
(*                                                                         *)
(* Then a task is carried by one queue, handler or submission at a time    *)
(* (OneCarrier), and what its row says fits where it is carried            *)
(* (RowFits).  That makes a row move like the abstract TaskLifecycle: the  *)
(* refinement is proved here, step by step.                                *)
(***************************************************************************)
EXTENDS TaskPipelineProofs

\* The faults that make two handlers work on one task are left out.
NoDuplicates == "ambiguous" \notin Faults /\ "redeliver" \notin Faults

-----------------------------------------------------------------------------
(***************************************************************************)
(* The inductive invariant.                                                *)
(***************************************************************************)
\* OneCarrier, for the queues and handlers of t: the submission of t is over
\* when there are any (WorkFollowsSubmission).
OnePlace(t) ==
  /\ \A k \in Kinds : queue[k][t] <= 1
  /\ \A k, l \in Kinds : queue[k][t] > 0 /\ queue[l][t] > 0 => k = l
  /\ \A v, w \in Workers : job[v].task = t /\ job[w].task = t => v = w
  /\ \A k \in Kinds, w \in Workers : ~(queue[k][t] > 0 /\ job[w].task = t)

\* The status alone decides the rest of a row that nobody works on twice.
Shaped(r) ==
  /\ r.data <=> r.status = "SUCCESS"
  /\ r.err => r.status = "FAILED"
  /\ r.status \in {"absent", "PENDING"} => ~r.started
  /\ r.status \in {"IN_PROGRESS", "SUCCESS"} => r.started

\* The status of the row of a task whose handler stands at pc.
Fits(pc, status) ==
  /\ pc \in {"create", "blockcreate"} => status = "absent"
  /\ pc \in {"lookup", "block", "mark"} => status \in {"absent", "PENDING"}
  /\ pc = "failing" => status \notin Final
  /\ pc \in {"intent", "sendfetch", "browse", "sendcontent", "fetchfailed",
             "sources", "extract", "persist", "nodata"}
       => status \in {"absent", "IN_PROGRESS"}

\* The status of the row of a task with a message in the queue of kind k.
Waits(k, status) ==
  status \in {"absent", IF k = "request" THEN "PENDING" ELSE "IN_PROGRESS"}

RowFits(t) ==
  /\ Shaped(row[t])
  /\ submit[t].pc = "enqueue" => row[t].status \in {"absent", "PENDING"}
  /\ \A k \in Kinds : queue[k][t] > 0 => Waits(k, row[t].status)
  /\ \A w \in Workers : job[w].task = t => Fits(job[w].pc, row[t].status)

CleanInv == IInv /\ \A t \in Tasks : OnePlace(t) /\ RowFits(t)

-----------------------------------------------------------------------------
(***************************************************************************)
(* How a row moves.                                                        *)
(***************************************************************************)
\* The steps of TaskLifecycle on one row, or none.
Moves(old, new) ==
  \/ new.status = old.status /\ (old.completed => new.completed)
  \/ old.status = "absent" /\ new.status \in {"PENDING", "FAILED"}
  \/ old.status = "PENDING" /\ new.status = "IN_PROGRESS"
  \/ old.status = "IN_PROGRESS" /\ new.status = "SUCCESS" /\ new.completed
  \/ /\ old.status \in {"PENDING", "IN_PROGRESS"}
     /\ new.status = "FAILED" /\ new.completed

LEMMA RowMoves ==
  ASSUME NEW r \in RowType, Shaped(r)
  PROVE  /\ r.status \in {"absent", "PENDING"} =>
              /\ Shaped(UpdateStatus(r, "IN_PROGRESS"))
              /\ Moves(r, UpdateStatus(r, "IN_PROGRESS"))
              /\ UpdateStatus(r, "IN_PROGRESS").status \in {"absent", "IN_PROGRESS"}
         /\ r.status \notin Final =>
              /\ Shaped(UpdateStatus(r, "FAILED"))
              /\ Moves(r, UpdateStatus(r, "FAILED"))
         /\ r.status \in {"absent", "IN_PROGRESS"} =>
              /\ Shaped(UpdateSources(r)) /\ Moves(r, UpdateSources(r))
              /\ UpdateSources(r).status = r.status
              /\ Shaped(PersistResult(r)) /\ Moves(r, PersistResult(r))
         /\ \A s \in {"PENDING", "FAILED"} : \A o : r.status = "absent" =>
              Shaped(NewRow(s, o)) /\ Moves(r, NewRow(s, o)) /\ NewRow(s, o).status = s
  <1>1. ASSUME r.status \in {"absent", "PENDING"}
        PROVE  /\ Shaped(UpdateStatus(r, "IN_PROGRESS"))
               /\ Moves(r, UpdateStatus(r, "IN_PROGRESS"))
               /\ UpdateStatus(r, "IN_PROGRESS").status \in {"absent", "IN_PROGRESS"}
    BY <1>1 DEF RowType, UpdateStatus, Shaped, Moves
  <1>2. ASSUME r.status \notin Final
        PROVE  Shaped(UpdateStatus(r, "FAILED")) /\ Moves(r, UpdateStatus(r, "FAILED"))
    BY <1>2 DEF RowType, ApiStatuses, UpdateStatus, Shaped, Moves, Final
  <1>3. ASSUME r.status \in {"absent", "IN_PROGRESS"}
        PROVE  /\ Shaped(UpdateSources(r)) /\ Moves(r, UpdateSources(r))
               /\ UpdateSources(r).status = r.status
               /\ Shaped(PersistResult(r)) /\ Moves(r, PersistResult(r))
    BY <1>3 DEF RowType, UpdateSources, PersistResult, Shaped, Moves
  <1>4. ASSUME NEW s \in {"PENDING", "FAILED"}, NEW o, r.status = "absent"
        PROVE  Shaped(NewRow(s, o)) /\ Moves(r, NewRow(s, o)) /\ NewRow(s, o).status = s
    BY <1>4 DEF NewRow, Absent, Shaped, Moves
  <1> QED
    BY <1>1, <1>2, <1>3, <1>4

-----------------------------------------------------------------------------
(***************************************************************************)
(* What a step of a handler does, whichever it is: it keeps its task in    *)
(* hands at a step that fits the row, or gives it up, or hands it over.    *)
(***************************************************************************)
CleanEffect(w, pc, p, q) ==
  LET t == job[w].task IN
  /\ Step(w, pc, p, q)
  /\ UNCHANGED submit
  /\ Shaped(q) /\ Moves(row[t], q)
  /\ \/ UNCHANGED queue /\ (pc \in Running => Fits(pc, q.status))
     \/ \E k \in {"fetch", "content"} : Send(k, t) /\ pc = "end" /\ Waits(k, q.status)

HasCleanEffect(w) ==
  \E pc \in Targets, p \in BOOLEAN, q \in RowType : CleanEffect(w, pc, p, q)

\* The row and the place of a task that a worker carries.
LEMMA CarriedTask ==
  ASSUME CleanInv, NEW w \in Workers, job[w].pc # "idle"
  PROVE  LET t == job[w].task IN
         /\ t \in Tasks /\ row[t] \in RowType /\ job[w].poisoned \in BOOLEAN
         /\ Shaped(row[t]) /\ Moves(row[t], row[t])
         /\ Fits(job[w].pc, row[t].status)
         /\ row = [row EXCEPT ![t] = row[t]]
  <1>1. job[w].task \in Tasks
    BY BusyHasTask DEF CleanInv, IInv
  <1>2. row[job[w].task] \in RowType /\ job[w].poisoned \in BOOLEAN
    BY <1>1 DEF CleanInv, IInv, TypeOK, JobType
  <1>3. RowFits(job[w].task)
    BY <1>1 DEF CleanInv
  <1>4. row = [row EXCEPT ![job[w].task] = row[job[w].task]]
    BY <1>1 DEF CleanInv, IInv, TypeOK
  <1> QED
    BY <1>1, <1>2, <1>3, <1>4 DEF RowFits, Moves

\* A step that touches neither the table nor a queue.
LEMMA CleanPlain ==
  ASSUME CleanInv, NEW w \in Workers, job[w].pc # "idle",
         NEW pc \in Targets, NEW p \in BOOLEAN,
         job' = [job EXCEPT ![w] = Moved(w, pc, p)], UNCHANGED <<row, submit, queue>>,
         pc \in Running => Fits(pc, row[job[w].task].status)
  PROVE  HasCleanEffect(w)
  <1>1. CleanEffect(w, pc, p, row[job[w].task])
    BY CarriedTask DEF CleanEffect, Step
  <1> QED
    BY <1>1, CarriedTask DEF HasCleanEffect

\* A transaction, which has its effect exactly when it reports none.
LEMMA CleanTransaction ==
  ASSUME CleanInv, NoDuplicates, NEW w \in Workers, job[w].pc # "idle",
         NEW r \in RowType, NEW ok \in Targets, NEW bad \in Targets,
         Transaction(w, r, ok, bad), UNCHANGED <<submit, queue, copies>>,
         Shaped(r), Moves(row[job[w].task], r),
         ok \in Running => Fits(ok, r.status),
         bad \in Running => Fits(bad, row[job[w].task].status)
  PROVE  HasCleanEffect(w)
  <1> DEFINE t == job[w].task
  <1>1. CASE row' = [row EXCEPT ![t] = r] /\ Goto(w, ok)
    <2>1. CleanEffect(w, ok, job[w].poisoned, r)
      BY <1>1 DEF CleanEffect, Step, Goto
    <2> QED
      BY <2>1, CarriedTask DEF HasCleanEffect
  <1>2. CASE row' = row /\ \E p \in BOOLEAN : job' = [job EXCEPT ![w] = Moved(w, bad, p)]
    BY <1>2, CleanPlain
  <1> QED
    BY <1>1, <1>2 DEF Transaction, NoDuplicates

\* A message to the next queue, which is sent exactly when no error is reported.
LEMMA CleanHandOver ==
  ASSUME CleanInv, NoDuplicates, NEW w \in Workers, job[w].pc # "idle",
         NEW k \in {"fetch", "content"}, NEW bad \in Running,
         HandOver(w, k, bad), UNCHANGED <<row, submit, copies, lost>>,
         Fits(bad, row[job[w].task].status), Waits(k, row[job[w].task].status)
  PROVE  HasCleanEffect(w)
  <1> DEFINE t == job[w].task
  <1>1. CASE Send(k, t) /\ Goto(w, "end")
    <2>1. CleanEffect(w, "end", job[w].poisoned, row[t])
      BY <1>1, CarriedTask DEF CleanEffect, Step, Goto
    <2> QED
      BY <2>1, CarriedTask DEF HasCleanEffect, Targets
  <1>2. CASE Goto(w, bad) /\ UNCHANGED queue
    <2>1. bad \in Targets /\ job' = [job EXCEPT ![w] = Moved(w, bad, job[w].poisoned)]
      BY <1>2 DEF Goto, Targets
    <2> QED
      BY <1>2, <2>1, CarriedTask, CleanPlain
  <1> QED
    BY <1>1, <1>2 DEF HandOver, NoDuplicates

\* The creation of the missing row.
LEMMA CleanInsert ==
  ASSUME CleanInv, NoDuplicates, NEW w \in Workers, job[w].pc # "idle",
         row[job[w].task].status = "absent",
         NEW s \in {"PENDING", "FAILED"}, NEW next \in {"mark", "end"},
         next = "mark" => s = "PENDING",
         InsertMissing(w, s, next)
  PROVE  HasCleanEffect(w)
  <1> DEFINE t == job[w].task
             r == NewRow(s, NoOwner)
  <1>1. next \in Targets /\ s \in ApiStatuses
    BY DEF Targets, Running, Pcs, ApiStatuses
  <1>2. r \in RowType /\ Shaped(r) /\ Moves(row[t], r) /\ r.status = s
    BY <1>1, CarriedTask, NewRowType, RowMoves
  <1>3. UNCHANGED <<submit, queue>> /\ ~Exists(t)
    BY DEF InsertMissing, Exists
  <1>4. CASE row' = [row EXCEPT ![t] = r] /\ Goto(w, next)
    <2>1. next \in Running => Fits(next, r.status)
      BY <1>2 DEF Fits, Running, Pcs
    <2>2. CleanEffect(w, next, job[w].poisoned, r)
      BY <1>2, <1>3, <1>4, <2>1 DEF CleanEffect, Step, Goto
    <2> QED
      BY <1>1, <1>2, <2>2, CarriedTask DEF HasCleanEffect
  <1>5. CASE row' = row /\ \E p \in BOOLEAN : job' = [job EXCEPT ![w] = Moved(w, next, p)]
    <2>1. next \in Running => Fits(next, row[t].status)
      BY DEF Fits, Running, Pcs
    <2> QED
      BY <1>1, <1>3, <1>5, <2>1, CleanPlain
  <1> QED
    BY <1>3, <1>4, <1>5 DEF InsertMissing, NoDuplicates

\* Every step of a handler has such an effect.
LEMMA CleanHandling ==
  ASSUME CleanInv, NoDuplicates, NEW w \in Workers, Handling(w)
  PROVE  job[w].pc # "idle" /\ HasCleanEffect(w)
  <1> DEFINE t == job[w].task
             status == row[t].status
  <1>1. job[w].pc # "idle"
    BY HandlingEffect DEF CleanInv
  <1>2. /\ t \in Tasks /\ row[t] \in RowType /\ job[w].poisoned \in BOOLEAN
        /\ Shaped(row[t]) /\ Fits(job[w].pc, status)
    BY <1>1, CarriedTask
  <1>3. \A s \in {"IN_PROGRESS", "FAILED"} : UpdateStatus(row[t], s) \in RowType
    BY <1>2, RowTypes DEF ApiStatuses
  <1>4. UpdateSources(row[t]) \in RowType /\ PersistResult(row[t]) \in RowType
    BY <1>2, RowTypes
  <1>5. {"end", "escape"} \subseteq Targets \ Running /\ Pcs \ {"idle"} \subseteq Targets
    BY DEF Targets, Running, Pcs
  \* A row that is not final may be marked as FAILED.
  <1>6. ASSUME status \notin Final, NEW bad \in {"failing", "escape"},
               Transaction(w, UpdateStatus(row[t], "FAILED"), "end", bad),
               UNCHANGED <<submit, queue, copies>>
        PROVE  HasCleanEffect(w)
    <2>1. /\ Shaped(UpdateStatus(row[t], "FAILED"))
          /\ Moves(row[t], UpdateStatus(row[t], "FAILED"))
      BY <1>2, <1>6, RowMoves
    <2>2. bad \in Targets /\ (bad \in Running => Fits(bad, status))
      BY <1>5, <1>6 DEF Fits, Pcs
    <2> QED
      BY <1>1, <1>3, <1>5, <1>6, <2>1, <2>2, CleanTransaction
  <1> USE DEF At
  <1>a. ASSUME LookUp(w) PROVE HasCleanEffect(w)
    <2>1. PICK pc \in {"block", "blockcreate", "mark", "create", "failing"}, p \in BOOLEAN :
            /\ job' = [job EXCEPT ![w] = Moved(w, pc, p)]
            /\ pc \in {"create", "blockcreate"} => status = "absent"
      BY <1>a, <1>2 DEF LookUp, Goto, Exists
    <2>2. status \in {"absent", "PENDING"}
      BY <1>a, <1>2 DEF LookUp, Fits
    <2>3. pc \in Targets /\ Fits(pc, status)
      BY <1>5, <2>1, <2>2 DEF Fits, Pcs, Final
    <2> QED
      BY <1>1, <1>a, <2>1, <2>3, CleanPlain DEF LookUp
  <1>b. ASSUME CreateMissing(w) PROVE HasCleanEffect(w)
    <2>1. status = "absent"
      BY <1>b, <1>2 DEF CreateMissing, Fits
    <2>2. CASE job[w].pc = "create"
      <3>1. InsertMissing(w, "PENDING", "mark")
        BY <1>b, <2>2 DEF CreateMissing
      <3> QED
        BY <1>1, <2>1, <3>1, CleanInsert
    <2>3. CASE job[w].pc = "blockcreate"
      <3>1. InsertMissing(w, "FAILED", "end")
        BY <1>b, <2>3 DEF CreateMissing
      <3> QED
        BY <1>1, <2>1, <3>1, CleanInsert
    <2> QED
      BY <1>b, <2>2, <2>3 DEF CreateMissing
  <1>c. ASSUME BlockTask(w) PROVE HasCleanEffect(w)
    BY <1>c, <1>2, <1>6 DEF BlockTask, Fits, Final
  <1>d. ASSUME MarkInProgress(w) PROVE HasCleanEffect(w)
    <2> DEFINE r == UpdateStatus(row[t], "IN_PROGRESS")
    <2>1. status \in {"absent", "PENDING"}
      BY <1>d, <1>2 DEF MarkInProgress, Fits
    <2>2. r \in RowType /\ Shaped(r) /\ Moves(row[t], r) /\ r.status \in {"absent", "IN_PROGRESS"}
      BY <1>2, <1>3, <2>1, RowMoves
    <2>3. {"intent", "failing"} \subseteq Targets /\ Fits("failing", status)
          /\ Fits("intent", r.status)
      BY <1>5, <2>1, <2>2 DEF Fits, Pcs, Final
    <2>4. Transaction(w, r, "intent", "failing") /\ UNCHANGED <<submit, queue, copies>>
      BY <1>d DEF MarkInProgress
    <2> HIDE DEF r
    <2> QED
      BY <1>1, <2>2, <2>3, <2>4, CleanTransaction
  <1>e. ASSUME AnalyzeIntent(w) PROVE HasCleanEffect(w)
    <2>1. PICK pc \in {"sendfetch", "failing"} : job' = [job EXCEPT ![w] = Moved(w, pc, job[w].poisoned)]
      BY <1>e DEF AnalyzeIntent, Goto
    <2>2. pc \in Targets /\ Fits(pc, status)
      BY <1>e, <1>2, <1>5 DEF AnalyzeIntent, Fits, Pcs, Final
    <2> QED
      BY <1>1, <1>2, <1>e, <2>1, <2>2, CleanPlain DEF AnalyzeIntent
  <1>f. ASSUME DelegateFetch(w) PROVE HasCleanEffect(w)
    <2>1. status \in {"absent", "IN_PROGRESS"}
      BY <1>f, <1>2 DEF DelegateFetch, Fits
    <2>2. "failing" \in Running /\ Fits("failing", status) /\ Waits("fetch", status)
      BY <2>1 DEF Fits, Waits, Running, Pcs, Final
    <2> QED
      BY <1>1, <1>f, <2>2, CleanHandOver DEF DelegateFetch
  <1>g. ASSUME MarkFailed(w) PROVE HasCleanEffect(w)
    BY <1>g, <1>2, <1>6 DEF MarkFailed, Fits
  <1>h. ASSUME Browse(w) PROVE HasCleanEffect(w)
    <2>1. PICK pc \in {"sendcontent", "fetchfailed"} :
            job' = [job EXCEPT ![w] = Moved(w, pc, job[w].poisoned)]
      BY <1>h DEF Browse, Goto
    <2>2. pc \in Targets /\ Fits(pc, status)
      BY <1>h, <1>2, <1>5 DEF Browse, Fits, Pcs
    <2> QED
      BY <1>1, <1>2, <1>h, <2>1, <2>2, CleanPlain DEF Browse
  <1>i. ASSUME DelegateContent(w) PROVE HasCleanEffect(w)
    <2>1. status \in {"absent", "IN_PROGRESS"}
      BY <1>i, <1>2 DEF DelegateContent, Fits
    <2>2. "fetchfailed" \in Running /\ Fits("fetchfailed", status) /\ Waits("content", status)
      BY <2>1 DEF Fits, Waits, Running, Pcs
    <2> QED
      BY <1>1, <1>i, <2>2, CleanHandOver DEF DelegateContent
  <1>j. ASSUME MarkFetchFailed(w) PROVE HasCleanEffect(w)
    BY <1>j, <1>2, <1>6 DEF MarkFetchFailed, Fits, Final
  <1>k. ASSUME SaveSources(w) PROVE HasCleanEffect(w)
    <2> DEFINE r == UpdateSources(row[t])
    <2>1. status \in {"absent", "IN_PROGRESS"}
      BY <1>k, <1>2 DEF SaveSources, Fits
    <2>2. r \in RowType /\ Shaped(r) /\ Moves(row[t], r) /\ r.status = status
      BY <1>2, <1>4, <2>1, RowMoves
    <2>3. "extract" \in Targets /\ Fits("extract", status)
      BY <1>5, <2>1 DEF Fits, Pcs
    <2>4. Transaction(w, r, "extract", "extract") /\ UNCHANGED <<submit, queue, copies>>
      BY <1>k DEF SaveSources
    <2> HIDE DEF r
    <2> QED
      BY <1>1, <2>2, <2>3, <2>4, CleanTransaction
  <1>l. ASSUME Extract(w) PROVE HasCleanEffect(w)
    <2>1. PICK pc \in {"persist", "nodata", "failing"}, p \in BOOLEAN :
            job' = [job EXCEPT ![w] = Moved(w, pc, p)]
      BY <1>l, <1>2 DEF Extract, Goto
    <2>2. pc \in Targets /\ Fits(pc, status)
      BY <1>l, <1>2, <1>5 DEF Extract, Fits, Pcs, Final
    <2> QED
      BY <1>1, <1>l, <2>1, <2>2, CleanPlain DEF Extract
  <1>m. ASSUME SaveResult(w) PROVE HasCleanEffect(w)
    <2> DEFINE r == PersistResult(row[t])
    <2>1. status \in {"absent", "IN_PROGRESS"}
      BY <1>m, <1>2 DEF SaveResult, Fits
    <2>2. r \in RowType /\ Shaped(r) /\ Moves(row[t], r)
      BY <1>2, <1>4, <2>1, RowMoves
    <2>3. {"end", "failing"} \subseteq Targets /\ "end" \notin Running /\ Fits("failing", status)
      BY <1>5, <2>1 DEF Fits, Pcs, Final
    <2>4. Transaction(w, r, "end", "failing") /\ UNCHANGED <<submit, queue, copies>>
      BY <1>m DEF SaveResult
    <2> HIDE DEF r
    <2> QED
      BY <1>1, <2>2, <2>3, <2>4, CleanTransaction
  <1>n. ASSUME MarkNoData(w) PROVE HasCleanEffect(w)
    BY <1>n, <1>2, <1>6 DEF MarkNoData, Fits, Final
  <1> QED
    BY <1>1, <1>a, <1>b, <1>c, <1>d, <1>e, <1>f, <1>g, <1>h, <1>i, <1>j, <1>k, <1>l,
       <1>m, <1>n DEF Handling

-----------------------------------------------------------------------------
(***************************************************************************)
(* The invariant is inductive.                                             *)
(***************************************************************************)
\* A task stays in its place when nobody takes it up or writes its row.
LEMMA OthersKeep ==
  ASSUME NEW u \in Tasks, OnePlace(u), RowFits(u), row'[u] = row[u],
         submit'[u].pc = "enqueue" => submit[u].pc = "enqueue",
         \A k \in Kinds : /\ queue'[k][u] > 0 => queue[k][u] > 0
                          /\ queue'[k][u] <= 1,
         \A v \in Workers : job'[v].task = u => job'[v] = job[v]
  PROVE  OnePlace(u)' /\ RowFits(u)'
  <1>1. OnePlace(u)'
    BY DEF OnePlace
  <1>2. RowFits(u)'
    BY DEF RowFits
  <1> QED
    BY <1>1, <1>2

\* There is no worker and no message for a task whose submission is not over.
LEMMA NotStarted ==
  ASSUME CleanInv, NEW t \in Tasks, submit[t].pc # "accepted"
  PROVE  /\ \A k \in Kinds : queue[k][t] = 0
         /\ \A w \in Workers : job[w].task # t
  <1>1. \A k \in Kinds : queue[k][t] \in Nat
    BY DEF CleanInv, IInv, TypeOK
  <1>2. /\ \A k \in Kinds : ~(queue[k][t] > 0)
        /\ \A w \in Workers : job[w].task # t
    BY DEF CleanInv, IInv, WorkFollowsSubmission
  <1> QED
    BY <1>1, <1>2

\* The types and bounds that the steps below use.
LEMMA CleanFacts ==
  ASSUME CleanInv
  PROVE  /\ queue \in [Kinds -> [Tasks -> Nat]] /\ submit \in [Tasks -> SubmitType]
         /\ row \in [Tasks -> RowType] /\ job \in [Workers -> JobType]
         /\ \A u \in Tasks : OnePlace(u) /\ RowFits(u)
         /\ \A u \in Tasks, k \in Kinds : queue[k][u] \in Nat /\ queue[k][u] <= 1
  BY DEF CleanInv, IInv, TypeOK, OnePlace

LEMMA CleanHandlingInv ==
  ASSUME CleanInv, NEW w \in Workers, job[w].pc # "idle", HasCleanEffect(w), NEW u \in Tasks
  PROVE  OnePlace(u)' /\ RowFits(u)'
  <1> DEFINE t == job[w].task
  <1>1. PICK pc \in Targets, p \in BOOLEAN, q \in RowType : CleanEffect(w, pc, p, q)
    BY DEF HasCleanEffect
  <1>2. TypeOK /\ t \in Tasks
    BY CarriedTask DEF CleanInv, IInv
  <1>3. /\ row'[t] = q
        /\ \A x \in Tasks \ {t} : row'[x] = row[x]
        /\ \A v \in Workers \ {w} : job'[v] = job[v]
        /\ pc \in Running => job'[w].task = t /\ job'[w].pc = pc
        /\ pc \notin Running => job'[w] = Idle
    BY <1>1, <1>2, StepTypes DEF CleanEffect
  <1>4. submit' = submit /\ Shaped(q)
    BY <1>1 DEF CleanEffect
  <1>5. Idle.task = NoTask /\ NoTask \notin Tasks
    BY PipelineAssumption DEF Idle
  <1>6. /\ \A k \in Kinds : queue[k][t] = 0
        /\ \A v \in Workers : job[v].task = t => v = w
        /\ submit[t].pc = "accepted"
    <2>1. submit[t].pc = "accepted"
      BY <1>2 DEF CleanInv, IInv, WorkFollowsSubmission
    <2>2. OnePlace(t)
      BY <1>2, CleanFacts
    <2> QED
      BY <1>2, <2>1, <2>2, CleanFacts DEF OnePlace
  <1>7. CASE u # t
    <2>1. \A v \in Workers : job'[v].task = u => job'[v] = job[v]
      BY <1>3, <1>5, <1>7
    <2>2. \A k \in Kinds : queue'[k][u] = queue[k][u]
      <3>1. ASSUME NEW l \in {"fetch", "content"}, Send(l, t)
            PROVE  \A k \in Kinds : queue'[k][u] = queue[k][u]
        BY <1>2, <1>7, <3>1, CleanFacts DEF Send, Kinds
      <3> QED
        BY <1>1, <3>1 DEF CleanEffect
    <2> QED
      BY <1>3, <1>4, <1>7, <2>1, <2>2, CleanFacts, OthersKeep
  <1>8. CASE u = t /\ UNCHANGED queue /\ (pc \in Running => Fits(pc, q.status))
    <2>1. OnePlace(u)'
      BY <1>3, <1>5, <1>6, <1>8, <1>2 DEF OnePlace
    <2>2. RowFits(u)'
      <3>1. \A v \in Workers : job'[v].task = u => v = w /\ pc \in Running
        BY <1>3, <1>5, <1>6, <1>8, <1>2
      <3>2. \A v \in Workers : job'[v].task = u => Fits(job'[v].pc, row'[u].status)
        BY <1>3, <1>8, <3>1
      <3> QED
        BY <1>3, <1>4, <1>6, <1>8, <3>2 DEF RowFits
    <2> QED
      BY <2>1, <2>2
  <1>9. ASSUME u = t, NEW k \in {"fetch", "content"}, Send(k, t), pc = "end", Waits(k, q.status)
        PROVE  OnePlace(u)' /\ RowFits(u)'
    <2>1. \A v \in Workers : job'[v].task # u
      BY <1>2, <1>3, <1>5, <1>6, <1>9 DEF Running, Pcs
    <2>2. /\ \A l \in Kinds : queue'[l][u] = IF l = k THEN 1 ELSE 0
          /\ k \in Kinds
      BY <1>2, <1>6, <1>9, CleanFacts DEF Send, Kinds
    <2>3. OnePlace(u)'
      BY <2>1, <2>2 DEF OnePlace
    <2>4. RowFits(u)'
      BY <1>3, <1>4, <1>6, <1>9, <2>1, <2>2 DEF RowFits
    <2> QED
      BY <2>3, <2>4
  <1> QED
    BY <1>1, <1>7, <1>8, <1>9 DEF CleanEffect

\* A worker takes the one message of a task, to a step that fits its queue.
LEMMA CleanTakingInv ==
  ASSUME CleanInv, NEW w \in Workers, NEW t \in Tasks, NEW W, NEW k \in Kinds,
         NEW pc \in {"lookup", "browse", "sources"},
         <<k, pc>> \in {<<"request", "lookup">>, <<"fetch", "browse">>, <<"content", "sources">>},
         Take(w, W, k, t, pc), NEW u \in Tasks
  PROVE  OnePlace(u)' /\ RowFits(u)'
  <1> DEFINE busy == [pc |-> pc, task |-> t, poisoned |-> FALSE]
  <1>1. /\ queue[k][t] > 0 /\ queue' = [queue EXCEPT ![k][t] = @ - 1]
        /\ job[w] = Idle /\ job' = [job EXCEPT ![w] = busy]
        /\ row' = row /\ submit' = submit
    BY DEF Take
  <1>2. /\ job'[w].task = t /\ job'[w].pc = pc
        /\ \A v \in Workers \ {w} : job'[v] = job[v]
    BY <1>1, CleanFacts
  <1>3. /\ \A l \in Kinds : queue'[l][t] = IF l = k THEN queue[k][t] - 1 ELSE queue[l][t]
        /\ \A l \in Kinds, x \in Tasks : x # t => queue'[l][x] = queue[l][x]
    BY <1>1, CleanFacts
  <1>4. CASE u # t
    <2>1. \A v \in Workers : job'[v].task = u => job'[v] = job[v]
      BY <1>2, <1>4
    <2> QED
      BY <1>1, <1>3, <1>4, <2>1, CleanFacts, OthersKeep
  <1>5. CASE u = t
    <2>1. OnePlace(t) /\ RowFits(t)
      BY CleanFacts
    <2>2. /\ \A l \in Kinds : queue[l][t] = IF l = k THEN 1 ELSE 0
          /\ \A v \in Workers : job[v].task # t
      BY <1>1, <2>1, CleanFacts DEF OnePlace
    <2>3. /\ \A l \in Kinds : queue'[l][u] = 0
          /\ \A v \in Workers : job'[v].task = u => v = w
      BY <1>2, <1>3, <1>5, <2>2
    <2>4. OnePlace(u)'
      BY <2>3 DEF OnePlace
    <2>5. Fits(pc, row[t].status)
      <3>1. Waits(k, row[t].status)
        BY <1>1, <2>1 DEF RowFits
      <3> QED
        BY <3>1 DEF Waits, Fits
    <2>6. RowFits(u)'
      BY <1>1, <1>2, <1>5, <2>1, <2>3, <2>5 DEF RowFits
    <2> QED
      BY <2>4, <2>6
  <1> QED
    BY <1>4, <1>5

\* The row is committed before the message is sent, and nobody works before.
LEMMA CleanRecordInv ==
  ASSUME CleanInv, NoDuplicates, NEW t \in Tasks, RecordTask(t), NEW u \in Tasks
  PROVE  /\ OnePlace(u)' /\ RowFits(u)'
         /\ Moves(row[u], row'[u]) /\ Shaped(row'[u])
  <1> DEFINE created == [row EXCEPT ![t] = NewRow("PENDING", submit[t].user)]
             gaveUp == IF submit[t].via = "api" THEN "enqueue" ELSE "refused"
  <1>1. /\ submit[t].pc = "persist" /\ UNCHANGED <<queue, job>>
        /\ \/ /\ row' = created
              /\ submit' = [submit EXCEPT ![t].pc = "enqueue", ![t].recorded = TRUE]
           \/ /\ row' = row
              /\ submit' = [submit EXCEPT ![t].pc = gaveUp]
    BY DEF RecordTask, NoDuplicates
  <1> HIDE DEF gaveUp
  <1>2. row[t].status = "absent"
    BY <1>1 DEF CleanInv, IInv, WorkFollowsSubmission, Exists
  <1>3. /\ \A x \in Tasks \ {t} : row'[x] = row[x] /\ submit'[x] = submit[x]
        /\ row'[t] = row[t] \/ row'[t] = NewRow("PENDING", submit[t].user)
    BY <1>1, CleanFacts
  <1>4. OnePlace(u) /\ RowFits(u) /\ Shaped(row[u])
    BY CleanFacts DEF RowFits
  <1>5. CASE u # t
    <2>1. OnePlace(u)' /\ RowFits(u)'
      BY <1>1, <1>3, <1>4, <1>5, CleanFacts, OthersKeep
    <2> QED
      BY <1>3, <1>4, <1>5, <2>1 DEF Moves
  <1>6. CASE u = t
    <2>1. row[t] \in RowType /\ Shaped(row[t])
      BY <1>4, <1>6, CleanFacts
    <2>2. /\ Shaped(row'[t]) /\ Moves(row[t], row'[t])
          /\ row'[t].status \in {"absent", "PENDING"}
      <3>1. CASE row'[t] = row[t]
        BY <1>2, <2>1, <3>1 DEF Moves
      <3>2. CASE row'[t] = NewRow("PENDING", submit[t].user)
        BY <1>2, <2>1, <3>2, RowMoves
      <3> QED
        BY <1>3, <3>1, <3>2
    <2>3. /\ \A k \in Kinds : queue'[k][t] = 0
          /\ \A w \in Workers : job'[w].task # t
      BY <1>1, NotStarted
    <2>4. OnePlace(u)' /\ RowFits(u)'
      BY <1>6, <2>2, <2>3 DEF OnePlace, RowFits
    <2> QED
      BY <1>6, <2>2, <2>4
  <1> QED
    BY <1>5, <1>6

\* The submission hands the task over to the queue, or loses it.
LEMMA CleanEnqueueInv ==
  ASSUME CleanInv, NEW t \in Tasks, EnqueueTask(t), NEW u \in Tasks
  PROVE  OnePlace(u)' /\ RowFits(u)'
  <1>1. /\ submit[t].pc = "enqueue" /\ UNCHANGED <<row, job>>
        /\ submit' = [submit EXCEPT ![t].pc = "accepted"]
        /\ Send("request", t) \/ UNCHANGED queue
    BY DEF EnqueueTask
  <1>2. /\ \A x \in Tasks \ {t} : submit'[x] = submit[x]
        /\ submit'[t].pc = "accepted"
    BY <1>1, CleanFacts DEF SubmitType
  <1>3. OnePlace(u) /\ RowFits(u)
    BY CleanFacts
  <1>4. /\ \A k \in Kinds, x \in Tasks : x # t => queue'[k][x] = queue[k][x]
        /\ \A k \in Kinds : queue'[k][t] > 0 => queue'[k][t] = 1 /\ k = "request"
        /\ \A k \in Kinds : queue'[k][t] \in 0 .. 1
    <2>1. \A k \in Kinds : queue[k][t] = 0
      BY <1>1, NotStarted
    <2>2. CASE Send("request", t)
      BY <2>1, <2>2, CleanFacts DEF Send, Kinds
    <2>3. CASE UNCHANGED queue
      BY <2>1, <2>3
    <2> QED
      BY <1>1, <2>2, <2>3
  <1>5. CASE u # t
    BY <1>1, <1>2, <1>3, <1>4, <1>5, CleanFacts, OthersKeep
  <1>6. CASE u = t
    <2>1. \A w \in Workers : job'[w].task # t
      BY <1>1, NotStarted
    <2>2. OnePlace(u)'
      BY <1>4, <1>6, <2>1 DEF OnePlace
    <2>3. RowFits(u)'
      BY <1>1, <1>2, <1>3, <1>4, <1>6, <2>1 DEF RowFits, Waits
    <2> QED
      BY <2>2, <2>3
  <1> QED
    BY <1>5, <1>6

\* A crash, a submission that starts or breaks off, or no step at all leaves
\* the rows and queues alone.
LEMMA CleanQuietInv ==
  ASSUME CleanInv, UNCHANGED <<row, queue>>, NEW u \in Tasks,
         \/ \E t \in Tasks, x \in Users, via \in {"api", "sched"} : StartSubmit(t, x, via)
         \/ \E t \in Tasks : SubmitterCrash(t)
         \/ \E w \in Workers : Crash(w)
         \/ UNCHANGED vars
  PROVE  OnePlace(u)' /\ RowFits(u)'
  <1>1. submit'[u].pc = "enqueue" => submit[u].pc = "enqueue"
    <2>1. ASSUME NEW t \in Tasks, NEW x \in Users, NEW via \in {"api", "sched"},
                 StartSubmit(t, x, via)
          PROVE  submit'[u].pc = "enqueue" => submit[u].pc = "enqueue"
      BY <2>1, CleanFacts DEF StartSubmit
    <2>2. ASSUME NEW t \in Tasks, SubmitterCrash(t)
          PROVE  submit'[u].pc = "enqueue" => submit[u].pc = "enqueue"
      BY <2>2, CleanFacts DEF SubmitterCrash, SubmitType
    <2>3. CASE UNCHANGED submit
      BY <2>3
    <2> QED
      BY <2>1, <2>2, <2>3 DEF Crash, vars
  <1>2. \A v \in Workers : job'[v].task = u => job'[v] = job[v]
    <2>1. ASSUME NEW w \in Workers, Crash(w)
          PROVE  \A v \in Workers : job'[v].task = u => job'[v] = job[v]
      <3>1. job' = [job EXCEPT ![w] = Idle] /\ Idle.task # u
        BY <2>1, PipelineAssumption DEF Crash, Idle
      <3> QED
        BY <3>1, CleanFacts
    <2>2. CASE UNCHANGED job
      BY <2>2
    <2> QED
      BY <2>1, <2>2 DEF StartSubmit, SubmitterCrash, vars
  <1> QED
    BY <1>1, <1>2, CleanFacts, OthersKeep

LEMMA CleanInit == Init => CleanInv
  <1> SUFFICES ASSUME Init, NEW t \in Tasks PROVE OnePlace(t) /\ RowFits(t)
    BY InitInv DEF CleanInv
  <1>1. /\ row[t] = Absent /\ submit[t] = NotSubmitted
        /\ \A k \in Kinds : queue[k][t] = 0
        /\ \A w \in Workers : job[w].task # t
    BY PipelineAssumption DEF Init, Idle
  <1>2. Shaped(Absent) /\ NotSubmitted.pc = "none"
    BY DEF Absent, Shaped, NotSubmitted
  <1>3. OnePlace(t)
    BY <1>1 DEF OnePlace
  <1>4. RowFits(t)
    BY <1>1, <1>2 DEF RowFits
  <1> QED
    BY <1>3, <1>4

\* One step: the task stays in one place that fits its row, and its row moves
\* as TaskLifecycle says.
LEMMA CleanStep ==
  ASSUME CleanInv, NoDuplicates, [Next]_vars, NEW u \in Tasks
  PROVE  /\ OnePlace(u)' /\ RowFits(u)'
         /\ Moves(row[u], row'[u]) /\ Shaped(row'[u])
  <1>1. Moves(row[u], row[u]) /\ Shaped(row[u])
    BY CleanFacts DEF Moves, RowFits
  <1>2. ASSUME NEW w \in Workers, Handling(w)
        PROVE  /\ OnePlace(u)' /\ RowFits(u)'
               /\ Moves(row[u], row'[u]) /\ Shaped(row'[u])
    <2>1. job[w].pc # "idle" /\ HasCleanEffect(w)
      BY <1>2, CleanHandling
    <2>2. OnePlace(u)' /\ RowFits(u)'
      BY <2>1, CleanHandlingInv
    <2>3. PICK pc \in Targets, p \in BOOLEAN, q \in RowType : CleanEffect(w, pc, p, q)
      BY <2>1 DEF HasCleanEffect
    <2>4. /\ row'[job[w].task] = q
          /\ u # job[w].task => row'[u] = row[u]
      BY <2>1, <2>3, StepTypes DEF CleanEffect, CleanInv, IInv
    <2> QED
      BY <1>1, <2>2, <2>3, <2>4 DEF CleanEffect
  <1>3. ASSUME NEW w \in Workers, Taking(w)
        PROVE  OnePlace(u)' /\ RowFits(u)' /\ UNCHANGED row
    <2>1. PICK t \in Tasks : TakeRequest(w, t) \/ TakeFetch(w, t) \/ TakeContent(w, t)
      BY <1>3 DEF Taking
    <2>2. CASE TakeRequest(w, t)
      BY <2>2, CleanTakingInv DEF TakeRequest, Kinds, Take
    <2>3. CASE TakeFetch(w, t)
      BY <2>3, CleanTakingInv DEF TakeFetch, Kinds, Take
    <2>4. CASE TakeContent(w, t)
      BY <2>4, CleanTakingInv DEF TakeContent, Kinds, Take
    <2> QED
      BY <2>1, <2>2, <2>3, <2>4
  <1>4. ASSUME NEW t \in Tasks, RecordTask(t)
        PROVE  /\ OnePlace(u)' /\ RowFits(u)'
               /\ Moves(row[u], row'[u]) /\ Shaped(row'[u])
    BY <1>4, CleanRecordInv
  <1>5. ASSUME NEW t \in Tasks, EnqueueTask(t)
        PROVE  OnePlace(u)' /\ RowFits(u)' /\ UNCHANGED row
    BY <1>5, CleanEnqueueInv DEF EnqueueTask
  <1>6. ASSUME \/ \E t \in Tasks, x \in Users, via \in {"api", "sched"} : StartSubmit(t, x, via)
               \/ \E t \in Tasks : SubmitterCrash(t)
               \/ \E w \in Workers : Crash(w)
               \/ UNCHANGED vars
        PROVE  OnePlace(u)' /\ RowFits(u)' /\ UNCHANGED row
    <2>1. UNCHANGED <<row, queue>>
      BY <1>6 DEF StartSubmit, SubmitterCrash, Crash, vars
    <2> QED
      BY <1>6, <2>1, CleanQuietInv
  <1>7. ~\E k \in Kinds, t \in Tasks : Redeliver(k, t)
    BY DEF Redeliver, NoDuplicates
  <1> QED
    BY <1>1, <1>2, <1>3, <1>4, <1>5, <1>6, <1>7 DEF Next, Submission

LEMMA CleanNext ==
  ASSUME NoDuplicates
  PROVE  CleanInv /\ [Next]_vars => CleanInv'
  <1> SUFFICES ASSUME CleanInv, [Next]_vars PROVE CleanInv'
    OBVIOUS
  <1>1. IInv'
    BY NextInv DEF CleanInv
  <1>2. \A u \in Tasks : OnePlace(u)' /\ RowFits(u)'
    BY CleanStep
  <1> QED
    BY <1>1, <1>2 DEF CleanInv

-----------------------------------------------------------------------------
(***************************************************************************)
(* Theorems                                                                *)
(***************************************************************************)
\* Every task is carried by one queue, handler or submission at a time, at a
\* step that fits what its row says, when no message is duplicated and errors
\* are what they seem.
THEOREM CleanInvariant == NoDuplicates => (Spec => []CleanInv)
  <1> SUFFICES ASSUME NoDuplicates PROVE Spec => []CleanInv
    OBVIOUS
  <1>1. CleanInv /\ [Next]_vars => CleanInv'
    BY CleanNext
  <1> QED
    BY CleanInit, <1>1, PTL DEF Spec

\* Nobody works twice on a task: Celery acknowledges a message when a worker
\* starts it, and each handler sends at most one message, as its last step.
THEOREM NobodyWorksTwice == NoDuplicates => (Spec => []OneCarrier)
  <1> SUFFICES ASSUME NoDuplicates PROVE Spec => []OneCarrier
    OBVIOUS
  <1>1. CleanInv => OneCarrier
    <2> SUFFICES ASSUME CleanInv, NEW t \in Tasks
                 PROVE  /\ \A a, b \in Carriers(t) : a = b
                        /\ \A k \in Kinds : queue[k][t] <= 1
      BY DEF OneCarrier
    <2>1. OnePlace(t) /\ (submit[t].pc # "accepted" => /\ \A k \in Kinds : ~(queue[k][t] > 0)
                                                     /\ \A w \in Workers : job[w].task # t)
      BY CleanFacts DEF CleanInv, IInv, WorkFollowsSubmission
    <2>2. \A a, b \in Carriers(t) : a = b
      BY <2>1 DEF Carriers, OnePlace
    <2> QED
      BY <2>1, <2>2 DEF OnePlace
  <1> QED
    BY <1>1, CleanInvariant, PTL

-----------------------------------------------------------------------------
(***************************************************************************)
(* What the API makes of such a row.                                       *)
(***************************************************************************)
\* normalize_status and derive_progress of a row that nobody works on twice.
LEMMA ShapedViews ==
  ASSUME NEW r \in RowType, Shaped(r), r.status # "absent"
  PROVE  /\ NormalizeStatus(r) = r.status
         /\ r.status = "PENDING" => DeriveProgress(r) = 0
         /\ r.status = "IN_PROGRESS" => DeriveProgress(r) = 50
         /\ r.status = "SUCCESS" => DeriveProgress(r) = 100
         /\ r.status = "FAILED" => DeriveProgress(r) = IF r.completed THEN 100 ELSE 0
  <1>1. r.status \in ApiStatuses /\ (r.status = "FAILED" => ~r.data)
    BY DEF RowType, Shaped
  <1>2. NormalizeStatus(r) = r.status
    BY <1>1 DEF NormalizeStatus, ApiStatuses
  <1>3. r.status = "IN_PROGRESS" => r.started
    BY DEF Shaped
  <1> QED
    BY <1>1, <1>2, <1>3 DEF DeriveProgress, ApiStatuses

\* A task shown as SUCCESS carries no error message of an earlier attempt.
THEOREM SuccessCarriesNoError == NoDuplicates => (Spec => []SuccessIsClean)
  <1> SUFFICES ASSUME NoDuplicates PROVE Spec => []SuccessIsClean
    OBVIOUS
  <1>1. CleanInv => SuccessIsClean
    <2> SUFFICES ASSUME CleanInv, NEW t \in Tasks, View(t) = "SUCCESS"
                 PROVE  DeriveMessage(row[t]) # "error"
      BY DEF SuccessIsClean
    <2>1. row[t] \in RowType /\ Shaped(row[t])
      BY CleanFacts DEF RowFits
    <2>2. row[t].status # "absent" /\ NormalizeStatus(row[t]) = "SUCCESS"
      BY DEF View, Exists
    <2>3. ~row[t].err
      BY <2>1, <2>2, ShapedViews DEF Shaped
    <2> QED
      BY <2>2, <2>3 DEF DeriveMessage
  <1> QED
    BY <1>1, CleanInvariant, PTL

\* The progress that polls report never goes back: a handler's write is the
\* last word on its step, since no other handler holds the task.
THEOREM ProgressOnlyGrows == NoDuplicates => (Spec => ProgressNeverDrops)
  <1> SUFFICES ASSUME NoDuplicates PROVE Spec => ProgressNeverDrops
    OBVIOUS
  <1>1. ASSUME CleanInv, [Next]_vars, NEW t \in Tasks, Exists(t)
        PROVE  DeriveProgress(row'[t]) >= DeriveProgress(row[t])
    <2>1. /\ row[t] \in RowType /\ Shaped(row[t])
          /\ row'[t] \in RowType /\ Shaped(row'[t])
          /\ Moves(row[t], row'[t])
      <3>1. row' \in [Tasks -> RowType]
        BY <1>1, CleanNext DEF CleanInv, IInv, TypeOK
      <3> QED
        BY <1>1, <3>1, CleanStep, CleanFacts DEF RowFits
    <2>2. row[t].status # "absent" /\ row'[t].status # "absent"
      BY <1>1, <2>1 DEF Exists, Moves
    <2>3. row[t].status \in ApiStatuses
      BY <2>1, <2>2 DEF RowType
    <2> QED
      BY <2>1, <2>2, <2>3, ShapedViews DEF Moves, ApiStatuses
  <1>2. CleanInv /\ [Next]_vars =>
          [\A t \in Tasks : Exists(t) =>
             DeriveProgress(row'[t]) >= DeriveProgress(row[t])]_vars
    BY <1>1
  <1> QED
    BY <1>2, CleanInvariant, PTL DEF Spec, ProgressNeverDrops

-----------------------------------------------------------------------------
(***************************************************************************)
(* The table implements TaskLifecycle.                                     *)
(***************************************************************************)
\* The phase of a row, and its result.
LEMMA PhaseOfRow ==
  ASSUME NEW r \in RowType, Shaped(r)
  PROVE  /\ (IF r.status # "absent" THEN NormalizeStatus(r) ELSE "unknown")
              = (IF r.status = "absent" THEN "unknown" ELSE r.status)
         /\ r.data = (r.status = "SUCCESS")
  BY ShapedViews DEF Shaped, RowType

\* A step writes one row at most.
LEMMA OneRow ==
  ASSUME IInv, [Next]_vars
  PROVE  \/ UNCHANGED row
         \/ \E t \in Tasks : \A u \in Tasks \ {t} : row'[u] = row[u]
  <1>1. ASSUME NEW w \in Workers, Handling(w)
        PROVE  \E t \in Tasks : \A u \in Tasks \ {t} : row'[u] = row[u]
    <2>1. job[w].pc # "idle" /\ HasEffect(w)
      BY <1>1, HandlingEffect
    <2>2. PICK pc \in Targets, p \in BOOLEAN, q \in RowType : Effect(w, pc, p, q)
      BY <2>1 DEF HasEffect
    <2>3. \A u \in Tasks \ {job[w].task} : row'[u] = row[u]
      BY <2>1, <2>2, StepTypes DEF Effect, IInv
    <2> QED
      BY <2>1, <2>3, BusyHasTask DEF IInv
  <1>2. ASSUME NEW t \in Tasks, RecordTask(t)
        PROVE  \A u \in Tasks \ {t} : row'[u] = row[u]
    BY <1>2 DEF RecordTask, IInv, TypeOK
  <1> QED
    BY <1>1, <1>2 DEF Next, vars, StartSubmit, Submission, EnqueueTask, Taking, TakeRequest,
       TakeFetch, TakeContent, Take, Crash, SubmitterCrash, Redeliver

\* A move of the row of t, the others kept, is a step of TaskLifecycle on t.
LEMMA LifecycleStep ==
  ASSUME CleanInv, CleanInv', NEW t \in Tasks, Moves(row[t], row'[t]),
         \A u \in Tasks \ {t} : row'[u] = row[u]
  PROVE  [Lifecycle!Next]_Lifecycle!vars
  <1> DEFINE phase == [u \in Tasks |-> Phase(u)]
             result == [u \in Tasks |-> row[u].data]
             old == row[t].status
             new == row'[t].status
  <1>1. ASSUME NEW u \in Tasks
        PROVE  /\ Phase(u) = (IF row[u].status = "absent" THEN "unknown" ELSE row[u].status)
               /\ row[u].data = (row[u].status = "SUCCESS")
               /\ Phase(u)' = (IF row'[u].status = "absent" THEN "unknown" ELSE row'[u].status)
               /\ row'[u].data = (row'[u].status = "SUCCESS")
    <2>1. /\ row[u] \in RowType /\ Shaped(row[u])
          /\ row'[u] \in RowType /\ Shaped(row'[u])
      BY DEF CleanInv, IInv, TypeOK, RowFits
    <2> QED
      BY <2>1, PhaseOfRow DEF Phase, Exists
  <1>2. /\ phase' = [phase EXCEPT ![t] = Phase(t)']
        /\ result' = [result EXCEPT ![t] = row'[t].data]
    BY <1>1
  <1>3. CASE new = old
    <2>1. phase' = phase /\ result' = result
      BY <1>1, <1>2, <1>3
    <2> QED
      BY <2>1 DEF Lifecycle!vars
  <1>4. CASE new # old
    <2>1. phase[t] = Phase(t) /\ result[t] = row[t].data
      OBVIOUS
    <2>2. CASE old = "absent" /\ new \in {"PENDING", "FAILED"}
      <3>1. phase[t] = "unknown" /\ Phase(t)' = new /\ result' = result
        BY <1>1, <1>2, <2>1, <2>2
      <3> QED
        BY <1>2, <2>2, <3>1 DEF Lifecycle!Next, Lifecycle!Record
    <2>3. CASE old = "PENDING" /\ new = "IN_PROGRESS"
      <3>1. phase[t] = "PENDING" /\ Phase(t)' = "IN_PROGRESS" /\ result' = result
        BY <1>1, <1>2, <2>1, <2>3
      <3> QED
        BY <1>2, <3>1 DEF Lifecycle!Next, Lifecycle!Start
    <2>4. CASE old = "IN_PROGRESS" /\ new = "SUCCESS"
      <3>1. phase[t] = "IN_PROGRESS" /\ Phase(t)' = "SUCCESS" /\ row'[t].data = TRUE
        BY <1>1, <2>1, <2>4
      <3> QED
        BY <1>2, <3>1 DEF Lifecycle!Next, Lifecycle!Succeed
    <2>5. CASE old \in {"PENDING", "IN_PROGRESS"} /\ new = "FAILED"
      <3>1. phase[t] \in {"PENDING", "IN_PROGRESS"} /\ Phase(t)' = "FAILED" /\ result' = result
        BY <1>1, <1>2, <2>1, <2>5
      <3> QED
        BY <1>2, <3>1 DEF Lifecycle!Next, Lifecycle!Fail
    <2> QED
      BY <1>4, <2>2, <2>3, <2>4, <2>5 DEF Moves
  <1> QED
    BY <1>3, <1>4

\* When nobody works twice the table scraping_tasks, read through
\* normalize_status, implements TaskLifecycle: every step of a handler is one
\* of its steps on one task, or none. (That its tasks make progress is checked
\* by TLC.)
THEOREM PipelineIsLifecycle == NoDuplicates => (Spec => ImplementsLifecycle)
  <1> SUFFICES ASSUME NoDuplicates PROVE Spec => ImplementsLifecycle
    OBVIOUS
  <1>1. Init => Lifecycle!Init
    <2> SUFFICES ASSUME Init PROVE Lifecycle!Init
      OBVIOUS
    <2>1. \A t \in Tasks : Phase(t) = "unknown" /\ row[t].data = FALSE
      BY DEF Init, Phase, Exists, Absent
    <2> QED
      BY <2>1 DEF Lifecycle!Init
  <1>2. CleanInv /\ CleanInv' /\ [Next]_vars => [Lifecycle!Next]_Lifecycle!vars
    <2> SUFFICES ASSUME CleanInv, CleanInv', [Next]_vars
                 PROVE  [Lifecycle!Next]_Lifecycle!vars
      OBVIOUS
    <2>1. CASE UNCHANGED row
      <3>1. \A t \in Tasks : Phase(t)' = Phase(t)
        BY <2>1 DEF Phase, Exists
      <3> QED
        BY <2>1, <3>1 DEF Lifecycle!vars
    <2>2. ASSUME NEW t \in Tasks, \A u \in Tasks \ {t} : row'[u] = row[u]
          PROVE  [Lifecycle!Next]_Lifecycle!vars
      BY <2>2, CleanStep, LifecycleStep
    <2> QED
      BY <2>1, <2>2, OneRow DEF CleanInv
  <1> QED
    BY <1>1, <1>2, CleanInvariant, PTL DEF Spec, ImplementsLifecycle, Lifecycle!Spec
=============================================================================
