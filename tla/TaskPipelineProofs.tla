------------------------- MODULE TaskPipelineProofs -------------------------
(***************************************************************************)
(* Proofs about TaskPipeline for every set of tasks, users and workers,    *)
(* and every set of faults.                                                *)
(***************************************************************************)
EXTENDS TaskPipeline, TLAPS

\* The clauses of the type invariant that a handler's step has to restore.
RowsOK == row \in [Tasks -> RowType]
JobsOK ==
  /\ job \in [Workers -> JobType]
  /\ \A w \in Workers : (job[w].pc = "idle") <=> (job[w].task = NoTask)
LostOK == lost \in [Tasks -> BOOLEAN]

\* The steps at which a handler can stand between two of its transactions.
Running == Pcs \ {"idle"}
Targets == Running \cup {"end", "escape"}

LEMMA RowTypes ==
  ASSUME NEW r \in RowType
  PROVE  /\ \A s \in ApiStatuses : UpdateStatus(r, s) \in RowType
         /\ UpdateSources(r) \in RowType
         /\ PersistResult(r) \in RowType
  <1>1. ASSUME NEW s \in ApiStatuses PROVE UpdateStatus(r, s) \in RowType
    <2>1. CASE r.status = "absent"
      BY <2>1 DEF UpdateStatus
    <2>2. CASE r.status # "absent"
      <3> DEFINE started == r.started \/ s = "IN_PROGRESS"
                 completed == r.completed \/ s \in {"SUCCESS", "FAILED"}
                 err == (s = "FAILED")
      <3>1. UpdateStatus(r, s) = [r EXCEPT !.status = s, !.err = err,
                                           !.started = started, !.completed = completed]
        BY <2>2 DEF UpdateStatus, RowType
      <3>2. started \in BOOLEAN /\ completed \in BOOLEAN /\ err \in BOOLEAN
        OBVIOUS
      <3> HIDE DEF started, completed, err
      <3> QED
        BY <1>1, <3>1, <3>2 DEF RowType
    <2> QED
      BY <2>1, <2>2
  <1>2. UpdateSources(r) \in RowType
    BY DEF RowType, UpdateSources
  <1>3. PersistResult(r) \in RowType
    BY DEF RowType, ApiStatuses, PersistResult
  <1> QED
    BY <1>1, <1>2, <1>3

LEMMA NewRowType ==
  ASSUME NEW s \in ApiStatuses, NEW o \in Users \cup {NoOwner}
  PROVE  NewRow(s, o) \in RowType /\ NewRow(s, o).status = s
         /\ NewRow(s, o).owner = o /\ ~NewRow(s, o).data
  BY DEF RowType, ApiStatuses, NewRow, Absent

LEMMA IdleType == Idle \in JobType /\ Absent \in RowType
  BY DEF Idle, Absent, JobType, RowType, Pcs

\* A worker that stands at a step of a handler has a task.
LEMMA BusyHasTask ==
  ASSUME TypeOK, NEW w \in Workers, job[w].pc # "idle"
  PROVE  job[w].task \in Tasks /\ job[w].task # NoTask
  BY PipelineAssumption DEF TypeOK, JobType

LEMMA MovedType ==
  ASSUME TypeOK, NEW w \in Workers, job[w].pc # "idle",
         NEW pc \in Targets, NEW p \in BOOLEAN
  PROVE  /\ Moved(w, pc, p) \in JobType
         /\ (Moved(w, pc, p).pc = "idle") <=> (Moved(w, pc, p).task = NoTask)
         /\ pc \in {"end", "escape"} => Moved(w, pc, p) = Idle
         /\ pc \in Running => /\ Moved(w, pc, p).pc = pc
                              /\ Moved(w, pc, p).task = job[w].task
  <1>1. job[w] \in JobType
    BY DEF TypeOK
  <1>2. job[w].task # NoTask
    BY BusyHasTask
  <1>3. CASE pc \in {"end", "escape"}
    BY <1>3, IdleType DEF Moved, Idle, Running, Pcs
  <1>4. CASE pc \in Running
    <2>1. Moved(w, pc, p) = [job[w] EXCEPT !.pc = pc, !.poisoned = p]
      BY <1>4 DEF Moved, Running, Pcs
    <2>2. [job[w] EXCEPT !.pc = pc, !.poisoned = p] \in JobType
      BY <1>1, <1>4 DEF JobType, Running
    <2>3. /\ [job[w] EXCEPT !.pc = pc, !.poisoned = p].pc = pc
          /\ [job[w] EXCEPT !.pc = pc, !.poisoned = p].task = job[w].task
      BY <1>1 DEF JobType
    <2>4. pc # "idle" /\ pc \notin {"end", "escape"}
      BY <1>4 DEF Running, Pcs
    <2> QED
      BY <2>1, <2>2, <2>3, <2>4, <1>2
  <1> QED
    BY <1>3, <1>4 DEF Targets

-----------------------------------------------------------------------------
(***************************************************************************)
(* What one step of a handler does, whichever it is: the worker moves on   *)
(* and the row of its task, alone, may change.                             *)
(***************************************************************************)
Step(w, pc, p, q) ==
  /\ job' = [job EXCEPT ![w] = Moved(w, pc, p)]
  /\ row' = [row EXCEPT ![job[w].task] = q]

\* A transaction is such a step, to ok with the new row or to bad.
LEMMA TransactionIsStep ==
  ASSUME TypeOK, NEW w \in Workers, job[w].pc # "idle",
         NEW r, NEW ok, NEW bad, Transaction(w, r, ok, bad)
  PROVE  \E pc \in {ok, bad}, p \in BOOLEAN, q \in {row[job[w].task], r} :
           /\ Step(w, pc, p, q)
           /\ NoteEnd(job[w].task, pc)
           /\ pc = bad \/ (pc = ok /\ q = r)
  <1> DEFINE t == job[w].task
  <1>1. t \in Tasks /\ row = [row EXCEPT ![t] = row[t]]
    BY BusyHasTask DEF TypeOK
  <1>2. job[w].poisoned \in BOOLEAN
    BY DEF TypeOK, JobType
  <1>3. CASE /\ row' = [row EXCEPT ![t] = r]
             /\ Goto(w, ok)
             /\ NoteEnd(t, ok)
    BY <1>2, <1>3 DEF Goto, Step
  <1>4. CASE /\ \E p \in BOOLEAN :
                  /\ job[w].poisoned => p
                  /\ job' = [job EXCEPT ![w] = Moved(w, bad, p)]
             /\ row' = row
             /\ NoteEnd(t, bad)
    BY <1>1, <1>4 DEF Step
  <1>5. CASE /\ row' = [row EXCEPT ![t] = r]
             /\ \E p \in BOOLEAN : job' = [job EXCEPT ![w] = Moved(w, bad, p)]
             /\ NoteEnd(t, bad)
    BY <1>5 DEF Step
  <1> QED
    BY <1>3, <1>4, <1>5 DEF Transaction

\* The types after a step, and what it leaves alone.
LEMMA StepTypes ==
  ASSUME TypeOK, NEW w \in Workers, job[w].pc # "idle",
         NEW pc \in Targets, NEW p \in BOOLEAN, NEW q \in RowType, Step(w, pc, p, q)
  PROVE  /\ RowsOK' /\ JobsOK'
         /\ row'[job[w].task] = q
         /\ \A t \in Tasks \ {job[w].task} : row'[t] = row[t]
         /\ \A v \in Workers \ {w} : job'[v] = job[v]
         /\ pc \in Running => job'[w].task = job[w].task /\ job'[w].pc = pc
         /\ pc \notin Running => job'[w] = Idle
  <1>1. job[w].task \in Tasks
    BY BusyHasTask
  <1>2. /\ Moved(w, pc, p) \in JobType
        /\ (Moved(w, pc, p).pc = "idle") <=> (Moved(w, pc, p).task = NoTask)
        /\ pc \in {"end", "escape"} => Moved(w, pc, p) = Idle
        /\ pc \in Running => Moved(w, pc, p).pc = pc /\ Moved(w, pc, p).task = job[w].task
    BY MovedType
  <1>3. /\ job'[w] = Moved(w, pc, p)
        /\ \A v \in Workers \ {w} : job'[v] = job[v]
        /\ job' \in [Workers -> JobType]
    BY <1>2 DEF TypeOK, Step
  <1>4. JobsOK'
    BY <1>2, <1>3 DEF JobsOK, TypeOK
  <1>5. /\ row' \in [Tasks -> RowType]
        /\ row'[job[w].task] = q
        /\ \A t \in Tasks \ {job[w].task} : row'[t] = row[t]
    BY <1>1 DEF TypeOK, Step
  <1> QED
    BY <1>2, <1>3, <1>4, <1>5 DEF RowsOK, Targets

-----------------------------------------------------------------------------
(***************************************************************************)
(* The inductive invariant. AccountedFor and OwnerlessOnlyIfUnrecorded are *)
(* not inductive alone: a handler that finds the row missing must come     *)
(* after the submission (WorkFollowsSubmission), and a refused task whose  *)
(* row appeared meanwhile must have got it from another refusing handler   *)
(* (UnsafeIsBlocked).                                                      *)
(***************************************************************************)
AbsentHasNoData == \A t \in Tasks : row[t].status = "absent" => ~row[t].data

BlockedIsUnsafe ==
  \A w \in Workers : job[w].pc \in {"block", "blockcreate"} => job[w].task \in Unsafe

IInv ==
  /\ TypeOK
  /\ AccountedFor
  /\ OwnerlessOnlyIfUnrecorded
  /\ WorkFollowsSubmission
  /\ UnsafeIsBlocked
  /\ SuccessHasData
  /\ AbsentHasNoData
  /\ BlockedIsUnsafe

\* How a handler may change a row: it creates it without an owner or keeps
\* the owner, keeps the data, and writes SUCCESS with data only.
RowChange(old, new) ==
  \/ new = old
  \/ /\ new.status # "absent"
     /\ new.owner = IF old.status = "absent" THEN NoOwner ELSE old.owner
     /\ old.data => new.data
     /\ new.status = "SUCCESS" => new.data /\ new.completed

\* The handlers of a refused task stop at these steps only.
Blocking == {"block", "blockcreate", "failing", "end", "escape"}

\* The effect of a handler's step: it leaves its task in its own hands, in
\* another queue, finished or known to be lost.
Effect(w, pc, p, q) ==
  LET t == job[w].task IN
  /\ Step(w, pc, p, q)
  /\ UNCHANGED <<submit, copies>>
  /\ queue' = queue \/ \E k \in {"fetch", "content"} : t \notin Unsafe /\ Send(k, t)
  /\ lost' = lost \/ lost' = [lost EXCEPT ![t] = TRUE]
  /\ \/ pc \in Running
     \/ q.status \in Final
     \/ lost'[t]
     \/ \E k \in Kinds : queue'[k][t] > 0
  /\ RowChange(row[t], q)
  /\ t \in Unsafe =>
       /\ pc \in Blocking
       /\ q = row[t] \/ q.status = "FAILED"
       /\ pc = "blockcreate" => q.status = "absent"
  /\ pc \in {"block", "blockcreate"} => t \in Unsafe

LEMMA UpdateStatusChange ==
  ASSUME NEW r \in RowType, NEW s \in {"IN_PROGRESS", "FAILED"}
  PROVE  /\ RowChange(r, UpdateStatus(r, s))
         /\ UpdateStatus(r, s).status \in {s, "absent"}
         /\ UpdateStatus(r, s) = r \/ UpdateStatus(r, s).status = s
  BY DEF RowType, ApiStatuses, RowChange, UpdateStatus

LEMMA ResultChange ==
  ASSUME NEW r \in RowType, r.status = "SUCCESS" => r.data /\ r.completed
  PROVE  /\ RowChange(r, UpdateSources(r))
         /\ RowChange(r, PersistResult(r))
         /\ PersistResult(r).status \in {"SUCCESS", "absent"}
  BY DEF RowType, ApiStatuses, RowChange, UpdateSources, PersistResult

LEMMA NoteEndFacts ==
  ASSUME TypeOK, NEW t \in Tasks, NEW pc, NoteEnd(t, pc)
  PROVE  /\ lost' = lost \/ lost' = [lost EXCEPT ![t] = TRUE]
         /\ pc = "escape" => lost'[t]
         /\ pc = "end" /\ row'[t].status = "absent" => lost'[t]
  <1>1. lost' = [lost EXCEPT ![t] = lost[t] \/ pc = "escape"
                                \/ (pc = "end" /\ row'[t].status = "absent")]
    BY DEF NoteEnd
  <1>2. lost \in [Tasks -> BOOLEAN]
    BY DEF TypeOK
  <1>3. CASE pc = "escape" \/ (pc = "end" /\ row'[t].status = "absent")
    <2>1. lost' = [lost EXCEPT ![t] = TRUE]
      BY <1>1, <1>3
    <2> QED
      BY <2>1, <1>2
  <1>4. CASE ~(pc = "escape" \/ (pc = "end" /\ row'[t].status = "absent"))
    <2>1. lost' = [lost EXCEPT ![t] = lost[t]]
      BY <1>1, <1>4, <1>2
    <2>2. lost' = lost
      BY <2>1, <1>2
    <2> QED
      BY <2>2, <1>4
  <1> QED
    BY <1>3, <1>4

-----------------------------------------------------------------------------
(***************************************************************************)
(* The four forms a step of a handler takes.                               *)
(***************************************************************************)
HasEffect(w) ==
  \E pc \in Targets, p \in BOOLEAN, q \in RowType : Effect(w, pc, p, q)

\* A step that touches neither the table nor a queue.
LEMMA PlainEffect ==
  ASSUME IInv, NEW w \in Workers, job[w].pc # "idle",
         NEW pc \in Running, NEW p \in BOOLEAN,
         job' = [job EXCEPT ![w] = Moved(w, pc, p)],
         UNCHANGED <<row, submit, queue, copies, lost>>,
         job[w].task \in Unsafe =>
           /\ pc \in Blocking
           /\ pc = "blockcreate" => row[job[w].task].status = "absent",
         pc \in {"block", "blockcreate"} => job[w].task \in Unsafe
  PROVE  HasEffect(w)
  <1>1. job[w].task \in Tasks
    BY BusyHasTask DEF IInv
  <1>2. row[job[w].task] \in RowType /\ row' = [row EXCEPT ![job[w].task] = row[job[w].task]]
    BY <1>1 DEF IInv, TypeOK
  <1>3. Effect(w, pc, p, row[job[w].task])
    BY <1>2 DEF Effect, Step, RowChange
  <1>4. pc \in Targets
    BY DEF Targets
  <1> QED
    BY <1>2, <1>3, <1>4 DEF HasEffect

\* A transaction on the row.
LEMMA TransactionEffect ==
  ASSUME IInv, NEW w \in Workers, job[w].pc # "idle",
         NEW r \in RowType,
         NEW ok \in Targets \ {"block", "blockcreate"},
         NEW bad \in Targets \ {"block", "blockcreate", "end"},
         Transaction(w, r, ok, bad), UNCHANGED <<submit, queue, copies>>,
         RowChange(row[job[w].task], r),
         ok = "end" => r.status \in Final \cup {"absent"},
         job[w].task \in Unsafe =>
           /\ ok \in Blocking /\ bad \in Blocking
           /\ r = row[job[w].task] \/ r.status = "FAILED"
  PROVE  HasEffect(w)
  <1> DEFINE t == job[w].task
  <1>1. t \in Tasks /\ TypeOK
    BY BusyHasTask DEF IInv
  <1>2. row[t] \in RowType
    BY <1>1 DEF TypeOK
  <1>3. PICK pc \in {ok, bad}, p \in BOOLEAN, q \in {row[t], r} :
          /\ Step(w, pc, p, q)
          /\ NoteEnd(t, pc)
          /\ pc = bad \/ (pc = ok /\ q = r)
    BY <1>1, TransactionIsStep
  <1>4. pc \in Targets /\ q \in RowType
    BY <1>2
  <1>5. row'[t] = q
    BY <1>1, <1>3, <1>4, StepTypes
  <1>6. /\ lost' = lost \/ lost' = [lost EXCEPT ![t] = TRUE]
        /\ pc = "escape" => lost'[t]
        /\ pc = "end" /\ row'[t].status = "absent" => lost'[t]
    BY <1>1, <1>3, NoteEndFacts
  <1>7. pc \in Running \/ q.status \in Final \/ lost'[t]
    <2>1. CASE pc = "end"
      <3>1. pc = ok /\ q = r
        BY <2>1, <1>3
      <3> QED
        BY <2>1, <3>1, <1>5, <1>6
    <2> QED
      BY <2>1, <1>4, <1>6 DEF Targets
  <1>8. RowChange(row[t], q)
    BY DEF RowChange
  <1>9. t \in Unsafe => /\ pc \in Blocking /\ pc # "blockcreate"
                        /\ q = row[t] \/ q.status = "FAILED"
    OBVIOUS
  <1>10. Effect(w, pc, p, q)
    BY <1>3, <1>6, <1>7, <1>8, <1>9 DEF Effect
  <1> QED
    BY <1>4, <1>10 DEF HasEffect

\* A message to the next queue.
LEMMA HandOverEffect ==
  ASSUME IInv, NEW w \in Workers, job[w].pc # "idle",
         NEW k \in {"fetch", "content"}, NEW bad \in Running \ {"block", "blockcreate"},
         HandOver(w, k, bad), UNCHANGED <<row, submit, copies, lost>>,
         job[w].task \notin Unsafe
  PROVE  HasEffect(w)
  <1> DEFINE t == job[w].task
  <1>1. t \in Tasks /\ TypeOK
    BY BusyHasTask DEF IInv
  <1>2. row[t] \in RowType /\ row' = [row EXCEPT ![t] = row[t]]
    BY <1>1 DEF TypeOK
  <1>3. job[w].poisoned \in BOOLEAN /\ {bad, "end"} \subseteq Targets
    BY <1>1 DEF TypeOK, JobType, Targets
  <1>4. CASE Send(k, t) /\ Goto(w, "end")
    <2>1. queue'[k][t] > 0 /\ k \in Kinds
      BY <1>1, <1>4 DEF TypeOK, Send, Kinds
    <2>2. Effect(w, "end", job[w].poisoned, row[t])
      BY <1>2, <1>4, <2>1 DEF Effect, Step, Goto, RowChange
    <2> QED
      BY <2>2, <1>2, <1>3 DEF HasEffect
  <1>5. CASE Goto(w, bad) /\ (UNCHANGED queue \/ Send(k, t))
    <2>1. Effect(w, bad, job[w].poisoned, row[t])
      BY <1>2, <1>5 DEF Effect, Step, Goto, RowChange
    <2> QED
      BY <2>1, <1>2, <1>3 DEF HasEffect
  <1> QED
    BY <1>4, <1>5 DEF HandOver

\* The creation of a missing row; a refused task's row that is there by now
\* says FAILED already.
LEMMA InsertEffect ==
  ASSUME IInv, NEW w \in Workers, job[w].pc # "idle",
         NEW s \in {"PENDING", "FAILED"}, NEW next \in {"mark", "end"},
         InsertMissing(w, s, next),
         next = "end" => /\ s = "FAILED"
                         /\ row[job[w].task].status \in {"absent", "FAILED"},
         job[w].task \in Unsafe => next = "end"
  PROVE  HasEffect(w)
  <1> DEFINE t == job[w].task
             n == NewRow(s, NoOwner)
  <1>1. t \in Tasks /\ TypeOK
    BY BusyHasTask DEF IInv
  <1>2. row[t] \in RowType /\ row = [row EXCEPT ![t] = row[t]] /\ job[w].poisoned \in BOOLEAN
    BY <1>1 DEF TypeOK, JobType
  <1>3. n \in RowType /\ n.status = s /\ n.owner = NoOwner /\ ~n.data
    BY NewRowType DEF ApiStatuses
  <1>4. ~row[t].data \/ Exists(t)
    BY <1>1 DEF IInv, AbsentHasNoData, Exists
  <1>5. PICK p \in BOOLEAN, q \in RowType :
          /\ Step(w, next, p, q)
          /\ q = row[t] \/ (q = n /\ ~Exists(t))
    <2>1. CASE ~Exists(t) /\ row' = [row EXCEPT ![t] = n] /\ Goto(w, next)
      BY <2>1, <1>2, <1>3 DEF Step, Goto
    <2>2. CASE /\ row' = row
               /\ \E p \in BOOLEAN : job' = [job EXCEPT ![w] = Moved(w, next, p)]
      BY <2>2, <1>2 DEF Step
    <2>3. CASE /\ ~Exists(t) /\ row' = [row EXCEPT ![t] = n]
               /\ \E p \in BOOLEAN : job' = [job EXCEPT ![w] = Moved(w, next, p)]
      BY <2>3, <1>3 DEF Step
    <2> QED
      BY <2>1, <2>2, <2>3 DEF InsertMissing
  <1>6. row'[t] = q /\ next \in Targets
    <2>1. next \in Targets
      BY DEF Targets, Running, Pcs
    <2> QED
      BY <1>1, <1>5, <2>1, StepTypes
  <1>7. /\ lost' = lost \/ lost' = [lost EXCEPT ![t] = TRUE]
        /\ next = "end" /\ row'[t].status = "absent" => lost'[t]
        /\ UNCHANGED <<submit, queue, copies>>
    BY <1>1, NoteEndFacts DEF InsertMissing
  <1>8. RowChange(row[t], q)
    BY <1>3, <1>4, <1>5 DEF RowChange, Exists
  <1>9. next \in Running \/ q.status \in Final \/ lost'[t]
    <2>1. CASE next = "mark"
      BY <2>1 DEF Running, Pcs
    <2>2. CASE next = "end"
      BY <2>2, <1>3, <1>5, <1>6, <1>7 DEF Final
    <2> QED
      BY <2>1, <2>2
  <1>10. t \in Unsafe => /\ next \in Blocking /\ next # "blockcreate"
                         /\ q = row[t] \/ q.status = "FAILED"
    BY <1>3, <1>5 DEF Blocking
  <1>11. Effect(w, next, p, q)
    BY <1>5, <1>7, <1>8, <1>9, <1>10 DEF Effect
  <1> QED
    BY <1>6, <1>11 DEF HasEffect

-----------------------------------------------------------------------------
(***************************************************************************)
(* Every action of the three handlers takes one of these forms.            *)
(***************************************************************************)
LEMMA HandlingEffect ==
  ASSUME IInv, NEW w \in Workers, Handling(w)
  PROVE  job[w].pc # "idle" /\ HasEffect(w)
  <1> DEFINE t == job[w].task
  <1>1. job[w].pc # "idle"
    BY DEF Handling, At, LookUp, CreateMissing, BlockTask, MarkInProgress,
           AnalyzeIntent, DelegateFetch, MarkFailed, Browse, DelegateContent,
           MarkFetchFailed, SaveSources, Extract, SaveResult, MarkNoData
  <1>2. t \in Tasks /\ TypeOK
    BY <1>1, BusyHasTask DEF IInv
  <1>3. row[t] \in RowType /\ job[w].poisoned \in BOOLEAN
    BY <1>2 DEF TypeOK, JobType
  <1>4. t \in Unsafe =>
          /\ job[w].pc \in {"lookup", "block", "blockcreate", "failing"}
          /\ job[w].pc = "blockcreate" => row[t].status \in {"absent", "FAILED"}
    BY <1>2 DEF IInv, UnsafeIsBlocked
  <1>5. \A s \in {"IN_PROGRESS", "FAILED"} :
          /\ UpdateStatus(row[t], s) \in RowType
          /\ RowChange(row[t], UpdateStatus(row[t], s))
          /\ UpdateStatus(row[t], s).status \in {s, "absent"}
          /\ UpdateStatus(row[t], s) = row[t] \/ UpdateStatus(row[t], s).status = s
    BY <1>3, RowTypes, UpdateStatusChange DEF ApiStatuses
  <1>6. /\ UpdateSources(row[t]) \in RowType /\ PersistResult(row[t]) \in RowType
        /\ RowChange(row[t], UpdateSources(row[t]))
        /\ RowChange(row[t], PersistResult(row[t]))
        /\ PersistResult(row[t]).status \in {"SUCCESS", "absent"}
    <2>1. row[t].status = "SUCCESS" => row[t].data /\ row[t].completed
      BY <1>2 DEF IInv, SuccessHasData
    <2> QED
      BY <2>1, <1>3, RowTypes, ResultChange
  <1> USE DEF At
  <1>a. ASSUME LookUp(w) PROVE HasEffect(w)
    <2>1. PICK pc \in {"block", "blockcreate", "mark", "create", "failing"}, p \in BOOLEAN :
            /\ job' = [job EXCEPT ![w] = Moved(w, pc, p)]
            /\ pc \in {"block", "blockcreate"} => t \in Unsafe
            /\ t \in Unsafe => pc \in {"block", "blockcreate", "failing"}
            /\ pc = "blockcreate" => row[t].status = "absent"
      BY <1>a, <1>3 DEF LookUp, Goto, Exists
    <2>2. pc \in Running /\ (t \in Unsafe => pc \in Blocking)
      BY <2>1 DEF Running, Pcs, Blocking
    <2> QED
      BY <2>1, <2>2, <1>1, <1>a, PlainEffect DEF LookUp
  <1>b. ASSUME CreateMissing(w) PROVE HasEffect(w)
    <2>1. CASE job[w].pc = "create"
      <3>1. InsertMissing(w, "PENDING", "mark")
        BY <1>b, <2>1 DEF CreateMissing
      <3> QED
        BY <1>1, <1>4, <2>1, <3>1, InsertEffect
    <2>2. CASE job[w].pc = "blockcreate"
      <3>1. InsertMissing(w, "FAILED", "end")
        BY <1>b, <2>2 DEF CreateMissing
      <3>2. t \in Unsafe
        BY <2>2 DEF IInv, BlockedIsUnsafe
      <3> QED
        BY <1>1, <1>4, <2>2, <3>1, <3>2, InsertEffect
    <2> QED
      BY <1>b, <2>1, <2>2 DEF CreateMissing
  <1>d. ASSUME BlockTask(w) PROVE HasEffect(w)
    <2>1. {"end", "failing"} \subseteq Blocking \cap Targets
      BY DEF Blocking, Targets, Running, Pcs
    <2> QED
      BY <1>1, <1>5, <1>d, <2>1, TransactionEffect DEF BlockTask, Final
  <1>e. ASSUME MarkInProgress(w) PROVE HasEffect(w)
    <2>1. {"intent", "failing"} \subseteq Targets
      BY DEF Targets, Running, Pcs
    <2> QED
      BY <1>1, <1>4, <1>5, <1>e, <2>1, TransactionEffect DEF MarkInProgress
  <1>f. ASSUME AnalyzeIntent(w) PROVE HasEffect(w)
    <2>1. {"sendfetch", "failing"} \subseteq Running
      BY DEF Running, Pcs
    <2> QED
      BY <1>1, <1>3, <1>4, <1>f, <2>1, PlainEffect DEF AnalyzeIntent, Goto
  <1>g. ASSUME DelegateFetch(w) PROVE HasEffect(w)
    <2>1. "failing" \in Running
      BY DEF Running, Pcs
    <2> QED
      BY <1>1, <1>4, <1>g, <2>1, HandOverEffect DEF DelegateFetch
  <1>h. ASSUME MarkFailed(w) PROVE HasEffect(w)
    <2>1. {"end", "escape"} \subseteq Blocking \cap Targets
      BY DEF Blocking, Targets
    <2> QED
      BY <1>1, <1>5, <1>h, <2>1, TransactionEffect DEF MarkFailed, Final
  <1>i. ASSUME Browse(w) PROVE HasEffect(w)
    <2>1. {"sendcontent", "fetchfailed"} \subseteq Running
      BY DEF Running, Pcs
    <2> QED
      BY <1>1, <1>3, <1>4, <1>i, <2>1, PlainEffect DEF Browse, Goto
  <1>j. ASSUME DelegateContent(w) PROVE HasEffect(w)
    <2>1. "fetchfailed" \in Running
      BY DEF Running, Pcs
    <2> QED
      BY <1>1, <1>4, <1>j, <2>1, HandOverEffect DEF DelegateContent
  <1>k. ASSUME MarkFetchFailed(w) PROVE HasEffect(w)
    <2>1. {"end", "escape"} \subseteq Targets
      BY DEF Targets
    <2> QED
      BY <1>1, <1>4, <1>5, <1>k, <2>1, TransactionEffect DEF MarkFetchFailed, Final
  <1>l. ASSUME SaveSources(w) PROVE HasEffect(w)
    <2>1. "extract" \in Targets
      BY DEF Targets, Running, Pcs
    <2> QED
      BY <1>1, <1>4, <1>6, <1>l, <2>1, TransactionEffect DEF SaveSources
  <1>m. ASSUME Extract(w) PROVE HasEffect(w)
    <2>1. PICK pc \in {"persist", "nodata", "failing"}, p \in BOOLEAN :
            job' = [job EXCEPT ![w] = Moved(w, pc, p)]
      BY <1>m, <1>3 DEF Extract, Goto
    <2>2. pc \in Running
      BY DEF Running, Pcs
    <2> QED
      BY <1>1, <1>4, <1>m, <2>1, <2>2, PlainEffect DEF Extract
  <1>n. ASSUME SaveResult(w) PROVE HasEffect(w)
    <2>1. {"end", "failing"} \subseteq Targets
      BY DEF Targets, Running, Pcs
    <2> QED
      BY <1>1, <1>4, <1>6, <1>n, <2>1, TransactionEffect DEF SaveResult, Final
  <1>o. ASSUME MarkNoData(w) PROVE HasEffect(w)
    <2>1. {"end", "failing"} \subseteq Targets
      BY DEF Targets, Running, Pcs
    <2> QED
      BY <1>1, <1>4, <1>5, <1>o, <2>1, TransactionEffect DEF MarkNoData, Final
  <1> QED
    BY <1>1, <1>a, <1>b, <1>d, <1>e, <1>f, <1>g, <1>h, <1>i, <1>j, <1>k, <1>l,
       <1>m, <1>n, <1>o DEF Handling

-----------------------------------------------------------------------------
(***************************************************************************)
(* The invariant is inductive.                                             *)
(***************************************************************************)
HasCarrier(t) ==
  \/ \E k \in Kinds : queue[k][t] > 0
  \/ \E w \in Workers : job[w].task = t
  \/ submit[t].pc \in {"persist", "enqueue"}

LEMMA CarrierForms ==
  ASSUME NEW t \in Tasks
  PROVE  /\ (Carriers(t) # {}) <=> HasCarrier(t)
         /\ (Carriers(t)' # {}) <=> HasCarrier(t)'
  BY DEF Carriers, HasCarrier

LEMMA InitInv == Init => IInv
  <1> SUFFICES ASSUME Init PROVE IInv
    OBVIOUS
  <1>1. TypeOK
    <2>1. NotSubmitted \in SubmitType
      BY DEF NotSubmitted, SubmitType
    <2>2. Idle.pc = "idle" /\ Idle.task = NoTask
      BY DEF Idle
    <2> QED
      BY <2>1, <2>2, IdleType DEF Init, TypeOK
  <1>2. \A t \in Tasks : /\ row[t] = Absent /\ submit[t] = NotSubmitted
                        /\ \A k \in Kinds : queue[k][t] = 0
                        /\ \A w \in Workers : job[w] = Idle
    BY DEF Init
  <1>3. /\ NotSubmitted.pc = "none" /\ NotSubmitted.recorded = FALSE
        /\ Absent.status = "absent" /\ Absent.data = FALSE
        /\ Idle.pc = "idle" /\ Idle.task = NoTask /\ NoTask \notin Tasks
        /\ Unsafe \subseteq Tasks /\ {"fetch", "content"} \subseteq Kinds
    BY PipelineAssumption DEF NotSubmitted, Absent, Idle, Kinds
  <1>4. AccountedFor /\ OwnerlessOnlyIfUnrecorded /\ WorkFollowsSubmission
    BY <1>2, <1>3 DEF AccountedFor, OwnerlessOnlyIfUnrecorded, WorkFollowsSubmission, Exists
  <1>5. UnsafeIsBlocked
    BY <1>2, <1>3 DEF UnsafeIsBlocked
  <1>6. SuccessHasData /\ AbsentHasNoData
    BY <1>2, <1>3 DEF SuccessHasData, AbsentHasNoData
  <1>7. BlockedIsUnsafe
    BY <1>3 DEF BlockedIsUnsafe, Init
  <1> QED
    BY <1>1, <1>4, <1>5, <1>6, <1>7 DEF IInv

\* A step of a handler preserves the invariant.
LEMMA HandlingInv ==
  ASSUME IInv, NEW w \in Workers, job[w].pc # "idle", HasEffect(w)
  PROVE  IInv'
  <1> DEFINE t == job[w].task
  <1>1. t \in Tasks /\ TypeOK
    BY BusyHasTask DEF IInv
  <1>2. PICK pc \in Targets, p \in BOOLEAN, q \in RowType : Effect(w, pc, p, q)
    BY DEF HasEffect
  <1>3. /\ RowsOK' /\ JobsOK'
        /\ row'[t] = q
        /\ \A u \in Tasks \ {t} : row'[u] = row[u]
        /\ \A v \in Workers \ {w} : job'[v] = job[v]
        /\ pc \in Running => job'[w].task = t /\ job'[w].pc = pc
        /\ pc \notin Running => job'[w] = Idle
    BY <1>1, <1>2, StepTypes DEF Effect
  <1>4. submit' = submit /\ copies' = copies
    BY <1>2 DEF Effect
  <1>5. /\ lost' \in [Tasks -> BOOLEAN]
        /\ \A u \in Tasks : lost[u] => lost'[u]
    BY <1>1, <1>2 DEF Effect, TypeOK
  <1>6. /\ queue' \in [Kinds -> [Tasks -> Nat]]
        /\ \A k \in Kinds, u \in Tasks : queue'[k][u] >= queue[k][u]
        /\ \A k \in Kinds, u \in Tasks \ {t} : queue'[k][u] = queue[k][u]
        /\ t \in Unsafe => queue' = queue
    <2>1. CASE queue' = queue
      BY <2>1, <1>1 DEF TypeOK
    <2>2. CASE t \notin Unsafe /\ \E k \in {"fetch", "content"} : Send(k, t)
      <3>1. PICK k \in {"fetch", "content"} : queue' = [queue EXCEPT ![k][t] = @ + 1]
        BY <2>2 DEF Send
      <3>2. queue \in [Kinds -> [Tasks -> Nat]] /\ k \in Kinds
        BY <1>1 DEF TypeOK, Kinds
      <3>3. queue' = [queue EXCEPT ![k] = [queue[k] EXCEPT ![t] = queue[k][t] + 1]]
        BY <3>1
      <3> QED
        BY <1>1, <2>2, <3>2, <3>3
    <2> QED
      BY <1>2, <2>1, <2>2 DEF Effect
  <1>7. Idle.task = NoTask /\ Idle.pc = "idle" /\ NoTask \notin Tasks
    BY PipelineAssumption DEF Idle
  <1>8. TypeOK'
    BY <1>1, <1>3, <1>4, <1>5, <1>6 DEF TypeOK, RowsOK, JobsOK
  <1>9. AccountedFor'
    <2> SUFFICES ASSUME NEW u \in Tasks, submit[u].pc = "accepted"
                 PROVE  row'[u].status \in Final \/ lost'[u] \/ HasCarrier(u)'
      BY <1>4, CarrierForms DEF AccountedFor
    <2>1. CASE u = t
      BY <1>2, <1>3, <2>1 DEF Effect, HasCarrier
    <2>2. CASE u # t
      <3>1. row[u].status \in Final \/ lost[u] \/ HasCarrier(u)
        BY CarrierForms DEF IInv, AccountedFor
      <3>2. HasCarrier(u) => HasCarrier(u)'
        <4>1. \A v \in Workers : job[v].task = u => job'[v].task = u
          BY <1>3, <2>2
        <4>2. \A k \in Kinds : queue[k][u] > 0 => queue'[k][u] > 0
          BY <1>6, <2>2
        <4> QED
          BY <1>4, <4>1, <4>2 DEF HasCarrier
      <3> QED
        BY <1>3, <1>5, <2>2, <3>1, <3>2
    <2> QED
      BY <2>1, <2>2
  <1>10. /\ submit[t].pc = "accepted"
         /\ submit[t].recorded => Exists(t)
    BY <1>1 DEF IInv, WorkFollowsSubmission
  <1>11. RowChange(row[t], q)
    BY <1>2 DEF Effect
  <1>12. OwnerlessOnlyIfUnrecorded'
    BY <1>1, <1>3, <1>4, <1>10, <1>11
       DEF IInv, OwnerlessOnlyIfUnrecorded, RowChange, Exists
  <1>13. WorkFollowsSubmission'
    <2> SUFFICES ASSUME NEW u \in Tasks
                 PROVE  /\ \A k \in Kinds : queue'[k][u] > 0 => submit'[u].pc = "accepted"
                        /\ \A v \in Workers : job'[v].task = u => submit'[u].pc = "accepted"
                        /\ submit'[u].pc \in {"none", "persist"} => ~Exists(u)'
                        /\ submit'[u].recorded => Exists(u)'
      BY DEF WorkFollowsSubmission
    <2>1. submit'[u] = submit[u]
      BY <1>4
    <2>2. /\ \A k \in Kinds : queue[k][u] > 0 => submit[u].pc = "accepted"
          /\ \A v \in Workers : job[v].task = u => submit[u].pc = "accepted"
          /\ submit[u].pc \in {"none", "persist"} => row[u].status = "absent"
          /\ submit[u].recorded => row[u].status # "absent"
      BY DEF IInv, WorkFollowsSubmission, Exists
    <2>3. \A k \in Kinds : queue'[k][u] > 0 => submit'[u].pc = "accepted"
      BY <1>1, <1>6, <1>10, <2>1, <2>2
    <2>4. \A v \in Workers : job'[v].task = u => submit'[u].pc = "accepted"
      BY <1>3, <1>7, <1>10, <2>1, <2>2
    <2>5. CASE u = t
      <3>1. submit'[u].pc = "accepted" /\ (submit'[u].recorded => Exists(u)')
        BY <1>3, <1>10, <1>11, <2>1, <2>5 DEF Exists, RowChange
      <3> QED
        BY <2>3, <2>4, <3>1
    <2>6. CASE u # t
      <3>1. row'[u] = row[u]
        BY <1>3, <2>6
      <3>2. /\ submit'[u].pc \in {"none", "persist"} => row'[u].status = "absent"
            /\ submit'[u].recorded => row'[u].status # "absent"
        BY <2>1, <2>2, <3>1
      <3> QED
        BY <2>3, <2>4, <3>2 DEF Exists
    <2> QED
      BY <2>5, <2>6
  <1>14. UnsafeIsBlocked'
    <2> SUFFICES ASSUME NEW u \in Unsafe
                 PROVE  /\ queue'["fetch"][u] = 0 /\ queue'["content"][u] = 0
                        /\ row'[u].status \in {"absent", "PENDING", "FAILED"}
                        /\ \A v \in Workers :
                             job'[v].task = u =>
                               /\ job'[v].pc \in {"lookup", "block", "blockcreate", "failing"}
                               /\ job'[v].pc = "blockcreate" =>
                                    row'[u].status \in {"absent", "FAILED"}
      BY DEF UnsafeIsBlocked
    <2>1. u \in Tasks /\ {"fetch", "content"} \subseteq Kinds
      BY PipelineAssumption DEF Kinds
    <2>2. /\ queue["fetch"][u] = 0 /\ queue["content"][u] = 0
          /\ row[u].status \in {"absent", "PENDING", "FAILED"}
          /\ \A v \in Workers :
               job[v].task = u =>
                 /\ job[v].pc \in {"lookup", "block", "blockcreate", "failing"}
                 /\ job[v].pc = "blockcreate" => row[u].status \in {"absent", "FAILED"}
      BY DEF IInv, UnsafeIsBlocked
    <2>3. CASE u = t
      <3>1. /\ pc \in Blocking
            /\ q = row[t] \/ q.status = "FAILED"
            /\ pc = "blockcreate" => q.status = "absent"
        BY <1>2, <2>3 DEF Effect
      <3>2. \A v \in Workers \ {w} :
              job'[v].task = u =>
                /\ job'[v].pc \in {"lookup", "block", "blockcreate", "failing"}
                /\ job'[v].pc = "blockcreate" => row'[u].status \in {"absent", "FAILED"}
        BY <1>3, <2>2, <2>3, <3>1
      <3>3. job'[w].task = u =>
              /\ job'[w].pc \in {"lookup", "block", "blockcreate", "failing"}
              /\ job'[w].pc = "blockcreate" => row'[u].status \in {"absent", "FAILED"}
        BY <1>3, <1>7, <2>1, <2>3, <3>1 DEF Blocking, Targets, Running, Pcs
      <3> QED
        BY <1>3, <1>6, <2>2, <2>3, <3>1, <3>2, <3>3
    <2>4. CASE u # t
      <3>1. \A v \in Workers : job'[v].task = u => v # w /\ job'[v] = job[v]
        BY <1>3, <1>7, <2>1, <2>4
      <3> QED
        BY <1>3, <1>6, <2>1, <2>2, <2>4, <3>1
    <2> QED
      BY <2>3, <2>4 DEF Exists
  <1>15. SuccessHasData' /\ AbsentHasNoData'
    BY <1>3, <1>11 DEF IInv, SuccessHasData, AbsentHasNoData, RowChange
  <1>16. BlockedIsUnsafe'
    <2>1. pc \in {"block", "blockcreate"} => t \in Unsafe
      BY <1>2 DEF Effect
    <2> QED
      BY <1>3, <1>7, <2>1 DEF IInv, BlockedIsUnsafe
  <1> QED
    BY <1>8, <1>9, <1>12, <1>13, <1>14, <1>15, <1>16 DEF IInv

\* A worker that takes a message carries the task on instead of the queue.
LEMMA TakingInv ==
  ASSUME IInv, NEW w \in Workers, NEW k \in Kinds, NEW t \in Tasks, NEW W \in SUBSET Workers,
         NEW pc \in {"lookup", "browse", "sources"},
         pc = "lookup" <=> k = "request",
         Take(w, W, k, t, pc)
  PROVE  IInv'
  <1> DEFINE busy == [pc |-> pc, task |-> t, poisoned |-> FALSE]
  <1>1. /\ TypeOK /\ job[w] = Idle /\ queue[k][t] > 0
        /\ queue' = [queue EXCEPT ![k][t] = @ - 1]
        /\ job' = [job EXCEPT ![w] = busy]
        /\ row' = row /\ submit' = submit /\ copies' = copies /\ lost' = lost
    BY DEF Take, IInv
  <1>2. busy \in JobType /\ busy.pc = pc /\ busy.task = t /\ pc # "idle" /\ t # NoTask
    BY PipelineAssumption DEF JobType, Pcs
  <1>3. /\ job' \in [Workers -> JobType]
        /\ job'[w] = busy
        /\ \A v \in Workers \ {w} : job'[v] = job[v]
    BY <1>1, <1>2 DEF TypeOK
  <1>4. /\ queue' \in [Kinds -> [Tasks -> Nat]]
        /\ \A j \in Kinds, u \in Tasks : queue'[j][u] <= queue[j][u]
        /\ \A j \in Kinds, u \in Tasks \ {t} : queue'[j][u] = queue[j][u]
    <2>1. queue' = [queue EXCEPT ![k] = [queue[k] EXCEPT ![t] = queue[k][t] - 1]]
      BY <1>1
    <2>2. queue \in [Kinds -> [Tasks -> Nat]] /\ queue[k][t] - 1 \in Nat
      BY <1>1 DEF TypeOK
    <2> QED
      BY <2>1, <2>2
  <1>5. Idle.task = NoTask /\ Idle.pc = "idle" /\ NoTask \notin Tasks
    BY PipelineAssumption DEF Idle
  <1>6. TypeOK'
    BY <1>1, <1>2, <1>3, <1>4 DEF TypeOK
  <1>7. AccountedFor'
    <2> SUFFICES ASSUME NEW u \in Tasks, submit[u].pc = "accepted"
                 PROVE  row[u].status \in Final \/ lost[u] \/ HasCarrier(u)'
      BY <1>1, CarrierForms DEF AccountedFor
    <2>1. CASE u = t
      BY <1>2, <1>3, <2>1 DEF HasCarrier
    <2>2. CASE u # t
      <3>1. row[u].status \in Final \/ lost[u] \/ HasCarrier(u)
        BY CarrierForms DEF IInv, AccountedFor
      <3>2. HasCarrier(u) => HasCarrier(u)'
        <4>1. \A v \in Workers : job[v].task = u => job'[v].task = u
          BY <1>1, <1>3, <1>5
        <4>2. \A j \in Kinds : queue[j][u] > 0 => queue'[j][u] > 0
          BY <1>4, <2>2
        <4> QED
          BY <1>1, <4>1, <4>2 DEF HasCarrier
      <3> QED
        BY <3>1, <3>2
    <2> QED
      BY <2>1, <2>2
  <1>8. OwnerlessOnlyIfUnrecorded' /\ SuccessHasData' /\ AbsentHasNoData'
    BY <1>1 DEF IInv, OwnerlessOnlyIfUnrecorded, SuccessHasData, AbsentHasNoData, Exists
  <1>9. WorkFollowsSubmission'
    <2>1. submit[t].pc = "accepted"
      BY <1>1 DEF IInv, WorkFollowsSubmission
    <2>2. \A u \in Tasks : \A j \in Kinds : queue'[j][u] > 0 => submit[u].pc = "accepted"
      <3> SUFFICES ASSUME NEW u \in Tasks, NEW j \in Kinds, queue'[j][u] > 0
                   PROVE  submit[u].pc = "accepted"
        OBVIOUS
      <3>1. CASE u = t
        BY <2>1, <3>1
      <3>2. CASE u # t
        BY <1>4, <3>2 DEF IInv, WorkFollowsSubmission
      <3> QED
        BY <3>1, <3>2
    <2>3. \A u \in Tasks : \A v \in Workers : job'[v].task = u => submit[u].pc = "accepted"
      BY <1>2, <1>3, <2>1 DEF IInv, WorkFollowsSubmission
    <2> SUFFICES ASSUME NEW u \in Tasks
                 PROVE  /\ \A j \in Kinds : queue'[j][u] > 0 => submit'[u].pc = "accepted"
                        /\ \A v \in Workers : job'[v].task = u => submit'[u].pc = "accepted"
                        /\ submit'[u].pc \in {"none", "persist"} => ~Exists(u)'
                        /\ submit'[u].recorded => Exists(u)'
      BY DEF WorkFollowsSubmission
    <2>4. /\ submit[u].pc \in {"none", "persist"} => row[u].status = "absent"
          /\ submit[u].recorded => row[u].status # "absent"
      BY DEF IInv, WorkFollowsSubmission, Exists
    <2>5. submit'[u] = submit[u] /\ row'[u] = row[u]
      BY <1>1
    <2>6. \A j \in Kinds : queue'[j][u] > 0 => submit'[u].pc = "accepted"
      BY <2>2, <2>5
    <2>7. \A v \in Workers : job'[v].task = u => submit'[u].pc = "accepted"
      BY <2>3, <2>5
    <2>8. /\ submit'[u].pc \in {"none", "persist"} => row'[u].status = "absent"
          /\ submit'[u].recorded => row'[u].status # "absent"
      BY <2>4, <2>5
    <2> QED
      BY <2>6, <2>7, <2>8 DEF Exists
  <1>10. UnsafeIsBlocked'
    <2> SUFFICES ASSUME NEW u \in Unsafe
                 PROVE  /\ queue'["fetch"][u] = 0 /\ queue'["content"][u] = 0
                        /\ row[u].status \in {"absent", "PENDING", "FAILED"}
                        /\ \A v \in Workers :
                             job'[v].task = u =>
                               /\ job'[v].pc \in {"lookup", "block", "blockcreate", "failing"}
                               /\ job'[v].pc = "blockcreate" =>
                                    row[u].status \in {"absent", "FAILED"}
      BY <1>1 DEF UnsafeIsBlocked
    <2>1. u \in Tasks /\ {"fetch", "content"} \subseteq Kinds
      BY PipelineAssumption DEF Kinds
    <2>2. /\ queue["fetch"][u] = 0 /\ queue["content"][u] = 0
          /\ row[u].status \in {"absent", "PENDING", "FAILED"}
          /\ \A v \in Workers :
               job[v].task = u =>
                 /\ job[v].pc \in {"lookup", "block", "blockcreate", "failing"}
                 /\ job[v].pc = "blockcreate" => row[u].status \in {"absent", "FAILED"}
      BY DEF IInv, UnsafeIsBlocked
    <2>3. queue'["fetch"][u] = 0 /\ queue'["content"][u] = 0
      <3>1. \A j \in {"fetch", "content"} : queue'[j][u] \in Nat /\ queue'[j][u] <= 0
        BY <1>4, <2>1, <2>2
      <3> QED
        BY <3>1
    <2>4. u = t => pc = "lookup"
      BY <1>1, <2>2 DEF Kinds
    <2> QED
      BY <1>2, <1>3, <2>2, <2>3, <2>4
  <1>11. BlockedIsUnsafe'
    BY <1>2, <1>3 DEF IInv, BlockedIsUnsafe
  <1> QED
    BY <1>6, <1>7, <1>8, <1>9, <1>10, <1>11 DEF IInv

\* The submission of one task: neither a worker nor another task is touched,
\* and afterwards the task is carried on, refused or lost.
LEMMA SubmissionInv ==
  ASSUME IInv, NEW t \in Tasks, NEW x \in SubmitType, NEW q \in RowType, NEW n \in Nat,
         submit' = [submit EXCEPT ![t] = x],
         row' = [row EXCEPT ![t] = q],
         queue' = [queue EXCEPT !["request"][t] = n],
         lost' = lost \/ lost' = [lost EXCEPT ![t] = TRUE],
         UNCHANGED <<job, copies>>,
         submit[t].pc \in {"none", "persist", "enqueue"},
         x.pc # "none", n > 0 => x.pc = "accepted",
         x.pc = "accepted" => n > 0 \/ lost'[t],
         x.pc = "persist" => q.status = "absent",
         x.recorded => q.status # "absent",
         q = row[t] \/ (q.status = "PENDING" /\ ~q.data),
         q.status # "absent" => q.owner = x.user
  PROVE  IInv'
  <1>1. TypeOK /\ row' \in [Tasks -> RowType] /\ submit' \in [Tasks -> SubmitType]
    BY DEF IInv, TypeOK
  <1>2. /\ row'[t] = q /\ submit'[t] = x
        /\ \A u \in Tasks \ {t} : row'[u] = row[u] /\ submit'[u] = submit[u]
        /\ job' = job /\ copies' = copies
    BY <1>1 DEF TypeOK
  <1>3. /\ queue' \in [Kinds -> [Tasks -> Nat]]
        /\ queue'["request"][t] = n
        /\ \A u \in Tasks \ {t}, k \in Kinds : queue'[k][u] = queue[k][u]
        /\ \A u \in Tasks, k \in Kinds \ {"request"} : queue'[k][u] = queue[k][u]
    <2>1. queue' = [queue EXCEPT !["request"] = [queue["request"] EXCEPT ![t] = n]]
      OBVIOUS
    <2>2. queue \in [Kinds -> [Tasks -> Nat]] /\ "request" \in Kinds
      BY <1>1 DEF TypeOK, Kinds
    <2> QED
      BY <2>1, <2>2
  <1>4. lost' \in [Tasks -> BOOLEAN] /\ \A u \in Tasks : lost[u] => lost'[u]
    BY <1>1 DEF TypeOK
  <1>5. /\ \A k \in Kinds : ~(queue[k][t] > 0)
        /\ \A w \in Workers : job[w].task # t
    BY DEF IInv, WorkFollowsSubmission
  <1>6. TypeOK'
    BY <1>1, <1>2, <1>3, <1>4 DEF TypeOK
  <1>7. AccountedFor'
    <2> SUFFICES ASSUME NEW u \in Tasks, submit'[u].pc = "accepted"
                 PROVE  row'[u].status \in Final \/ lost'[u] \/ HasCarrier(u)'
      BY CarrierForms DEF AccountedFor
    <2>1. CASE u = t
      BY <1>2, <1>3, <2>1 DEF HasCarrier, Kinds
    <2>2. CASE u # t
      <3>1. row[u].status \in Final \/ lost[u] \/ HasCarrier(u)
        BY <1>2, <2>2, CarrierForms DEF IInv, AccountedFor
      <3>2. HasCarrier(u) => HasCarrier(u)'
        BY <1>2, <1>3, <2>2 DEF HasCarrier
      <3> QED
        BY <1>2, <1>4, <2>2, <3>1, <3>2
    <2> QED
      BY <2>1, <2>2
  <1>8. OwnerlessOnlyIfUnrecorded' /\ SuccessHasData' /\ AbsentHasNoData'
    BY <1>2 DEF IInv, OwnerlessOnlyIfUnrecorded, SuccessHasData, AbsentHasNoData, Exists
  <1>9. WorkFollowsSubmission'
    <2> SUFFICES ASSUME NEW u \in Tasks
                 PROVE  /\ \A j \in Kinds : queue'[j][u] > 0 => submit'[u].pc = "accepted"
                        /\ \A v \in Workers : job'[v].task = u => submit'[u].pc = "accepted"
                        /\ submit'[u].pc \in {"none", "persist"} => ~Exists(u)'
                        /\ submit'[u].recorded => Exists(u)'
      BY DEF WorkFollowsSubmission
    <2>1. CASE u = t
      <3>1. \A j \in Kinds : queue'[j][u] > 0 => submit'[u].pc = "accepted"
        BY <1>2, <1>3, <1>5, <2>1
      <3>2. \A v \in Workers : job'[v].task = u => submit'[u].pc = "accepted"
        BY <1>2, <1>5, <2>1
      <3>3. submit'[u].pc \in {"none", "persist"} => row'[u].status = "absent"
        BY <1>2, <2>1
      <3>4. submit'[u].recorded => row'[u].status # "absent"
        BY <1>2, <2>1
      <3> QED
        BY <3>1, <3>2, <3>3, <3>4 DEF Exists
    <2>2. CASE u # t
      <3>1. /\ submit'[u] = submit[u] /\ row'[u] = row[u]
            /\ \A k \in Kinds : queue'[k][u] = queue[k][u]
        BY <1>2, <1>3, <2>2
      <3>2. /\ \A k \in Kinds : queue[k][u] > 0 => submit[u].pc = "accepted"
            /\ \A v \in Workers : job[v].task = u => submit[u].pc = "accepted"
            /\ submit[u].pc \in {"none", "persist"} => row[u].status = "absent"
            /\ submit[u].recorded => row[u].status # "absent"
        BY DEF IInv, WorkFollowsSubmission, Exists
      <3> QED
        BY <1>2, <3>1, <3>2 DEF Exists
    <2> QED
      BY <2>1, <2>2
  <1>10. UnsafeIsBlocked'
    <2> SUFFICES ASSUME NEW u \in Unsafe
                 PROVE  /\ queue'["fetch"][u] = 0 /\ queue'["content"][u] = 0
                        /\ row'[u].status \in {"absent", "PENDING", "FAILED"}
                        /\ \A v \in Workers :
                             job[v].task = u =>
                               /\ job[v].pc \in {"lookup", "block", "blockcreate", "failing"}
                               /\ job[v].pc = "blockcreate" =>
                                    row'[u].status \in {"absent", "FAILED"}
      BY <1>2 DEF UnsafeIsBlocked
    <2>1. u \in Tasks /\ {"fetch", "content"} \subseteq Kinds \ {"request"}
      BY PipelineAssumption DEF Kinds
    <2>2. /\ queue["fetch"][u] = 0 /\ queue["content"][u] = 0
          /\ row[u].status \in {"absent", "PENDING", "FAILED"}
          /\ \A v \in Workers :
               job[v].task = u =>
                 /\ job[v].pc \in {"lookup", "block", "blockcreate", "failing"}
                 /\ job[v].pc = "blockcreate" => row[u].status \in {"absent", "FAILED"}
      BY DEF IInv, UnsafeIsBlocked
    <2>3. queue'["fetch"][u] = 0 /\ queue'["content"][u] = 0
      BY <1>3, <2>1, <2>2
    <2>4. CASE u = t
      BY <1>2, <1>5, <2>2, <2>3, <2>4
    <2>5. CASE u # t
      BY <1>2, <2>1, <2>2, <2>3, <2>5
    <2> QED
      BY <2>4, <2>5
  <1>11. BlockedIsUnsafe'
    BY <1>2 DEF IInv, BlockedIsUnsafe
  <1> QED
    BY <1>6, <1>7, <1>8, <1>9, <1>10, <1>11 DEF IInv

\* The same for a step that sends no message.
LEMMA QuietSubmissionInv ==
  ASSUME IInv, NEW t \in Tasks, NEW x \in SubmitType, NEW q \in RowType,
         submit' = [submit EXCEPT ![t] = x],
         row' = [row EXCEPT ![t] = q],
         UNCHANGED <<queue, job, copies, lost>>,
         submit[t].pc \in {"none", "persist", "enqueue"},
         x.pc \in {"persist", "enqueue", "refused"},
         x.pc = "persist" => q.status = "absent",
         x.recorded => q.status # "absent",
         q = row[t] \/ (q.status = "PENDING" /\ ~q.data),
         q.status # "absent" => q.owner = x.user
  PROVE  IInv'
  <1>1. /\ queue \in [Kinds -> [Tasks -> Nat]] /\ "request" \in Kinds
        /\ queue["request"][t] = 0
    BY DEF IInv, TypeOK, WorkFollowsSubmission, Kinds
  <1>2. queue["request"] = [queue["request"] EXCEPT ![t] = 0]
    BY <1>1
  <1>3. queue' = [queue EXCEPT !["request"] = [queue["request"] EXCEPT ![t] = 0]]
    BY <1>1, <1>2
  <1>4. queue' = [queue EXCEPT !["request"][t] = 0]
    BY <1>1, <1>3
  <1>5. x.pc # "none" /\ x.pc # "accepted"
    OBVIOUS
  <1>6. 0 \in Nat /\ ~(0 > 0)
    OBVIOUS
  <1>7. lost' = lost /\ UNCHANGED <<job, copies>>
    OBVIOUS
  <1> QED
    BY <1>4, <1>5, <1>6, <1>7, SubmissionInv

LEMMA SubmitActionsInv ==
  ASSUME IInv, NEW t \in Tasks,
         \/ \E u \in Users, via \in {"api", "sched"} : StartSubmit(t, u, via)
         \/ Submission(t)
         \/ SubmitterCrash(t)
  PROVE  IInv'
  <1> DEFINE requests == queue["request"][t]
  <1>1. /\ row[t] \in RowType /\ submit[t] \in SubmitType
        /\ requests \in Nat
        /\ row = [row EXCEPT ![t] = row[t]]
        /\ queue = [queue EXCEPT !["request"][t] = requests]
    <2>1. /\ queue \in [Kinds -> [Tasks -> Nat]] /\ "request" \in Kinds
          /\ row \in [Tasks -> RowType] /\ submit \in [Tasks -> SubmitType]
      BY DEF IInv, TypeOK, Kinds
    <2>2. queue["request"] = [queue["request"] EXCEPT ![t] = requests]
      BY <2>1
    <2>3. queue = [queue EXCEPT !["request"] = [queue["request"] EXCEPT ![t] = requests]]
      BY <2>1, <2>2
    <2> QED
      BY <2>1, <2>3
  <1>2. submit[t].pc # "accepted" => requests = 0
    BY <1>1 DEF IInv, WorkFollowsSubmission, Kinds
  <1>3. /\ submit[t].pc \in {"none", "persist"} => row[t].status = "absent"
        /\ submit[t].recorded => row[t].status # "absent"
        /\ row[t].status # "absent" /\ submit[t].pc # "accepted" =>
             row[t].owner = submit[t].user
    BY DEF IInv, WorkFollowsSubmission, OwnerlessOnlyIfUnrecorded, Exists
  <1>4. ASSUME NEW u \in Users, NEW via \in {"api", "sched"}, StartSubmit(t, u, via)
        PROVE  IInv'
    <2> DEFINE x == [pc |-> "persist", user |-> u, via |-> via, recorded |-> FALSE]
    <2>1. x \in SubmitType /\ x.pc = "persist" /\ x.recorded = FALSE
      BY DEF SubmitType
    <2>2. /\ submit[t].pc = "none" /\ submit' = [submit EXCEPT ![t] = x]
          /\ UNCHANGED <<row, queue, job, copies, lost>>
      BY <1>4 DEF StartSubmit
    <2> QED
      BY <1>1, <1>3, <2>1, <2>2, QuietSubmissionInv
  <1>5. ASSUME RecordTask(t) PROVE IInv'
    <2> DEFINE created == NewRow("PENDING", submit[t].user)
    <2>1. submit[t].user \in Users \cup {NoOwner} /\ "PENDING" \in ApiStatuses
      BY <1>1 DEF SubmitType, ApiStatuses
    <2>2. /\ created \in RowType /\ created.status = "PENDING"
          /\ created.owner = submit[t].user /\ ~created.data
      BY <2>1, NewRowType
    <2>3. PICK pc \in {"enqueue", "refused"}, b \in BOOLEAN, q \in {row[t], created} :
            /\ row' = [row EXCEPT ![t] = q]
            /\ submit' = [submit EXCEPT ![t] = [submit[t] EXCEPT !.pc = pc, !.recorded = b]]
            /\ b => q = created
      <3>1. CASE /\ row' = [row EXCEPT ![t] = created]
                 /\ submit' = [submit EXCEPT ![t].pc = "enqueue", ![t].recorded = TRUE]
        <4>1. submit' = [submit EXCEPT ![t] =
                            [submit[t] EXCEPT !.pc = "enqueue", !.recorded = TRUE]]
          BY <3>1, <1>1 DEF IInv, TypeOK
        <4> QED
          BY <3>1, <4>1
      <3>2. CASE /\ row' \in {row, [row EXCEPT ![t] = created]}
                 /\ \E pc \in {"enqueue", "refused"} :
                      submit' = [submit EXCEPT ![t].pc = pc]
        <4>1. PICK pc \in {"enqueue", "refused"} : submit' = [submit EXCEPT ![t].pc = pc]
          BY <3>2
        <4>2. submit' = [submit EXCEPT ![t] =
                            [submit[t] EXCEPT !.pc = pc, !.recorded = submit[t].recorded]]
          BY <4>1, <1>1 DEF SubmitType
        <4>3. submit[t].recorded = FALSE
          BY <1>1, <1>3, <1>5 DEF RecordTask, SubmitType
        <4> QED
          BY <1>1, <3>2, <4>2, <4>3
      <3> QED
        BY <1>5, <3>1, <3>2 DEF RecordTask
    <2> DEFINE x == [submit[t] EXCEPT !.pc = pc, !.recorded = b]
    <2>4. /\ x \in SubmitType /\ x.pc = pc /\ x.recorded = b /\ x.user = submit[t].user
      BY <1>1 DEF SubmitType
    <2>5. /\ submit[t].pc = "persist" /\ queue' = queue /\ lost' = lost
          /\ UNCHANGED <<job, copies>>
      BY <1>5 DEF RecordTask
    <2>6. q \in RowType /\ (q = row[t] \/ (q.status = "PENDING" /\ ~q.data))
      BY <1>1, <2>2
    <2>7. q.status # "absent" => q.owner = x.user
      BY <1>3, <2>2, <2>4, <2>5
    <2>8. x.recorded => q.status # "absent"
      BY <2>2, <2>3, <2>4
    <2>9. /\ submit' = [submit EXCEPT ![t] = x] /\ row' = [row EXCEPT ![t] = q]
          /\ x.pc \in {"enqueue", "refused"}
      BY <2>3, <2>4
    <2> HIDE DEF x
    <2> QED
      BY <2>4, <2>5, <2>6, <2>7, <2>8, <2>9, QuietSubmissionInv
  <1>6. ASSUME EnqueueTask(t) PROVE IInv'
    <2> DEFINE x == [submit[t] EXCEPT !.pc = "accepted"]
    <2>1. /\ x \in SubmitType /\ x.pc = "accepted"
          /\ x.recorded = submit[t].recorded /\ x.user = submit[t].user
      BY <1>1 DEF SubmitType
    <2>2. /\ submit[t].pc = "enqueue"
          /\ submit' = [submit EXCEPT ![t] = x]
          /\ UNCHANGED <<row, job, copies>>
      BY <1>6, <1>1 DEF EnqueueTask
    <2>3. PICK n \in Nat : /\ queue' = [queue EXCEPT !["request"][t] = n]
                           /\ \/ n > 0 /\ lost' = lost
                              \/ lost' = [lost EXCEPT ![t] = TRUE]
      BY <1>6, <1>1 DEF EnqueueTask, Send
    <2>4. lost' = [lost EXCEPT ![t] = TRUE] => lost'[t]
      BY DEF IInv, TypeOK
    <2>5. row[t].status # "absent" => row[t].owner = x.user
      BY <1>3, <2>1, <2>2
    <2>6. x.recorded => row[t].status # "absent"
      BY <1>3, <2>1
    <2> HIDE DEF x
    <2> QED
      BY <1>1, <2>1, <2>2, <2>3, <2>4, <2>5, <2>6, SubmissionInv
  <1>7. ASSUME SubmitterCrash(t) PROVE IInv'
    <2> DEFINE x == [submit[t] EXCEPT !.pc = "refused"]
    <2>1. /\ x \in SubmitType /\ x.pc = "refused"
          /\ x.recorded = submit[t].recorded /\ x.user = submit[t].user
      BY <1>1 DEF SubmitType
    <2>2. /\ submit[t].pc \in {"persist", "enqueue"}
          /\ submit' = [submit EXCEPT ![t] = x]
          /\ UNCHANGED <<row, queue, job, copies, lost>>
      BY <1>7, <1>1 DEF SubmitterCrash
    <2>4. row[t].status # "absent" => row[t].owner = x.user
      BY <1>3, <2>1, <2>2
    <2>5. x.recorded => row[t].status # "absent"
      BY <1>3, <2>1
    <2> HIDE DEF x
    <2> QED
      BY <1>1, <2>1, <2>2, <2>4, <2>5, QuietSubmissionInv
  <1> QED
    BY <1>4, <1>5, <1>6, <1>7 DEF Submission

LEMMA CrashInv ==
  ASSUME IInv, NEW w \in Workers, Crash(w)
  PROVE  IInv'
  <1> DEFINE t == job[w].task
  <1>1. /\ job[w] # Idle /\ TypeOK
        /\ lost' = [lost EXCEPT ![t] = TRUE]
        /\ job' = [job EXCEPT ![w] = Idle]
        /\ row' = row /\ submit' = submit /\ queue' = queue /\ copies' = copies
    BY DEF Crash, IInv
  <1>2. /\ job' \in [Workers -> JobType]
        /\ job'[w] = Idle
        /\ \A v \in Workers \ {w} : job'[v] = job[v]
    BY <1>1, IdleType DEF TypeOK
  <1>3. Idle.pc = "idle" /\ Idle.task = NoTask /\ NoTask \notin Tasks
    BY PipelineAssumption DEF Idle
  <1>4. /\ lost' \in [Tasks -> BOOLEAN]
        /\ \A u \in Tasks : lost[u] \/ u = t => lost'[u]
    BY <1>1 DEF TypeOK
  <1>5. TypeOK'
    BY <1>1, <1>2, <1>3, <1>4 DEF TypeOK
  <1>6. AccountedFor'
    <2> SUFFICES ASSUME NEW u \in Tasks, submit[u].pc = "accepted"
                 PROVE  row[u].status \in Final \/ lost'[u] \/ HasCarrier(u)'
      BY <1>1, CarrierForms DEF AccountedFor
    <2>1. CASE u = t
      BY <1>4, <2>1
    <2>2. CASE u # t
      <3>1. row[u].status \in Final \/ lost[u] \/ HasCarrier(u)
        BY CarrierForms DEF IInv, AccountedFor
      <3>2. HasCarrier(u) => HasCarrier(u)'
        BY <1>1, <1>2, <2>2 DEF HasCarrier
      <3> QED
        BY <1>4, <3>1, <3>2
    <2> QED
      BY <2>1, <2>2
  <1>7. OwnerlessOnlyIfUnrecorded' /\ SuccessHasData' /\ AbsentHasNoData'
    BY <1>1 DEF IInv, OwnerlessOnlyIfUnrecorded, SuccessHasData, AbsentHasNoData, Exists
  <1>8. \A v \in Workers, u \in Tasks : job'[v].task = u => v # w /\ job[v].task = u
    BY <1>2, <1>3
  <1>9. WorkFollowsSubmission'
    <2> SUFFICES ASSUME NEW u \in Tasks
                 PROVE  /\ \A k \in Kinds : queue[k][u] > 0 => submit[u].pc = "accepted"
                        /\ \A v \in Workers : job'[v].task = u => submit[u].pc = "accepted"
                        /\ submit[u].pc \in {"none", "persist"} => row[u].status = "absent"
                        /\ submit[u].recorded => row[u].status # "absent"
      BY <1>1 DEF WorkFollowsSubmission, Exists
    <2> QED
      BY <1>8 DEF IInv, WorkFollowsSubmission, Exists
  <1>10. UnsafeIsBlocked'
    <2> SUFFICES ASSUME NEW u \in Unsafe
                 PROVE  /\ queue["fetch"][u] = 0 /\ queue["content"][u] = 0
                        /\ row[u].status \in {"absent", "PENDING", "FAILED"}
                        /\ \A v \in Workers :
                             job'[v].task = u =>
                               /\ job'[v].pc \in {"lookup", "block", "blockcreate", "failing"}
                               /\ job'[v].pc = "blockcreate" =>
                                    row[u].status \in {"absent", "FAILED"}
      BY <1>1 DEF UnsafeIsBlocked
    <2>1. u \in Tasks
      BY PipelineAssumption
    <2> QED
      BY <1>2, <1>8, <2>1 DEF IInv, UnsafeIsBlocked
  <1>11. BlockedIsUnsafe'
    BY <1>2, <1>3 DEF IInv, BlockedIsUnsafe
  <1> QED
    BY <1>5, <1>6, <1>7, <1>9, <1>10, <1>11 DEF IInv

LEMMA RedeliverInv ==
  ASSUME IInv, NEW k \in Kinds, NEW t \in Tasks, Redeliver(k, t)
  PROVE  IInv'
  <1>1. /\ queue[k][t] > 0 /\ queue' = [queue EXCEPT ![k][t] = @ + 1]
        /\ copies' = copies + 1 /\ TypeOK
        /\ row' = row /\ submit' = submit /\ job' = job /\ lost' = lost
    BY DEF Redeliver, Send, IInv
  <1>2. /\ queue' \in [Kinds -> [Tasks -> Nat]]
        /\ \A j \in Kinds, u \in Tasks : (queue'[j][u] > 0) <=> (queue[j][u] > 0)
        /\ \A j \in Kinds, u \in Tasks : queue[j][u] = 0 => queue'[j][u] = 0
    <2>1. queue' = [queue EXCEPT ![k] = [queue[k] EXCEPT ![t] = queue[k][t] + 1]]
      BY <1>1
    <2>2. queue \in [Kinds -> [Tasks -> Nat]]
      BY <1>1 DEF TypeOK
    <2> QED
      BY <1>1, <2>1, <2>2
  <1>3. TypeOK'
    BY <1>1, <1>2 DEF TypeOK
  <1>4. AccountedFor'
    <2> SUFFICES ASSUME NEW u \in Tasks, submit[u].pc = "accepted"
                 PROVE  row[u].status \in Final \/ lost[u] \/ HasCarrier(u)'
      BY <1>1, CarrierForms DEF AccountedFor
    <2>1. row[u].status \in Final \/ lost[u] \/ HasCarrier(u)
      BY CarrierForms DEF IInv, AccountedFor
    <2>2. HasCarrier(u) => HasCarrier(u)'
      BY <1>1, <1>2 DEF HasCarrier
    <2> QED
      BY <2>1, <2>2
  <1>5. OwnerlessOnlyIfUnrecorded' /\ SuccessHasData' /\ AbsentHasNoData'
    BY <1>1 DEF IInv, OwnerlessOnlyIfUnrecorded, SuccessHasData, AbsentHasNoData, Exists
  <1>6. WorkFollowsSubmission'
    <2> SUFFICES ASSUME NEW u \in Tasks
                 PROVE  /\ \A j \in Kinds : queue'[j][u] > 0 => submit[u].pc = "accepted"
                        /\ \A v \in Workers : job[v].task = u => submit[u].pc = "accepted"
                        /\ submit[u].pc \in {"none", "persist"} => row[u].status = "absent"
                        /\ submit[u].recorded => row[u].status # "absent"
      BY <1>1 DEF WorkFollowsSubmission, Exists
    <2> QED
      BY <1>2 DEF IInv, WorkFollowsSubmission, Exists
  <1>7. UnsafeIsBlocked'
    <2>1. {"fetch", "content"} \subseteq Kinds /\ Unsafe \subseteq Tasks
      BY PipelineAssumption DEF Kinds
    <2>2. \A u \in Unsafe : queue'["fetch"][u] = 0 /\ queue'["content"][u] = 0
      BY <1>2, <2>1 DEF IInv, UnsafeIsBlocked
    <2> QED
      BY <1>1, <2>2 DEF IInv, UnsafeIsBlocked
  <1>8. BlockedIsUnsafe'
    BY <1>1 DEF IInv, BlockedIsUnsafe
  <1> QED
    BY <1>3, <1>4, <1>5, <1>6, <1>7, <1>8 DEF IInv

LEMMA StutterInv == IInv /\ UNCHANGED vars => IInv'
  <1> SUFFICES ASSUME IInv, UNCHANGED vars PROVE IInv'
    OBVIOUS
  <1>1. /\ row' = row /\ submit' = submit /\ queue' = queue
        /\ job' = job /\ copies' = copies /\ lost' = lost
    BY DEF vars
  <1> QED
    BY <1>1 DEF IInv, TypeOK, AccountedFor, Carriers, OwnerlessOnlyIfUnrecorded,
       WorkFollowsSubmission, UnsafeIsBlocked, SuccessHasData, AbsentHasNoData,
       BlockedIsUnsafe, Exists

LEMMA NextInv == IInv /\ [Next]_vars => IInv'
  <1> SUFFICES ASSUME IInv, [Next]_vars PROVE IInv'
    OBVIOUS
  <1>1. ASSUME NEW w \in Workers, Taking(w) PROVE IInv'
    <2>1. PICK t \in Tasks : TakeRequest(w, t) \/ TakeFetch(w, t) \/ TakeContent(w, t)
      BY <1>1 DEF Taking
    <2>2. AIWorkers \in SUBSET Workers /\ FetchWorkers \in SUBSET Workers
      BY DEF Workers
    <2>3. CASE TakeRequest(w, t)
      BY <2>2, <2>3, TakingInv DEF TakeRequest, Kinds
    <2>4. CASE TakeFetch(w, t)
      BY <2>2, <2>4, TakingInv DEF TakeFetch, Kinds
    <2>5. CASE TakeContent(w, t)
      BY <2>2, <2>5, TakingInv DEF TakeContent, Kinds
    <2> QED
      BY <2>1, <2>3, <2>4, <2>5
  <1>2. ASSUME NEW w \in Workers, Handling(w) PROVE IInv'
    BY <1>2, HandlingEffect, HandlingInv
  <1>3. ASSUME NEW w \in Workers, Crash(w) PROVE IInv'
    BY <1>3, CrashInv
  <1>4. ASSUME NEW t \in Tasks,
               \/ \E u \in Users, via \in {"api", "sched"} : StartSubmit(t, u, via)
               \/ Submission(t)
               \/ SubmitterCrash(t)
        PROVE  IInv'
    BY <1>4, SubmitActionsInv
  <1>5. ASSUME NEW k \in Kinds, NEW t \in Tasks, Redeliver(k, t) PROVE IInv'
    BY <1>5, RedeliverInv
  <1>6. CASE UNCHANGED vars
    BY <1>6, StutterInv
  <1> QED
    BY <1>1, <1>2, <1>3, <1>4, <1>5, <1>6 DEF Next

-----------------------------------------------------------------------------
(***************************************************************************)
(* Theorems                                                                *)
(***************************************************************************)
\* Every reachable state of the pipeline satisfies the inductive invariant,
\* whatever the faults and however many messages are duplicated.
THEOREM PipelineInvariant == Spec => []IInv
  <1>1. Init => IInv
    BY InitInv
  <1>2. IInv /\ [Next]_vars => IInv'
    BY NextInv
  <1> QED
    BY <1>1, <1>2, PTL DEF Spec

\* The tables, queues and handlers keep their types.
THEOREM TypeCorrect == Spec => []TypeOK
  <1>1. IInv => TypeOK
    BY DEF IInv
  <1> QED
    BY <1>1, PipelineInvariant, PTL

\* No error path of the three handlers drops an accepted task silently.
THEOREM NothingDroppedSilently == Spec => []AccountedFor
  <1>1. IInv => AccountedFor
    BY DEF IInv
  <1> QED
    BY <1>1, PipelineInvariant, PTL

\* Only a task whose row the submission failed to write can lose its owner.
THEOREM OwnerIsRecorded == Spec => []OwnerlessOnlyIfUnrecorded
  <1>1. IInv => OwnerlessOnlyIfUnrecorded
    BY DEF IInv
  <1> QED
    BY <1>1, PipelineInvariant, PTL

\* Nobody works on a task, or creates its row, before its submission is over.
THEOREM WorkComesAfter == Spec => []WorkFollowsSubmission
  <1>1. IInv => WorkFollowsSubmission
    BY DEF IInv
  <1> QED
    BY <1>1, PipelineInvariant, PTL

\* A refused prompt goes no further than the first worker.
THEOREM RefusedGoesNoFurther == Spec => []UnsafeIsBlocked
  <1>1. IInv => UnsafeIsBlocked
    BY DEF IInv
  <1> QED
    BY <1>1, PipelineInvariant, PTL

\* Whoever reads SUCCESS can read the data.
THEOREM SuccessIsBacked == Spec => []SuccessHasData
  <1>1. IInv => SuccessHasData
    BY DEF IInv
  <1> QED
    BY <1>1, PipelineInvariant, PTL

\* A stored result survives every later step of every handler, and hides
\* every later FAILED from its owner.
THEOREM ResultSurvives == Spec => ResultIsKept
  <1>1. ASSUME IInv, [Next]_vars, NEW t \in Tasks, row[t].data
        PROVE  row'[t].data /\ NormalizeStatus(row'[t]) # "FAILED"
    <2>1. row'[t].data
      <3>1. ASSUME NEW w \in Workers, Handling(w) PROVE row'[t].data
        <4>1. job[w].pc # "idle" /\ HasEffect(w)
          BY <1>1, <3>1, HandlingEffect
        <4>2. PICK pc \in Targets, p \in BOOLEAN, q \in RowType : Effect(w, pc, p, q)
          BY <4>1 DEF HasEffect
        <4>3. /\ row'[job[w].task] = q
              /\ t # job[w].task => row'[t] = row[t]
          BY <1>1, <4>1, <4>2, StepTypes DEF Effect, IInv
        <4>4. RowChange(row[job[w].task], q)
          BY <4>2 DEF Effect
        <4> QED
          BY <1>1, <4>3, <4>4 DEF RowChange
      <3>2. ASSUME NEW u \in Tasks, RecordTask(u) PROVE row'[t].data
        <4>1. row[u].status = "absent" /\ ~row[u].data
          BY <1>1, <3>2 DEF RecordTask, IInv, WorkFollowsSubmission, AbsentHasNoData, Exists
        <4>2. row \in [Tasks -> RowType] /\ t # u
          BY <1>1, <4>1 DEF IInv, TypeOK
        <4> QED
          BY <1>1, <3>2, <4>2 DEF RecordTask
      <3>3. CASE row' = row
        BY <1>1, <3>3
      <3> QED
        BY <1>1, <3>1, <3>2, <3>3
           DEF Next, vars, StartSubmit, Submission, EnqueueTask, Taking, TakeRequest,
               TakeFetch, TakeContent, Take, Crash, SubmitterCrash, Redeliver
    <2>2. row'[t] \in RowType /\ row'[t].status # "absent"
      <3>1. IInv'
        BY <1>1, NextInv
      <3> QED
        BY <2>1, <3>1 DEF IInv, TypeOK, AbsentHasNoData
    <2>3. row'[t].status \in ApiStatuses
      BY <2>2 DEF RowType
    <2> QED
      BY <2>1, <2>3 DEF NormalizeStatus, ApiStatuses
  <1>2. IInv /\ [Next]_vars =>
          [\A t \in Tasks : row[t].data =>
                row'[t].data /\ NormalizeStatus(row'[t]) # "FAILED"]_vars
    BY <1>1
  <1> QED
    BY <1>2, PipelineInvariant, PTL DEF Spec, ResultIsKept
=============================================================================
