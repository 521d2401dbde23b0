----------------------------- MODULE LlmClient -----------------------------
(***************************************************************************)
(* services/ai_worker/llm_client.py: LLMClient.chat and the circuit        *)
(* breaker that all clients of a worker process share. The breaker is one  *)
(* class-level dictionary _breaker_state, from a model's name to a small   *)
(* dictionary [fail_count, opened_at]; it has no lock. Its users are the   *)
(* thread that runs the Celery handlers and the daemon threads that        *)
(* run_schema_extraction starts to generate parsers.                       *)
(*                                                                         *)
(* A thread may be switched out between any two statements of the breaker, *)
(* and between the read and the write of an increment, so that each is a   *)
(* step. _breaker_open is one step: what it reads only grows until the     *)
(* dictionary is dropped. The inner dictionaries are cells, because a      *)
(* thread may go on using one that was popped in the meantime.             *)
(* Time is kept as ages that stop at Cooldown, where they stop to matter.  *)
(***************************************************************************)
EXTENDS Integers

CONSTANTS
  Threads,      \* the threads of a worker process that call chat
  Limited,      \* those that a soft time limit may interrupt: the handler's
  Primary,      \* model_name
  Fallback,     \* fallback_model_name, or NoModel
  Large,        \* large_context_model_name; Fallback by default
  NoModel,
  Threshold,    \* breaker_fail_threshold
  Cooldown,     \* breaker_cooldown_s, in ticks
  Retries,      \* max_retries
  Cells         \* identities of inner dictionaries

ASSUME LimitedAssumption == Limited \subseteq Threads
ASSUME ModelAssumption == NoModel \notin {Primary, Large}
ASSUME NumberAssumption ==
  /\ Threshold \in Nat \ {0}
  /\ Cooldown \in Nat \ {0}
  /\ Retries \in Nat
ASSUME CellAssumption == Cells \subseteq Nat

Models == {Primary, Large, Fallback} \ {NoModel}

\* The tests of a counter are >= Threshold and = 1: none tells values from
\* here on apart.
Cap == IF Threshold > 2 THEN Threshold ELSE 2

NoCell == -1

VARIABLES
  breaker,    \* breaker[m]: the cell that _breaker_state holds for m, or NoCell
  cell,       \* cell[c]: fail_count, the age of opened_at, and the history
              \*   variable hits: the failures that were written into it
  thread,     \* thread[t]: where chat is, for which model, with which locals
  streak,     \* history: failures of m since the last reset, and the age of
              \*   the first of them
  disturbed   \* history: whether updates of m's breaker overlapped, or one
              \*   broke off, since it was last reset undisturbed

vars == <<breaker, cell, thread, streak, disturbed>>

Fresh == [count |-> 0, age |-> Cooldown, hits |-> 0]

Idle == [pc |-> "idle", role |-> "primary", attempt |-> 0, ref |-> NoCell, read |-> 0]

\* A run of _run_with_retries for the model in this role.
Starting(role) == [pc |-> "check", role |-> role, attempt |-> 0, ref |-> NoCell, read |-> 0]

Init ==
  /\ breaker = [m \in Models |-> NoCell]
  /\ cell = [c \in Cells |-> Fresh]
  /\ thread = [t \in Threads |-> Idle]
  /\ streak = [m \in Models |-> [n |-> 0, age |-> Cooldown]]
  /\ disturbed = [m \in Models |-> FALSE]

-----------------------------------------------------------------------------
Bump(n) == IF n < Cap THEN n + 1 ELSE n

Aged(n) == IF n < Cooldown THEN n + 1 ELSE n

ModelOf(role) ==
  IF role = "primary" THEN Primary ELSE IF role = "large" THEN Large ELSE Fallback

Model(t) == ModelOf(thread[t].role)

At(t, pc) == thread[t].pc = pc

\* The same run at another statement, with these locals.
Run(t, pc, attempt, ref, read) ==
  thread' = [thread EXCEPT ![t] =
    [pc |-> pc, role |-> thread[t].role, attempt |-> attempt, ref |-> ref, read |-> read]]

Goto(t, pc) == Run(t, pc, thread[t].attempt, thread[t].ref, thread[t].read)

\* The statements of _breaker_record_failure, once it has its dictionary.
Recording == {"read", "write", "test", "stamp", "store"}

RecordsFor(t, m) == thread[t].pc \in Recording /\ Model(t) = m

Overlapped(t, m) == \E s \in Threads \ {t} : RecordsFor(s, m)

\* No name and no thread refers to the dictionary any more.
Unused(c) == (\A m \in Models : breaker[m] # c) /\ (\A t \in Threads : thread[t].ref # c)

\* Nothing is known of a dictionary that became unused.
Collect == cell' = [c \in Cells |-> IF Unused(c)' THEN Fresh ELSE cell[c]]

\* Mutant of Open: off by one.
OpenOneEarly(m) ==
  /\ breaker[m] # NoCell
  /\ cell[breaker[m]].count + 1 >= Threshold
  /\ cell[breaker[m]].age < Cooldown

\* Mutant of Open: no attempt after the cooldown.
OpenForGood(m) == breaker[m] # NoCell /\ cell[breaker[m]].count >= Threshold

\* _breaker_open
Open(m) ==
  /\ breaker[m] # NoCell
  /\ cell[breaker[m]].count >= Threshold
  /\ cell[breaker[m]].age < Cooldown

\* _run_with_retries raised: chat turns to the fallback after the primary
\* model, and raises after any other.
RunFails(t) ==
  thread' = [thread EXCEPT ![t] =
    IF thread[t].role = "primary" /\ Fallback # NoModel
    THEN Starting("fallback")
    ELSE Idle]

-----------------------------------------------------------------------------
(***************************************************************************)
(* chat and _run_with_retries                                              *)
(***************************************************************************)
\* The number of tokens selects the large-context model.
Chat(t) ==
  /\ At(t, "idle")
  /\ \E role \in {"primary", "large"} :
       thread' = [thread EXCEPT ![t] = Starting(role)]
  /\ UNCHANGED <<breaker, cell, streak, disturbed>>

Check(t) ==
  /\ At(t, "check")
  /\ IF Open(Model(t)) THEN RunFails(t) ELSE Goto(t, "call")
  /\ UNCHANGED <<breaker, cell, streak, disturbed>>

\* completion returns, whatever text is in it, or raises.
Call(t) ==
  /\ At(t, "call")
  /\ Goto(t, "reset") \/ Goto(t, "record")
  /\ UNCHANGED <<breaker, cell, streak, disturbed>>

\* Mutant of Reset: the dictionary is emptied, not dropped.
ResetCountOnly(t) ==
  /\ At(t, "reset")
  /\ thread' = [thread EXCEPT ![t] = Idle]
  /\ streak' = [streak EXCEPT ![Model(t)] = [n |-> 0, age |-> Cooldown]]
  /\ disturbed' = [disturbed EXCEPT ![Model(t)] = Overlapped(t, Model(t))]
  /\ UNCHANGED <<breaker, cell>>

\* _breaker_reset
Popped(t) ==
  LET m == Model(t) IN
  /\ breaker' = [breaker EXCEPT ![m] = NoCell]
  /\ streak' = [streak EXCEPT ![m] = [n |-> 0, age |-> Cooldown]]
  /\ disturbed' = [disturbed EXCEPT ![m] = Overlapped(t, m)]
  /\ Collect

\* The breaker is reset and the answer returned.
Reset(t) ==
  /\ At(t, "reset")
  /\ thread' = [thread EXCEPT ![t] = Idle]
  /\ Popped(t)

-----------------------------------------------------------------------------
(***************************************************************************)
(* _breaker_record_failure, a step for each access to shared memory        *)
(***************************************************************************)
\* setdefault: the dictionary of m, or a new one.
Record(t) ==
  LET m == Model(t) IN
  /\ At(t, "record")
  /\ \/ /\ breaker[m] # NoCell
        /\ Run(t, "read", thread[t].attempt, breaker[m], 0)
        /\ UNCHANGED breaker
     \/ /\ breaker[m] = NoCell
        /\ \E c \in Cells :
             /\ Unused(c)
             /\ \A d \in Cells : Unused(d) => c <= d
             /\ Run(t, "read", thread[t].attempt, c, 0)
             /\ breaker' = [breaker EXCEPT ![m] = c]
  /\ UNCHANGED cell
  /\ streak' = [streak EXCEPT ![m] =
       [n |-> Bump(streak[m].n), age |-> IF streak[m].n = 0 THEN 0 ELSE streak[m].age]]
  /\ disturbed' = [disturbed EXCEPT ![m] = @ \/ Overlapped(t, m)]

ReadCount(t) ==
  /\ At(t, "read")
  /\ Run(t, "write", thread[t].attempt, thread[t].ref, cell[thread[t].ref].count)
  /\ UNCHANGED <<breaker, cell, streak, disturbed>>

WriteCount(t) ==
  /\ At(t, "write")
  /\ Run(t, "test", thread[t].attempt, thread[t].ref, 0)
  /\ cell' = [cell EXCEPT ![thread[t].ref] =
       [count |-> Bump(thread[t].read), age |-> @.age, hits |-> Bump(@.hits)]]
  /\ UNCHANGED <<breaker, streak, disturbed>>

\* The count is read again: only the first failure sets opened_at.
TestCount(t) ==
  /\ At(t, "test")
  /\ Goto(t, IF cell[thread[t].ref].count = 1 THEN "stamp" ELSE "store")
  /\ UNCHANGED <<breaker, cell, streak, disturbed>>

StampOpened(t) ==
  /\ At(t, "stamp")
  /\ Goto(t, "store")
  /\ cell' = [cell EXCEPT ![thread[t].ref] = [count |-> @.count, age |-> 0, hits |-> @.hits]]
  /\ UNCHANGED <<breaker, streak, disturbed>>

\* Mutant of Store: one attempt too many.
StoreOnceMore(t) ==
  /\ At(t, "store")
  /\ breaker' = [breaker EXCEPT ![Model(t)] = thread[t].ref]
  /\ IF thread[t].attempt <= Retries
     THEN Run(t, "call", thread[t].attempt + 1, NoCell, 0)
     ELSE RunFails(t)
  /\ Collect
  /\ UNCHANGED <<streak, disturbed>>

\* Mutant of Store: the retries are not counted.
StoreForEver(t) ==
  /\ At(t, "store")
  /\ breaker' = [breaker EXCEPT ![Model(t)] = thread[t].ref]
  /\ IF thread[t].attempt < Retries
     THEN Run(t, "call", thread[t].attempt, NoCell, 0)
     ELSE RunFails(t)
  /\ Collect
  /\ UNCHANGED <<streak, disturbed>>

\* The dictionary is put back under the model's name, though it may have been
\* popped or replaced meanwhile; then chat sleeps and tries again, or gives up.
Store(t) ==
  /\ At(t, "store")
  /\ breaker' = [breaker EXCEPT ![Model(t)] = thread[t].ref]
  /\ IF thread[t].attempt < Retries
     THEN Run(t, "call", thread[t].attempt + 1, NoCell, 0)
     ELSE RunFails(t)
  /\ Collect
  /\ UNCHANGED <<streak, disturbed>>

-----------------------------------------------------------------------------
(***************************************************************************)
(* The environment                                                         *)
(***************************************************************************)
\* The soft time limit of Celery raises in the handler's thread. Inside the
\* try statement it counts as a failure of the provider; from its except
\* clause, where chat also sleeps before it calls again, and from the check,
\* it leaves _run_with_retries.
Interrupt(t) ==
  /\ t \in Limited
  /\ \/ /\ At(t, "reset")
        /\ Goto(t, "record")
        /\ UNCHANGED disturbed
     \/ /\ \/ thread[t].pc \in Recording \cup {"check", "record"}
           \/ At(t, "call") /\ thread[t].attempt > 0
        /\ RunFails(t)
        /\ disturbed' = [disturbed EXCEPT ![Model(t)] = @ \/ thread[t].pc \in Recording]
  /\ UNCHANGED <<breaker, streak>>
  /\ Collect

\* The same between the reset and the return: the try statement is not left
\* yet, and an answered call counts as a failure.
InterruptReturn(t) ==
  /\ t \in Limited
  /\ At(t, "reset")
  /\ Goto(t, "record")
  /\ Popped(t)

Tick ==
  /\ cell' = [c \in Cells |->
       [count |-> cell[c].count, age |-> Aged(cell[c].age), hits |-> cell[c].hits]]
  /\ streak' = [m \in Models |-> [n |-> streak[m].n, age |-> Aged(streak[m].age)]]
  /\ UNCHANGED <<breaker, thread, disturbed>>

-----------------------------------------------------------------------------
Chatting(t) ==
  \/ Check(t) \/ Call(t) \/ Reset(t)
  \/ Record(t) \/ ReadCount(t) \/ WriteCount(t)
  \/ TestCount(t) \/ StampOpened(t) \/ Store(t)

Next ==
  \/ \E t \in Threads : Chat(t) \/ Chatting(t) \/ Interrupt(t) \/ InterruptReturn(t)
  \/ Tick

Spec == Init /\ [][Next]_vars

\* Time passes, and a chat goes on: the operating system runs every thread
\* and completion has a timeout.
Fairness == WF_vars(Tick) /\ \A t \in Threads : WF_vars(Chatting(t))

FairSpec == Spec /\ Fairness

-----------------------------------------------------------------------------
(***************************************************************************)
(* Properties                                                              *)
(***************************************************************************)
Pcs == {"idle", "check", "call", "reset", "record"} \cup Recording

ThreadType == [pc : Pcs, role : {"primary", "large", "fallback"}, attempt : 0..Retries,
               ref : Cells \cup {NoCell}, read : 0..Cap]

\* The shapes; a thread has a dictionary exactly while it records a failure,
\* and works on a model that exists.
TypeOK ==
  /\ breaker \in [Models -> Cells \cup {NoCell}]
  /\ cell \in [Cells -> [count : 0..Cap, age : 0..Cooldown, hits : 0..Cap]]
  /\ thread \in [Threads -> ThreadType]
  /\ \A t \in Threads :
       /\ thread[t].ref \in Cells <=> thread[t].pc \in Recording
       /\ Model(t) \in Models
  /\ streak \in [Models -> [n : 0..Cap, age : 0..Cooldown]]
  /\ disturbed \in [Models -> BOOLEAN]

\* Lost updates and dictionaries that come back after a reset never make the
\* breaker refuse a model before Threshold failures were recorded in it.
OpenIsEarned ==
  \A m \in Models : Open(m) => cell[breaker[m]].hits >= Threshold

\* While no updates overlap or break off, the breaker counts the failures
\* since the last success exactly, and once there are Threshold of them it
\* is open until Cooldown has passed since the first.
StreakIsCounted ==
  \A m \in Models :
    ~disturbed[m] /\ (\A t \in Threads : ~RecordsFor(t, m)) =>
      /\ (breaker[m] = NoCell) <=> (streak[m].n = 0)
      /\ breaker[m] # NoCell => cell[breaker[m]].count = streak[m].n
      /\ streak[m].n >= Threshold /\ streak[m].age < Cooldown => Open(m)

\* Every chat returns or raises.
ChatEnds == \A t \in Threads : ~At(t, "idle") ~> At(t, "idle")

\* No breaker stays open for ever, although updates under way may set
\* opened_at again: a model that recovered is finally asked again.
OpenIsLeft == \A m \in Models : Open(m) ~> ~Open(m)
=============================================================================
