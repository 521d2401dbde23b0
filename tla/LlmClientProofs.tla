-------------------------- MODULE LlmClientProofs --------------------------
(***************************************************************************)
(* Proofs about LlmClient for every number of threads and models, every    *)
(* threshold, cooldown and number of retries.                              *)
(*                                                                         *)
(* The shared dictionaries are followed through IInv: what a thread writes *)
(* back is bounded by what was written (Counted), a dictionary belongs to  *)
(* one model (Owned), a new one is empty (UnusedIsFresh), and while the    *)
(* updates of a model neither overlap nor break off, its dictionary is     *)
(* known after every statement (Tracked).                                  *)
(***************************************************************************)
EXTENDS LlmClient, TLAPS

\* What a thread writes back never exceeds the failures already written.
Counted ==
  /\ \A c \in Cells : cell[c].count <= cell[c].hits
  /\ \A t \in Threads : At(t, "write") => thread[t].read <= cell[thread[t].ref].hits

UnusedIsFresh == \A c \in Cells : Unused(c) => cell[c] = Fresh

\* A dictionary belongs to one model, whoever still refers to it.
Owned ==
  /\ \A m, n \in Models : breaker[m] = breaker[n] /\ breaker[m] # NoCell => m = n
  /\ \A t \in Threads, m \in Models :
       thread[t].pc \in Recording /\ breaker[m] = thread[t].ref => Model(t) = m
  /\ \A s, t \in Threads :
       (thread[s].pc \in Recording /\ thread[t].pc \in Recording
          /\ thread[s].ref = thread[t].ref) => Model(s) = Model(t)

\* The breaker of m when no thread is updating it.
Settled(m) ==
  /\ (breaker[m] = NoCell) <=> (streak[m].n = 0)
  /\ breaker[m] # NoCell =>
       /\ cell[breaker[m]].count = streak[m].n
       /\ cell[breaker[m]].age <= streak[m].age

\* The breaker of m while t alone is updating it, statement by statement.
Underway(t, m) ==
  /\ breaker[m] = thread[t].ref
  /\ streak[m].n >= 1
  /\ thread[t].pc \in {"read", "write"} =>
       /\ streak[m].n = Bump(cell[breaker[m]].count)
       /\ cell[breaker[m]].count = 0 \/ cell[breaker[m]].age <= streak[m].age
  /\ thread[t].pc = "write" => thread[t].read = cell[breaker[m]].count
  /\ thread[t].pc \in {"test", "stamp", "store"} => cell[breaker[m]].count = streak[m].n
  /\ thread[t].pc = "test" =>
       cell[breaker[m]].count = 1 \/ cell[breaker[m]].age <= streak[m].age
  /\ thread[t].pc = "store" => cell[breaker[m]].age <= streak[m].age

TrackedFor(m) ==
  ~disturbed[m] =>
    /\ \A s, t \in Threads : RecordsFor(s, m) /\ RecordsFor(t, m) => s = t
    /\ (\A t \in Threads : ~RecordsFor(t, m)) => Settled(m)
    /\ \A t \in Threads : RecordsFor(t, m) => Underway(t, m)

Tracked == \A m \in Models : TrackedFor(m)

IInv == TypeOK /\ Counted /\ UnusedIsFresh /\ Owned /\ Tracked

-----------------------------------------------------------------------------
(***************************************************************************)
(* What the actions do, record by record.                                  *)
(***************************************************************************)
\* NoCell is no dictionary, and the counters stay below Cap.
LEMMA Numbers ==
  /\ NoCell \notin Cells
  /\ Cap \in Nat /\ Cap >= 2 /\ Cap >= Threshold
  /\ \A n \in 0..Cap : Bump(n) \in 0..Cap /\ Bump(n) >= 1
  /\ \A n \in 0..Cooldown : Aged(n) \in 0..Cooldown
  /\ \A k, n \in 0..Cap : k <= n => Bump(k) <= Bump(n)
  /\ \A k, n \in 0..Cooldown : k <= n => Aged(k) <= Aged(n)
BY NumberAssumption, CellAssumption DEF NoCell, Cap, Bump, Aged

\* A run that failed leaves its dictionary, for the fallback or for good.
LEMMA RunFailsStep ==
  ASSUME TypeOK, NEW t \in Threads, RunFails(t)
  PROVE  /\ thread' \in [Threads -> ThreadType]
         /\ thread'[t].pc \in {"check", "idle"}
         /\ thread'[t].ref = NoCell
         /\ ModelOf(thread'[t].role) \in Models
         /\ \A s \in Threads \ {t} : thread'[s] = thread[s]
<1>1. Idle \in ThreadType /\ Starting("fallback") \in ThreadType
  BY Numbers, NumberAssumption DEF Idle, Starting, ThreadType, Pcs, Recording
<1>2. Primary \in Models /\ (Fallback # NoModel => Fallback \in Models)
  BY ModelAssumption DEF Models
<1>3. Idle.role = "primary" /\ Idle.pc = "idle" /\ Idle.ref = NoCell
  BY DEF Idle
<1>4. LET r == Starting("fallback")
      IN r.role = "fallback" /\ r.pc = "check" /\ r.ref = NoCell
  BY DEF Starting
<1>5. thread \in [Threads -> ThreadType]
  BY DEF TypeOK
<1>6. \/ thread' = [thread EXCEPT ![t] = Idle]
      \/ /\ Fallback # NoModel
         /\ thread' = [thread EXCEPT ![t] = Starting("fallback")]
  BY DEF RunFails
<1>7. ModelOf("primary") = Primary /\ ModelOf("fallback") = Fallback
  BY DEF ModelOf
<1> QED
  BY <1>1, <1>2, <1>3, <1>4, <1>5, <1>6, <1>7

\* Only dictionaries that became unused are forgotten.
LEMMA CollectStep ==
  ASSUME TypeOK, Collect
  PROVE  /\ cell' \in [Cells -> [count : 0..Cap, age : 0..Cooldown, hits : 0..Cap]]
         /\ \A c \in Cells : cell'[c] = IF Unused(c)' THEN Fresh ELSE cell[c]
         /\ Fresh.count = 0 /\ Fresh.hits = 0
<1>1. Fresh \in [count : 0..Cap, age : 0..Cooldown, hits : 0..Cap]
  BY Numbers, NumberAssumption DEF Fresh
<1>2. cell \in [Cells -> [count : 0..Cap, age : 0..Cooldown, hits : 0..Cap]]
  BY DEF TypeOK
<1>3. cell' = [c \in Cells |-> IF Unused(c)' THEN Fresh ELSE cell[c]]
  BY DEF Collect
<1>4. Fresh.count = 0 /\ Fresh.hits = 0
  BY DEF Fresh
<1> QED
  BY <1>1, <1>2, <1>3, <1>4

-----------------------------------------------------------------------------
LEMMA InitType == Init => TypeOK
<1> SUFFICES ASSUME Init PROVE TypeOK
  OBVIOUS
<1>1. Idle \in ThreadType /\ Fresh \in [count : 0..Cap, age : 0..Cooldown, hits : 0..Cap]
  BY Numbers, NumberAssumption DEF Idle, Fresh, ThreadType, Pcs, Recording
<1>2. Primary \in Models
  BY ModelAssumption DEF Models
<1>3. ~("idle" \in Recording)
  BY DEF Recording
<1> QED
  BY <1>1, <1>2, <1>3, Numbers, NumberAssumption
  DEF Init, TypeOK, Idle, Model, ModelOf

LEMMA TypeStep == TypeOK /\ [Next]_vars => TypeOK'
<1> SUFFICES ASSUME TypeOK, [Next]_vars PROVE TypeOK'
  OBVIOUS
<1> DEFINE Cell == [count : 0..Cap, age : 0..Cooldown, hits : 0..Cap]
           Streak == [n : 0..Cap, age : 0..Cooldown]
           Shape(t) == /\ thread[t].ref \in Cells <=> thread[t].pc \in Recording
                       /\ ModelOf(thread[t].role) \in Models
<1>0. /\ breaker \in [Models -> Cells \cup {NoCell}]
      /\ cell \in [Cells -> Cell]
      /\ thread \in [Threads -> ThreadType]
      /\ \A t \in Threads : Shape(t)
      /\ streak \in [Models -> Streak]
      /\ disturbed \in [Models -> BOOLEAN]
  BY DEF TypeOK, Model
<1>q. ASSUME /\ breaker' \in [Models -> Cells \cup {NoCell}]
             /\ cell' \in [Cells -> Cell]
             /\ thread' \in [Threads -> ThreadType]
             /\ \A t \in Threads : Shape(t)'
             /\ streak' \in [Models -> Streak]
             /\ disturbed' \in [Models -> BOOLEAN]
      PROVE  TypeOK'
  BY <1>q DEF TypeOK, Model
<1>r. Recording \subseteq Pcs /\ {"idle", "check", "call", "reset", "record"} \subseteq Pcs
      /\ Recording = {"read", "write", "test", "stamp", "store"}
  BY DEF Pcs, Recording
<1>n. NoCell \notin Cells
  BY Numbers
<1>1. ASSUME NEW t \in Threads, Chat(t) PROVE TypeOK'
  <2>1. PICK role \in {"primary", "large"} :
          thread' = [thread EXCEPT ![t] = Starting(role)]
    BY <1>1 DEF Chat
  <2> DEFINE r == Starting(role)
  <2>2. r \in ThreadType /\ r.pc = "check" /\ r.ref = NoCell /\ r.role = role
    BY Numbers, NumberAssumption DEF Idle, Starting, ThreadType, Pcs, Recording
  <2>3. ModelOf(role) \in Models
    BY ModelAssumption DEF ModelOf, Models
  <2>4. thread' = [thread EXCEPT ![t] = r]
    BY <2>1
  <2> HIDE DEF r
  <2>5. thread' \in [Threads -> ThreadType] /\ \A s \in Threads : Shape(s)'
    BY <2>2, <2>3, <2>4, <1>0, <1>r, <1>n
  <2> QED
    BY <2>5, <1>0, <1>q, <1>1 DEF Chat
<1>2. ASSUME NEW t \in Threads, Check(t) PROVE TypeOK'
  <2>1. CASE Goto(t, "call")
    <3>1. thread' \in [Threads -> ThreadType] /\ \A s \in Threads : Shape(s)'
      BY <1>0, <1>r, <1>2, <2>1 DEF Check, Goto, Run, At, ThreadType
    <3> QED
      BY <3>1, <1>0, <1>q, <1>2 DEF Check
  <2>2. CASE RunFails(t)
    <3>1. thread' \in [Threads -> ThreadType] /\ \A s \in Threads : Shape(s)'
      BY <1>0, <1>r, <1>n, <2>2, RunFailsStep
    <3> QED
      BY <3>1, <1>0, <1>q, <1>2 DEF Check
  <2> QED
    BY <2>1, <2>2, <1>2 DEF Check
<1>3. ASSUME NEW t \in Threads, Call(t) PROVE TypeOK'
  <2>1. thread' \in [Threads -> ThreadType] /\ \A s \in Threads : Shape(s)'
    <3>1. CASE Run(t, "reset", thread[t].attempt, thread[t].ref, thread[t].read)
      BY <1>0, <1>r, <1>3, <3>1 DEF Call, Run, At, ThreadType
    <3>2. CASE Run(t, "record", thread[t].attempt, thread[t].ref, thread[t].read)
      BY <1>0, <1>r, <1>3, <3>2 DEF Call, Run, At, ThreadType
    <3> QED
      BY <3>1, <3>2, <1>3 DEF Call, Goto
  <2> QED
    BY <2>1, <1>0, <1>q, <1>3 DEF Call
<1>p. ASSUME NEW t \in Threads, Popped(t),
             thread' \in [Threads -> ThreadType], \A s \in Threads : Shape(s)'
      PROVE  TypeOK'
  <2>1. breaker' \in [Models -> Cells \cup {NoCell}]
    BY <1>p, <1>0 DEF Popped
  <2>2. streak' \in [Models -> Streak]
    <3>1. [n |-> 0, age |-> Cooldown] \in Streak
      BY Numbers, NumberAssumption
    <3>2. streak' = [streak EXCEPT ![Model(t)] = [n |-> 0, age |-> Cooldown]]
      BY <1>p DEF Popped
    <3> HIDE DEF Streak
    <3> QED
      BY <3>1, <3>2, <1>0
  <2>3. disturbed' \in [Models -> BOOLEAN]
    BY <1>p, <1>0 DEF Popped, Overlapped
  <2>4. cell' \in [Cells -> Cell]
    BY <1>p, CollectStep DEF Popped
  <2> QED
    BY <2>1, <2>2, <2>3, <2>4, <1>p, <1>q
<1>4. ASSUME NEW t \in Threads, Reset(t) PROVE TypeOK'
  <2>1. Idle \in ThreadType /\ Idle.pc = "idle" /\ Idle.ref = NoCell /\ ModelOf(Idle.role) = Primary
    BY Numbers, NumberAssumption DEF Idle, Starting, ThreadType, Pcs, ModelOf
  <2>2. Primary \in Models
    BY ModelAssumption DEF Models
  <2>3. thread' = [thread EXCEPT ![t] = Idle]
    BY <1>4 DEF Reset
  <2>4. thread' \in [Threads -> ThreadType] /\ \A s \in Threads : Shape(s)'
    BY <2>1, <2>2, <2>3, <1>0, <1>r, <1>n
  <2> QED
    BY <2>4, <1>4, <1>p DEF Reset
<1>5. ASSUME NEW t \in Threads, Record(t) PROVE TypeOK'
  <2>1. \E c \in Cells : /\ Run(t, "read", thread[t].attempt, c, 0)
                         /\ breaker' = breaker \/ breaker' = [breaker EXCEPT ![Model(t)] = c]
    BY <1>0, <1>5 DEF Record, Model
  <2>2. thread' \in [Threads -> ThreadType] /\ \A s \in Threads : Shape(s)'
    BY <2>1, <1>0, <1>r, Numbers DEF Run, ThreadType
  <2>3. breaker' \in [Models -> Cells \cup {NoCell}]
    BY <2>1, <1>0
  <2>4. streak' \in [Models -> Streak]
    BY <1>0, <1>5, Numbers, NumberAssumption DEF Record, Model
  <2>5. disturbed' \in [Models -> BOOLEAN]
    BY <1>5, <1>0 DEF Record, Overlapped
  <2>6. cell' = cell
    BY <1>5 DEF Record
  <2> QED
    BY <2>2, <2>3, <2>4, <2>5, <2>6, <1>0, <1>q
<1>6. ASSUME NEW t \in Threads, ReadCount(t) PROVE TypeOK'
  <2>1. cell[thread[t].ref].count \in 0..Cap
    BY <1>6, <1>0, <1>r DEF ReadCount, At
  <2>2. thread' \in [Threads -> ThreadType] /\ \A s \in Threads : Shape(s)'
    BY <1>0, <1>r, <1>6, <2>1 DEF ReadCount, Run, At, ThreadType
  <2> QED
    BY <2>2, <1>0, <1>q, <1>6 DEF ReadCount
<1>7. ASSUME NEW t \in Threads, WriteCount(t) PROVE TypeOK'
  <2>1. thread[t].ref \in Cells /\ thread[t].read \in 0..Cap
    BY <1>7, <1>0, <1>r DEF WriteCount, At, ThreadType
  <2>2. thread' \in [Threads -> ThreadType] /\ \A s \in Threads : Shape(s)'
    BY <1>0, <1>r, <1>7, Numbers DEF WriteCount, Run, At, ThreadType
  <2>3. cell' \in [Cells -> Cell]
    BY <1>0, <1>7, <2>1, Numbers DEF WriteCount
  <2> QED
    BY <2>2, <2>3, <1>0, <1>q, <1>7 DEF WriteCount
<1>8. ASSUME NEW t \in Threads, TestCount(t) PROVE TypeOK'
  <2>1. thread' \in [Threads -> ThreadType] /\ \A s \in Threads : Shape(s)'
    BY <1>0, <1>r, <1>8 DEF TestCount, Goto, Run, At, ThreadType
  <2> QED
    BY <2>1, <1>0, <1>q, <1>8 DEF TestCount
<1>9. ASSUME NEW t \in Threads, StampOpened(t) PROVE TypeOK'
  <2>1. thread' \in [Threads -> ThreadType] /\ \A s \in Threads : Shape(s)'
    <3>1. thread[t].pc = "stamp" /\ Run(t, "store", thread[t].attempt, thread[t].ref, thread[t].read)
      BY <1>9 DEF StampOpened, Goto, At
    <3>2. thread' \in [Threads -> ThreadType]
      BY <1>0, <1>r, <3>1 DEF Run, ThreadType
    <3>3. \A s \in Threads \ {t} : thread'[s] = thread[s]
      BY <1>0, <3>1 DEF Run
    <3>4. /\ thread'[t].pc = "store" /\ thread'[t].ref = thread[t].ref
          /\ thread'[t].role = thread[t].role
      BY <1>0, <3>1 DEF Run
    <3> QED
      BY <1>0, <1>r, <3>1, <3>2, <3>3, <3>4
  <2>2. cell' \in [Cells -> Cell]
    <3>1. thread[t].ref \in Cells
      BY <1>0, <1>r, <1>9 DEF StampOpened, At
    <3>2. [count |-> cell[thread[t].ref].count, age |-> 0, hits |-> cell[thread[t].ref].hits] \in Cell
      BY <1>0, <3>1, NumberAssumption
    <3> HIDE DEF Cell
    <3> QED
      BY <1>0, <1>9, <3>2 DEF StampOpened
  <2> QED
    BY <2>1, <2>2, <1>0, <1>q, <1>9 DEF StampOpened
<1>10. ASSUME NEW t \in Threads, Store(t) PROVE TypeOK'
  <2>1. thread' \in [Threads -> ThreadType] /\ \A s \in Threads : Shape(s)'
    <3>1. CASE RunFails(t)
      BY <1>0, <1>r, <1>n, <3>1, RunFailsStep
    <3>2. CASE /\ thread[t].attempt < Retries
               /\ Run(t, "call", thread[t].attempt + 1, NoCell, 0)
      BY <1>0, <1>r, <1>n, <3>2, Numbers, NumberAssumption DEF Run, ThreadType
    <3> QED
      BY <3>1, <3>2, <1>10 DEF Store
  <2>2. breaker' \in [Models -> Cells \cup {NoCell}]
    BY <1>0, <1>10 DEF Store, ThreadType
  <2>3. cell' \in [Cells -> Cell]
    BY <1>10, CollectStep DEF Store
  <2> QED
    BY <2>1, <2>2, <2>3, <1>0, <1>q, <1>10 DEF Store
<1>11. ASSUME NEW t \in Threads, Interrupt(t) PROVE TypeOK'
  <2>1. thread' \in [Threads -> ThreadType] /\ \A s \in Threads : Shape(s)'
    <3>1. CASE RunFails(t)
      BY <1>0, <1>r, <1>n, <3>1, RunFailsStep
    <3>2. CASE At(t, "reset") /\ Goto(t, "record")
      BY <1>0, <1>r, <3>2 DEF Goto, Run, At, ThreadType
    <3> QED
      BY <3>1, <3>2, <1>11 DEF Interrupt
  <2>2. disturbed' \in [Models -> BOOLEAN]
    BY <1>0, <1>11 DEF Interrupt
  <2>3. cell' \in [Cells -> Cell]
    BY <1>11, CollectStep DEF Interrupt
  <2> QED
    BY <2>1, <2>2, <2>3, <1>0, <1>q, <1>11 DEF Interrupt
<1>14. ASSUME NEW t \in Threads, InterruptReturn(t) PROVE TypeOK'
  <2>1. At(t, "reset") /\ Goto(t, "record")
    BY <1>14 DEF InterruptReturn
  <2>2. thread' \in [Threads -> ThreadType] /\ \A s \in Threads : Shape(s)'
    BY <1>0, <1>r, <2>1 DEF Goto, Run, At, ThreadType
  <2> QED
    BY <2>2, <1>14, <1>p DEF InterruptReturn
<1>12. CASE Tick
  <2>1. cell' \in [Cells -> Cell]
    BY <1>0, <1>12, Numbers DEF Tick
  <2>2. streak' \in [Models -> Streak]
    BY <1>0, <1>12, Numbers DEF Tick
  <2> QED
    BY <2>1, <2>2, <1>0, <1>q, <1>12 DEF Tick
<1>13. CASE UNCHANGED vars
  BY <1>0, <1>q, <1>13 DEF vars
<1> QED
  BY <1>1, <1>2, <1>3, <1>4, <1>5, <1>6, <1>7, <1>8, <1>9, <1>10, <1>11, <1>12, <1>13, <1>14
  DEF Next, Chatting

\* The shapes of the breaker and of the threads that use it.
THEOREM TypeCorrect == Spec => []TypeOK
<1>1. Init => TypeOK
  BY InitType
<1>2. TypeOK /\ [Next]_vars => TypeOK'
  BY TypeStep
<1> QED
  BY <1>1, <1>2, PTL DEF Spec

-----------------------------------------------------------------------------
(***************************************************************************)
(* The same steps seen by the other parts of the invariant.                *)
(***************************************************************************)
LEMMA RunStep ==
  ASSUME TypeOK, NEW t \in Threads, NEW pc, NEW attempt, NEW ref, NEW read,
         Run(t, pc, attempt, ref, read)
  PROVE  /\ thread'[t].pc = pc /\ thread'[t].role = thread[t].role
         /\ thread'[t].ref = ref /\ thread'[t].read = read
         /\ \A s \in Threads \ {t} : thread'[s] = thread[s]
BY DEF TypeOK, Run

\* Who records a failure has a dictionary, and nobody else.
LEMMA Holders ==
  ASSUME TypeOK
  PROVE  /\ \A t \in Threads : thread[t].pc \in Recording => thread[t].ref \in Cells
         /\ \A t \in Threads : thread[t].pc \notin Recording => thread[t].ref = NoCell
         /\ \A t \in Threads : Model(t) \in Models
         /\ \A m \in Models : breaker[m] \in Cells \/ breaker[m] = NoCell
<1>1. \A t \in Threads : thread[t].ref \in Cells \cup {NoCell}
  BY DEF TypeOK, ThreadType
<1> QED
  BY <1>1 DEF TypeOK

\* Steps of a thread that does not record a failure and starts no recording.
Outside(t) ==
  /\ thread[t].pc \notin Recording
  /\ Chat(t) \/ Check(t) \/ Call(t) \/ Interrupt(t)

LEMMA OutsideStep ==
  ASSUME TypeOK, UnusedIsFresh, NEW t \in Threads, Outside(t)
  PROVE  /\ breaker' = breaker /\ streak' = streak
         /\ \A m \in Models : disturbed'[m] = disturbed[m]
         /\ \A c \in Cells : cell'[c] = cell[c]
         /\ \A c \in Cells : Unused(c)' => Unused(c)
         /\ thread'[t].pc \notin Recording
         /\ thread'[t].ref \notin Cells
         /\ \A s \in Threads \ {t} : thread'[s] = thread[s]
<1>1. thread[t].ref = NoCell /\ NoCell \notin Cells
  BY Holders, Numbers DEF Outside
<1>2. Recording = {"read", "write", "test", "stamp", "store"}
  BY DEF Recording
<1>q. ASSUME /\ breaker' = breaker
             /\ thread'[t].pc \notin Recording
             /\ thread'[t].ref = NoCell
             /\ \A s \in Threads \ {t} : thread'[s] = thread[s]
      PROVE  \A c \in Cells : Unused(c)' <=> Unused(c)
  BY <1>1, <1>q DEF Unused
<1>3. CASE Chat(t)
  <2>1. PICK role \in {"primary", "large"} : thread' = [thread EXCEPT ![t] = Starting(role)]
    BY <1>3 DEF Chat
  <2>2. Starting(role).pc = "check" /\ Starting(role).ref = NoCell
    BY DEF Starting
  <2>3. /\ thread'[t].pc \notin Recording
        /\ thread'[t].ref = NoCell
        /\ \A s \in Threads \ {t} : thread'[s] = thread[s]
    BY <2>1, <2>2, <1>2 DEF TypeOK
  <2> QED
    BY <2>3, <1>3, <1>1, <1>q DEF Chat
<1>4. CASE Check(t)
  <2>1. /\ thread'[t].pc \notin Recording
        /\ thread'[t].ref = NoCell
        /\ \A s \in Threads \ {t} : thread'[s] = thread[s]
    <3>1. CASE RunFails(t)
      BY <3>1, RunFailsStep, <1>2
    <3>2. CASE Run(t, "call", thread[t].attempt, thread[t].ref, thread[t].read)
      BY <3>2, RunStep, <1>1, <1>2
    <3> QED
      BY <3>1, <3>2, <1>4 DEF Check, Goto
  <2> QED
    BY <2>1, <1>4, <1>1, <1>q DEF Check
<1>5. CASE Call(t)
  <2>1. /\ thread'[t].pc \notin Recording
        /\ thread'[t].ref = NoCell
        /\ \A s \in Threads \ {t} : thread'[s] = thread[s]
    <3>1. CASE Run(t, "reset", thread[t].attempt, thread[t].ref, thread[t].read)
      BY <3>1, RunStep, <1>1, <1>2
    <3>2. CASE Run(t, "record", thread[t].attempt, thread[t].ref, thread[t].read)
      BY <3>2, RunStep, <1>1, <1>2
    <3> QED
      BY <3>1, <3>2, <1>5 DEF Call, Goto
  <2> QED
    BY <2>1, <1>5, <1>1, <1>q DEF Call
<1>6. CASE Interrupt(t)
  <2>1. /\ thread'[t].pc \notin Recording
        /\ thread'[t].ref = NoCell
        /\ \A s \in Threads \ {t} : thread'[s] = thread[s]
    <3>1. CASE RunFails(t)
      BY <3>1, RunFailsStep, <1>2
    <3>2. CASE Run(t, "record", thread[t].attempt, thread[t].ref, thread[t].read)
      BY <3>2, RunStep, <1>1, <1>2
    <3> QED
      BY <3>1, <3>2, <1>6 DEF Interrupt, Goto
  <2>2. breaker' = breaker /\ streak' = streak /\ Collect
    BY <1>6 DEF Interrupt
  <2>3. \A c \in Cells : Unused(c)' <=> Unused(c)
    BY <2>1, <2>2, <1>q
  <2>4. \A c \in Cells : cell'[c] = cell[c]
    BY <2>2, <2>3, CollectStep DEF UnusedIsFresh
  <2>5. \A m \in Models : disturbed'[m] = disturbed[m]
    BY <1>6 DEF Interrupt, Outside, TypeOK
  <2> QED
    BY <2>1, <2>2, <2>3, <2>4, <2>5, <1>1
<1> QED
  BY <1>3, <1>4, <1>5, <1>6 DEF Outside

\* Steps that end a recording: one of the last statement, or one broken off.
Leaves(t) == Store(t) \/ (thread[t].pc \in Recording /\ Interrupt(t))

LEMMA LeavesStep ==
  ASSUME TypeOK, NEW t \in Threads, Leaves(t)
  PROVE  /\ thread[t].pc \in Recording
         /\ thread'[t].pc \notin Recording
         /\ thread'[t].ref = NoCell
         /\ \A s \in Threads \ {t} : thread'[s] = thread[s]
         /\ streak' = streak
         /\ Collect
         /\ \A m \in Models : m # Model(t) => disturbed'[m] = disturbed[m]
         /\ \/ Interrupt(t) /\ breaker' = breaker /\ disturbed'[Model(t)]
            \/ /\ thread[t].pc = "store" /\ disturbed' = disturbed
               /\ breaker' = [breaker EXCEPT ![Model(t)] = thread[t].ref]
<1>1. Recording = {"read", "write", "test", "stamp", "store"}
  BY DEF Recording
<1>2. Model(t) \in Models
  BY Holders
<1>3. CASE Store(t)
  <2>1. /\ thread'[t].pc \notin Recording
        /\ thread'[t].ref = NoCell
        /\ \A s \in Threads \ {t} : thread'[s] = thread[s]
    <3>1. CASE RunFails(t)
      BY <3>1, RunFailsStep, <1>1
    <3>2. CASE Run(t, "call", thread[t].attempt + 1, NoCell, 0)
      BY <3>2, RunStep, <1>1
    <3> QED
      BY <3>1, <3>2, <1>3 DEF Store
  <2> QED
    BY <2>1, <1>1, <1>3 DEF Store, At
<1>4. CASE thread[t].pc \in Recording /\ Interrupt(t)
  <2>1. RunFails(t)
    BY <1>1, <1>4 DEF Interrupt, At
  <2>2. disturbed' = [disturbed EXCEPT ![Model(t)] = @ \/ thread[t].pc \in Recording]
    BY <1>1, <1>4 DEF Interrupt, At
  <2>3. disturbed'[Model(t)] /\ \A m \in Models : m # Model(t) => disturbed'[m] = disturbed[m]
    BY <2>2, <1>2, <1>4 DEF TypeOK
  <2> QED
    BY <2>1, <2>3, <1>1, <1>4, RunFailsStep DEF Interrupt
<1> QED
  BY <1>3, <1>4 DEF Leaves

\* Steps that reset the breaker: the answer is returned, or that is broken off.
Resets(t) == Reset(t) \/ InterruptReturn(t)

LEMMA ResetStep ==
  ASSUME TypeOK, NEW t \in Threads, Resets(t)
  PROVE  /\ thread[t].pc \notin Recording
         /\ thread'[t].pc \notin Recording
         /\ thread'[t].ref = NoCell
         /\ \A s \in Threads \ {t} : thread'[s] = thread[s]
         /\ breaker' = [breaker EXCEPT ![Model(t)] = NoCell]
         /\ streak' = [streak EXCEPT ![Model(t)] = [n |-> 0, age |-> Cooldown]]
         /\ disturbed' = [disturbed EXCEPT ![Model(t)] = Overlapped(t, Model(t))]
         /\ Collect
<1>1. Recording = {"read", "write", "test", "stamp", "store"}
  BY DEF Recording
<1>2. thread[t].pc = "reset" /\ Popped(t)
  BY DEF Resets, Reset, InterruptReturn, At
<1>3. thread[t].pc \notin Recording
  BY <1>1, <1>2
<1>4. /\ thread'[t].pc \notin Recording
      /\ thread'[t].ref = NoCell
      /\ \A s \in Threads \ {t} : thread'[s] = thread[s]
  <2>1. CASE Reset(t)
    <3>1. Idle.pc = "idle" /\ Idle.ref = NoCell
      BY DEF Idle
    <3> QED
      BY <2>1, <3>1, <1>1 DEF Reset, TypeOK
  <2>2. CASE InterruptReturn(t)
    <3>1. Run(t, "record", thread[t].attempt, thread[t].ref, thread[t].read)
      BY <2>2 DEF InterruptReturn, Goto
    <3> QED
      BY <3>1, <1>1, <1>3, Holders, RunStep
  <2> QED
    BY <2>1, <2>2 DEF Resets
<1> QED
  BY <1>2, <1>3, <1>4 DEF Popped

LEMMA RecordStep ==
  ASSUME TypeOK, NEW t \in Threads, Record(t)
  PROVE  /\ thread[t].pc \notin Recording
         /\ thread'[t].pc = "read"
         /\ thread'[t].role = thread[t].role
         /\ thread'[t].ref \in Cells
         /\ \A s \in Threads \ {t} : thread'[s] = thread[s]
         /\ cell' = cell
         /\ \/ breaker[Model(t)] = thread'[t].ref /\ breaker' = breaker
            \/ /\ breaker[Model(t)] = NoCell
               /\ Unused(thread'[t].ref)
               /\ breaker' = [breaker EXCEPT ![Model(t)] = thread'[t].ref]
         /\ streak' = [streak EXCEPT ![Model(t)] =
              [n |-> Bump(streak[Model(t)].n),
               age |-> IF streak[Model(t)].n = 0 THEN 0 ELSE streak[Model(t)].age]]
         /\ disturbed' = [disturbed EXCEPT ![Model(t)] = @ \/ Overlapped(t, Model(t))]
<1>1. Recording = {"read", "write", "test", "stamp", "store"}
  BY DEF Recording
<1>2. thread[t].pc \notin Recording
  BY <1>1 DEF Record, At
<1>3. PICK c \in Cells :
        /\ Run(t, "read", thread[t].attempt, c, 0)
        /\ \/ breaker[Model(t)] = c /\ breaker' = breaker
           \/ /\ breaker[Model(t)] = NoCell
              /\ Unused(c)
              /\ breaker' = [breaker EXCEPT ![Model(t)] = c]
  BY Holders DEF Record
<1>4. /\ thread'[t].pc = "read" /\ thread'[t].role = thread[t].role /\ thread'[t].ref = c
      /\ \A s \in Threads \ {t} : thread'[s] = thread[s]
  BY <1>3, RunStep
<1> QED
  BY <1>2, <1>3, <1>4 DEF Record

\* The statements between: the dictionary of t changes, if any.
LEMMA StatementStep ==
  ASSUME TypeOK, NEW t \in Threads,
         ReadCount(t) \/ WriteCount(t) \/ TestCount(t) \/ StampOpened(t)
  PROVE  /\ thread[t].pc \in Recording /\ thread'[t].pc \in Recording
         /\ thread'[t].role = thread[t].role
         /\ thread'[t].ref = thread[t].ref
         /\ \A s \in Threads \ {t} : thread'[s] = thread[s]
         /\ breaker' = breaker /\ streak' = streak /\ disturbed' = disturbed
         /\ \A c \in Cells \ {thread[t].ref} : cell'[c] = cell[c]
         /\ \/ /\ thread[t].pc = "read" /\ thread'[t].pc = "write"
               /\ thread'[t].read = cell[thread[t].ref].count
               /\ cell' = cell
            \/ /\ thread[t].pc = "write" /\ thread'[t].pc = "test"
               /\ cell'[thread[t].ref].count = Bump(thread[t].read)
               /\ cell'[thread[t].ref].age = cell[thread[t].ref].age
               /\ cell'[thread[t].ref].hits = Bump(cell[thread[t].ref].hits)
            \/ /\ thread[t].pc = "test" /\ cell' = cell
               /\ thread'[t].pc =
                    IF cell[thread[t].ref].count = 1 THEN "stamp" ELSE "store"
            \/ /\ thread[t].pc = "stamp" /\ thread'[t].pc = "store"
               /\ cell'[thread[t].ref].count = cell[thread[t].ref].count
               /\ cell'[thread[t].ref].age = 0
               /\ cell'[thread[t].ref].hits = cell[thread[t].ref].hits
<1>1. Recording = {"read", "write", "test", "stamp", "store"}
  BY DEF Recording
<1>2. CASE ReadCount(t)
  <2>1. Run(t, "write", thread[t].attempt, thread[t].ref, cell[thread[t].ref].count)
    BY <1>2 DEF ReadCount
  <2>2. /\ thread'[t].pc = "write" /\ thread'[t].role = thread[t].role
        /\ thread'[t].ref = thread[t].ref /\ thread'[t].read = cell[thread[t].ref].count
        /\ \A s \in Threads \ {t} : thread'[s] = thread[s]
    BY <2>1, RunStep
  <2> QED
    BY <2>2, <1>1, <1>2 DEF ReadCount, At
<1>3. CASE WriteCount(t)
  <2>1. Run(t, "test", thread[t].attempt, thread[t].ref, 0)
    BY <1>3 DEF WriteCount
  <2>2. /\ thread'[t].pc = "test" /\ thread'[t].role = thread[t].role
        /\ thread'[t].ref = thread[t].ref
        /\ \A s \in Threads \ {t} : thread'[s] = thread[s]
    BY <2>1, RunStep
  <2>3. thread[t].pc = "write" /\ thread[t].ref \in Cells
    BY <1>1, <1>3, Holders DEF WriteCount, At
  <2>4. cell' = [cell EXCEPT ![thread[t].ref] =
          [count |-> Bump(thread[t].read), age |-> @.age, hits |-> Bump(@.hits)]]
    BY <1>3 DEF WriteCount
  <2>5. /\ \A c \in Cells \ {thread[t].ref} : cell'[c] = cell[c]
        /\ cell'[thread[t].ref] =
             [count |-> Bump(thread[t].read), age |-> cell[thread[t].ref].age,
              hits |-> Bump(cell[thread[t].ref].hits)]
    BY <2>3, <2>4 DEF TypeOK
  <2> QED
    BY <2>2, <2>3, <2>5, <1>1, <1>3 DEF WriteCount
<1>4. CASE TestCount(t)
  <2>1. Run(t, IF cell[thread[t].ref].count = 1 THEN "stamp" ELSE "store",
            thread[t].attempt, thread[t].ref, thread[t].read)
    BY <1>4 DEF TestCount, Goto
  <2>2. /\ thread'[t].pc = (IF cell[thread[t].ref].count = 1 THEN "stamp" ELSE "store")
        /\ thread'[t].role = thread[t].role /\ thread'[t].ref = thread[t].ref
        /\ \A s \in Threads \ {t} : thread'[s] = thread[s]
    BY <2>1, RunStep
  <2> QED
    BY <2>2, <1>1, <1>4 DEF TestCount, At
<1>5. CASE StampOpened(t)
  <2>1. Run(t, "store", thread[t].attempt, thread[t].ref, thread[t].read)
    BY <1>5 DEF StampOpened, Goto
  <2>2. /\ thread'[t].pc = "store" /\ thread'[t].role = thread[t].role
        /\ thread'[t].ref = thread[t].ref
        /\ \A s \in Threads \ {t} : thread'[s] = thread[s]
    BY <2>1, RunStep
  <2>3. thread[t].pc = "stamp" /\ thread[t].ref \in Cells
    BY <1>1, <1>5, Holders DEF StampOpened, At
  <2>4. cell' = [cell EXCEPT ![thread[t].ref] = [count |-> @.count, age |-> 0, hits |-> @.hits]]
    BY <1>5 DEF StampOpened
  <2>5. /\ \A c \in Cells \ {thread[t].ref} : cell'[c] = cell[c]
        /\ cell'[thread[t].ref] =
             [count |-> cell[thread[t].ref].count, age |-> 0, hits |-> cell[thread[t].ref].hits]
    BY <2>3, <2>4 DEF TypeOK
  <2> QED
    BY <2>2, <2>3, <2>5, <1>1, <1>5 DEF StampOpened
<1> QED
  BY <1>2, <1>3, <1>4, <1>5

\* Every step is one of these.
LEMMA Steps ==
  ASSUME TypeOK, [Next]_vars
  PROVE  \/ \E t \in Threads :
              \/ Outside(t) \/ Leaves(t) \/ Resets(t) \/ Record(t)
              \/ ReadCount(t) \/ WriteCount(t) \/ TestCount(t) \/ StampOpened(t)
         \/ Tick
         \/ UNCHANGED vars
<1>1. Recording = {"read", "write", "test", "stamp", "store"}
  BY DEF Recording
<1>2. ASSUME NEW t \in Threads, Chat(t) \/ Check(t) \/ Call(t) PROVE Outside(t)
  BY <1>1, <1>2 DEF Chat, Check, Call, At, Outside
<1> QED
  BY <1>2 DEF Next, Chatting, Outside, Leaves, Resets

-----------------------------------------------------------------------------
LEMMA InitInvariant == Init => IInv
<1> SUFFICES ASSUME Init PROVE IInv
  OBVIOUS
<1>1. TypeOK
  BY InitType
<1>2. /\ \A c \in Cells : cell[c] = Fresh
      /\ \A t \in Threads : thread[t].pc \notin Recording /\ thread[t].pc # "write"
      /\ \A m \in Models : breaker[m] = NoCell /\ streak[m].n = 0
  BY DEF Init, Idle, Recording
<1>3. Fresh.count <= Fresh.hits
  BY DEF Fresh
<1>4. Counted
  BY <1>2, <1>3 DEF Counted, At
<1>5. UnusedIsFresh
  BY <1>2 DEF UnusedIsFresh
<1>6. Owned
  BY <1>2 DEF Owned
<1>7. Tracked
  BY <1>2 DEF Tracked, TrackedFor, RecordsFor, Settled
<1> QED
  BY <1>1, <1>4, <1>5, <1>6, <1>7 DEF IInv

LEMMA CountedStep == TypeOK /\ UnusedIsFresh /\ Counted /\ [Next]_vars => Counted'
<1> SUFFICES ASSUME TypeOK, UnusedIsFresh, Counted, [Next]_vars PROVE Counted'
  OBVIOUS
<1>1. /\ \A c \in Cells : cell[c].count <= cell[c].hits
      /\ \A t \in Threads : thread[t].pc = "write" => thread[t].read <= cell[thread[t].ref].hits
      /\ \A t \in Threads : thread[t].pc = "write" => thread[t].ref \in Cells
      /\ \A c \in Cells : cell[c].count \in 0..Cap /\ cell[c].hits \in 0..Cap
      /\ \A t \in Threads : thread[t].read \in 0..Cap
  BY Holders DEF Counted, At, Recording, TypeOK, ThreadType
<1>q. ASSUME /\ \A c \in Cells : cell'[c].count <= cell'[c].hits
             /\ \A t \in Threads :
                  thread'[t].pc = "write" => thread'[t].read <= cell'[thread'[t].ref].hits
      PROVE  Counted'
  BY <1>q DEF Counted, At
<1>r. Recording = {"read", "write", "test", "stamp", "store"}
  BY DEF Recording
\* A dictionary that a thread uses is not forgotten.
<1>c. ASSUME Collect, NEW t \in Threads, thread'[t].pc \notin Recording,
             \A s \in Threads \ {t} : thread'[s] = thread[s]
      PROVE  Counted'
  <2>1. \A c \in Cells : cell'[c].count <= cell'[c].hits
    <3>1. Fresh.count <= Fresh.hits
      BY DEF Fresh
    <3> QED
      BY <1>c, <1>1, <3>1, CollectStep
  <2>2. ASSUME NEW s \in Threads, thread'[s].pc = "write"
        PROVE  thread'[s].read <= cell'[thread'[s].ref].hits
    <3>1. s # t /\ thread'[s] = thread[s]
      BY <1>c, <1>r, <2>2
    <3>2. PICK c \in Cells : c = thread[s].ref
      BY <3>1, <2>2, <1>1
    <3>3. ~Unused(c)'
      BY <3>1, <3>2 DEF Unused
    <3>4. cell'[c] = cell[c]
      BY <1>c, <3>3, CollectStep
    <3>5. thread[s].pc = "write"
      BY <3>1, <2>2
    <3>6. thread[s].read <= cell[thread[s].ref].hits
      BY <3>5, <1>1
    <3> QED
      BY <3>1, <3>2, <3>4, <3>6
  <2> QED
    BY <2>1, <2>2, <1>q
<1>2. ASSUME NEW t \in Threads, Outside(t) PROVE Counted'
  <2>1. /\ \A c \in Cells : cell'[c] = cell[c]
        /\ thread'[t].pc # "write"
        /\ \A s \in Threads \ {t} : thread'[s] = thread[s]
    BY <1>2, <1>r, OutsideStep
  <2> QED
    BY <2>1, <1>1, <1>q
<1>3. ASSUME NEW t \in Threads, Leaves(t) PROVE Counted'
  BY <1>3, <1>c, LeavesStep
<1>4. ASSUME NEW t \in Threads, Resets(t) PROVE Counted'
  BY <1>4, <1>c, ResetStep
<1>5. ASSUME NEW t \in Threads, Record(t) PROVE Counted'
  <2>1. cell' = cell /\ thread'[t].pc # "write" /\ \A s \in Threads \ {t} : thread'[s] = thread[s]
    BY <1>5, RecordStep
  <2> QED
    BY <2>1, <1>1, <1>q
<1>6. ASSUME NEW t \in Threads,
             ReadCount(t) \/ WriteCount(t) \/ TestCount(t) \/ StampOpened(t)
      PROVE  Counted'
  <2> DEFINE c == thread[t].ref
  <2>1. c \in Cells
    BY <1>6, StatementStep, Holders
  <2>2. /\ \A s \in Threads \ {t} : thread'[s] = thread[s]
        /\ \A d \in Cells \ {c} : cell'[d] = cell[d]
        /\ thread'[t].ref = c
    BY <1>6, StatementStep
  <2>3. cell'[c].count <= cell'[c].hits /\ cell[c].hits <= cell'[c].hits
    <3>1. CASE thread[t].pc = "write" /\ cell'[c].count = Bump(thread[t].read)
               /\ cell'[c].hits = Bump(cell[c].hits)
      <4>1. thread[t].read <= cell[c].hits
        BY <3>1, <1>1
      <4> QED
        BY <3>1, <4>1, <2>1, <1>1, Numbers DEF Bump
    <3>2. CASE cell'[c].count = cell[c].count /\ cell'[c].hits = cell[c].hits
      BY <3>2, <2>1, <1>1
    <3> QED
      BY <3>1, <3>2, <1>6, StatementStep
  <2>4. thread'[t].pc = "write" => thread'[t].read <= cell'[c].hits
    BY <1>6, StatementStep, <2>1, <1>1
  <2>5. \A d \in Cells : cell[d].hits <= cell'[d].hits
    BY <2>2, <2>3, <1>1
  <2>6. ASSUME NEW s \in Threads \ {t}, thread'[s].pc = "write"
        PROVE  thread'[s].read <= cell'[thread'[s].ref].hits
    <3>1. /\ thread[s].read \in 0..Cap /\ thread[s].ref \in Cells
          /\ thread[s].read <= cell[thread[s].ref].hits
          /\ thread'[s] = thread[s]
      BY <2>2, <2>6, <1>1
    <3>2. cell'[thread[s].ref].hits \in 0..Cap
      BY <3>1, TypeStep DEF TypeOK
    <3> QED
      BY <3>1, <3>2, <2>5, <1>1
  <2> QED
    BY <2>1, <2>2, <2>3, <2>4, <2>6, <1>1, <1>q
<1>7. CASE Tick
  <2>1. /\ thread' = thread
        /\ \A c \in Cells : cell'[c].count = cell[c].count /\ cell'[c].hits = cell[c].hits
    BY <1>7 DEF Tick
  <2> QED
    BY <2>1, <1>1, <1>q
<1>8. CASE UNCHANGED vars
  BY <1>8, <1>1, <1>q DEF vars
<1> QED
  BY <1>2, <1>3, <1>4, <1>5, <1>6, <1>7, <1>8, Steps

LEMMA FreshStep == TypeOK /\ UnusedIsFresh /\ [Next]_vars => UnusedIsFresh'
<1> SUFFICES ASSUME TypeOK, UnusedIsFresh, [Next]_vars PROVE UnusedIsFresh'
  OBVIOUS
<1>q. ASSUME \A c \in Cells : Unused(c)' => Unused(c) /\ cell'[c] = cell[c]
      PROVE  UnusedIsFresh'
  BY <1>q DEF UnusedIsFresh
<1>c. Collect => UnusedIsFresh'
  BY CollectStep DEF UnusedIsFresh
<1>2. ASSUME NEW t \in Threads, Outside(t) PROVE UnusedIsFresh'
  BY <1>2, <1>q, OutsideStep
<1>3. ASSUME NEW t \in Threads, Leaves(t) PROVE UnusedIsFresh'
  BY <1>3, <1>c, LeavesStep
<1>4. ASSUME NEW t \in Threads, Resets(t) PROVE UnusedIsFresh'
  BY <1>4, <1>c, ResetStep
<1>5. ASSUME NEW t \in Threads, Record(t) PROVE UnusedIsFresh'
  <2>1. /\ thread[t].ref = NoCell
        /\ \A s \in Threads \ {t} : thread'[s] = thread[s]
        /\ cell' = cell
        /\ \A m \in Models : breaker[m] = NoCell \/ breaker'[m] = breaker[m]
    BY <1>5, RecordStep, Holders DEF TypeOK
  <2>2. ASSUME NEW c \in Cells, Unused(c)' PROVE Unused(c)
    BY <2>1, <2>2, Numbers DEF Unused
  <2> QED
    BY <2>1, <2>2, <1>q
<1>6. ASSUME NEW t \in Threads,
             ReadCount(t) \/ WriteCount(t) \/ TestCount(t) \/ StampOpened(t)
      PROVE  UnusedIsFresh'
  <2>1. /\ thread'[t].ref = thread[t].ref
        /\ \A s \in Threads \ {t} : thread'[s] = thread[s]
        /\ breaker' = breaker
        /\ \A c \in Cells \ {thread[t].ref} : cell'[c] = cell[c]
    BY <1>6, StatementStep
  <2>2. ASSUME NEW c \in Cells, Unused(c)' PROVE Unused(c) /\ c # thread[t].ref
    BY <2>1, <2>2 DEF Unused
  <2> QED
    BY <2>1, <2>2, <1>q
<1>7. CASE Tick
  <2>1. [count |-> Fresh.count, age |-> Aged(Fresh.age), hits |-> Fresh.hits] = Fresh
    BY NumberAssumption DEF Fresh, Aged
  <2>2. \A c \in Cells : cell'[c] =
          [count |-> cell[c].count, age |-> Aged(cell[c].age), hits |-> cell[c].hits]
    BY <1>7 DEF Tick
  <2>3. \A c \in Cells : Unused(c)' => Unused(c)
    BY <1>7 DEF Tick, Unused
  <2> QED
    BY <2>1, <2>2, <2>3 DEF UnusedIsFresh
<1>8. CASE UNCHANGED vars
  BY <1>8, <1>q DEF vars, Unused
<1> QED
  BY <1>2, <1>3, <1>4, <1>5, <1>6, <1>7, <1>8, Steps

LEMMA OwnedStep == TypeOK /\ Owned /\ UnusedIsFresh /\ [Next]_vars => Owned'
<1> SUFFICES ASSUME TypeOK, Owned, UnusedIsFresh, [Next]_vars PROVE Owned'
  OBVIOUS
<1> DEFINE R(t) == thread[t].pc \in Recording
<1>1. /\ \A m, n \in Models : breaker[m] = breaker[n] /\ breaker[m] # NoCell => m = n
      /\ \A t \in Threads, m \in Models : R(t) /\ breaker[m] = thread[t].ref => Model(t) = m
      /\ \A s, t \in Threads : R(s) /\ R(t) /\ thread[s].ref = thread[t].ref => Model(s) = Model(t)
      /\ \A t \in Threads : R(t) => thread[t].ref \in Cells
      /\ \A t \in Threads : Model(t) \in Models
      /\ NoCell \notin Cells
      /\ breaker \in [Models -> Cells \cup {NoCell}]
  BY Holders, Numbers DEF Owned, TypeOK
<1>q. ASSUME /\ \A m, n \in Models : breaker'[m] = breaker'[n] /\ breaker'[m] # NoCell => m = n
             /\ \A t \in Threads, m \in Models :
                  R(t)' /\ breaker'[m] = thread'[t].ref => Model(t)' = m
             /\ \A s, t \in Threads :
                  R(s)' /\ R(t)' /\ thread'[s].ref = thread'[t].ref => Model(s)' = Model(t)'
      PROVE  Owned'
  BY <1>q DEF Owned
\* Steps that let t's dictionary go, or keep it.
<1>k. ASSUME NEW t \in Threads,
             \A s \in Threads \ {t} : thread'[s] = thread[s],
             R(t)' => R(t) /\ thread'[t].ref = thread[t].ref /\ thread'[t].role = thread[t].role
      PROVE  \A s \in Threads :
               R(s)' => R(s) /\ thread'[s].ref = thread[s].ref /\ Model(s)' = Model(s)
  <2>1. \A s \in Threads : R(s)' => R(s) /\ thread'[s].ref = thread[s].ref
    BY <1>k
  <2>2. ASSUME NEW s \in Threads, R(s)' PROVE Model(s)' = Model(s)
    BY <1>k, <2>2 DEF Model
  <2> QED
    BY <2>1, <2>2
<1>p. ASSUME \A s \in Threads :
               R(s)' => R(s) /\ thread'[s].ref = thread[s].ref /\ Model(s)' = Model(s),
             \A m \in Models :
               \/ breaker'[m] = breaker[m]
               \/ breaker'[m] = NoCell
               \/ \E t \in Threads : R(t) /\ Model(t) = m /\ breaker'[m] = thread[t].ref
      PROVE  Owned'
  <2>1. \A s, u \in Threads :
          R(s)' /\ R(u)' /\ thread'[s].ref = thread'[u].ref => Model(s)' = Model(u)'
    BY <1>p, <1>1
  <2>2. ASSUME NEW s \in Threads, NEW m \in Models, R(s)', breaker'[m] = thread'[s].ref
        PROVE  Model(s)' = m
    BY <1>p, <1>1, <2>2
  <2>3. ASSUME NEW m \in Models, NEW n \in Models, breaker'[m] = breaker'[n], breaker'[m] # NoCell
        PROVE  m = n
    <3>1. breaker'[m] = breaker[m] \/
            \E t \in Threads : R(t) /\ Model(t) = m /\ breaker'[m] = thread[t].ref
      BY <1>p, <2>3
    <3>2. breaker'[n] = breaker[n] \/
            \E t \in Threads : R(t) /\ Model(t) = n /\ breaker'[n] = thread[t].ref
      BY <1>p, <2>3
    <3> HIDE DEF R
    <3> QED
      BY <3>1, <3>2, <1>1, <2>3
  <2> HIDE DEF R
  <2> QED
    BY <2>1, <2>2, <2>3, <1>q
<1>2. ASSUME NEW t \in Threads, Outside(t) PROVE Owned'
  <2>1. /\ ~R(t)' /\ breaker' = breaker
        /\ \A s \in Threads \ {t} : thread'[s] = thread[s]
    BY <1>2, OutsideStep
  <2> HIDE DEF R
  <2> QED
    BY <2>1, <1>k, <1>p
<1>3. ASSUME NEW t \in Threads, Leaves(t) PROVE Owned'
  <2>1. /\ R(t) /\ ~R(t)'
        /\ \A s \in Threads \ {t} : thread'[s] = thread[s]
        /\ breaker' = breaker \/ breaker' = [breaker EXCEPT ![Model(t)] = thread[t].ref]
    BY <1>3, LeavesStep
  <2>2. \A m \in Models :
          breaker'[m] = breaker[m] \/ (Model(t) = m /\ breaker'[m] = thread[t].ref)
    BY <2>1, <1>1
  <2> HIDE DEF R
  <2> QED
    BY <2>1, <2>2, <1>k, <1>p
<1>4. ASSUME NEW t \in Threads, Resets(t) PROVE Owned'
  <2>1. /\ ~R(t)'
        /\ \A s \in Threads \ {t} : thread'[s] = thread[s]
        /\ breaker' = [breaker EXCEPT ![Model(t)] = NoCell]
    BY <1>4, ResetStep
  <2>2. \A m \in Models : breaker'[m] = breaker[m] \/ breaker'[m] = NoCell
    BY <2>1, <1>1
  <2> HIDE DEF R
  <2> QED
    BY <2>1, <2>2, <1>k, <1>p
<1>5. ASSUME NEW t \in Threads, Record(t) PROVE Owned'
  <2> DEFINE c == thread'[t].ref
  <2>1. /\ ~R(t)
        /\ c \in Cells
        /\ Model(t)' = Model(t)
        /\ \A s \in Threads \ {t} : thread'[s] = thread[s] /\ Model(s)' = Model(s)
        /\ \/ breaker[Model(t)] = c /\ breaker' = breaker
           \/ /\ breaker[Model(t)] = NoCell
              /\ Unused(c)
              /\ breaker' = [breaker EXCEPT ![Model(t)] = c]
    BY <1>5, RecordStep DEF Model
  <2>2. Unused(c) => /\ \A m \in Models : breaker[m] # c
                     /\ \A s \in Threads : thread[s].ref # c
    BY DEF Unused
  <2>3. breaker'[Model(t)] = c
        /\ \A m \in Models : m # Model(t) => breaker'[m] = breaker[m] /\ breaker[m] # c
    BY <2>1, <2>2, <1>1
  <2>4. \A s \in Threads : R(s) /\ thread[s].ref = c => Model(s) = Model(t)
    BY <2>1, <2>2, <1>1
  <2>5. ASSUME NEW s \in Threads \ {t}, R(s)', NEW m \in Models, breaker'[m] = thread'[s].ref
        PROVE  Model(s)' = m
    BY <2>1, <2>3, <2>4, <2>5, <1>1
  <2>6. ASSUME NEW m \in Models, breaker'[m] = c PROVE Model(t)' = m
    BY <2>1, <2>3, <2>6
  <2>7. \A m, n \in Models : breaker'[m] = breaker'[n] /\ breaker'[m] # NoCell => m = n
    BY <2>3, <1>1
  <2>8. \A s, u \in Threads \ {t} :
          R(s)' /\ R(u)' /\ thread'[s].ref = thread'[u].ref => Model(s)' = Model(u)'
    BY <2>1, <1>1
  <2>9. \A s \in Threads \ {t} : R(s)' /\ thread'[s].ref = c => Model(s)' = Model(t)'
    BY <2>1, <2>4
  <2> HIDE DEF R
  <2> QED
    BY <2>5, <2>6, <2>7, <2>8, <2>9, <1>q
<1>6. ASSUME NEW t \in Threads,
             ReadCount(t) \/ WriteCount(t) \/ TestCount(t) \/ StampOpened(t)
      PROVE  Owned'
  <2>1. /\ R(t) /\ thread'[t].ref = thread[t].ref /\ thread'[t].role = thread[t].role
        /\ \A s \in Threads \ {t} : thread'[s] = thread[s]
        /\ breaker' = breaker
    BY <1>6, StatementStep
  <2> HIDE DEF R
  <2> QED
    BY <2>1, <1>k, <1>p
<1>7. CASE Tick \/ UNCHANGED vars
  BY <1>7, <1>p DEF Tick, vars, Model
<1> QED
  BY <1>2, <1>3, <1>4, <1>5, <1>6, <1>7, Steps

-----------------------------------------------------------------------------
\* A step that touches neither m's breaker nor a thread that records for m.
LEMMA Frame ==
  ASSUME TypeOK, NEW m \in Models, TrackedFor(m),
         breaker'[m] = breaker[m], streak'[m] = streak[m],
         disturbed'[m] = disturbed[m],
         \A s \in Threads : RecordsFor(s, m)' <=> RecordsFor(s, m),
         \A s \in Threads : RecordsFor(s, m) => thread'[s] = thread[s],
         breaker[m] # NoCell => cell'[breaker[m]] = cell[breaker[m]]
  PROVE  TrackedFor(m)'
<1>1. SUFFICES ASSUME ~disturbed'[m]
               PROVE  /\ \A s, t \in Threads : RecordsFor(s, m)' /\ RecordsFor(t, m)' => s = t
                      /\ (\A t \in Threads : ~RecordsFor(t, m)') => Settled(m)'
                      /\ \A t \in Threads : RecordsFor(t, m)' => Underway(t, m)'
  BY DEF TrackedFor
<1>2. /\ \A s, t \in Threads : RecordsFor(s, m) /\ RecordsFor(t, m) => s = t
      /\ (\A t \in Threads : ~RecordsFor(t, m)) => Settled(m)
      /\ \A t \in Threads : RecordsFor(t, m) => Underway(t, m)
  BY <1>1 DEF TrackedFor
<1>3. Settled(m) => Settled(m)'
  BY DEF Settled
<1>4. ASSUME NEW t \in Threads, RecordsFor(t, m), Underway(t, m) PROVE Underway(t, m)'
  <2>1. breaker[m] # NoCell /\ thread'[t] = thread[t]
    BY <1>4, Holders, Numbers DEF Underway, RecordsFor
  <2> QED
    BY <1>4, <2>1 DEF Underway
<1> QED
  BY <1>2, <1>3, <1>4

\* The steps of a thread leave the breakers of other models alone.
LEMMA OtherModels ==
  ASSUME IInv, NEW t \in Threads,
         Leaves(t) \/ Resets(t) \/ Record(t) \/ ReadCount(t) \/ WriteCount(t)
           \/ TestCount(t) \/ StampOpened(t),
         NEW m \in Models, m # Model(t)
  PROVE  TrackedFor(m)'
<1>1. TypeOK /\ UnusedIsFresh /\ Owned /\ TrackedFor(m) /\ Model(t) \in Models
  BY Holders DEF IInv, Tracked
<1>2. \A s \in Threads \ {t} : thread'[s] = thread[s]
  BY <1>1, LeavesStep, ResetStep, RecordStep, StatementStep
<1>3. /\ thread'[t].pc \in Recording => thread'[t].role = thread[t].role
  BY <1>1, LeavesStep, ResetStep, RecordStep, StatementStep
<1>4. ~RecordsFor(t, m) /\ ~RecordsFor(t, m)'
  BY <1>3 DEF RecordsFor, Model
<1>5. \A s \in Threads : RecordsFor(s, m)' <=> RecordsFor(s, m)
  <2>1. ASSUME NEW s \in Threads \ {t} PROVE RecordsFor(s, m)' <=> RecordsFor(s, m)
    BY <1>2 DEF RecordsFor, Model
  <2> QED
    BY <2>1, <1>4
<1>6. \A s \in Threads : RecordsFor(s, m) => thread'[s] = thread[s]
  BY <1>2, <1>4
<1>7. breaker'[m] = breaker[m]
  BY <1>1, LeavesStep, ResetStep, RecordStep, StatementStep DEF TypeOK
<1>8. streak'[m] = streak[m]
  BY <1>1, LeavesStep, ResetStep, RecordStep, StatementStep DEF TypeOK
<1>9. disturbed'[m] = disturbed[m]
  BY <1>1, LeavesStep, ResetStep, RecordStep, StatementStep DEF TypeOK
<1>10. ASSUME breaker[m] # NoCell PROVE cell'[breaker[m]] = cell[breaker[m]]
  <2>1. PICK c \in Cells : c = breaker[m]
    BY <1>10, <1>1, Holders
  <2>2. ~Unused(c)'
    BY <2>1, <1>7 DEF Unused
  <2>3. CASE Collect
    BY <2>1, <2>2, <2>3, <1>1, CollectStep
  <2>4. CASE Record(t)
    BY <2>1, <2>4, <1>1, RecordStep
  <2>5. CASE ReadCount(t) \/ WriteCount(t) \/ TestCount(t) \/ StampOpened(t)
    <3>1. thread[t].pc \in Recording
      BY <2>5, <1>1, StatementStep
    <3>2. breaker[m] # thread[t].ref
      BY <3>1, <1>1 DEF Owned
    <3> QED
      BY <3>2, <2>1, <2>5, <1>1, StatementStep
  <2> QED
    BY <2>3, <2>4, <2>5, <1>1, LeavesStep, ResetStep
<1> QED
  BY <1>1, <1>5, <1>6, <1>7, <1>8, <1>9, <1>10, Frame

\* While one thread records for m undisturbed, every statement does what
\* Underway says of it.
LEMMA OwnModel ==
  ASSUME IInv, NEW t \in Threads,
         ReadCount(t) \/ WriteCount(t) \/ TestCount(t) \/ StampOpened(t),
         NEW m \in Models, m = Model(t)
  PROVE  TrackedFor(m)'
<1>0. TypeOK /\ TrackedFor(m)
  BY DEF IInv, Tracked
<1>1. /\ thread[t].pc \in Recording /\ thread'[t].pc \in Recording
      /\ thread'[t].role = thread[t].role /\ thread'[t].ref = thread[t].ref
      /\ \A s \in Threads \ {t} : thread'[s] = thread[s]
      /\ breaker' = breaker /\ streak' = streak /\ disturbed' = disturbed
  BY <1>0, StatementStep
<1>2. RecordsFor(t, m) /\ RecordsFor(t, m)'
  BY <1>1 DEF RecordsFor, Model
<1>3. \A s \in Threads \ {t} : RecordsFor(s, m)' <=> RecordsFor(s, m)
  <2>1. ASSUME NEW s \in Threads \ {t} PROVE RecordsFor(s, m)' <=> RecordsFor(s, m)
    BY <1>1 DEF RecordsFor, Model
  <2> QED
    BY <2>1
<1>4. SUFFICES ASSUME ~disturbed'[m]
               PROVE  /\ \A s \in Threads \ {t} : ~RecordsFor(s, m)'
                      /\ Underway(t, m)'
  BY <1>2 DEF TrackedFor
<1>5. /\ \A s \in Threads \ {t} : ~RecordsFor(s, m)
      /\ Underway(t, m)
  BY <1>0, <1>1, <1>2, <1>4 DEF TrackedFor
<1> DEFINE c == thread[t].ref
<1>6. /\ c \in Cells /\ breaker[m] = c
      /\ cell[c].count \in 0..Cap /\ cell[c].age \in 0..Cooldown
      /\ streak[m].n \in 0..Cap /\ streak[m].age \in 0..Cooldown
  BY <1>0, <1>1, <1>5, Holders DEF TypeOK, Underway
<1>7. ASSUME thread[t].pc = "read" /\ thread'[t].pc = "write",
             thread'[t].read = cell[c].count, cell' = cell
      PROVE  Underway(t, m)'
  BY <1>1, <1>5, <1>7 DEF Underway
<1>8. ASSUME thread[t].pc = "write" /\ thread'[t].pc = "test",
             cell'[c].count = Bump(thread[t].read), cell'[c].age = cell[c].age
      PROVE  Underway(t, m)'
  <2>1. /\ streak[m].n = Bump(cell[c].count) /\ thread[t].read = cell[c].count
        /\ cell[c].count = 0 \/ cell[c].age <= streak[m].age
    BY <1>5, <1>6, <1>8 DEF Underway
  <2>2. cell[c].count = 0 => Bump(cell[c].count) = 1
    BY Numbers DEF Bump
  <2>3. cell'[c].count = streak[m].n /\ (cell'[c].count = 1 \/ cell'[c].age <= streak[m].age)
    BY <2>1, <2>2, <1>8
  <2> QED
    BY <1>1, <1>5, <1>6, <1>8, <2>3 DEF Underway
<1>9. ASSUME thread[t].pc = "test" /\ cell' = cell,
             thread'[t].pc = IF cell[c].count = 1 THEN "stamp" ELSE "store"
      PROVE  Underway(t, m)'
  BY <1>1, <1>5, <1>6, <1>9 DEF Underway
<1>10. ASSUME thread[t].pc = "stamp" /\ thread'[t].pc = "store",
              cell'[c].count = cell[c].count, cell'[c].age = 0
       PROVE  Underway(t, m)'
  BY <1>1, <1>5, <1>6, <1>10 DEF Underway
<1>11. Underway(t, m)'
  BY <1>7, <1>8, <1>9, <1>10, <1>0, StatementStep
<1> QED
  BY <1>3, <1>5, <1>11

LEMMA RecordTracked ==
  ASSUME IInv, NEW t \in Threads, Record(t), NEW m \in Models, m = Model(t)
  PROVE  TrackedFor(m)'
<1>0. TypeOK /\ TrackedFor(m) /\ UnusedIsFresh
  BY DEF IInv, Tracked
<1>1. /\ thread[t].pc \notin Recording
      /\ thread'[t].pc = "read"
      /\ thread'[t].role = thread[t].role
      /\ thread'[t].ref \in Cells
      /\ \A s \in Threads \ {t} : thread'[s] = thread[s]
      /\ cell' = cell
      /\ \/ breaker[m] = thread'[t].ref /\ breaker' = breaker
         \/ /\ breaker[m] = NoCell
            /\ Unused(thread'[t].ref)
            /\ breaker' = [breaker EXCEPT ![m] = thread'[t].ref]
      /\ streak' = [streak EXCEPT ![m] =
              [n |-> Bump(streak[m].n),
               age |-> IF streak[m].n = 0 THEN 0 ELSE streak[m].age]]
      /\ disturbed' = [disturbed EXCEPT ![m] = @ \/ Overlapped(t, m)]
  BY <1>0, RecordStep
<1>2. RecordsFor(t, m)' /\ ~RecordsFor(t, m)
  BY <1>1 DEF RecordsFor, Model, Recording
<1>3. ASSUME NEW s \in Threads \ {t} PROVE RecordsFor(s, m)' <=> RecordsFor(s, m)
  BY <1>1 DEF RecordsFor, Model
<1>4. SUFFICES ASSUME ~disturbed'[m]
               PROVE  /\ \A s \in Threads \ {t} : ~RecordsFor(s, m)'
                      /\ Underway(t, m)'
  BY <1>2 DEF TrackedFor
<1>5. ~disturbed[m] /\ ~Overlapped(t, m)
  BY <1>0, <1>1, <1>4 DEF TypeOK
<1>6. \A s \in Threads : ~RecordsFor(s, m)
  BY <1>2, <1>5 DEF Overlapped
<1>7. Settled(m)
  BY <1>0, <1>5, <1>6 DEF TrackedFor
<1> DEFINE c == thread'[t].ref
<1>8. /\ cell[c].count \in 0..Cap /\ cell[c].age \in 0..Cooldown
      /\ streak[m].n \in 0..Cap /\ streak[m].age \in 0..Cooldown
  BY <1>0, <1>1 DEF TypeOK
<1>9. breaker'[m] = c /\ streak'[m].n = Bump(streak[m].n)
      /\ streak'[m].age = IF streak[m].n = 0 THEN 0 ELSE streak[m].age
  BY <1>0, <1>1 DEF TypeOK
<1>10. /\ cell[c].count = streak[m].n
       /\ streak[m].n = 0 \/ cell[c].age <= streak[m].age
  <2>1. CASE breaker[m] = c
    BY <2>1, <1>1, <1>7, Numbers DEF Settled
  <2>2. CASE breaker[m] = NoCell /\ Unused(c)
    <3>1. cell[c] = Fresh
      BY <2>2, <1>0, <1>1 DEF UnusedIsFresh
    <3> QED
      BY <3>1, <2>2, <1>7 DEF Settled, Fresh
  <2> QED
    BY <2>1, <2>2, <1>1
<1>11. Bump(streak[m].n) >= 1
  BY <1>8, Numbers
<1>12. Underway(t, m)'
  BY <1>1, <1>8, <1>9, <1>10, <1>11 DEF Underway
<1> QED
  BY <1>3, <1>6, <1>12

LEMMA ResetTracked ==
  ASSUME IInv, NEW t \in Threads, Resets(t), NEW m \in Models, m = Model(t)
  PROVE  TrackedFor(m)'
<1>0. TypeOK
  BY DEF IInv
<1>1. /\ thread'[t].pc \notin Recording
      /\ \A s \in Threads \ {t} : thread'[s] = thread[s]
      /\ breaker'[m] = NoCell /\ streak'[m].n = 0
      /\ disturbed'[m] = Overlapped(t, m)
  BY <1>0, ResetStep DEF TypeOK
<1>2. ASSUME NEW s \in Threads \ {t} PROVE RecordsFor(s, m)' <=> RecordsFor(s, m)
  BY <1>1 DEF RecordsFor, Model
<1>3. ~RecordsFor(t, m)'
  BY <1>1 DEF RecordsFor
<1>4. ~disturbed'[m] => \A s \in Threads : ~RecordsFor(s, m)'
  BY <1>1, <1>2, <1>3 DEF Overlapped
<1>5. Settled(m)'
  BY <1>1 DEF Settled
<1> QED
  BY <1>4, <1>5 DEF TrackedFor

LEMMA LeavesTracked ==
  ASSUME IInv, NEW t \in Threads, Leaves(t), NEW m \in Models, m = Model(t)
  PROVE  TrackedFor(m)'
<1>0. TypeOK /\ TrackedFor(m)
  BY DEF IInv, Tracked
<1>1. /\ thread[t].pc \in Recording
      /\ thread'[t].pc \notin Recording
      /\ \A s \in Threads \ {t} : thread'[s] = thread[s]
      /\ streak' = streak
      /\ Collect
      /\ \/ disturbed'[m]
         \/ /\ thread[t].pc = "store" /\ disturbed' = disturbed
            /\ breaker' = [breaker EXCEPT ![m] = thread[t].ref]
  BY <1>0, LeavesStep
<1>2. SUFFICES ASSUME ~disturbed'[m]
               PROVE  /\ \A s \in Threads : ~RecordsFor(s, m)'
                      /\ Settled(m)'
  BY DEF TrackedFor
<1>3. RecordsFor(t, m) /\ ~RecordsFor(t, m)'
  BY <1>1 DEF RecordsFor
<1>4. ASSUME NEW s \in Threads \ {t} PROVE RecordsFor(s, m)' <=> RecordsFor(s, m)
  BY <1>1 DEF RecordsFor, Model
<1>5. /\ \A s \in Threads \ {t} : ~RecordsFor(s, m)
      /\ Underway(t, m)
      /\ thread[t].pc = "store"
  BY <1>0, <1>1, <1>2, <1>3 DEF TrackedFor
<1>6. PICK c \in Cells : c = thread[t].ref
  BY <1>0, <1>1, Holders
<1>7. breaker'[m] = c
  BY <1>0, <1>1, <1>2, <1>6 DEF TypeOK
<1>8. cell'[c] = cell[c]
  <2>1. ~Unused(c)'
    BY <1>7 DEF Unused
  <2> QED
    BY <2>1, <1>0, <1>1, CollectStep
<1>9. /\ breaker[m] = c /\ streak[m].n >= 1
      /\ cell[c].count = streak[m].n /\ cell[c].age <= streak[m].age
  BY <1>5, <1>6 DEF Underway
<1>10. Settled(m)'
  BY <1>1, <1>6, <1>7, <1>8, <1>9, Numbers DEF Settled
<1> QED
  BY <1>3, <1>4, <1>5, <1>10

\* A tick ages opened_at and the streak alike.
LEMMA TickTracked ==
  ASSUME IInv, Tick, NEW m \in Models
  PROVE  TrackedFor(m)'
<1>0. TypeOK /\ TrackedFor(m)
  BY DEF IInv, Tracked
<1>1. /\ breaker' = breaker /\ thread' = thread /\ disturbed' = disturbed
      /\ \A c \in Cells : /\ cell'[c].count = cell[c].count
                           /\ cell'[c].age = Aged(cell[c].age)
      /\ streak'[m].n = streak[m].n /\ streak'[m].age = Aged(streak[m].age)
  BY DEF Tick
<1>2. \A c \in Cells : cell[c].age <= streak[m].age => cell'[c].age <= streak'[m].age
  <2>1. \A c \in Cells : cell[c].age \in 0..Cooldown
    BY <1>0 DEF TypeOK
  <2>2. streak[m].age \in 0..Cooldown
    BY <1>0 DEF TypeOK
  <2> QED
    BY <2>1, <2>2, <1>1, Numbers
<1>3. \A s \in Threads : RecordsFor(s, m)' <=> RecordsFor(s, m)
  BY <1>1 DEF RecordsFor, Model
<1>4. Settled(m) => Settled(m)'
  BY <1>0, <1>1, <1>2, Holders DEF Settled
<1>5. ASSUME NEW t \in Threads, RecordsFor(t, m), Underway(t, m) PROVE Underway(t, m)'
  <2>1. breaker[m] \in Cells
    BY <1>0, <1>5, Holders DEF Underway, RecordsFor
  <2> QED
    BY <2>1, <1>1, <1>2, <1>5 DEF Underway
<1> QED
  BY <1>0, <1>1, <1>3, <1>4, <1>5 DEF TrackedFor

LEMMA TrackedStep == IInv /\ [Next]_vars => Tracked'
<1> SUFFICES ASSUME IInv, [Next]_vars, NEW m \in Models PROVE TrackedFor(m)'
  BY DEF Tracked
<1>0. TypeOK /\ UnusedIsFresh /\ TrackedFor(m)
  BY DEF IInv, Tracked
<1>1. ASSUME NEW t \in Threads, Outside(t) PROVE TrackedFor(m)'
  <2>1. /\ breaker' = breaker /\ streak' = streak /\ disturbed'[m] = disturbed[m]
        /\ \A c \in Cells : cell'[c] = cell[c]
        /\ thread[t].pc \notin Recording /\ thread'[t].pc \notin Recording
        /\ \A s \in Threads \ {t} : thread'[s] = thread[s]
    BY <1>0, <1>1, OutsideStep DEF Outside
  <2>2. ~RecordsFor(t, m) /\ ~RecordsFor(t, m)'
    BY <2>1 DEF RecordsFor
  <2>3. ASSUME NEW s \in Threads \ {t} PROVE RecordsFor(s, m)' <=> RecordsFor(s, m)
    BY <2>1 DEF RecordsFor, Model
  <2>4. breaker[m] # NoCell => cell'[breaker[m]] = cell[breaker[m]]
    BY <2>1, <1>0, Holders
  <2> QED
    BY <2>1, <2>2, <2>3, <2>4, <1>0, Frame
<1>2. ASSUME NEW t \in Threads,
             Leaves(t) \/ Resets(t) \/ Record(t) \/ ReadCount(t) \/ WriteCount(t)
               \/ TestCount(t) \/ StampOpened(t)
      PROVE  TrackedFor(m)'
  <2>1. CASE m # Model(t)
    BY <1>2, <2>1, OtherModels
  <2>2. CASE m = Model(t)
    BY <1>2, <2>2, OwnModel, RecordTracked, ResetTracked, LeavesTracked
  <2> QED
    BY <2>1, <2>2
<1>3. CASE Tick
  BY <1>3, TickTracked
<1>4. CASE UNCHANGED vars
  <2>1. /\ breaker' = breaker /\ streak' = streak /\ disturbed' = disturbed
        /\ cell' = cell /\ thread' = thread
    BY <1>4 DEF vars
  <2>2. \A s \in Threads : RecordsFor(s, m)' <=> RecordsFor(s, m)
    BY <2>1 DEF RecordsFor, Model
  <2> QED
    BY <2>1, <2>2, <1>0, Frame
<1> QED
  BY <1>0, <1>1, <1>2, <1>3, <1>4, Steps

LEMMA Invariance == Spec => []IInv
<1>1. Init => IInv
  BY InitInvariant
<1>2. IInv /\ [Next]_vars => IInv'
  BY TypeStep, CountedStep, FreshStep, OwnedStep, TrackedStep DEF IInv
<1> QED
  BY <1>1, <1>2, PTL DEF Spec

-----------------------------------------------------------------------------
\* Whatever the threads overwrite in each other's dictionaries, the breaker
\* refuses no model before Threshold failures were recorded.
THEOREM BreakerIsEarned == Spec => []OpenIsEarned
<1>1. IInv => OpenIsEarned
  <2> SUFFICES ASSUME IInv, NEW m \in Models, Open(m)
               PROVE  cell[breaker[m]].hits >= Threshold
    BY DEF OpenIsEarned
  <2>1. PICK c \in Cells : c = breaker[m]
    BY Holders DEF IInv, Open
  <2>2. cell[c].count >= Threshold /\ cell[c].count <= cell[c].hits
    BY <2>1 DEF Open, IInv, Counted
  <2>3. cell[c].count \in Nat /\ cell[c].hits \in Nat
    BY Numbers DEF IInv, TypeOK
  <2> QED
    BY <2>1, <2>2, <2>3, NumberAssumption
<1> QED
  BY <1>1, Invariance, PTL

\* While updates do not overlap the breaker is exact: it has counted the
\* failures since the last success, and Threshold of them open it.
THEOREM BreakerCounts == Spec => []StreakIsCounted
<1>1. IInv => StreakIsCounted
  <2> SUFFICES ASSUME IInv, NEW m \in Models, ~disturbed[m],
                      \A t \in Threads : ~RecordsFor(t, m)
               PROVE  /\ (breaker[m] = NoCell) <=> (streak[m].n = 0)
                      /\ breaker[m] # NoCell => cell[breaker[m]].count = streak[m].n
                      /\ streak[m].n >= Threshold /\ streak[m].age < Cooldown => Open(m)
    BY DEF StreakIsCounted
  <2>1. Settled(m)
    BY DEF IInv, Tracked, TrackedFor
  <2>2. ASSUME streak[m].n >= Threshold, streak[m].age < Cooldown PROVE Open(m)
    <3>1. breaker[m] # NoCell
      BY <2>1, <2>2, NumberAssumption DEF Settled
    <3>2. PICK c \in Cells : c = breaker[m]
      BY <3>1, Holders DEF IInv
    <3>3. cell[c].age \in 0..Cooldown /\ streak[m].age \in 0..Cooldown
      BY DEF IInv, TypeOK
    <3>4. cell[c].count = streak[m].n /\ cell[c].age <= streak[m].age
      BY <2>1, <3>1, <3>2 DEF Settled
    <3> QED
      BY <2>2, <3>1, <3>2, <3>3, <3>4, NumberAssumption DEF Open
  <2> QED
    BY <2>1, <2>2 DEF Settled
<1> QED
  BY <1>1, Invariance, PTL
=============================================================================
