\* A task and a refused one, every fault, duplicated messages.
SPECIFICATION Spec
CONSTANTS
  t1 = t1  t2 = t2  t3 = t3  u1 = u1  u2 = u2  a1 = a1  a2 = a2  f1 = f1  f2 = f2
  Tasks = {t1, t2}
  Users = {u1}
  NoOwner = NoOwner
  NoTask = NoTask
  AIWorkers = {a1, a2}
  FetchWorkers = {f1}
  Unsafe = {t2}
  Faults <- FaultKinds
  MaxRedeliveries = 2
SYMMETRY WorkerSymmetry
INVARIANTS TypeOK AccountedFor OwnerlessOnlyIfUnrecorded WorkFollowsSubmission UnsafeIsBlocked SuccessHasData
PROPERTY ResultIsKept
CHECK_DEADLOCK FALSE
