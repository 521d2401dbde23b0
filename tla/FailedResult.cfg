\* The result of a failed task.
SPECIFICATION Spec
CONSTANTS
  t1 = t1  t2 = t2  t3 = t3  u1 = u1  u2 = u2  a1 = a1  a2 = a2  f1 = f1  f2 = f2
  Tasks = {t1}
  Users = {u1}
  NoOwner = NoOwner
  NoTask = NoTask
  AIWorkers = {a1}
  FetchWorkers = {f1}
  Unsafe = {}
  Faults <- OutsideFaults
  MaxRedeliveries = 0
INVARIANT FailedResultIs400
CHECK_DEADLOCK FALSE
