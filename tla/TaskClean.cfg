\* Three tasks, every fault that leaves one carrier to each task.
SPECIFICATION FairSpec
CONSTANTS
  t1 = t1  t2 = t2  t3 = t3  u1 = u1  u2 = u2  a1 = a1  a2 = a2  f1 = f1  f2 = f2
  Tasks = {t1, t2, t3}
  Users = {u1}
  NoOwner = NoOwner
  NoTask = NoTask
  AIWorkers = {a1}
  FetchWorkers = {f1}
  Unsafe = {t3}
  Faults <- CleanFaults
  MaxRedeliveries = 0
INVARIANTS OneCarrier SuccessIsClean
PROPERTIES ProgressNeverDrops ImplementsLifecycle SubmitterIsAnswered ImplementsFairLifecycle
CHECK_DEADLOCK FALSE
