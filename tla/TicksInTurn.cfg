\* One tick at a time, every fault.
SPECIFICATION Spec
CONSTANTS
  j1 = j1  j2 = j2  w1 = w1  w2 = w2
  Jobs = {j1, j2}
  NoJob = NoJob
  BadCron = {}
  Ticks = {w1}
  MaxTime = 4
  MaxBacklog = 1
  Cron <- EvenSeconds
  Faults <- SchedulerFaults
INVARIANTS TypeOK RunsAreSpaced
CHECK_DEADLOCK FALSE
