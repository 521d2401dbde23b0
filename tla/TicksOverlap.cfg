\* Two ticks at once, an invalid job, nothing fails.
SPECIFICATION FairSpec
CONSTANTS
  j1 = j1  j2 = j2  w1 = w1  w2 = w2
  Jobs = {j1, j2}
  NoJob = NoJob
  BadCron = {j2}
  Ticks = {w1, w2}
  MaxTime = 2
  MaxBacklog = 2
  Cron <- EvenSeconds
  Faults = {}
INVARIANTS SentOnce TriggeredIsSent
PROPERTY DueJobsRun
CHECK_DEADLOCK FALSE
