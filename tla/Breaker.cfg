\* The handler and a caching thread, one model in every role.
SPECIFICATION FairSpec
CONSTANTS
  t1 = t1  t2 = t2  m1 = m1
  Threads = {t1, t2}
  Limited = {t1}
  Primary = m1
  Fallback = m1
  Large = m1
  NoModel = NoModel
  Threshold = 2
  Cooldown = 1
  Retries = 1
  Cells <- EnoughCells
INVARIANTS TypeOK OpenIsEarned StreakIsCounted
PROPERTIES ChatEnds OpenIsLeft
