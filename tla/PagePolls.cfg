\* A page, two tasks, two polls under way, every fault.
SPECIFICATION FairSpec
CONSTANTS
  t1 = t1  t2 = t2
  Tasks = {t1, t2}
  NoTask = NoTask
  MaxPolls = 2
  Faults <- FaultKinds
INVARIANTS TypeOK OneTimer ShownIsTrue
PROPERTIES PollingEnds ResultIsShown
