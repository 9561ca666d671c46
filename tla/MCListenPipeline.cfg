SPECIFICATION FairSpec
CONSTANTS
  Queries = {q1}
  Listeners = {l1, l2}
  Refusable = {}
  FirstChanges = 0
  MaxChanges = 1
  MaxListens = 2
  MaxFaults = 2
  MaxWatchStreamFailures = 1
  FailureBound = 2
INVARIANT
  CurrentIsEarned
PROPERTIES
  EveryListenerHears
  CatchesUp
CHECK_DEADLOCK FALSE
