SPECIFICATION Spec
CONSTANTS
  Queries = {q1}
  Listeners = {l1}
  Refusable = {}
  FirstChanges = 1
  MaxChanges = 2
  MaxListens = 2
  MaxFaults = 0
  MaxWatchStreamFailures = 1
  FailureBound = 2
INVARIANT SyncedHasSeen
CHECK_DEADLOCK FALSE
