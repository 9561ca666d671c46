SPECIFICATION Spec
CONSTANTS
  Queries = {q1, q2}
  Listeners = {l1, l2}
  Refusable = {q2}
  FirstChanges = 1
  MaxChanges = 1
  MaxListens = 2
  MaxFaults = 1
  MaxWatchStreamFailures = 1
  FailureBound = 2
INVARIANTS
  ClientIsSound
  AllAgreeOnQueries
  OfflineIsShown
  DueIsOnTheWay
  NoHoles
CHECK_DEADLOCK FALSE
