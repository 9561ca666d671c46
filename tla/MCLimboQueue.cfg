SPECIFICATION FairSpec
CONSTANTS
  Keys = {k1, k2, k3}
  Queries = {q1, q2}
  MaxConcurrent = 1
  MaxArrivals = 2
INVARIANTS
  OnlyReferenced
  LimboIsTracked
PROPERTY
  EveryoneIsAsked
CHECK_DEADLOCK FALSE
