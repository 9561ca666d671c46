SPECIFICATION Spec
CONSTANTS
  Users = {u1}
  PipelineSize = 3
  MaxWrites = 3
  MaxFaults = 0
INVARIANTS
  FailedWasRefused
CHECK_DEADLOCK FALSE
