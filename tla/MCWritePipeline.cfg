SPECIFICATION FairSpec
CONSTANTS
  Users = {u1, u2}
  PipelineSize = 2
  MaxWrites = 4
  MaxFaults = 2
INVARIANTS
  PipelineIsOldest
  AnswersMeetTheirBatch
  EndsAreDecided
  ToldWhenSettled
  StreamServesPipeline
PROPERTIES
  KeepsPromise
  EveryWriteEnds
CHECK_DEADLOCK FALSE
