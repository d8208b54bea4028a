\* A short of two scenes, in consistency mode or not, with a cancel call and a restart of the agent.
CONSTANTS
  keyed = keyed
  plain = plain
  retry = retry
  NoJob = NoJob
  Jobs <- TwoModes
  Fresh <- TwoModes
  Consistent <- JustKeyed
  NumScenes = 2
  MaxFresh = 1
  MaxChildren = 6
  MaxRestarts = 1
  MaxCalls = 1
SPECIFICATION Spec
INVARIANTS
  TypeOK
  RepeatedOnlyAfterRestart
PROPERTIES
  NothingConsumedAfterEnd
  EndsUnlessCutShort
CHECK_DEADLOCK FALSE
