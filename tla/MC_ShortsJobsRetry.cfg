\* A short of one scene and its retry, with a cancel call and a restart of the agent.
CONSTANTS
  keyed = keyed
  plain = plain
  retry = retry
  NoJob = NoJob
  Jobs <- ShortAndRetry
  Fresh <- JustKeyed
  Consistent <- ShortAndRetry
  NumScenes = 1
  MaxFresh = 1
  MaxChildren = 4
  MaxRestarts = 1
  MaxCalls = 1
SPECIFICATION Safe
INVARIANTS
  CompletedIsWhole
  VoiceoverStays
  WorkersHaveJobs
CHECK_DEADLOCK FALSE
