\* Three jobs, one of them cancellable and possibly stored late, one restart of the agent, one restart of a service or lost or unreadable answer.
CONSTANTS
  NumJobs = 3
  KindOf <- ImageVideoImage
  NumNatives = 3
  Cancellable <- First
  Delayed <- First
  MaxRetained = 2
  MaxCrashes = 1
  MaxOutages = 1
SPECIFICATION Spec
INVARIANTS
  TypeOK
  RepeatedOnlyAfterLoss
PROPERTIES
  TerminalIsFinal
  HandedOverInOrder
  FollowsWhatItKnows
  OnlyLateCancelsBlock
