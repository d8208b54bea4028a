\* A cancel while the answer to POST is on its way.
CONSTANTS
  NumJobs = 2
  KindOf <- ImageVideo
  NumNatives = 2
  Cancellable <- AllJobs
  Delayed <- AllJobs
  MaxRetained = 2
  MaxCrashes = 0
  MaxOutages = 0
SPECIFICATION Safe
INVARIANTS
  OneNativeAtATime
