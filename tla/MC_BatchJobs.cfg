\* A chunked transform and another job on the same file, with edits, faults and calls of the user.
CONSTANTS
  csv = csv
  other = other
  upload = upload
  t1 = t1
  t2 = t2
  None = None
  Gone = Gone
  Jobs <- TwoJobs
  KindsOf <- TheirKinds
  ModesOf <- TheirModes
  Files <- OneFile
  FileOf <- SameFile
  Versions <- TwoVersions
  Original = 1
  Units <- Tokens
  Uncut <- Json
  Limit = 3
  MaxItems = 2
  Threads <- TwoThreads
  MaxChunks = 2
  MaxCalls <- Calls
  MaxMishaps = 1
SPECIFICATION Spec
INVARIANTS
  TypeOK
  WorkersKept
  CompletedIsWhole
  ControlledByUser
PROPERTIES
  CancelStays
  RedoneOnlyForNewPlan
  WorkersEnd
CHECK_DEADLOCK FALSE
