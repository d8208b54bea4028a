\* The supervisor with a stop or crash, and a death of the model or a manual change.
CONSTANTS
  generate = generate
  edit = edit
  extractor = extractor
  NoJob = NoJob
  Exclusive <- JustGenerate
  Extractors <- OneExtractor
  MediaJobs <- BothJobs
  MaxDowns = 1
  MaxChanges = 1
SPECIFICATION Spec
INVARIANTS
  TypeOK
  AloneOnceReleased
PROPERTIES
  NoStopUnderInference
  DispatchedAtLast
