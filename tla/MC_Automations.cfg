\* Two automations with two runs and one slot, and one update, restart or fault.
CONSTANTS
  scout = scout
  report = report
  Autos <- Both
  NoAuto = NoAuto
  Results = {"completed", "needs_approval"}
  MaxRuns = 2
  Limit = 1
  Recent = 1
  MaxTime = 1
  MaxEvents = 1
SPECIFICATION Spec
INVARIANTS
  TypeOK
  OneExecution
  RepeatedOnlyAfterEdit
  ReportsAgree
PROPERTIES
  EndedRunsStay
  RunsEnd
  DueIsServed
CHECK_DEADLOCK FALSE
