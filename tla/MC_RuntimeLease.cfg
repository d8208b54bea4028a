\* The lease: safety, refinement and liveness.
CONSTANTS
  chat = chat
  tools = tools
  image = image
  agent = agent
  media = media
  NoThread = NoThread
  Threads <- MCThreads
  Processes <- MCProcesses
  ProcessOf <- MCProcessOf
  Unrecorded <- SomeThread
  MaxDepth = 2
  MaxLeftover = 0
SPECIFICATION Spec
INVARIANTS
  TypeOK
  ReportedOwnerHoldsLease
PROPERTIES
  ImplementsLease
  SomeWaiterGetsThrough
