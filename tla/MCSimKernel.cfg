CONSTANTS
  MaxTime = 1
  MaxEventId = 2
  Priorities <- MCPriorities
  StopReasons <- MCStopReasons
  None = None
SPECIFICATION Spec
INVARIANTS
  BookkeepingAgrees
  EveryEventAccountedFor
  TraceTellsTheRun
PROPERTIES
  ImplementsEagerScheduler
  RunTerminates
