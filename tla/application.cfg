SPECIFICATION Spec
CONSTANTS
  Thread <- Threads
  Capacity = 2
  NULL = NULL
  Packets = 4
  MaxRuns = 2
  MaxFailures = 2
INVARIANTS TypeOK NothingLeaks QueueSlots PacketsInOrder ExitIsClean
PROPERTIES StopReturns PacketsArrive
