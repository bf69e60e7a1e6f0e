SPECIFICATION FairPoolSpec
CONSTANTS
  Workers = {w1, w2}
  MaxTasks = 5
  MaxCrashes = 2
INVARIANTS PoolTypeOK PendingExact WorkConserving QueueFifo WorkPlaced ClosedSettlesAll
PROPERTIES TaskSettles ImplementsTaskService
CHECK_DEADLOCK FALSE
