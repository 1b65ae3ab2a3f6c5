\* One task, two workers that may crash, leases expiring under a running call.
SPECIFICATION WorkersSpec
CONSTANTS
  Task = {t1}
  Worker = {w1, w2}
  NoWorker = none
  Key = {}
  NoTask = null
  Queue = {q1}
  Name = {n1}
  Priorities = {0}
  Budgets = {2}
  Delays = {0, 1}
  Ages = {}
  DrawLimits = {1}
  LeaseTicks = 1
  MaxNow = 2
  MaxAttempt = 3
  Call = {c1, c2}
  Concurrency = 1
  Batch = 1
  HandlerWrites = {"complete"}
SYMMETRY Ids
CHECK_DEADLOCK FALSE
INVARIANTS
  WorkersTypeOK DeliveredOnce SettledOnce OutcomeOfOwnAttempt
  DeadRunsAreTakenOver
PROPERTIES
  LiveLeaseHolds
