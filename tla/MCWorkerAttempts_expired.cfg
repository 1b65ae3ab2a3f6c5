\* A worker that claims its own expired task again while the first run goes on.
SPECIFICATION WorkersSpec
CONSTANTS
  Task = {t1}
  Worker = {w1}
  NoWorker = none
  Key = {}
  NoTask = null
  Queue = {q1}
  Name = {n1}
  Priorities = {0}
  Budgets = {2}
  Delays = {0}
  Ages = {}
  DrawLimits = {1, 2}
  LeaseTicks = 1
  MaxNow = 1
  MaxAttempt = 3
  Call = {c1, c2}
  Concurrency = 2
  Batch = 1
  HandlerWrites = {}
CHECK_DEADLOCK FALSE
INVARIANTS
  OutcomeOfOwnAttempt
