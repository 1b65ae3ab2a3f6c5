\* Whole lives: two tasks under one key, two priorities, delays, retries,
\* cancels, expiries, purges.
SPECIFICATION Spec
CONSTANTS
  Task = {t1, t2}
  Worker = {w1}
  NoWorker = none
  Key = {k1}
  NoTask = null
  Queue = {q1}
  Name = {n1}
  Priorities = {0, 1}
  Budgets = {2}
  Delays = {0, 1}
  Ages = {0}
  DrawLimits = {1}
  LeaseTicks = 1
  MaxNow = 2
  MaxAttempt = 3
SYMMETRY Ids
CHECK_DEADLOCK FALSE
INVARIANTS
  TypeOK LeaseIffRunning CompletedIffTerminal QueuedIsClean
  OutcomeIsRecorded DeliveryBudget KeysPointAtRows
PROPERTIES
  RefinesLifecycle ClaimInOrder
