\* Two tasks in one call, settled early, late or never, and writes that fail.
SPECIFICATION FairWorkersSpec
CONSTANTS
  Task = {t1, t2}
  Worker = {w1}
  NoWorker = none
  Key = {}
  NoTask = null
  Queue = {q1}
  Name = {n1}
  Priorities = {0}
  Budgets = {1}
  Delays = {0}
  Ages = {}
  DrawLimits = {1, 2}
  LeaseTicks = 1
  MaxNow = 1
  MaxAttempt = 3
  Call = {c1}
  Concurrency = 1
  Batch = 2
  HandlerWrites = {"complete"}
CHECK_DEADLOCK FALSE
PROPERTIES
  SettlesWhatItHeld SlotsComeBack
