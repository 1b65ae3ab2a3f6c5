\* One wait over two tasks and a key, or one worker; closes at every instant.
SPECIFICATION Spec
CONSTANTS
  Task = {t1, t2}
  Key = {k}
  NoTask = null
  Waiter = {w}
  Loop = {l1, l2}
  NoLoop = noloop
  Provided = FALSE
  Claimer = worker
  Queued = queued
SYMMETRY Ids
CHECK_DEADLOCK FALSE
INVARIANTS HandleTypeOK QuietAfterClose SweeperLives NewsWakesItsWaiters FinishedIsReturned
PROPERTIES ReplacedIsNotReported
