\* Two writes, a transaction and a close; callers canceled anywhere.
SPECIFICATION FairSpec
CONSTANTS
  Write = {a, b}
  Txn = {t}
  Closer = {c}
  CancelAt = {"connect", "turn", "flush", "BEGIN", "COMMIT", "close"}
  MaxBusy = 1
CHECK_DEADLOCK FALSE
INVARIANTS
  AppliedOnce QueuedWritesLand
PROPERTIES
  EveryoneIsAnswered
