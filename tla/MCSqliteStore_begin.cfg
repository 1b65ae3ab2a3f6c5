\* A caller canceled while its BEGIN runs.
SPECIFICATION Spec
CONSTANTS
  Write = {a}
  Txn = {t}
  Closer = {}
  CancelAt = {"BEGIN"}
  MaxBusy = 0
CHECK_DEADLOCK FALSE
INVARIANTS
  AcknowledgedIsDurable
