\* Two callers close one store, the first is canceled.
SPECIFICATION Spec
CONSTANTS
  Write = {a, b}
  Txn = {}
  Closer = {c, d}
  CancelAt = {"close"}
  MaxBusy = 0
CHECK_DEADLOCK FALSE
INVARIANTS
  BarrierComesDown
