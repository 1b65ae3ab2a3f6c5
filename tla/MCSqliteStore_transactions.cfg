\* Three writes, a transaction and a close share the connection.
SPECIFICATION Spec
CONSTANTS
  Write = {a, b, d}
  Txn = {t}
  Closer = {c}
  CancelAt = {"connect", "turn", "flush", "COMMIT", "close"}
  MaxBusy = 1
SYMMETRY Ids
CHECK_DEADLOCK FALSE
INVARIANTS
  TypeOK TransactionHasOwner BarrierComesDown
PROPERTIES
  KeepsIssueOrder RefinesCalls
