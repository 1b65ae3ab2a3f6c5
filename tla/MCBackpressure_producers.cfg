\* A limit of two and grants of one; nobody need ever drain the queue.
SPECIFICATION FairSpec
CONSTANTS
  p = p
  q = q
  c1 = c1
  c2 = c2
  c3 = c3
  Handle = {p, q}
  Caller = {c1, c2, c3}
  HandleOf <- TwoAndOne
  Limit = 2
  MaxGrant = 1
  MaxNaps = 1
  MaxOthers = 1
CHECK_DEADLOCK FALSE
INVARIANTS TypeOK OvershootIsBounded GrantsAreNotOverwritten
PROPERTIES EveryAcquireEnds
