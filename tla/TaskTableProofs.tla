--------------------------- MODULE TaskTableProofs ---------------------------
(***************************************************************************)
(* The row invariants of TaskTable hold of every number of tasks, workers, *)
(* keys and attempts.  They are proved through one predicate on a single   *)
(* row, RowInv, which every statement of the SQL preserves; an action is   *)
(* then a function that maps rows to rows.                                 *)
(***************************************************************************)
EXTENDS TaskTableView, TLAPS

\* How many deliveries a row may have had since it was last (re)submitted.
Budget(r) == IF r.floor < r.max_attempts THEN r.max_attempts ELSE r.floor + 1

\* The inductive form of the row properties.  It adds to them what a delivery
\* relies on: a queued row has a delivery left, a running one has had one, and
\* the count never falls below where the last retry left it.
RowInv(r) ==
  /\ r \in Row
  /\ r.lease_until # Null <=> r.status = "running"
  /\ r.status = "running" => r.worker_id # NoWorker /\ r.attempt > 0
  /\ r.completed_at # Null <=> r.status \in Terminal
  /\ r.status = "queued" => /\ r.worker_id = NoWorker
                            /\ r.progress = 0
                            /\ ~r.cancel_requested
                            /\ r.attempt < Budget(r)
  /\ r.progress \in {0, r.attempt}
  /\ r.status = "failed" => r.error = r.attempt
  /\ r.result # 0 <=> r.status = "succeeded"
  /\ r.attempt <= Budget(r)
  /\ r.floor <= r.attempt

RowsInv == rows \in [Task -> Row] /\ \A t \in Task : RowInv(rows[t])

TableInv == RowsInv /\ KeysPointAtRows /\ keys \in [Key -> Task \cup {NoTask}]
            /\ now \in Nat

-----------------------------------------------------------------------------
(* Each statement keeps a row well formed.  A proof types the new row first, *)
(* with the types of its columns closed, then reads off its columns, and     *)
(* concludes about the columns alone.                                        *)

LEMMA Literals ==
  /\ {"queued", "running", "succeeded", "failed", "canceled",
      "unused", "purged"} \subseteq Status
  /\ Null \in Time /\ Null \notin Nat
  /\ \A n \in Nat : n \in Time /\ n # Null
BY DEF Status, Live, Terminal, Time, Null

\* Ids without a row.
LEMMA NoRowInv == ASSUME NEW s \in {"unused", "purged"}
                  PROVE  RowInv(NoRow(s))
<1>1. NoRow(s) \in Row
  BY Literals, SomeQueueAndName DEF NoRow, Row
<1> QED
  BY <1>1, Literals DEF RowInv, NoRow, Terminal, Budget

\* insert_task
LEMMA NewRowInv == ASSUME now \in Nat, NEW q \in Queue, NEW n \in Name,
                          NEW p \in Priorities, NEW m \in Budgets,
                          NEW delay \in Delays
                   PROVE  RowInv(NewRow(q, n, p, m, delay))
<1>1. p \in Int /\ m \in Nat \ {0} /\ now + delay \in Nat
  BY SubmitInputs
<1>2. NewRow(q, n, p, m, delay) \in Row
  BY <1>1, Literals DEF NewRow, Row
<1> QED
  BY <1>1, <1>2, Literals DEF RowInv, NewRow, Terminal, Budget

\* claim
LEMMA ClaimRowInv == ASSUME now \in Nat, NEW r, RowInv(r), r.status = "queued",
                            NEW w \in Worker
                     PROVE  RowInv(ClaimRow(r, w))
<1> DEFINE m == ClaimRow(r, w)
<1>1. r \in Row
  BY DEF RowInv
<1>2. now + LeaseTicks \in Nat /\ r.attempt + 1 \in Nat
  BY <1>1, LeaseIsPositive DEF Row
<1>3. m \in Row
  BY <1>1, <1>2, Literals DEF ClaimRow, Row
<1>4. /\ m.status = "running" /\ m.worker_id = w
      /\ m.lease_until = now + LeaseTicks /\ m.attempt = r.attempt + 1
      /\ m.max_attempts = r.max_attempts /\ m.floor = r.floor
      /\ m.completed_at = r.completed_at /\ m.progress = r.progress
      /\ m.result = r.result
  BY <1>1 DEF ClaimRow, Row
<1> HIDE DEF m
<1>5. RowInv(m)
  BY <1>1, <1>2, <1>3, <1>4, Literals, IdsAreDistinct
     DEF RowInv, Row, Budget, Terminal
<1> QED
  BY <1>5 DEF m

\* complete and succeed: in both the row ends, with a result or canceled.
LEMMA CompleteRowInv == ASSUME now \in Nat, NEW r, RowInv(r), r.status = "running"
                        PROVE  RowInv(CompleteRow(r)) /\ RowInv(SucceedRow(r))
<1>1. r \in Row /\ r.attempt \in Nat \ {0}
  BY DEF RowInv, Row
<1>2. ASSUME NEW m \in Row,
             m.status = "succeeded", m.result = r.attempt, m.progress = r.attempt,
             m.lease_until = Null, m.completed_at = now,
             m.attempt = r.attempt, m.floor = r.floor,
             m.max_attempts = r.max_attempts
      PROVE  RowInv(m)
  BY <1>1, <1>2, Literals DEF RowInv, Budget, Terminal
<1>3. RowInv(SucceedRow(r))
  <2>1. SucceedRow(r) \in Row
    BY <1>1, Literals DEF SucceedRow, Row
  <2> QED
    BY <1>1, <1>2, <2>1 DEF SucceedRow, Row
<1>4. CASE r.cancel_requested
  <2> DEFINE m == [r EXCEPT !.status = "canceled", !.lease_until = Null,
                            !.completed_at = now]
  <2>1. m \in Row
    BY <1>1, Literals DEF Row
  <2>2. /\ m.status = "canceled" /\ m.lease_until = Null
        /\ m.completed_at = now /\ m.attempt = r.attempt /\ m.floor = r.floor
        /\ m.max_attempts = r.max_attempts /\ m.result = r.result
        /\ m.progress = r.progress
    BY <1>1 DEF Row
  <2>3. CompleteRow(r) = m
    BY <1>4 DEF CompleteRow
  <2> HIDE DEF m
  <2>4. RowInv(m)
    BY <1>1, <2>1, <2>2, Literals DEF RowInv, Budget, Terminal
  <2> QED
    BY <1>3, <2>3, <2>4
<1>5. CASE ~r.cancel_requested
  <2>1. CompleteRow(r) \in Row
    BY <1>1, <1>5, Literals DEF CompleteRow, Row
  <2> QED
    BY <1>1, <1>2, <1>3, <1>5, <2>1 DEF CompleteRow, Row
<1> QED
  BY <1>1, <1>4, <1>5 DEF Row

\* Back to the queue, from a running or a settled row that has a delivery left.
LEMMA QueuedRowInv ==
  ASSUME NEW r \in Row, NEW m \in Row,
         m.status = "queued", m.worker_id = NoWorker, m.lease_until = Null,
         m.completed_at = Null, m.progress = 0, m.result = 0,
         ~m.cancel_requested, m.floor <= m.attempt, m.attempt < Budget(m)
  PROVE  RowInv(m)
BY Literals DEF RowInv, Row, Budget, Terminal

\* A run that ends with no result, canceled or failed.
LEMMA EndedRowInv ==
  ASSUME now \in Nat, NEW r, RowInv(r), r.status = "running", NEW m \in Row,
         \/ m.status = "canceled"
         \/ m.status = "failed" /\ m.error = r.attempt,
         m.lease_until = Null, m.completed_at = now, m.attempt = r.attempt,
         m.floor = r.floor, m.max_attempts = r.max_attempts,
         m.result = r.result, m.progress = r.progress
  PROVE  RowInv(m)
BY Literals DEF RowInv, Row, Budget, Terminal

\* fail
LEMMA FailRowInv == ASSUME now \in Nat, NEW r, RowInv(r), r.status = "running",
                           NEW retryable \in BOOLEAN, NEW delay \in Delays
                    PROVE  RowInv(FailRow(r, retryable, delay))
<1> DEFINE m == FailRow(r, retryable, delay)
<1>1. /\ r \in Row /\ r.attempt \in Nat /\ r.floor \in Nat
      /\ r.max_attempts \in Nat /\ now + delay \in Nat
  BY SubmitInputs DEF RowInv, Row
<1>2. CASE retryable /\ Requeueable(r)
  <2>1. m \in Row
    BY <1>1, <1>2, Literals DEF FailRow, Requeued, Row
  <2>2. /\ m.status = "queued" /\ m.worker_id = NoWorker
        /\ m.lease_until = Null /\ m.completed_at = Null /\ m.progress = 0
        /\ m.result = r.result /\ m.cancel_requested = r.cancel_requested
        /\ m.attempt = r.attempt /\ m.floor = r.floor
        /\ m.max_attempts = r.max_attempts
    BY <1>1, <1>2 DEF FailRow, Requeued, Row
  <2> HIDE DEF m
  <2>3. r.result = 0 /\ r.floor <= r.attempt
    BY DEF RowInv
  <2>4. ~r.cancel_requested /\ r.attempt < Budget(r) /\ Budget(m) = Budget(r)
    BY <1>1, <1>2, <2>2, <2>3 DEF Requeueable, Budget
  <2>5. RowInv(m)
    BY <1>1, <2>1, <2>2, <2>3, <2>4, QueuedRowInv
  <2> QED
    BY <2>5 DEF m
<1>3. CASE ~(retryable /\ Requeueable(r))
  <2>1. m \in Row
    BY <1>1, <1>3, Literals DEF FailRow, Row
  <2>2. /\ m.status = "canceled" \/ (m.status = "failed" /\ m.error = r.attempt)
        /\ m.lease_until = Null /\ m.completed_at = now
        /\ m.attempt = r.attempt /\ m.floor = r.floor
        /\ m.max_attempts = r.max_attempts /\ m.result = r.result
        /\ m.progress = r.progress
    BY <1>1, <1>3 DEF FailRow, Row
  <2> HIDE DEF m
  <2>3. RowInv(m)
    BY <2>1, <2>2, EndedRowInv
  <2> QED
    BY <2>3 DEF m
<1> QED
  BY <1>2, <1>3

\* recover_leases
LEMMA RecoverRowInv == ASSUME now \in Nat, NEW r, RowInv(r), r.status = "running"
                       PROVE  RowInv(RecoverRow(r))
<1> DEFINE m == RecoverRow(r)
<1>1. /\ r \in Row /\ r.attempt \in Nat /\ r.floor \in Nat
      /\ r.max_attempts \in Nat
  BY DEF RowInv, Row
<1>2. CASE Requeueable(r)
  <2>1. m \in Row
    BY <1>1, <1>2, Literals DEF RecoverRow, Requeued, Row
  <2>2. /\ m.status = "queued" /\ m.worker_id = NoWorker
        /\ m.lease_until = Null /\ m.completed_at = r.completed_at
        /\ m.progress = 0 /\ m.result = r.result
        /\ m.cancel_requested = r.cancel_requested
        /\ m.attempt = r.attempt /\ m.floor = r.floor
        /\ m.max_attempts = r.max_attempts
    BY <1>1, <1>2 DEF RecoverRow, Requeued, Row
  <2> HIDE DEF m
  <2>3. r.result = 0 /\ r.floor <= r.attempt /\ r.completed_at = Null
    BY DEF RowInv, Terminal
  <2>4. ~r.cancel_requested /\ r.attempt < Budget(r) /\ Budget(m) = Budget(r)
    BY <1>1, <1>2, <2>2, <2>3 DEF Requeueable, Budget
  <2>5. RowInv(m)
    BY <1>1, <2>1, <2>2, <2>3, <2>4, QueuedRowInv
  <2> QED
    BY <2>5 DEF m
<1>3. CASE ~Requeueable(r)
  <2>1. m \in Row
    BY <1>1, <1>3, Literals DEF RecoverRow, Row
  <2>2. /\ m.status = "canceled" \/ (m.status = "failed" /\ m.error = r.attempt)
        /\ m.lease_until = Null /\ m.completed_at = now
        /\ m.attempt = r.attempt /\ m.floor = r.floor
        /\ m.max_attempts = r.max_attempts /\ m.result = r.result
        /\ m.progress = r.progress
    BY <1>1, <1>3 DEF RecoverRow, Row
  <2> HIDE DEF m
  <2>3. RowInv(m)
    BY <2>1, <2>2, EndedRowInv
  <2> QED
    BY <2>3 DEF m
<1> QED
  BY <1>2, <1>3

\* cancel
LEMMA CancelRowInv == ASSUME now \in Nat, NEW r, RowInv(r), r.status \in Live
                      PROVE  RowInv(CancelRow(r))
<1> DEFINE m == CancelRow(r)
<1>1. r \in Row
  BY DEF RowInv
<1>2. m \in Row
  BY <1>1, Literals DEF CancelRow, Row
<1>3. /\ m.lease_until = r.lease_until /\ m.worker_id = r.worker_id
      /\ m.attempt = r.attempt /\ m.floor = r.floor /\ m.result = r.result
      /\ m.max_attempts = r.max_attempts /\ m.progress = r.progress
  BY <1>1 DEF CancelRow, Row
<1>4. \/ r.status = "queued" /\ m.status = "canceled" /\ m.completed_at = now
      \/ /\ r.status = "running" /\ m.status = "running"
         /\ m.completed_at = r.completed_at
  BY <1>1 DEF CancelRow, Row, Live
<1> HIDE DEF m
<1>5. RowInv(m)
  BY <1>1, <1>2, <1>3, <1>4, Literals DEF RowInv, Row, Budget, Terminal
<1> QED
  BY <1>5 DEF m

\* retry
LEMMA RetryRowInv == ASSUME now \in Nat, NEW r, RowInv(r),
                            r.status \in {"failed", "canceled"},
                            NEW reset \in BOOLEAN
                     PROVE  RowInv(RetryRow(r, reset))
<1> DEFINE m == RetryRow(r, reset)
<1>1. r \in Row /\ r.attempt \in Nat /\ r.max_attempts \in Nat \ {0}
  BY DEF RowInv, Row
<1>2. m \in Row
  BY <1>1, Literals DEF RetryRow, Requeued, Row
<1>3. /\ m.status = "queued" /\ m.worker_id = NoWorker /\ m.lease_until = Null
      /\ m.completed_at = Null /\ m.progress = 0 /\ m.result = r.result
      /\ ~m.cancel_requested /\ m.floor = m.attempt /\ m.attempt \in Nat
      /\ m.max_attempts = r.max_attempts
  BY <1>1 DEF RetryRow, Requeued, Row
<1> HIDE DEF m
<1>4. r.result = 0
  BY DEF RowInv
<1>5. m.attempt < Budget(m)
  BY <1>1, <1>3 DEF Budget
<1>6. RowInv(m)
  BY <1>1, <1>2, <1>3, <1>4, <1>5, QueuedRowInv
<1> QED
  BY <1>6 DEF m

\* heartbeat and progress leave all but a lease or a progress bar alone.
LEMMA RunningRowInv ==
  ASSUME NEW r, RowInv(r), r.status = "running"
  PROVE  /\ \A lease \in Nat : RowInv([r EXCEPT !.lease_until = lease])
         /\ RowInv([r EXCEPT !.progress = r.attempt])
<1>1. r \in Row
  BY DEF RowInv
<1>2. ASSUME NEW m \in Row,
             m.status = r.status, m.worker_id = r.worker_id,
             m.lease_until # Null, m.completed_at = r.completed_at,
             m.attempt = r.attempt, m.floor = r.floor,
             m.max_attempts = r.max_attempts, m.result = r.result,
             m.progress \in {0, r.attempt}
      PROVE  RowInv(m)
  BY <1>1, <1>2 DEF RowInv, Budget, Terminal
<1>3. ASSUME NEW lease \in Nat
      PROVE  RowInv([r EXCEPT !.lease_until = lease])
  <2> DEFINE m == [r EXCEPT !.lease_until = lease]
  <2>1. m \in Row
    BY <1>1, Literals DEF Row
  <2>2. /\ m.status = r.status /\ m.worker_id = r.worker_id
        /\ m.lease_until = lease /\ m.completed_at = r.completed_at
        /\ m.attempt = r.attempt /\ m.floor = r.floor
        /\ m.max_attempts = r.max_attempts /\ m.result = r.result
        /\ m.progress = r.progress
    BY <1>1 DEF Row
  <2> HIDE DEF m
  <2>3. RowInv(m)
    BY <1>2, <2>1, <2>2, Literals DEF RowInv
  <2> QED
    BY <2>3 DEF m
<1>4. RowInv([r EXCEPT !.progress = r.attempt])
  <2> DEFINE m == [r EXCEPT !.progress = r.attempt]
  <2>1. r.attempt \in Nat
    BY <1>1 DEF Row
  <2>2. m \in Row
    BY <1>1, <2>1, Literals DEF Row
  <2>3. /\ m.status = r.status /\ m.worker_id = r.worker_id
        /\ m.lease_until = r.lease_until /\ m.completed_at = r.completed_at
        /\ m.attempt = r.attempt /\ m.floor = r.floor
        /\ m.max_attempts = r.max_attempts /\ m.result = r.result
        /\ m.progress = r.attempt
    BY <1>1 DEF Row
  <2> HIDE DEF m
  <2>4. r.lease_until # Null
    BY DEF RowInv
  <2>5. RowInv(m)
    BY <1>2, <2>2, <2>3, <2>4
  <2> QED
    BY <2>5 DEF m
<1> QED
  BY <1>3, <1>4

-----------------------------------------------------------------------------
(* The table invariant.                                                    *)

\* A statement on one row that stays in, or enters, the table.
LEMMA OneRow ==
  ASSUME TableInv, NEW t \in Task, NEW r, RowInv(r),
         r.status \notin {"unused", "purged"},
         rows' = [rows EXCEPT ![t] = r], UNCHANGED <<keys, now>>
  PROVE  TableInv'
<1>1. RowsInv'
  BY DEF TableInv, RowsInv, RowInv
<1>2. \A u \in Task : Present(u) => Present(u)'
  BY DEF TableInv, RowsInv, Present
<1>3. KeysPointAtRows'
  BY <1>2 DEF TableInv, KeysPointAtRows
<1> QED
  BY <1>1, <1>3 DEF TableInv

\* A statement that maps every row of the table to a row of the table.
LEMMA EveryRow ==
  ASSUME TableInv, DOMAIN rows' = Task, rows' = [t \in Task |-> rows'[t]],
         \A t \in Task : RowInv(rows'[t]),
         \A t \in Task : Present(t) => Present(t)',
         UNCHANGED <<keys, now>>
  PROVE  TableInv'
<1>1. RowsInv'
  BY DEF RowsInv, RowInv
<1>2. KeysPointAtRows'
  BY DEF TableInv, KeysPointAtRows
<1> QED
  BY <1>1, <1>2 DEF TableInv

\* The initial table.
LEMMA InitTable == Init => TableInv
<1> SUFFICES ASSUME Init PROVE TableInv
  OBVIOUS
<1>1. RowsInv
  BY NoRowInv DEF Init, RowsInv, RowInv
<1> QED
  BY <1>1 DEF Init, TableInv, KeysPointAtRows

\* submit with a key inserts one row, may cancel the one the key held, and
\* repoints the key: nothing else held the new id.
LEMMA SubmitKeyedTable ==
  ASSUME TableInv, NEW t \in Task, NEW k \in Key, NEW c \in Conflict,
         NEW q \in Queue, NEW n \in Name, NEW p \in Priorities,
         NEW m \in Budgets, NEW delay \in Delays,
         SubmitKeyed(t, k, c, q, n, p, m, delay)
  PROVE  TableInv'
<1>1. now \in Nat /\ now' = now /\ rows[t].status = "unused"
  BY DEF TableInv, SubmitKeyed
<1>2. RowInv(NewRow(q, n, p, m, delay))
  BY <1>1, NewRowInv
<1>3. ASSUME NEW u \in Task, rows[u].status \in Live
      PROVE  RowInv(CancelRow(rows[u]))
  BY <1>1, <1>3, CancelRowInv DEF TableInv, RowsInv
<1>4. ASSUME NEW u \in Task, u # t
      PROVE  Present(u) => Present(u)'
  <2>1. CASE u = keys[k] /\ rows[u].status \in Live
    <3>1. rows'[u] = CancelRow(rows[u]) /\ rows[u] \in Row
      BY <1>4, <2>1 DEF SubmitKeyed, TableInv, RowsInv
    <3>2. rows'[u].status \in {"canceled", rows[u].status}
      BY <3>1 DEF CancelRow, Row
    <3> QED
      BY <2>1, <3>2 DEF Present, Live
  <2>2. CASE ~(u = keys[k] /\ rows[u].status \in Live)
    BY <1>4, <2>2 DEF SubmitKeyed, Present
  <2> QED
    BY <2>1, <2>2
<1>5. RowsInv'
  <2>1. \A u \in Task : RowInv(rows'[u])
    BY <1>2, <1>3 DEF SubmitKeyed, TableInv, RowsInv
  <2>2. rows' \in [Task -> Row]
    BY <2>1 DEF SubmitKeyed, RowInv
  <2> QED
    BY <2>1, <2>2 DEF RowsInv
<1>6. KeysPointAtRows'
  <2>1. keys' = [keys EXCEPT ![k] = t] /\ keys \in [Key -> Task \cup {NoTask}]
    BY DEF SubmitKeyed, TableInv
  <2>2. Present(t)'
    BY DEF SubmitKeyed, NewRow, Present
  <2>3. \A j \in Key : keys[j] # t
    BY <1>1, IdsAreDistinct DEF TableInv, KeysPointAtRows, Present
  <2> QED
    BY <1>4, <2>1, <2>2, <2>3, IdsAreDistinct DEF TableInv, KeysPointAtRows
<1>7. keys' \in [Key -> Task \cup {NoTask}]
  BY DEF SubmitKeyed, TableInv
<1> QED
  BY <1>1, <1>5, <1>6, <1>7 DEF TableInv

\* purge takes the key pointers with the rows.
LEMMA PurgeTable ==
  ASSUME TableInv, NEW S \in SUBSET Task,
         rows' = [t \in Task |-> IF t \in S THEN NoRow("purged") ELSE rows[t]],
         keys' = [k \in Key |-> IF keys[k] \in S THEN NoTask ELSE keys[k]],
         UNCHANGED now
  PROVE  TableInv'
<1>1. RowsInv'
  <2>1. RowInv(NoRow("purged"))
    BY NoRowInv
  <2>2. \A t \in Task : RowInv(rows'[t])
    BY <2>1 DEF TableInv, RowsInv
  <2>3. rows' \in [Task -> Row]
    BY <2>2 DEF RowInv
  <2> QED
    BY <2>2, <2>3 DEF RowsInv
<1>2. \A t \in Task \ S : Present(t) => Present(t)'
  BY DEF Present
<1>3. KeysPointAtRows'
  BY <1>2 DEF TableInv, KeysPointAtRows
<1> QED
  BY <1>1, <1>3 DEF TableInv

\* A claim session: what recovery leaves is a table of rows, and each row drawn
\* from it was queued.
LEMMA ClaimTable ==
  ASSUME TableInv, NEW w \in Worker, NEW S \in SUBSET Task,
         \A t \in S : Recovered[t].status = "queued",
         rows' = [t \in Task |-> IF t \in S THEN ClaimRow(Recovered[t], w)
                                            ELSE Recovered[t]],
         UNCHANGED <<keys, now>>
  PROVE  TableInv'
<1>1. now \in Nat /\ \A t \in Task : rows[t] \in Row /\ RowInv(rows[t])
  BY DEF TableInv, RowsInv
<1>2. ASSUME NEW t \in Task
      PROVE  /\ RowInv(Recovered[t])
             /\ Present(t) => Recovered[t].status \notin {"unused", "purged"}
  <2>1. CASE Expired(rows[t])
    <3>1. rows[t].status = "running" /\ Recovered[t] = RecoverRow(rows[t])
      BY <2>1 DEF Expired, Recovered
    <3>2. RecoverRow(rows[t]).status \in {"queued", "canceled", "failed"}
      BY <1>1 DEF RecoverRow, Requeued, Row
    <3> QED
      BY <1>1, <3>1, <3>2, RecoverRowInv
  <2>2. CASE ~Expired(rows[t])
    BY <1>1, <2>2 DEF Recovered, Present
  <2> QED
    BY <2>1, <2>2
<1>3. ASSUME NEW t \in S
      PROVE  /\ RowInv(ClaimRow(Recovered[t], w))
             /\ ClaimRow(Recovered[t], w).status = "running"
  <2>1. t \in Task /\ RowInv(Recovered[t]) /\ Recovered[t] \in Row
    BY <1>2 DEF RowInv
  <2>2. ClaimRow(Recovered[t], w).status = "running"
    BY <2>1 DEF ClaimRow, Row
  <2> QED
    BY <1>1, <2>1, <2>2, ClaimRowInv
<1>4. /\ \A t \in Task : RowInv(rows'[t])
      /\ \A t \in Task : Present(t) => Present(t)'
  BY <1>2, <1>3 DEF Present
<1> QED
  BY <1>4, EveryRow

-----------------------------------------------------------------------------
\* Every operation preserves the table invariant.
LEMMA NextTable == TableInv /\ [Next]_vars => TableInv'
<1> SUFFICES ASSUME TableInv, [Next]_vars
             PROVE  TableInv'
  OBVIOUS
<1>a. /\ now \in Nat /\ rows \in [Task -> Row]
      /\ \A t \in Task : RowInv(rows[t])
  BY DEF TableInv, RowsInv
<1>1. CASE Tick
  BY <1>1 DEF Tick, TableInv, RowsInv, KeysPointAtRows, Present
<1>2. CASE ClientNext
  <2>1. ASSUME NEW t \in Task, NEW q \in Queue, NEW n \in Name,
               NEW p \in Priorities, NEW m \in Budgets, NEW delay \in Delays,
               Submit(t, q, n, p, m, delay)
        PROVE  TableInv'
    <3>1. NewRow(q, n, p, m, delay).status = "queued"
      BY DEF NewRow
    <3> QED
      BY <1>a, <2>1, <3>1, NewRowInv, OneRow DEF Submit
  <2>2. ASSUME NEW t \in Task, NEW q \in Queue, NEW n \in Name,
               NEW p \in Priorities, NEW m \in Budgets, NEW delay \in Delays,
               NEW k \in Key, NEW c \in Conflict,
               SubmitKeyed(t, k, c, q, n, p, m, delay)
        PROVE  TableInv'
    BY <2>2, SubmitKeyedTable
  <2>3. ASSUME NEW t \in Task, Cancel(t)
        PROVE  TableInv'
    <3>1. CancelRow(rows[t]).status \in {"canceled", "running"}
      BY <1>a, <2>3 DEF Cancel, CancelRow, Row, Live
    <3> QED
      BY <1>a, <2>3, <3>1, CancelRowInv, OneRow DEF Cancel
  <2>4. ASSUME NEW t \in Task, NEW reset \in BOOLEAN, Retry(t, reset)
        PROVE  TableInv'
    <3>1. RetryRow(rows[t], reset).status = "queued"
      BY <1>a DEF RetryRow, Requeued, Row
    <3> QED
      BY <1>a, <2>4, <3>1, RetryRowInv, OneRow DEF Retry
  <2>5. ASSUME NEW queues \in Filter(Queue), NEW statuses \in Filter(Terminal),
               NEW names \in Filter(Name), NEW age \in Ages,
               NEW limit \in DrawLimits,
               Purge(queues, statuses, names, age, limit)
        PROVE  TableInv'
    BY <2>5, PurgeTable DEF Purge, Draws, Purgeable, Cascade
  <2> QED
    BY <1>2, <2>1, <2>2, <2>3, <2>4, <2>5 DEF ClientNext
<1>3. ASSUME NEW w \in Worker, NEW queues \in SUBSET Queue,
             NEW names \in SUBSET Name, NEW limit \in DrawLimits,
             Claim(w, queues, names, limit)
      PROVE  TableInv'
  BY <1>3, ClaimTable DEF Claim, Draws, Claimable
<1>4. ASSUME NEW w \in Worker, NEW ts \in SUBSET Task, Heartbeat(w, ts)
      PROVE  TableInv'
  <2>1. now + LeaseTicks \in Nat
    BY <1>a, LeaseIsPositive
  <2>2. ASSUME NEW t \in Task
        PROVE  RowInv(rows'[t]) /\ (Present(t) => Present(t)')
    <3>1. CASE t \in ts /\ Owns(w, t)
      <4>1. rows'[t] = [rows[t] EXCEPT !.lease_until = now + LeaseTicks]
        BY <1>4, <3>1 DEF Heartbeat
      <4>2. rows'[t].status = rows[t].status
        BY <1>a, <4>1 DEF Row
      <4>3. RowInv([rows[t] EXCEPT !.lease_until = now + LeaseTicks])
        BY <1>a, <2>1, <3>1, RunningRowInv DEF Owns
      <4> QED
        BY <4>1, <4>2, <4>3 DEF Present
    <3>2. CASE ~(t \in ts /\ Owns(w, t))
      BY <1>4, <1>a, <3>2 DEF Heartbeat, Present
    <3> QED
      BY <3>1, <3>2
  <2> QED
    BY <1>4, <2>2, EveryRow DEF Heartbeat
<1>5. ASSUME NEW w \in Worker, NEW t \in Task, Progress(w, t)
      PROVE  TableInv'
  <2> DEFINE m == [rows[t] EXCEPT !.progress = rows[t].attempt]
  <2>1. rows' = [rows EXCEPT ![t] = m] /\ UNCHANGED <<keys, now>>
    BY <1>5, <1>a DEF Progress
  <2>2. RowInv(m)
    BY <1>5, <1>a, RunningRowInv DEF Progress, Owns
  <2>3. m.status = "running"
    BY <1>5, <1>a DEF Progress, Owns, Row
  <2> QED
    BY <2>1, <2>2, <2>3, OneRow
<1>6. ASSUME NEW w \in Worker, NEW t \in Task, Complete(w, t) \/ Succeed(w, t)
      PROVE  TableInv'
  <2>1. rows[t].status = "running"
    BY <1>6 DEF Complete, Succeed, Owns
  <2>2. RowInv(CompleteRow(rows[t])) /\ RowInv(SucceedRow(rows[t]))
    BY <1>a, <2>1, CompleteRowInv
  <2>3. /\ CompleteRow(rows[t]).status \in {"succeeded", "canceled"}
        /\ SucceedRow(rows[t]).status = "succeeded"
    BY <1>a DEF CompleteRow, SucceedRow, Row
  <2> QED
    BY <1>6, <2>2, <2>3, OneRow DEF Complete, Succeed
<1>7. ASSUME NEW w \in Worker, NEW t \in Task, NEW retryable \in BOOLEAN,
             NEW delay \in Delays, Fail(w, t, retryable, delay)
      PROVE  TableInv'
  <2>1. rows[t].status = "running"
    BY <1>7 DEF Fail, Owns
  <2>2. RowInv(FailRow(rows[t], retryable, delay))
    BY <1>a, <2>1, FailRowInv
  <2>3. FailRow(rows[t], retryable, delay).status
          \in {"queued", "canceled", "failed"}
    BY <1>a DEF FailRow, Requeued, Row
  <2> QED
    BY <1>7, <2>2, <2>3, OneRow DEF Fail
<1>8. CASE UNCHANGED vars
  BY <1>8 DEF vars, TableInv, RowsInv, KeysPointAtRows, Present
<1> QED
  BY <1>1, <1>2, <1>3, <1>4, <1>5, <1>6, <1>7, <1>8 DEF Next, WorkerNext

\* The inductive invariant of the table, of which the theorems below are parts.
THEOREM TableInvariant == Spec => []TableInv
BY InitTable, NextTable, PTL DEF Spec

\* Type correctness, for every instance.
THEOREM TypeCorrect == Spec => []TypeOK
<1>1. TableInv => TypeOK
  BY DEF TableInv, RowsInv, TypeOK
<1> QED
  BY <1>1, TableInvariant, PTL

\* A row holds a lease, and has an owner, exactly while it is running.
THEOREM LeasesAreHeld == Spec => []LeaseIffRunning
<1>1. TableInv => LeaseIffRunning
  BY DEF TableInv, RowsInv, RowInv, LeaseIffRunning
<1> QED
  BY <1>1, TableInvariant, PTL

\* A row's completion time is set exactly while it is terminal: purge and wait
\* see what they should.
THEOREM CompletionsAreMarked == Spec => []CompletedIffTerminal
<1>1. TableInv => CompletedIffTerminal
  BY DEF TableInv, RowsInv, RowInv, CompletedIffTerminal
<1> QED
  BY <1>1, TableInvariant, PTL

\* Nothing of a dead run is left on a queued row.
THEOREM CleanRows == Spec => []QueuedIsClean
<1>1. TableInv => QueuedIsClean
  BY DEF TableInv, RowsInv, RowInv, QueuedIsClean
<1> QED
  BY <1>1, TableInvariant, PTL

\* What a row shows is the work of its last attempt.
THEOREM OutcomesAreTheLast == Spec => []OutcomeIsRecorded
<1>1. TableInv => OutcomeIsRecorded
  BY DEF TableInv, RowsInv, RowInv, OutcomeIsRecorded
<1> QED
  BY <1>1, TableInvariant, PTL

\* max_attempts bounds the deliveries between two manual retries.
THEOREM DeliveriesAreBounded == Spec => []DeliveryBudget
<1>1. TableInv => DeliveryBudget
  BY DEF TableInv, RowsInv, RowInv, DeliveryBudget, Budget
<1> QED
  BY <1>1, TableInvariant, PTL

\* A key never dangles, and no two keys share a task.
THEOREM KeysNeverDangle == Spec => []KeysPointAtRows
<1>1. TableInv => KeysPointAtRows
  BY DEF TableInv
<1> QED
  BY <1>1, TableInvariant, PTL

-----------------------------------------------------------------------------
(***************************************************************************)
(* The task table implements TaskLifecycle, a live lease holds and claims  *)
(* keep their order, for every number of tasks, workers and attempts.      *)
(* Each statement makes one of the lifecycle's moves on the row it is      *)
(* given; a claim session may make two on the same row, a recovery and     *)
(* then a delivery, which together are the abstract redelivery straight to *)
(* the next worker.                                                        *)
(***************************************************************************)
Moves(r, s) == LifeOf(s) = LifeOf(r) \/ Lifecycle!Move(LifeOf(r), LifeOf(s))

USE DEF LifeOf, Lifecycle!Turned

\* claim
LEMMA ClaimMoves == ASSUME NEW r \in Row, r.status = "queued", NEW w \in Worker
                    PROVE  Moves(r, ClaimRow(r, w))
<1>1. /\ ClaimRow(r, w).status = "running"
      /\ ClaimRow(r, w).attempt = r.attempt + 1
      /\ ClaimRow(r, w).max_attempts = r.max_attempts
      /\ ClaimRow(r, w).cancel_requested = r.cancel_requested
  BY DEF ClaimRow, Row
<1> QED
  BY <1>1 DEF Moves, Lifecycle!Move, Lifecycle!Delivered

\* A run that settles: under a pending cancel only as canceled, save for the
\* raw succeed.
LEMMA EndMoves ==
  ASSUME NEW r, NEW m, r.status = "running",
         m.status \in IF r.cancel_requested THEN {"succeeded", "canceled"}
                                            ELSE {"succeeded", "failed"},
         m.attempt = r.attempt, m.max_attempts = r.max_attempts,
         m.cancel_requested = r.cancel_requested
  PROVE  Moves(r, m)
BY DEF Moves, Lifecycle!Move, Lifecycle!Finished

\* A run that goes back to the queue.
LEMMA RequeueMoves ==
  ASSUME NEW r, NEW m, r.status = "running", Requeueable(r),
         m.status = "queued", m.attempt = r.attempt,
         m.max_attempts = r.max_attempts,
         m.cancel_requested = r.cancel_requested
  PROVE  Moves(r, m)
BY DEF Moves, Lifecycle!Move, Lifecycle!Redelivered, Requeueable

\* complete and succeed
LEMMA CompleteMoves ==
  ASSUME NEW r \in Row, r.status = "running"
  PROVE  Moves(r, CompleteRow(r)) /\ Moves(r, SucceedRow(r))
<1> DEFINE c == CompleteRow(r)
           s == SucceedRow(r)
<1>1. /\ c.status = IF r.cancel_requested THEN "canceled" ELSE "succeeded"
      /\ c.attempt = r.attempt /\ c.max_attempts = r.max_attempts
      /\ c.cancel_requested = r.cancel_requested
  BY DEF CompleteRow, Row
<1>2. /\ s.status = "succeeded"
      /\ s.attempt = r.attempt /\ s.max_attempts = r.max_attempts
      /\ s.cancel_requested = r.cancel_requested
  BY DEF SucceedRow, Row
<1> HIDE DEF c, s
<1>3. Moves(r, c) /\ Moves(r, s)
  BY <1>1, <1>2, EndMoves
<1> QED
  BY <1>3 DEF c, s

\* fail
LEMMA FailMoves ==
  ASSUME NEW r \in Row, r.status = "running", NEW retryable \in BOOLEAN, NEW delay
  PROVE  Moves(r, FailRow(r, retryable, delay))
<1> DEFINE m == FailRow(r, retryable, delay)
<1>1. /\ m.attempt = r.attempt /\ m.max_attempts = r.max_attempts
      /\ m.cancel_requested = r.cancel_requested
  BY DEF FailRow, Requeued, Row
<1>2. CASE retryable /\ Requeueable(r)
  <2>1. m.status = "queued"
    BY <1>2 DEF FailRow, Requeued, Row
  <2> QED
    BY <1>1, <1>2, <2>1, RequeueMoves
<1>3. CASE ~(retryable /\ Requeueable(r))
  <2>1. m.status = IF r.cancel_requested THEN "canceled" ELSE "failed"
    BY <1>3 DEF FailRow, Row
  <2> QED
    BY <1>1, <2>1, EndMoves
<1> QED
  BY <1>2, <1>3

\* recover_leases, and the draw that may follow it in the same session
LEMMA RecoverMoves ==
  ASSUME NEW r \in Row, r.status = "running", NEW w \in Worker
  PROVE  /\ Moves(r, RecoverRow(r))
         /\ RecoverRow(r).status = "queued" =>
              Moves(r, ClaimRow(RecoverRow(r), w))
<1> DEFINE m == RecoverRow(r)
<1>1. /\ m.attempt = r.attempt /\ m.max_attempts = r.max_attempts
      /\ m.cancel_requested = r.cancel_requested
  BY DEF RecoverRow, Requeued, Row
<1>2. CASE Requeueable(r)
  <2>1. m.status = "queued"
    BY <1>2 DEF RecoverRow, Requeued, Row
  <2>2. /\ ClaimRow(m, w).status = "running"
        /\ ClaimRow(m, w).attempt = r.attempt + 1
        /\ ClaimRow(m, w).max_attempts = r.max_attempts
        /\ ClaimRow(m, w).cancel_requested = r.cancel_requested
    BY <1>2 DEF ClaimRow, RecoverRow, Requeued, Row
  <2>3. Moves(r, ClaimRow(m, w))
    BY <1>2, <2>2 DEF Moves, Requeueable, Lifecycle!Move, Lifecycle!Redelivered
  <2> QED
    BY <1>1, <1>2, <2>1, <2>3, RequeueMoves
<1>3. CASE ~Requeueable(r)
  <2>1. m.status = IF r.cancel_requested THEN "canceled" ELSE "failed"
    BY <1>3 DEF RecoverRow, Row
  <2> QED
    BY <1>1, <2>1, EndMoves
<1> QED
  BY <1>2, <1>3

\* cancel and retry
LEMMA CancelMoves == ASSUME NEW r \in Row, r.status \in Live
                     PROVE  Moves(r, CancelRow(r))
<1>1. CASE r.status = "queued"
  <2>1. LifeOf(CancelRow(r)) =
          [status |-> "canceled", attempt |-> r.attempt,
           budget |-> r.max_attempts, cancelling |-> r.cancel_requested]
    BY <1>1 DEF CancelRow, Row
  <2> QED
    BY <1>1, <2>1 DEF Moves, Lifecycle!Move, Lifecycle!Cancelled
<1>2. CASE r.status = "running"
  <2>1. LifeOf(CancelRow(r)) =
          [status |-> "running", attempt |-> r.attempt,
           budget |-> r.max_attempts, cancelling |-> TRUE]
    BY <1>2 DEF CancelRow, Row
  <2> QED
    BY <1>2, <2>1 DEF Moves, Lifecycle!Move, Lifecycle!Cancelled
<1> QED
  BY <1>1, <1>2 DEF Live

LEMMA RetryMoves == ASSUME NEW r \in Row, r.status \in {"failed", "canceled"},
                           NEW reset \in BOOLEAN
                    PROVE  Moves(r, RetryRow(r, reset))
<1> DEFINE m == RetryRow(r, reset)
<1>1. /\ m.status = "queued" /\ m.attempt \in {0, r.attempt}
      /\ m.max_attempts = r.max_attempts /\ m.cancel_requested = FALSE
  BY DEF RetryRow, Requeued, Row
<1> HIDE DEF m
<1>3. Moves(r, m)
  BY <1>1 DEF Moves, Lifecycle!Move, Lifecycle!Restarted
<1> QED
  BY <1>3 DEF m

\* insert_task and purge
LEMMA EdgeMoves ==
  ASSUME NEW r, NEW q, NEW n, NEW p, NEW m, NEW delay
  PROVE  /\ r.status = "unused" => Moves(r, NewRow(q, n, p, m, delay))
         /\ r.status \in Terminal => Moves(r, NoRow("purged"))
BY DEF Moves, NewRow, NoRow, Terminal, Lifecycle!Move, Lifecycle!Created,
       Lifecycle!Deleted, Lifecycle!Settled

-----------------------------------------------------------------------------
\* What a claim session does to one row.
LEMMA SessionMoves ==
  ASSUME NEW t \in Task, rows[t] \in Row, NEW w \in Worker
  PROVE  /\ Moves(rows[t], Recovered[t])
         /\ Recovered[t].status = "queued" =>
              Moves(rows[t], ClaimRow(Recovered[t], w))
<1>1. CASE Expired(rows[t])
  BY <1>1, RecoverMoves DEF Expired, Recovered
<1>2. CASE ~Expired(rows[t])
  <2>1. Recovered[t] = rows[t] /\ Moves(rows[t], rows[t])
    BY <1>2 DEF Recovered, Moves
  <2> QED
    BY <2>1, ClaimMoves
<1> QED
  BY <1>1, <1>2

\* Every operation moves every row by a move of the lifecycle, or not at all.
LEMMA NextMoves ==
  ASSUME TableInv, [Next]_vars
  PROVE  \A t \in Task : Moves(rows[t], rows'[t])
<1>a. rows \in [Task -> Row] /\ \A t \in Task : Moves(rows[t], rows[t])
  BY DEF TableInv, RowsInv, Moves
<1>b. ASSUME NEW t \in Task, NEW r, Moves(rows[t], r),
             rows' = [rows EXCEPT ![t] = r]
      PROVE  \A u \in Task : Moves(rows[u], rows'[u])
  BY <1>a, <1>b
<1>1. CASE UNCHANGED rows
  BY <1>a, <1>1
<1>2. CASE ClientNext
  <2>1. ASSUME NEW t \in Task, NEW q \in Queue, NEW n \in Name,
               NEW p \in Priorities, NEW m \in Budgets, NEW delay \in Delays,
               Submit(t, q, n, p, m, delay)
        PROVE  \A u \in Task : Moves(rows[u], rows'[u])
    BY <1>b, <2>1, EdgeMoves DEF Submit
  <2>2. ASSUME NEW t \in Task, NEW q \in Queue, NEW n \in Name,
               NEW p \in Priorities, NEW m \in Budgets, NEW delay \in Delays,
               NEW k \in Key, NEW c \in Conflict,
               SubmitKeyed(t, k, c, q, n, p, m, delay)
        PROVE  \A u \in Task : Moves(rows[u], rows'[u])
    <3> TAKE u \in Task
    <3>1. CASE u = t
      BY <2>2, <3>1, EdgeMoves DEF SubmitKeyed
    <3>2. CASE u # t /\ u = keys[k] /\ rows[u].status \in Live
      BY <1>a, <2>2, <3>2, CancelMoves DEF SubmitKeyed
    <3>3. CASE u # t /\ ~(u = keys[k] /\ rows[u].status \in Live)
      BY <1>a, <2>2, <3>3 DEF SubmitKeyed
    <3> QED
      BY <3>1, <3>2, <3>3
  <2>3. ASSUME NEW t \in Task, Cancel(t)
        PROVE  \A u \in Task : Moves(rows[u], rows'[u])
    BY <1>a, <1>b, <2>3, CancelMoves DEF Cancel
  <2>4. ASSUME NEW t \in Task, NEW reset \in BOOLEAN, Retry(t, reset)
        PROVE  \A u \in Task : Moves(rows[u], rows'[u])
    BY <1>a, <1>b, <2>4, RetryMoves DEF Retry
  <2>5. ASSUME NEW queues \in Filter(Queue), NEW statuses \in Filter(Terminal),
               NEW names \in Filter(Name), NEW age \in Ages,
               NEW limit \in DrawLimits,
               Purge(queues, statuses, names, age, limit)
        PROVE  \A u \in Task : Moves(rows[u], rows'[u])
    BY <1>a, <2>5, EdgeMoves DEF Purge, Draws, Purgeable
  <2> QED
    BY <1>2, <2>1, <2>2, <2>3, <2>4, <2>5 DEF ClientNext
<1>3. ASSUME NEW w \in Worker, NEW queues \in SUBSET Queue,
             NEW names \in SUBSET Name, NEW limit \in DrawLimits,
             Claim(w, queues, names, limit)
      PROVE  \A t \in Task : Moves(rows[t], rows'[t])
  BY <1>a, <1>3, SessionMoves DEF Claim, Draws, Claimable
<1>4. ASSUME NEW w \in Worker, NEW ts \in SUBSET Task, Heartbeat(w, ts)
      PROVE  \A t \in Task : Moves(rows[t], rows'[t])
  BY <1>a, <1>4 DEF Heartbeat, Moves, Row
<1>5. ASSUME NEW w \in Worker, NEW t \in Task, Progress(w, t)
      PROVE  \A u \in Task : Moves(rows[u], rows'[u])
  BY <1>a, <1>5 DEF Progress, Moves, Row
<1>6. ASSUME NEW w \in Worker, NEW t \in Task, Complete(w, t) \/ Succeed(w, t)
      PROVE  \A u \in Task : Moves(rows[u], rows'[u])
  BY <1>a, <1>b, <1>6, CompleteMoves DEF Complete, Succeed, Owns
<1>7. ASSUME NEW w \in Worker, NEW t \in Task, NEW retryable \in BOOLEAN,
             NEW delay \in Delays, Fail(w, t, retryable, delay)
      PROVE  \A u \in Task : Moves(rows[u], rows'[u])
  BY <1>a, <1>b, <1>7, FailMoves DEF Fail, Owns
<1> QED
  BY <1>1, <1>2, <1>3, <1>4, <1>5, <1>6, <1>7
     DEF Next, WorkerNext, Tick, vars

\* The table implements the lifecycle: in particular a task whose cancel was
\* requested while it ran is never run again, by failure, crash or recovery,
\* and a settled task changes only by a manual retry or by deletion.
THEOREM TableRefinesLifecycle == Spec => RefinesLifecycle
<1>1. Init => Lifecycle!Init
  BY DEF Init, Lifecycle!Init, Life, NoRow
<1>2. TableInv /\ [Next]_vars => [Lifecycle!Next]_Life
  <2> SUFFICES ASSUME TableInv, [Next]_vars
               PROVE  Lifecycle!Next
    OBVIOUS
  <2>1. \A t \in Task : Moves(rows[t], rows'[t])
    BY NextMoves
  <2> QED
    BY <2>1 DEF Lifecycle!Next, Life, Moves
<1> QED
  BY <1>1, <1>2, TableInvariant, PTL DEF Spec, RefinesLifecycle, Lifecycle!Spec

-----------------------------------------------------------------------------
(* The table as a waiting client sees it.  A statement that only touches     *)
(* live rows leaves them live or settles them; the others are looked at one  *)
(* by one.                                                                   *)

\* What is remembered of a row goes with it.
NonePurged == \A t \in replaced : t \in Task /\ rows[t].status # "purged"

\* A move of the lifecycle from a live row.
LEMMA LiveMoves ==
  ASSUME NEW r, NEW s, r.status \in Live, Moves(r, s)
  PROVE  s.status \in Live \cup Terminal
<1>1. LifeOf(s).status = s.status /\ LifeOf(r).status = r.status
  OBVIOUS
<1>2. CASE LifeOf(s) = LifeOf(r)
  BY <1>1, <1>2
<1>3. CASE Lifecycle!Move(LifeOf(r), LifeOf(s))
  BY <1>1, <1>3
     DEF Live, Terminal, Lifecycle!Move, Lifecycle!Created, Lifecycle!Delivered,
         Lifecycle!Redelivered, Lifecycle!Finished, Lifecycle!Cancelled,
         Lifecycle!Restarted, Lifecycle!Deleted, Lifecycle!Settled
<1> QED
  BY <1>2, <1>3 DEF Moves

\* Shown, row by row.
LEMMA Showing ==
  /\ Shown = [t \in Task |-> Shown[t]]
  /\ Shown' = [t \in Task |-> Shown'[t]]
  /\ \A t \in Task : /\ Shown[t] = Seen(rows[t].status)
                     /\ Shown'[t] = Seen(rows'[t].status)
BY DEF Shown

LEMMA SeenAs ==
  /\ \A s \in Live : Seen(s) = "live"
  /\ \A s \in Terminal : Seen(s) = "settled"
  /\ \A s \in {"unused", "purged"} : Seen(s) = s
BY DEF Seen, Live, Terminal

\* As long as no key moves, nothing is taken from one.
LEMMA RemembersAll ==
  ASSUME NonePurged, Remembers, UNCHANGED keys,
         \A t \in Task : rows'[t].status = "purged" => rows[t].status = "purged"
  PROVE  replaced' = replaced
<1>1. Ousted = {}
  BY DEF Ousted
<1> QED
  BY <1>1 DEF Remembers, NonePurged

\* Only live rows are touched: some of them may be settled by it.
LEMMA LiveRowsViewed ==
  ASSUME TableInv, [Next]_vars, NonePurged, Remembers, UNCHANGED keys,
         \A t \in Task : \/ rows[t].status \in Live
                         \/ rows'[t].status = rows[t].status
  PROVE  [View!ViewNext]_(View!view)
<1> DEFINE S == {t \in Task : Shown[t] # Shown'[t]}
<1>1. ASSUME NEW t \in Task
      PROVE  /\ Shown'[t] \in {Shown[t], "settled"}
             /\ Shown'[t] # Shown[t] => Shown[t] = "live"
             /\ rows'[t].status = "purged" => rows[t].status = "purged"
  <2>1. CASE rows[t].status \in Live
    <3>1. rows'[t].status \in Live \cup Terminal
      BY <2>1, NextMoves, LiveMoves
    <3>2. rows'[t].status # "purged"
      BY <3>1 DEF Live, Terminal
    <3> QED
      BY <2>1, <3>1, <3>2, Showing, SeenAs
  <2>2. CASE rows'[t].status = rows[t].status
    BY <2>2, Showing
  <2> QED
    BY <2>1, <2>2
<1>2. replaced' = replaced
  BY <1>1, RemembersAll
<1>3. CASE S = {}
  <2>1. Shown' = Shown
    <3>1. \A t \in Task : Shown'[t] = Shown[t]
      BY <1>3
    <3> HIDE DEF S
    <3> QED
      BY <3>1, Showing
  <2> QED
    BY <1>2, <2>1 DEF View!view
<1>4. CASE S # {}
  <2>1. \A t \in S : Shown[t] = "live"
    BY <1>1
  <2>2. Shown' = [t \in Task |-> IF t \in S THEN "settled" ELSE Shown[t]]
    <3>1. \A t \in Task : Shown'[t] = IF t \in S THEN "settled" ELSE Shown[t]
      BY <1>1
    <3> HIDE DEF S
    <3> QED
      BY <3>1, Showing
  <2>3. S \in SUBSET Task
    OBVIOUS
  <2> HIDE DEF S
  <2>4. View!Settles(S)
    BY <1>2, <1>4, <2>1, <2>2 DEF View!Settles
  <2> QED
    BY <2>3, <2>4 DEF View!ViewNext
<1> QED
  BY <1>3, <1>4

\* submit without a key, and retry
LEMMA OneRowViewed ==
  ASSUME TableInv, NonePurged, Remembers, UNCHANGED keys, NEW t \in Task, NEW r,
         rows' = [rows EXCEPT ![t] = r], r.status = "queued",
         rows[t].status \in {"unused"} \cup Terminal
  PROVE  View!Submitted(t) \/ View!Revives(t)
<1>a. rows \in [Task -> Row]
  BY DEF TableInv, RowsInv
<1>1. rows'[t] = r /\ \A u \in Task \ {t} : rows'[u] = rows[u]
  BY <1>a
<1>2. Shown'[t] = "live" /\ \A u \in Task \ {t} : Shown'[u] = Shown[u]
  BY <1>1, Showing, SeenAs DEF Live
<1>3. Shown' = [Shown EXCEPT ![t] = "live"]
  BY <1>2, Showing
<1>4. Shown[t] \in {"unused", "settled"}
  BY Showing, SeenAs
<1>5. replaced' = replaced
  BY <1>1, RemembersAll
<1> QED
  BY <1>3, <1>4, <1>5 DEF View!Submitted, View!Revives

\* submit with a key: whatever it cancels at once is what the key pointed at.
LEMMA KeyedSubmitViewed ==
  ASSUME TableInv, NonePurged, Remembers,
         NEW t \in Task, NEW q \in Queue, NEW n \in Name, NEW p \in Priorities,
         NEW m \in Budgets, NEW delay \in Delays, NEW k \in Key, NEW c \in Conflict,
         SubmitKeyed(t, k, c, q, n, p, m, delay)
  PROVE  View!SubmittedUnder(t, k)
<1> DEFINE u == keys[k]
<1>a. rows \in [Task -> Row] /\ keys \in [Key -> Task \cup {NoTask}]
  BY DEF TableInv, RowsInv
<1>b. \A j \in Key : keys[j] # NoTask => Present(keys[j])
  BY DEF TableInv, KeysPointAtRows
<1>c. rows[t].status = "unused" /\ keys' = [keys EXCEPT ![k] = t]
  BY DEF SubmitKeyed
<1>1. /\ rows'[t].status = "queued"
      /\ \A v \in Task \ {t} :
           rows'[v] = IF v = u /\ rows[v].status \in Live THEN CancelRow(rows[v])
                                                          ELSE rows[v]
  BY DEF SubmitKeyed, NewRow
<1>2. u # t
  BY <1>b, <1>c, IdsAreDistinct DEF Present
<1>3. \A j \in Key : keys[j] # keys'[j] => j = k
  BY <1>a, <1>c
<1>4. Shown[t] = "unused" /\ Shown'[t] = "live"
  BY <1>1, <1>c, Showing, SeenAs DEF Live
<1>5. \A v \in Task \ {t} : v # u => rows'[v] = rows[v] /\ Shown'[v] = Shown[v]
  BY <1>1, Showing
<1>6. CASE u \in Task /\ rows[u].status = "queued"
  <2>1. rows'[u].status = "canceled"
    <3>1. rows'[u] = CancelRow(rows[u])
      BY <1>1, <1>2, <1>6 DEF Live
    <3> QED
      BY <1>a, <1>6, <3>1 DEF CancelRow, Row
  <2>2. Ousted = {u}
    <3>1. u \in Ousted
      BY <1>2, <1>6, <1>a, <1>c, <2>1 DEF Ousted
    <3>2. \A v \in Ousted : v = u
      BY <1>3 DEF Ousted
    <3> QED
      BY <3>1, <3>2
  <2>3. replaced' = replaced \cup {u}
    <3>1. \A v \in replaced \cup {u} : rows'[v].status # "purged"
      BY <1>1, <1>5, <2>1 DEF NonePurged
    <3> QED
      BY <2>2, <3>1 DEF Remembers
  <2>4. Shown[u] = "live" /\ Shown'[u] = "settled"
    BY <1>6, <2>1, Showing, SeenAs DEF Live, Terminal
  <2>5. Shown' = [Shown EXCEPT ![t] = "live", ![u] = "settled"]
    BY <1>2, <1>4, <1>5, <1>6, <2>4, Showing
  <2>6. u # NoTask
    BY <1>6, IdsAreDistinct
  <2> QED
    BY <1>4, <1>c, <2>3, <2>4, <2>5, <2>6 DEF View!SubmittedUnder
<1>7. CASE ~(u \in Task /\ rows[u].status = "queued")
  <2>1. \A v \in Task \ {t} : /\ Shown'[v] = Shown[v]
                              /\ rows'[v].status = rows[v].status
    <3> TAKE v \in Task \ {t}
    <3>1. CASE v = u /\ rows[v].status \in Live
      <4>1. rows[v].status = "running" /\ rows'[v] = CancelRow(rows[v])
        BY <1>1, <1>7, <3>1 DEF Live
      <4>2. rows'[v].status = "running"
        BY <1>a, <4>1 DEF CancelRow, Row
      <4> QED
        BY <4>1, <4>2, Showing
    <3>2. CASE ~(v = u /\ rows[v].status \in Live)
      BY <1>1, <3>2, Showing
    <3> QED
      BY <3>1, <3>2
  <2>2. Ousted = {}
    <3> SUFFICES ASSUME NEW v \in Ousted PROVE FALSE
      OBVIOUS
    <3>1. v \in Task /\ rows[v].status = "queued" /\ rows'[v].status = "canceled"
      BY DEF Ousted
    <3> QED
      BY <1>c, <2>1, <3>1
  <2>3. replaced' = replaced
    <3>1. \A v \in replaced : rows'[v].status # "purged"
      BY <1>1, <2>1 DEF NonePurged
    <3> QED
      BY <2>2, <3>1 DEF Remembers
  <2>4. Shown' = [Shown EXCEPT ![t] = "live"]
    BY <1>4, <2>1, Showing
  <2> QED
    BY <1>4, <1>c, <2>3, <2>4 DEF View!SubmittedUnder
<1> QED
  BY <1>6, <1>7

\* purge
LEMMA PurgeViewed ==
  ASSUME TableInv, NonePurged, Remembers, NEW S \in SUBSET Task, S # {},
         \A t \in S : rows[t].status \in Terminal,
         rows' = [t \in Task |-> IF t \in S THEN NoRow("purged") ELSE rows[t]],
         keys' = Cascade(S)
  PROVE  View!Purged(S)
<1>1. /\ \A t \in S : rows'[t].status = "purged"
      /\ \A t \in Task \ S : rows'[t] = rows[t]
  BY DEF NoRow
<1>2. /\ \A t \in S : Shown[t] = "settled" /\ Shown'[t] = "purged"
      /\ \A t \in Task \ S : Shown'[t] = Shown[t]
  <2>1. \A t \in S : Shown[t] = "settled"
    BY Showing, SeenAs
  <2>2. \A t \in S : Shown'[t] = "purged"
    BY <1>1, Showing, SeenAs
  <2>3. \A t \in Task \ S : Shown'[t] = Shown[t]
    BY <1>1, Showing
  <2> QED
    BY <2>1, <2>2, <2>3
<1>3. Shown' = [t \in Task |-> IF t \in S THEN "purged" ELSE Shown[t]]
  BY <1>2, Showing
<1>4. Ousted = {}
  BY <1>1 DEF Ousted
<1>5. replaced' = replaced \ S
  BY <1>1, <1>4 DEF Remembers, NonePurged
<1> QED
  BY <1>2, <1>3, <1>5 DEF View!Purged, Cascade

\* Every step of the table is a move of the view, or none.
LEMMA StepIsViewed ==
  ASSUME TableInv, [Next]_vars, NonePurged, Remembers
  PROVE  [View!ViewNext]_(View!view)
<1>a. rows \in [Task -> Row]
  BY DEF TableInv, RowsInv
<1>1. CASE UNCHANGED <<rows, keys>>
  BY <1>1, LiveRowsViewed
<1>2. CASE ClientNext
  <2>1. ASSUME NEW t \in Task, NEW q \in Queue, NEW n \in Name,
               NEW p \in Priorities, NEW m \in Budgets, NEW delay \in Delays,
               Submit(t, q, n, p, m, delay)
        PROVE  View!ViewNext
    <3>1. NewRow(q, n, p, m, delay).status = "queued"
      BY DEF NewRow
    <3>2. View!Submitted(t) \/ View!Revives(t)
      BY <2>1, <3>1, OneRowViewed DEF Submit
    <3> QED
      BY <3>2 DEF View!ViewNext
  <2>2. ASSUME NEW t \in Task, NEW q \in Queue, NEW n \in Name,
               NEW p \in Priorities, NEW m \in Budgets, NEW delay \in Delays,
               NEW k \in Key, NEW c \in Conflict,
               SubmitKeyed(t, k, c, q, n, p, m, delay)
        PROVE  View!ViewNext
    <3>1. View!SubmittedUnder(t, k)
      BY <2>2, KeyedSubmitViewed
    <3> QED
      BY <3>1 DEF View!ViewNext
  <2>3. ASSUME NEW t \in Task, Cancel(t)
        PROVE  [View!ViewNext]_(View!view)
    <3>1. UNCHANGED keys /\ \A u \in Task : \/ rows[u].status \in Live
                                            \/ rows'[u].status = rows[u].status
      BY <1>a, <2>3 DEF Cancel
    <3> QED
      BY <3>1, LiveRowsViewed
  <2>4. ASSUME NEW t \in Task, NEW reset \in BOOLEAN, Retry(t, reset)
        PROVE  View!ViewNext
    <3>1. RetryRow(rows[t], reset).status = "queued"
      BY <1>a DEF RetryRow, Requeued, Row
    <3>2. /\ rows' = [rows EXCEPT ![t] = RetryRow(rows[t], reset)]
          /\ UNCHANGED keys /\ rows[t].status \in Terminal
      BY <1>a, <2>4 DEF Retry, Terminal
    <3>3. View!Submitted(t) \/ View!Revives(t)
      BY <3>1, <3>2, OneRowViewed
    <3> QED
      BY <3>3 DEF View!ViewNext
  <2>5. ASSUME NEW queues \in Filter(Queue), NEW statuses \in Filter(Terminal),
               NEW names \in Filter(Name), NEW age \in Ages,
               NEW limit \in DrawLimits,
               Purge(queues, statuses, names, age, limit)
        PROVE  View!ViewNext
    <3>1. PICK S \in SUBSET Task :
            /\ S # {} /\ \A t \in S : rows[t].status \in Terminal
            /\ rows' = [t \in Task |-> IF t \in S THEN NoRow("purged") ELSE rows[t]]
            /\ keys' = Cascade(S)
      BY <2>5 DEF Purge, Draws, Purgeable
    <3>2. View!Purged(S)
      BY <3>1, PurgeViewed
    <3> QED
      BY <3>2 DEF View!ViewNext
  <2> QED
    BY <1>2, <2>1, <2>2, <2>3, <2>4, <2>5 DEF ClientNext
<1>3. ASSUME NEW w \in Worker, NEW queues \in SUBSET Queue,
             NEW names \in SUBSET Name, NEW limit \in DrawLimits,
             Claim(w, queues, names, limit)
      PROVE  [View!ViewNext]_(View!view)
  <2>1. UNCHANGED keys /\ \A t \in Task : \/ rows[t].status \in Live
                                          \/ rows'[t] = rows[t]
    BY <1>3 DEF Claim, Draws, Claimable, Recovered, Expired, Live
  <2> QED
    BY <2>1, LiveRowsViewed
<1>4. ASSUME NEW w \in Worker,
             \/ \E ts \in SUBSET Task : Heartbeat(w, ts)
             \/ \E t \in Task :
                  \/ Progress(w, t) \/ Complete(w, t) \/ Succeed(w, t)
                  \/ \E retryable \in BOOLEAN, delay \in Delays :
                       Fail(w, t, retryable, delay)
      PROVE  [View!ViewNext]_(View!view)
  <2>1. UNCHANGED keys /\ \A t \in Task : \/ rows[t].status \in Live
                                          \/ rows'[t] = rows[t]
    BY <1>4, <1>a DEF Heartbeat, Progress, Complete, Succeed, Fail, Owns, Live
  <2> QED
    BY <2>1, LiveRowsViewed
<1> QED
  BY <1>1, <1>2, <1>3, <1>4 DEF Next, WorkerNext, Tick, vars

\* The table implements the view that the wait loop is proved over: what a
\* client waits on moves as the statements move it, a keyed replacement in one
\* step, a recovery or a purge of many rows in one step, and no other way.
THEOREM TableImplementsView == Spec /\ History => TableIsViewed
<1>1. Init /\ replaced = {} => View!ViewInit /\ NonePurged
  BY SeenAs DEF Init, NoRow, View!ViewInit, NonePurged, Shown
<1>2. NonePurged /\ TableInv /\ [Next]_vars /\ [Remembers]_<<vars, replaced>>
        => NonePurged'
  BY DEF NonePurged, Remembers, Ousted, vars
<1>3. /\ NonePurged /\ TableInv /\ [Next]_vars /\ [Remembers]_<<vars, replaced>>
      => [View!ViewNext]_(View!view)
  <2>1. CASE UNCHANGED <<vars, replaced>>
    BY <2>1 DEF vars, View!view, Shown
  <2>2. CASE Remembers
    BY <2>2, StepIsViewed
  <2> QED
    BY <2>1, <2>2
<1> QED
  BY <1>1, <1>2, <1>3, TableInvariant, PTL
     DEF Spec, History, TableIsViewed, View!ViewSpec

-----------------------------------------------------------------------------
\* What LiveLeaseHolds says of a row and what a step makes of it.
Held(r, s) == /\ s.status # "purged"
              /\ s.attempt = r.attempt
              /\ s.worker_id \in {r.worker_id, NoWorker}

\* No statement that can touch a running row takes it from its owner.
LEMMA RunningHeld ==
  ASSUME NEW r \in Row, r.status = "running"
  PROVE  /\ Held(r, r) /\ Held(r, CompleteRow(r)) /\ Held(r, SucceedRow(r))
         /\ Held(r, CancelRow(r)) /\ Held(r, [r EXCEPT !.progress = r.attempt])
         /\ \A retryable \in BOOLEAN : \A delay : Held(r, FailRow(r, retryable, delay))
         /\ \A lease : Held(r, [r EXCEPT !.lease_until = lease])
<1>1. Held(r, CompleteRow(r)) /\ Held(r, SucceedRow(r))
  BY DEF Held, CompleteRow, SucceedRow, Row
<1>2. \A retryable \in BOOLEAN : \A delay : Held(r, FailRow(r, retryable, delay))
  BY DEF Held, FailRow, Requeued, Row
<1>3. Held(r, r) /\ Held(r, CancelRow(r))
  BY DEF Held, CancelRow, Row
<1>4. /\ \A lease : Held(r, [r EXCEPT !.lease_until = lease])
      /\ Held(r, [r EXCEPT !.progress = r.attempt])
  BY DEF Held, Row
<1> QED
  BY <1>1, <1>2, <1>3, <1>4

LEMMA NextHolds ==
  ASSUME TableInv, [Next]_vars, NEW t \in Task,
         rows[t].status = "running", rows[t].lease_until > now
  PROVE  Held(rows[t], rows'[t])
<1>a. /\ rows \in [Task -> Row] /\ now \in Nat
      /\ rows[t].lease_until \in Nat
  BY DEF TableInv, RowsInv, Row, Time, Null
<1>b. Recovered[t] = rows[t]
  BY <1>a DEF Recovered, Expired
<1>1. CASE UNCHANGED rows
  BY <1>a, <1>1, RunningHeld
<1>2. CASE ClientNext
  <2>1. ASSUME NEW u \in Task, NEW q \in Queue, NEW n \in Name,
               NEW p \in Priorities, NEW m \in Budgets, NEW delay \in Delays,
               \/ Submit(u, q, n, p, m, delay)
               \/ \E k \in Key, c \in Conflict :
                    SubmitKeyed(u, k, c, q, n, p, m, delay)
        PROVE  Held(rows[t], rows'[t])
    <3>1. rows'[t] \in {rows[t], CancelRow(rows[t])}
      BY <1>a, <2>1 DEF Submit, SubmitKeyed
    <3> QED
      BY <1>a, <3>1, RunningHeld
  <2>2. ASSUME NEW u \in Task, Cancel(u) \/ \E reset \in BOOLEAN : Retry(u, reset)
        PROVE  Held(rows[t], rows'[t])
    <3>1. rows'[t] \in {rows[t], CancelRow(rows[t])}
      BY <1>a, <2>2 DEF Cancel, Retry
    <3> QED
      BY <1>a, <3>1, RunningHeld
  <2>3. ASSUME NEW queues \in Filter(Queue), NEW statuses \in Filter(Terminal),
               NEW names \in Filter(Name), NEW age \in Ages,
               NEW limit \in DrawLimits,
               Purge(queues, statuses, names, age, limit)
        PROVE  Held(rows[t], rows'[t])
    <3>1. rows'[t] = rows[t]
      BY <2>3 DEF Purge, Draws, Purgeable, Terminal
    <3> QED
      BY <1>a, <3>1, RunningHeld
  <2> QED
    BY <1>2, <2>1, <2>2, <2>3 DEF ClientNext
<1>3. ASSUME NEW w \in Worker, NEW queues \in SUBSET Queue,
             NEW names \in SUBSET Name, NEW limit \in DrawLimits,
             Claim(w, queues, names, limit)
      PROVE  Held(rows[t], rows'[t])
  <2>1. rows'[t] = rows[t]
    BY <1>b, <1>3 DEF Claim, Draws, Claimable
  <2> QED
    BY <1>a, <2>1, RunningHeld
<1>4. ASSUME NEW w \in Worker, NEW ts \in SUBSET Task, Heartbeat(w, ts)
      PROVE  Held(rows[t], rows'[t])
  BY <1>a, <1>4, RunningHeld DEF Heartbeat
<1>5. ASSUME NEW w \in Worker, NEW u \in Task,
             Progress(w, u) \/ Complete(w, u) \/ Succeed(w, u)
      PROVE  Held(rows[t], rows'[t])
  <2>1. rows'[t] \in {rows[t], [rows[t] EXCEPT !.progress = rows[t].attempt],
                      CompleteRow(rows[t]), SucceedRow(rows[t])}
    BY <1>a, <1>5 DEF Progress, Complete, Succeed
  <2> QED
    BY <1>a, <2>1, RunningHeld
<1>6. ASSUME NEW w \in Worker, NEW u \in Task, NEW retryable \in BOOLEAN,
             NEW delay \in Delays, Fail(w, u, retryable, delay)
      PROVE  Held(rows[t], rows'[t])
  <2>1. rows'[t] \in {rows[t], FailRow(rows[t], retryable, delay)}
    BY <1>a, <1>6 DEF Fail
  <2> QED
    BY <1>a, <2>1, RunningHeld
<1> QED
  BY <1>1, <1>2, <1>3, <1>4, <1>5, <1>6 DEF Next, WorkerNext, Tick, vars

\* What LiveLeaseHolds allows of a row whose lease is over.
Lapsed(r, s) == \/ s \in {r, CancelRow(r), RecoverRow(r)}
                \/ s.attempt = r.attempt + 1

\* A draw from the recovered table counts one delivery of the row.
LEMMA DrawsCount ==
  ASSUME NEW t \in Task, rows[t] \in Row, NEW w \in Worker
  PROVE  ClaimRow(Recovered[t], w).attempt = rows[t].attempt + 1
<1>1. Recovered[t] \in {rows[t], RecoverRow(rows[t])}
  BY DEF Recovered
<1>2. ClaimRow(rows[t], w).attempt = rows[t].attempt + 1
  BY DEF ClaimRow, Row
<1>3. ClaimRow(RecoverRow(rows[t]), w).attempt = rows[t].attempt + 1
  BY DEF ClaimRow, RecoverRow, Requeued, Row
<1> QED
  BY <1>1, <1>2, <1>3

\* Once the lease is over no write of the owner finds the row: only a cancel
\* and the recovery, with or without the draw that follows it, move it.
LEMMA NextLapses ==
  ASSUME TableInv, [Next]_vars, NEW t \in Task,
         rows[t].status = "running", ~(rows[t].lease_until > now)
  PROVE  Lapsed(rows[t], rows'[t])
<1>a. rows \in [Task -> Row] /\ rows[t] \in Row
  BY DEF TableInv, RowsInv
<1>b. \A w \in Worker : ~Owns(w, t)
  BY DEF Owns
<1>1. CASE UNCHANGED rows
  BY <1>1 DEF Lapsed
<1>2. CASE ClientNext
  <2>1. ASSUME NEW u \in Task, NEW q \in Queue, NEW n \in Name,
               NEW p \in Priorities, NEW m \in Budgets, NEW delay \in Delays,
               \/ Submit(u, q, n, p, m, delay)
               \/ \E k \in Key, c \in Conflict :
                    SubmitKeyed(u, k, c, q, n, p, m, delay)
        PROVE  rows'[t] \in {rows[t], CancelRow(rows[t])}
    BY <1>a, <2>1 DEF Submit, SubmitKeyed
  <2>2. ASSUME NEW u \in Task, Cancel(u) \/ \E reset \in BOOLEAN : Retry(u, reset)
        PROVE  rows'[t] \in {rows[t], CancelRow(rows[t])}
    BY <1>a, <2>2 DEF Cancel, Retry
  <2>3. ASSUME NEW queues \in Filter(Queue), NEW statuses \in Filter(Terminal),
               NEW names \in Filter(Name), NEW age \in Ages,
               NEW limit \in DrawLimits,
               Purge(queues, statuses, names, age, limit)
        PROVE  rows'[t] = rows[t]
    BY <2>3 DEF Purge, Draws, Purgeable, Terminal
  <2>4. rows'[t] \in {rows[t], CancelRow(rows[t])}
    BY <1>2, <2>1, <2>2, <2>3 DEF ClientNext
  <2> QED
    BY <2>4 DEF Lapsed
<1>3. ASSUME NEW w \in Worker, NEW queues \in SUBSET Queue,
             NEW names \in SUBSET Name, NEW limit \in DrawLimits,
             Claim(w, queues, names, limit)
      PROVE  Lapsed(rows[t], rows'[t])
  <2>1. rows'[t] \in {Recovered[t], ClaimRow(Recovered[t], w)}
    BY <1>3 DEF Claim
  <2>2. Recovered[t] \in {rows[t], RecoverRow(rows[t])}
    BY DEF Recovered
  <2> QED
    BY <1>a, <2>1, <2>2, DrawsCount DEF Lapsed
<1>4. ASSUME NEW w \in Worker, NEW ts \in SUBSET Task, Heartbeat(w, ts)
      PROVE  rows'[t] = rows[t]
  BY <1>b, <1>4 DEF Heartbeat
<1>5. ASSUME NEW w \in Worker, NEW u \in Task,
             \/ Progress(w, u) \/ Complete(w, u) \/ Succeed(w, u)
             \/ \E retryable \in BOOLEAN, delay \in Delays :
                  Fail(w, u, retryable, delay)
      PROVE  rows'[t] = rows[t]
  <2>1. u # t
    BY <1>b, <1>5 DEF Progress, Complete, Succeed, Fail
  <2> QED
    BY <1>a, <1>5, <2>1 DEF Progress, Complete, Succeed, Fail
<1> QED
  BY <1>1, <1>2, <1>3, <1>4, <1>5 DEF Next, WorkerNext, Tick, vars, Lapsed

\* A live lease holds against every other caller of the table, and one that
\* is over leaves the row to a cancel and to the next recovery.
THEOREM LeasesHold == Spec => LiveLeaseHolds
<1>1. TableInv /\ [Next]_vars =>
        \A t \in Task : rows[t].status = "running" =>
          IF rows[t].lease_until > now THEN Held(rows[t], rows'[t])
                                       ELSE Lapsed(rows[t], rows'[t])
  BY NextHolds, NextLapses
<1>2. TableInv /\ [Next]_vars =>
        \A t \in Task : rows[t].status = "running" =>
          IF rows[t].lease_until > now
          THEN /\ rows'[t].status # "purged"
               /\ rows'[t].attempt = rows[t].attempt
               /\ rows'[t].worker_id \in {rows[t].worker_id, NoWorker}
          ELSE \/ rows'[t] \in {rows[t], CancelRow(rows[t]), RecoverRow(rows[t])}
               \/ rows'[t].attempt = rows[t].attempt + 1
  BY <1>1 DEF Held, Lapsed
<1> QED
  BY <1>2, TableInvariant, PTL DEF Spec, LiveLeaseHolds
-----------------------------------------------------------------------------
(* A claim passes over nothing that is due.                                *)

\* No statement but the claim's counts a delivery.
LEMMA NoneCounts ==
  ASSUME NEW r \in Row
  PROVE  /\ r.attempt # r.attempt + 1
         /\ CompleteRow(r).attempt # r.attempt + 1
         /\ SucceedRow(r).attempt # r.attempt + 1
         /\ CancelRow(r).attempt # r.attempt + 1
         /\ [r EXCEPT !.progress = r.attempt].attempt # r.attempt + 1
         /\ \A retryable \in BOOLEAN : \A delay :
              FailRow(r, retryable, delay).attempt # r.attempt + 1
         /\ \A reset \in BOOLEAN : RetryRow(r, reset).attempt # r.attempt + 1
         /\ \A lease : [r EXCEPT !.lease_until = lease].attempt # r.attempt + 1
<1>1. r.attempt \in Nat
  BY DEF Row
<1>2. /\ CompleteRow(r).attempt = r.attempt /\ SucceedRow(r).attempt = r.attempt
      /\ CancelRow(r).attempt = r.attempt
      /\ [r EXCEPT !.progress = r.attempt].attempt = r.attempt
  BY DEF Row, CompleteRow, SucceedRow, CancelRow
<1>3. \A retryable \in BOOLEAN : \A delay :
        FailRow(r, retryable, delay).attempt = r.attempt
  BY DEF Row, FailRow, Requeued
<1>4. \A reset \in BOOLEAN : RetryRow(r, reset).attempt \in {0, r.attempt}
  BY DEF Row, RetryRow, Requeued
<1>5. \A lease : [r EXCEPT !.lease_until = lease].attempt = r.attempt
  BY DEF Row
<1> QED
  BY <1>1, <1>2, <1>3, <1>4, <1>5

LEMMA OnlyClaimsCount ==
  ASSUME TableInv, [Next]_vars, NEW t \in Task,
         rows'[t].attempt = rows[t].attempt + 1
  PROVE  \E w \in Worker, queues \in SUBSET Queue, names \in SUBSET Name,
            limit \in DrawLimits : Claim(w, queues, names, limit)
<1>a. rows \in [Task -> Row] /\ rows[t] \in Row /\ rows[t].attempt \in Nat
  BY DEF TableInv, RowsInv, Row
<1>1. ~UNCHANGED rows
  BY <1>a
<1>2. CASE ClientNext
  <2>1. ASSUME NEW u \in Task, NEW q \in Queue, NEW n \in Name,
               NEW p \in Priorities, NEW m \in Budgets, NEW delay \in Delays,
               \/ Submit(u, q, n, p, m, delay)
               \/ \E k \in Key, c \in Conflict :
                    SubmitKeyed(u, k, c, q, n, p, m, delay)
        PROVE  FALSE
    <3>1. rows'[t] \in {rows[t], CancelRow(rows[t]), NewRow(q, n, p, m, delay)}
      BY <1>a, <2>1 DEF Submit, SubmitKeyed
    <3>2. NewRow(q, n, p, m, delay).attempt = 0
      BY DEF NewRow
    <3> QED
      BY <1>a, <3>1, <3>2, NoneCounts
  <2>2. ASSUME NEW u \in Task, Cancel(u) \/ \E reset \in BOOLEAN : Retry(u, reset)
        PROVE  FALSE
    <3>1. \/ rows'[t] \in {rows[t], CancelRow(rows[t])}
          \/ \E reset \in BOOLEAN : rows'[t] = RetryRow(rows[t], reset)
      BY <1>a, <2>2 DEF Cancel, Retry
    <3> QED
      BY <1>a, <3>1, NoneCounts
  <2>3. ASSUME NEW queues \in Filter(Queue), NEW statuses \in Filter(Terminal),
               NEW names \in Filter(Name), NEW age \in Ages,
               NEW limit \in DrawLimits,
               Purge(queues, statuses, names, age, limit)
        PROVE  FALSE
    <3>1. rows'[t] \in {rows[t], NoRow("purged")}
      BY <2>3 DEF Purge
    <3>2. NoRow("purged").attempt = 0
      BY DEF NoRow
    <3> QED
      BY <1>a, <3>1, <3>2
  <2> QED
    BY <1>2, <2>1, <2>2, <2>3 DEF ClientNext
<1>3. ASSUME NEW w \in Worker, NEW ts \in SUBSET Task, Heartbeat(w, ts)
      PROVE  FALSE
  BY <1>a, <1>3, NoneCounts DEF Heartbeat
<1>4. ASSUME NEW w \in Worker, NEW u \in Task,
             Progress(w, u) \/ Complete(w, u) \/ Succeed(w, u)
      PROVE  FALSE
  <2>1. rows'[t] \in {rows[t], [rows[t] EXCEPT !.progress = rows[t].attempt],
                      CompleteRow(rows[t]), SucceedRow(rows[t])}
    BY <1>a, <1>4 DEF Progress, Complete, Succeed
  <2> QED
    BY <1>a, <2>1, NoneCounts
<1>5. ASSUME NEW w \in Worker, NEW u \in Task, NEW retryable \in BOOLEAN,
             NEW delay \in Delays, Fail(w, u, retryable, delay)
      PROVE  FALSE
  <2>1. rows'[t] \in {rows[t], FailRow(rows[t], retryable, delay)}
    BY <1>a, <1>5 DEF Fail
  <2> QED
    BY <1>a, <2>1, NoneCounts
<1> QED
  BY <1>1, <1>2, <1>3, <1>4, <1>5 DEF Next, WorkerNext, Tick, vars

\* The rows a claim may draw from hold every due row of the names it asks for,
\* and what it leaves comes before nothing it takes.
LEMMA ClaimTakesFirst ==
  ASSUME TableInv, NEW w \in Worker, NEW queues, NEW names, NEW limit,
         Claim(w, queues, names, limit), NEW t \in Task, NEW u \in Task,
         rows'[t].attempt = rows[t].attempt + 1,
         Recovered[u].status = "queued", Recovered[u].run_at <= now,
         rows[u].queue = rows[t].queue, rows[u].name = rows[t].name,
         \/ rows[u].priority > rows[t].priority
         \/ /\ rows[u].priority = rows[t].priority
            /\ Recovered[u].run_at < Recovered[t].run_at
  PROVE  rows'[u].attempt = rows[u].attempt + 1
<1> DEFINE RunsBefore(a, b) == Before(Recovered[a], Recovered[b])
<1>1. PICK S \in Draws(Claimable(Recovered, queues, names), limit, RunsBefore) :
        rows' = [v \in Task |-> IF v \in S THEN ClaimRow(Recovered[v], w)
                                           ELSE Recovered[v]]
  BY DEF Claim
<1>2. /\ S \subseteq Claimable(Recovered, queues, names)
      /\ \A s \in S, v \in Claimable(Recovered, queues, names) \ S :
           ~Before(Recovered[v], Recovered[s])
  BY DEF Draws
<1>3. rows[t] \in Row /\ rows[u] \in Row
  BY DEF TableInv, RowsInv
<1>4. /\ Recovered[t].attempt = rows[t].attempt
      /\ Recovered[t].queue = rows[t].queue /\ Recovered[t].name = rows[t].name
      /\ Recovered[t].priority = rows[t].priority
  BY <1>3 DEF Recovered, RecoverRow, Requeued, Row
<1>5. t \in S
  BY <1>1, <1>3, <1>4, NoneCounts
<1>6. /\ Recovered[u].queue = rows[u].queue /\ Recovered[u].name = rows[u].name
      /\ Recovered[u].priority = rows[u].priority
  BY <1>3 DEF Recovered, RecoverRow, Requeued, Row
<1>7. u \in Claimable(Recovered, queues, names)
  BY <1>2, <1>4, <1>5, <1>6 DEF Claimable
<1>8. Before(Recovered[u], Recovered[t])
  BY <1>4, <1>6 DEF Before
<1>9. u \in S
  BY <1>2, <1>5, <1>7, <1>8
<1> QED
  BY <1>1, <1>3, <1>9, DrawsCount

\* Due work of the same queue and name, the runs whose lease is over included,
\* is delivered in order, whatever the number of tasks, priorities and names.
THEOREM ClaimsKeepOrder == Spec => ClaimInOrder
<1>1. TableInv /\ [Next]_vars =>
        \A t, u \in Task :
          /\ rows'[t].attempt = rows[t].attempt + 1
          /\ Recovered[u].status = "queued" /\ Recovered[u].run_at <= now
          /\ rows[u].queue = rows[t].queue /\ rows[u].name = rows[t].name
          /\ \/ rows[u].priority > rows[t].priority
             \/ /\ rows[u].priority = rows[t].priority
                /\ Recovered[u].run_at < Recovered[t].run_at
          => rows'[u].attempt = rows[u].attempt + 1
  BY OnlyClaimsCount, ClaimTakesFirst
<1> QED
  BY <1>1, TableInvariant, PTL DEF Spec, ClaimInOrder
===============================================================================
