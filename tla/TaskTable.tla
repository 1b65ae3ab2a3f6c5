------------------------------ MODULE TaskTable ------------------------------
(***************************************************************************)
(* The durable task table: the canonical SQL statements of                 *)
(* cairnq-protocol/sql, run by the store methods of cairnq/store/base.py.  *)
(*                                                                         *)
(* One action is one store call at the grain the database serializes it:   *)
(* a write statement is atomic, and a claim session (recovery and draw) or *)
(* a keyed submit is one transaction.  Every caller, client or worker,     *)
(* reaches the others only through these rows.                             *)
(*                                                                         *)
(* A row that is not in the table has status "unused" (its id was never    *)
(* issued) or "purged" (it was deleted; a ULID is never issued again).     *)
(***************************************************************************)
EXTENDS Integers, FiniteSets

CONSTANTS
  Task,         \* task ids
  Worker,       \* worker ids
  NoWorker,     \* the null of worker_id
  Key,          \* business keys
  NoTask,       \* the null of a key pointer
  Queue,        \* queue names
  Name,         \* task names
  Priorities,   \* values of priority offered to submit
  Budgets,      \* values of max_attempts offered to submit
  Delays,       \* submit and backoff delays, in ticks
  Ages,         \* retention ages offered to purge, in ticks
  DrawLimits,   \* limits offered to claim and purge
  LeaseTicks,   \* lease_ms, in ticks
  MaxNow,       \* bound: the last instant of the clock
  MaxAttempt    \* bound: manual retries stop once attempt reached it

ASSUME IdsAreDistinct == NoWorker \notin Worker /\ NoTask \notin Task
ASSUME SubmitInputs ==
  /\ Priorities \subseteq Int
  /\ Budgets \subseteq Nat \ {0}
  /\ Delays \subseteq Nat
ASSUME LeaseIsPositive == LeaseTicks \in Nat \ {0}
ASSUME SomeQueueAndName == Queue # {} /\ Name # {}
ASSUME ClockInputs == Ages \subseteq Nat /\ DrawLimits \subseteq Nat

VARIABLES
  rows,   \* cairnq_tasks: one record per id
  keys,   \* cairnq_task_keys: the task each key points at
  now     \* the clock every statement binds as now_ms

vars == <<rows, keys, now>>

-----------------------------------------------------------------------------
(* Rows.  A time column that is null is Null.  progress, error and result  *)
(* are kept as the number of the attempt that wrote them, 0 for null, so   *)
(* that a stale value can be told from a current one.                      *)

Null == -1
Time == Nat \cup {Null}

Terminal == {"succeeded", "failed", "canceled"}
Live == {"queued", "running"}
Status == Live \cup Terminal \cup {"unused", "purged"}

Row == [status : Status, queue : Queue, name : Name, priority : Int,
        attempt : Nat, max_attempts : Nat \ {0},
        worker_id : Worker \cup {NoWorker}, lease_until : Time, run_at : Nat,
        cancel_requested : BOOLEAN, completed_at : Time,
        result : Nat, error : Nat, progress : Nat,
        floor : Nat]   \* history: attempt when it was last (re)submitted

Present(t) == rows[t].status \notin {"unused", "purged"}

\* insert_task: the columns it names, and the defaults of the others.
NewRow(q, n, p, m, delay) ==
  [status |-> "queued", queue |-> q, name |-> n, priority |-> p,
   attempt |-> 0, max_attempts |-> m, worker_id |-> NoWorker,
   lease_until |-> Null, run_at |-> now + delay, cancel_requested |-> FALSE,
   completed_at |-> Null, result |-> 0, error |-> 0, progress |-> 0,
   floor |-> 0]

\* The record of an id with no row, the same for all of them.
NoRow(status) ==
  [status |-> status, queue |-> CHOOSE q \in Queue : TRUE,
   name |-> CHOOSE n \in Name : TRUE, priority |-> 0,
   attempt |-> 0, max_attempts |-> 1, worker_id |-> NoWorker,
   lease_until |-> Null, run_at |-> 0, cancel_requested |-> FALSE,
   completed_at |-> Null, result |-> 0, error |-> 0, progress |-> 0,
   floor |-> 0]

-----------------------------------------------------------------------------
(* What each statement does to one row that satisfies its WHERE.           *)
(* A definition Foo_Slip before Foo is a plausible mistake in Foo; no run   *)
(* or proof uses it, it is there to show that the properties would notice. *)

Requeueable_OneTooMany(r) ==
  ~r.cancel_requested /\ r.attempt <= r.max_attempts
Requeueable_CancelForgotten(r) == r.attempt < r.max_attempts
Requeueable(r) == ~r.cancel_requested /\ r.attempt < r.max_attempts

Requeued_DueUnset(r, at) ==
  [r EXCEPT !.status = "queued", !.worker_id = NoWorker, !.lease_until = Null,
            !.run_at = Null, !.progress = 0]
Requeued_ProgressKept(r, at) ==
  [r EXCEPT !.status = "queued", !.worker_id = NoWorker, !.lease_until = Null,
            !.run_at = at]

\* Back to the queue: the attempt's owner, lease and progress go with it.
Requeued(r, at) ==
  [r EXCEPT !.status = "queued", !.worker_id = NoWorker, !.lease_until = Null,
            !.run_at = at, !.progress = 0]

\* claim: a new attempt under a fresh lease; nothing else is touched.
ClaimRow(r, w) ==
  [r EXCEPT !.status = "running", !.worker_id = w,
            !.lease_until = now + LeaseTicks, !.attempt = r.attempt + 1]

CompleteRow_LeaseKept(r) ==
  IF r.cancel_requested
  THEN [r EXCEPT !.status = "canceled", !.completed_at = now]
  ELSE [r EXCEPT !.status = "succeeded", !.completed_at = now,
                 !.result = r.attempt, !.progress = r.attempt]

\* complete: a pending cancel wins, and the result is then discarded.
CompleteRow(r) ==
  IF r.cancel_requested
  THEN [r EXCEPT !.status = "canceled", !.lease_until = Null,
                 !.completed_at = now]
  ELSE [r EXCEPT !.status = "succeeded", !.lease_until = Null,
                 !.completed_at = now, !.result = r.attempt,
                 !.progress = r.attempt]

\* succeed: the raw primitive, blind to the cancel flag.
SucceedRow(r) ==
  [r EXCEPT !.status = "succeeded", !.lease_until = Null,
            !.completed_at = now, !.result = r.attempt, !.progress = r.attempt]

\* fail: canceled, requeued with backoff, or failed; the error always stays.
FailRow(r, retryable, delay) ==
  IF retryable /\ Requeueable(r)
  THEN [Requeued(r, now + delay) EXCEPT !.error = r.attempt,
                                        !.completed_at = Null]
  ELSE [r EXCEPT !.status = IF r.cancel_requested THEN "canceled" ELSE "failed",
                 !.lease_until = Null, !.completed_at = now,
                 !.error = r.attempt]

RecoverRow_Refunded(r) ==
  IF Requeueable(r)
  THEN [Requeued(r, now) EXCEPT !.attempt = r.attempt - 1]
  ELSE [r EXCEPT !.status = IF r.cancel_requested THEN "canceled" ELSE "failed",
                 !.lease_until = Null, !.completed_at = now,
                 !.error = IF r.cancel_requested THEN @ ELSE r.attempt]

\* recover_leases: the same three ways out, taken for a dead attempt.
RecoverRow(r) ==
  IF Requeueable(r)
  THEN Requeued(r, now)
  ELSE [r EXCEPT !.status = IF r.cancel_requested THEN "canceled" ELSE "failed",
                 !.lease_until = Null, !.completed_at = now,
                 !.error = IF r.cancel_requested THEN @ ELSE r.attempt]

CancelRow_NeverCompleted(r) ==
  IF r.status = "queued"
  THEN [r EXCEPT !.status = "canceled"]
  ELSE [r EXCEPT !.cancel_requested = TRUE]

\* cancel: at once for a queued row, a flag for a running one.
CancelRow(r) ==
  IF r.status = "queued"
  THEN [r EXCEPT !.status = "canceled", !.completed_at = now]
  ELSE [r EXCEPT !.cancel_requested = TRUE]

RetryRow_CancelKept(r, reset) ==
  LET kept == IF reset THEN 0 ELSE r.attempt
  IN [Requeued(r, now) EXCEPT !.error = 0, !.completed_at = Null,
                              !.attempt = kept, !.floor = kept]

\* retry: the row starts over, keeping its attempt count unless told not to.
RetryRow(r, reset) ==
  LET kept == IF reset THEN 0 ELSE r.attempt
  IN [Requeued(r, now) EXCEPT !.error = 0, !.cancel_requested = FALSE,
                              !.completed_at = Null, !.attempt = kept,
                              !.floor = kept]

-----------------------------------------------------------------------------
(* The WHERE clauses.                                                      *)

Owns_WorkerOnly(w, t) == rows[t].worker_id = w
Owns_LeaseOnly(w, t) == rows[t].status = "running" /\ rows[t].lease_until > now

\* The ownership check every worker write carries.
Owns(w, t) == /\ rows[t].status = "running"
              /\ rows[t].worker_id = w
              /\ rows[t].lease_until > now

Expired_TickEarly(r) == /\ r.status = "running"
                        /\ r.lease_until # Null
                        /\ r.lease_until <= now + 1
Expired(r) == /\ r.status = "running"
              /\ r.lease_until # Null
              /\ r.lease_until <= now

\* The table as the claim transaction sees it once recovery has run.
Recovered == [t \in Task |-> IF Expired(rows[t]) THEN RecoverRow(rows[t])
                                                 ELSE rows[t]]

Claimable(table, queues, names) ==
  {t \in Task : /\ table[t].status = "queued"
                /\ table[t].queue \in queues
                /\ table[t].name \in names
                /\ table[t].run_at <= now}

\* order by priority desc, run_at asc; ids break ties and carry no order here.
Before(r, s) == \/ r.priority > s.priority
                \/ r.priority = s.priority /\ r.run_at < s.run_at

\* The rows an ordered, limited subselect over `from` may return.
Draws(from, limit, Precedes(_, _)) ==
  {S \in SUBSET from :
     /\ \/ S = from /\ Cardinality(from) <= limit
        \/ Cardinality(S) = limit
     /\ \A s \in S, u \in from \ S : ~Precedes(u, s)}

HasClaimableWork_QueuedOnly(queues, names) == Claimable(rows, queues, names) # {}

\* The read-only probe in front of the claim transaction.
HasClaimableWork(queues, names) ==
  \/ Claimable(rows, queues, names) # {}
  \/ \E t \in Task : Expired(rows[t])

-----------------------------------------------------------------------------
(* Client operations.                                                      *)

Init == /\ rows = [t \in Task |-> NoRow("unused")]
        /\ keys = [k \in Key |-> NoTask]
        /\ now = 0

Tick == /\ now < MaxNow
        /\ now' = now + 1
        /\ UNCHANGED <<rows, keys>>

\* submit without a key: one insert.
Submit(t, q, n, p, m, delay) ==
  /\ rows[t].status = "unused"
  /\ rows' = [rows EXCEPT ![t] = NewRow(q, n, p, m, delay)]
  /\ UNCHANGED <<keys, now>>

Conflict == {"reuse", "reuse-succeeded", "reject", "replace"}

Reusable(conflict, status) ==
  /\ conflict # "replace"
  /\ status \in Live \/ (conflict = "reuse-succeeded" /\ status = "succeeded")

\* Whether a keyed submit goes on to insert.  When it does not, it returns the
\* recorded task (reuse) or raises AlreadyExists (reject) and writes nothing.
Inserts(k, conflict) ==
  keys[k] # NoTask =>
    conflict # "reject" /\ ~Reusable(conflict, rows[keys[k]].status)

\* submit with a key, one transaction: a live task the strategy declined is
\* canceled, the fresh one inserted, the key repointed.
SubmitKeyed(t, k, conflict, q, n, p, m, delay) ==
  /\ rows[t].status = "unused"
  /\ Inserts(k, conflict)
  /\ rows' = [u \in Task |->
                IF u = t THEN NewRow(q, n, p, m, delay)
                ELSE IF u = keys[k] /\ rows[u].status \in Live
                     THEN CancelRow(rows[u])
                     ELSE rows[u]]
  /\ keys' = [keys EXCEPT ![k] = t]
  /\ UNCHANGED now

Cancel(t) == /\ rows[t].status \in Live
             /\ rows' = [rows EXCEPT ![t] = CancelRow(@)]
             /\ UNCHANGED <<keys, now>>

Retry(t, reset) == /\ rows[t].status \in {"failed", "canceled"}
                   /\ reset \/ rows[t].attempt < MaxAttempt   \* bound
                   /\ rows' = [rows EXCEPT ![t] = RetryRow(@, reset)]
                   /\ UNCHANGED <<keys, now>>

Purgeable(queues, statuses, names, age) ==
  {t \in Task : /\ rows[t].status \in Terminal \cap statuses
                /\ rows[t].queue \in queues
                /\ rows[t].name \in names
                /\ rows[t].completed_at # Null
                /\ rows[t].completed_at < now - age}

Cascade_Forgotten(S) == keys

\* on delete cascade: the pointers at a deleted row go with it.
Cascade(S) == [k \in Key |-> IF keys[k] \in S THEN NoTask ELSE keys[k]]

\* purge: the oldest matching rows go, with the keys that point at them.
Purge(queues, statuses, names, age, limit) ==
  LET CompletedEarlier(t, u) == rows[t].completed_at < rows[u].completed_at
  IN \E S \in Draws(Purgeable(queues, statuses, names, age), limit,
                    CompletedEarlier) :
       /\ S # {}
       /\ rows' = [t \in Task |-> IF t \in S THEN NoRow("purged") ELSE rows[t]]
       /\ keys' = Cascade(S)
       /\ UNCHANGED now

-----------------------------------------------------------------------------
(* Worker operations.                                                      *)

Claim_RecoveryApart(w, queues, names, limit) ==
  LET RunsBefore(t, u) == Before(rows[t], rows[u])
  IN /\ HasClaimableWork(queues, names)
     /\ \/ rows' = Recovered
        \/ \E S \in Draws(Claimable(rows, queues, names), limit, RunsBefore) :
             rows' = [t \in Task |-> IF t \in S THEN ClaimRow(rows[t], w) ELSE rows[t]]
     /\ UNCHANGED <<keys, now>>

\* claim: the probe, then one transaction that recovers every expired lease,
\* whatever its queue or name, and draws from what it then sees.
Claim(w, queues, names, limit) ==
  LET RunsBefore(t, u) == Before(Recovered[t], Recovered[u])
  IN /\ HasClaimableWork(queues, names)
     /\ \E S \in Draws(Claimable(Recovered, queues, names), limit, RunsBefore) :
          rows' = [t \in Task |-> IF t \in S THEN ClaimRow(Recovered[t], w)
                                             ELSE Recovered[t]]
     /\ UNCHANGED <<keys, now>>

\* heartbeat and heartbeat_batch: the owned rows among `ts`, if there is one,
\* are re-leased.
Heartbeat(w, ts) ==
  /\ \E t \in ts : Owns(w, t)
  /\ rows' = [t \in Task |-> IF t \in ts /\ Owns(w, t)
                             THEN [rows[t] EXCEPT !.lease_until = now + LeaseTicks]
                             ELSE rows[t]]
  /\ UNCHANGED <<keys, now>>

Progress(w, t) == /\ Owns(w, t)
                  /\ rows' = [rows EXCEPT ![t].progress = rows[t].attempt]
                  /\ UNCHANGED <<keys, now>>

Complete(w, t) == /\ Owns(w, t)
                  /\ rows' = [rows EXCEPT ![t] = CompleteRow(@)]
                  /\ UNCHANGED <<keys, now>>

Succeed(w, t) == /\ Owns(w, t)
                 /\ rows' = [rows EXCEPT ![t] = SucceedRow(@)]
                 /\ UNCHANGED <<keys, now>>

Fail(w, t, retryable, delay) ==
  /\ Owns(w, t)
  /\ rows' = [rows EXCEPT ![t] = FailRow(@, retryable, delay)]
  /\ UNCHANGED <<keys, now>>

-----------------------------------------------------------------------------
\* An optional filter: absent, or one value.
Filter(S) == {S} \cup {{s} : s \in S}

ClientNext ==
  \/ \E t \in Task, q \in Queue, n \in Name, p \in Priorities, m \in Budgets,
        delay \in Delays :
       \/ Submit(t, q, n, p, m, delay)
       \/ \E k \in Key, c \in Conflict : SubmitKeyed(t, k, c, q, n, p, m, delay)
  \/ \E t \in Task : Cancel(t)
  \/ \E t \in Task, reset \in BOOLEAN : Retry(t, reset)
  \/ \E queues \in Filter(Queue), statuses \in Filter(Terminal),
        names \in Filter(Name), age \in Ages, limit \in DrawLimits :
       Purge(queues, statuses, names, age, limit)

WorkerNext ==
  \E w \in Worker :
    \/ \E queues \in SUBSET Queue, names \in SUBSET Name, limit \in DrawLimits :
         Claim(w, queues, names, limit)
    \/ \E ts \in SUBSET Task : Heartbeat(w, ts)
    \/ \E t \in Task :
         \/ Progress(w, t) \/ Complete(w, t) \/ Succeed(w, t)
         \/ \E retryable \in BOOLEAN, delay \in Delays :
              Fail(w, t, retryable, delay)

Next == Tick \/ ClientNext \/ WorkerNext

Spec == Init /\ [][Next]_vars
-----------------------------------------------------------------------------
(* Properties.                                                             *)

\* Every column holds a value of its type, and a key holds a task id or null.
TypeOK == /\ rows \in [Task -> Row]
          /\ keys \in [Key -> Task \cup {NoTask}]
          /\ now \in Nat

\* A lease is a claim on a run in progress: it is set exactly while the row is
\* running, and then so is its owner.  recover_leases looks for a non-null
\* lease, so a running row without one would never be redelivered.
LeaseIffRunning ==
  \A t \in Task :
    /\ rows[t].lease_until # Null <=> rows[t].status = "running"
    /\ rows[t].status = "running" => rows[t].worker_id # NoWorker

\* purge only sees a completion time, and wait reads one off a settled row: it
\* is set on every way into a terminal status and cleared on every way out.
CompletedIffTerminal ==
  \A t \in Task :
    rows[t].completed_at # Null <=> rows[t].status \in Terminal

\* A row waiting in the queue carries nothing of the run before: no owner, no
\* progress bar, and above all no pending cancel, which would kill the next
\* run of a task the user asked to retry.
QueuedIsClean ==
  \A t \in Task :
    rows[t].status = "queued" => /\ rows[t].worker_id = NoWorker
                                 /\ rows[t].progress = 0
                                 /\ ~rows[t].cancel_requested

\* What a row shows is the work of its last attempt: its progress, never a
\* dead attempt's; the error of a failed row, whether the handler raised or the
\* worker died; and a result exactly when the task succeeded, so a canceled
\* run's result was discarded.
OutcomeIsRecorded ==
  \A t \in Task :
    /\ rows[t].progress \in {0, rows[t].attempt}
    /\ rows[t].status = "failed" => rows[t].error = rows[t].attempt
    /\ rows[t].result # 0 <=> rows[t].status = "succeeded"

\* Between two manual retries a task is delivered at most max_attempts times,
\* or once when a retry kept a count that was already spent.
DeliveryBudget ==
  \A t \in Task :
    rows[t].attempt <= IF rows[t].floor < rows[t].max_attempts
                       THEN rows[t].max_attempts
                       ELSE rows[t].floor + 1

\* A key points at a row that is in the table, and no two keys share one:
\* purge takes the pointer with the row, and a keyed submit always points its
\* key at the row it just inserted.
KeysPointAtRows ==
  /\ \A k \in Key : keys[k] # NoTask => Present(keys[k])
  /\ \A j, k \in Key : keys[j] = keys[k] /\ keys[j] # NoTask => j = k

\* While a lease is live nobody but its owner moves the row: it is neither
\* handed to another worker nor re-attempted nor deleted.  From the instant it
\* is over its owner no longer does: a cancel may still be asked for, and the
\* recovery of the next claim settles, requeues or redelivers the row.
LiveLeaseHolds ==
  [][\A t \in Task :
       rows[t].status = "running" =>
         IF rows[t].lease_until > now
         THEN /\ rows'[t].status # "purged"
              /\ rows'[t].attempt = rows[t].attempt
              /\ rows'[t].worker_id \in {rows[t].worker_id, NoWorker}
         ELSE \/ rows'[t] \in {rows[t], CancelRow(rows[t]), RecoverRow(rows[t])}
              \/ rows'[t].attempt = rows[t].attempt + 1]_vars

\* A claim never passes over work that is due: if it took one of two rows of
\* the same queue and name, it also took the one that comes first in priority,
\* then in due time.  A row whose lease is over competes from that instant on,
\* as the row its recovery makes of it: no draw is made before the recovery.
ClaimInOrder ==
  [][\A t, u \in Task :
       /\ rows'[t].attempt = rows[t].attempt + 1
       /\ Recovered[u].status = "queued" /\ Recovered[u].run_at <= now
       /\ rows[u].queue = rows[t].queue /\ rows[u].name = rows[t].name
       /\ \/ rows[u].priority > rows[t].priority
          \/ /\ rows[u].priority = rows[t].priority
             /\ Recovered[u].run_at < Recovered[t].run_at
       => rows'[u].attempt = rows[u].attempt + 1]_vars

\* Each task, taken alone, lives the life TaskLifecycle promises its owner.
LifeOf(r) == [status |-> r.status, attempt |-> r.attempt,
              budget |-> r.max_attempts, cancelling |-> r.cancel_requested]
Life == [t \in Task |-> LifeOf(rows[t])]
Lifecycle == INSTANCE TaskLifecycle WITH life <- Life
RefinesLifecycle == Lifecycle!Spec
=============================================================================
