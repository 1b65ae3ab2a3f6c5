# CairnQ, verified: models, checks and proofs

CairnQ is a durable task queue without a broker: rows in a SQL table, a small
client, and workers that poll. All coordination goes through that table, by the
statements of `cairnq-protocol/sql`, whatever the language of the client.  This
directory holds TLA+ specifications of its core, the TLC runs that check them
and the TLAPS proofs about them. The reference is the Python SDK
(`cairnq-py/cairnq`) and the SQLite form of the statements.

`PROJECT.json` is the index: which definition models which lines (`map`), what
each run checks (`runs`), which plausible bug each property would catch
(`mutants`), what is hard to test in this code (`hazards`).

## 1. Inventory

| Component | State | Operations | Interacts through |
|---|---|---|---|
| Task table (`cairnq-protocol`: migrations, `sql/sqlite/*.sql`) | `cairnq_tasks`, `cairnq_task_keys` | insert, keyed insert, claim (recover + draw), heartbeat, progress, complete, succeed, fail, cancel, retry, purge, reads | rows only |
| `TaskStore` (`store/base.py`) | none of its own | composes statements into calls and transactions | the table; abstract `_fetch`, `_transaction` |
| SQLite store (`store/sqlite.py`) | one connection, the store lock, the init lock, the flush queue, the closing barrier, a generation | lazy connect, group commit, transactions, close | event loop, connection thread, other processes by BUSY |
| Postgres store, executor, pool (`store/postgres.py`, `pg_*.py`) | executor, init lock, generation, listener and its subscription, pending notifications, waiters | connect, claim session, wake waits, close | LISTEN/NOTIFY triggers (`0003_notify.sql`); the retention sweeper |
| Worker (`worker.py`) | registrations, calls in flight, semaphore, `_freed` | run loop, `_run_call`, heartbeat loop, settlement, stop/drain | store; handlers by callback |
| Claim planner (`_ClaimPlanner`) | rotation cursor, units in flight per resource | plan, charge, release | the run loop and finishing calls |
| Task context (`context.py`) | lease lost, settled, cached cancel | progress, heartbeat, succeed, fail, submit child | store; the worker that built it |
| Backpressure gate (`backpressure.py`) | grant per queue, probe in flight | acquire, probe | store's `queue_depth` |
| Retention sweeper (`retention.py`) | its task, `_stop` | start, stop, sweep | store's `purge`; started by connect |
| Wait loop (`_wait.py`, `client.py`) | deadline, interval | wait, wait by key, call | `get_status`, wake channel |
| Backoff (`_backoff.py`) | none | `retry_delay_ms`, `fail_delay_ms` | pure |
| Migrations | applied versions | apply under a write lock | several processes on one file |
| Node SDK (`cairnq-node`) | the same | the same | the same table |

**What makes them correct, and what is hard.**

* *Task table*: a task is delivered within its budget, by one owner at a time
  while a lease is live; an expired one comes back; a cancel requested while it
  runs is not undone by the run's failure or its redelivery; a row carries
  nothing of a former run; keys never dangle. Hard: any order of two clients'
  and two workers' statements, at and around the instant a lease expires; long
  chains of expiry, failure and manual retry.
* *Worker*: each delivery runs once; a slot comes back whatever the handler
  does; a run settles what it held and nothing else. Hard: handler, zombie of a
  timed-out handler, runner and heartbeat loop write concurrently; replies come
  back in any order; the process dies with writes on the wire.
* *Planner*: concurrency and resource ceilings hold, charges balance, a release
  during a claim is not missed, no name starves. Hard: completions while a claim
  waits for the database.
* *SQLite store*: who is told "done" has a durable write, who is told "failed"
  has none; nobody's statement enters another's transaction; queued writes keep
  their order and land before a close; everyone gets an answer. Hard:
  cancellation at every await, lost write locks, close at every instant.
* *Postgres store*: what is in flight at a close puts nothing on the closed store; a notification is not lost
  between an empty claim and the nap that follows; a listener that drops degrades
  to polling. Hard: connect, subscription, close and the driver's callbacks meet
  at every await.
* *Backpressure*: a grant is neither lost nor handed out twice, the overshoot is
  bounded, every acquire ends. Hard: one probe serves all callers of a handle,
  while other processes fill the same queue and any of them may be canceled.
* *Retention*: a handle that is connected sweeps, one that is closed does not.
  Hard: the loop, its stop and the next connect run as separate tasks.
* *Wait*: returns what is finished and times out otherwise, whatever happens to
  the row or its key between the probe and the read.

## 2. Modules

| Module | Extends | Models |
|---|---|---|
| `TaskTable` | | the table: one action per store call, at the grain the database serializes |
| `TaskLifecycle` | | abstract: what one task is promised (status, deliveries, budget, pending cancel) |
| `WorkerAttempts` | `TaskTable` | workers on top of it: calls, handlers, contexts, heartbeats, crashes |
| `ClaimPlanner` | | the planner and the run loop around it |
| `SqliteStore` | | how the tasks of one process share a connection |
| `StoreCalls` | | abstract: what a store promises one call that writes (one answer, one effect or none) |
| `Backpressure` | | the gates of several handles in front of one queue |
| `TaskView` | | the table as a waiting client sees it: rows that end, keys that move |
| `TaskTableView` | `TaskTable` | the table's rows and keys seen through `TaskView` |
| `WaitLoop` | `TaskView` | waits by id and by key |
| `RetentionSweeper` | | the sweep loop, its start and its stop |
| `PostgresStore` | `RetentionSweeper` | connect, the LISTEN connection and close, with the retention loop they start and stop |
| `PostgresHandle` | `WaitLoop`, `PostgresStore` | a handle at work: waits and a claiming worker nap on the wake channel |
| `*Proofs` | the module of that name, TLAPS | theorems |
| `FiniteSums` | `Functions`, TLAPS | lemmas about sums over finite sets |
| `MC*` | the above | model values, symmetry, registrations |

Modules compose so: `WorkerAttempts` extends `TaskTable` and every worker step
that touches a row *is* one of its actions (theorem `WorkersImplementTable`,
by the way they are written); `TaskTable` implements `TaskLifecycle` under
the mapping `Life` (property `RefinesLifecycle`, theorem
`TableRefinesLifecycle`), and `TaskView` under the mapping `Shown` (theorems
`TableImplementsView` and, for a table that workers use, `WorkersKeepTheView`):
the rows and keys that waits are modelled over move as the statements move them.
`SqliteStore` implements `StoreCalls` under `CallsSeen` (property
`RefinesCalls`, theorem `StoreRefinesCalls`), as long as nobody is canceled at
BEGIN. `PostgresHandle` joins waits, store, sweeper and channel: every step of it
is a step of `WaitLoop` or leaves it alone, and the same of `PostgresStore`
(theorems `HandleWaits` and `HandleIsAStore`), so what the parts promise the whole
keeps. `ClaimPlanner`, `SqliteStore` and
`Backpressure` stand beside them: the planner sees tasks only as counts per name,
the store sees writes only as something that can be committed, the gate sees a
queue only as its depth, so that none needs the table's rows.

Before some definitions stands another one named `Foo_Slip`: a plausible mistake
in `Foo` (a dropped guard, a missing reset, a swapped order). No specification
uses it; put in the place of `Foo`, it makes the property `PROJECT.json` names
with it fail, which is how we know that the property can.

### State and code

* `rows[t]` is the row with id `t`; `"unused"` and `"purged"` stand for its
  absence. Times are instants of `now`, the `now_ms` every statement binds;
  `Null` is SQL's null. Payloads are left out. `progress`, `error` and `result`
  hold the number of the attempt that wrote them, which is all the properties
  tell apart. `floor` is a history field: the attempt count a manual retry kept.
* A claim is one transaction, so recovery and draw are one action, and the
  draw order (priority, due time, id) is `Before`; `Draws` allows
  any choice among ties, since ids are model values. That it must be one is what
  `ClaimInOrder` rests on: it ranks a row whose lease is over as the row its
  recovery makes of it, and `Claim_RecoveryApart`, which commits the recovery on its own
  and draws from what was queued before, violates it.
* `calls[c]` is a handler call: `runner` is where `_run_call` stands, `handler`
  whether the handler still executes (a zombie once the runner is past it),
  `attempt` the delivery it was given. `sent` and `replies` are the two halves of
  every store call, so anything may happen between a write's execution and its
  caller's hearing of it. A Postgres pool imposes no order on them; SQLite's group
  commit does, and is one of the behaviours.
* A `source` of the planner is what `rebuild` makes of the registrations. `loop`
  is where `run` stands, "opening" from the probe until `plan()` is called in the
  open transaction, which is when the rotation advances; `plan` is the
  generator's local state.
* `lock` is an `asyncio.Lock` with its queue, head first: fair, as in asyncio.
  `flusher`, `shutdown` and `closer` are the program counters of `_flush_loop`,
  `_do_close` and each caller of `close`. A connect that finds the wrong protocol, or
  whose read of it raises, leaves its connection published (`ReadVersion`).
* `headroom[h]` is `_headroom` of handle `h`; `probe[h]` is the future in
  `_probing`, from "asked" to the step in which its callbacks take it off the
  record. `gate[c]` is where a caller of `acquire` stands; one in "insert" has
  its unit and its write is under way. `fresh` and `others` split the queue's
  depth by whether a task came through a gate.
* `state`, `current` and `replaced` are rows and keys reduced to what a wait can
  tell apart; a step may settle or purge many rows, as a recovery and a sweep do.
  A recovery that gives up some leases and requeues others sends both kinds of
  notification; `PostgresHandle` has that as two steps, one for each. `wait[w]` holds the locals of `_poll`; a read takes effect in
  "asking" or "reading" and is looked at, with the clock, one step later.
* `on_record`, `loop` and `stop` are `_task`, the tasks running `_run`, and
  `_stop`. A task of the event loop is created in one step and begins in another,
  so a cancellation can fall in between.
* `executor`, `listener` and `unavailable` are the fields of those names.
  `connecting` is a connect beyond the init lock: "fresh", "late" if it was called
  before the last close began and got the lock after, "stale" once the generation
  it read is over; `waiting` is one in line for that lock. `subscribing` is
  `_listener_connecting` and where `_start_listener` stands: "created", "dialing"
  (connecting to the server), "asking" (awaiting LISTEN on its connection), or, if
  close canceled it at one of these, "dead", "doomed", "stranded". `stray` records
  that a stranded one left its connection open. `resting` says that
  `_listener_retry_at` lies ahead; `closing` is what `close` awaits; `used` is a
  history variable: whether anybody called connect since the last close began,
  and whether a late connect published all the same ("revived").
* `notes` are notifications under way, as a set: two identical ones count as one,
  which only takes wakes away; `ear` is the event of a nap in `_done_waiters`; `pending`
  and `queued_event` are the fields of the one queue the worker claims from.

## 3. Runs

Every run finishes within a few minutes with two workers; the largest is `handle`,
with 2.5 million distinct states.

| Run | Instance | Question |
|---|---|---|
| `lives` | 2 tasks, 1 key, 1 worker, 2 priorities, delays of 0 and 1, budget 2, attempts to 3, clock to 2 | may rows ever look wrong, does each task live its lifecycle, does a claim pass over work that is due |
| `crashes` | 1 task, 2 crashing workers, 2 calls | is a delivery run once, settled once, with its own outcome; may anybody but the owner move a leased row, or the owner one whose lease is over; is a dead worker's run taken over |
| `slots` | 2 tasks in one batch call, writes that raise | is everything settled, does the slot come back |
| `expired` | 1 worker, 2 slots, 1 task | *violated*, see findings |
| `polls` | 5 names: two on one resource, a batch, a shared draw | ceilings, charges, missed releases, and rotation over sources without a rival |
| `shared` | 2 names on a resource of one unit, 2 slots | *violated*, see findings |
| `transactions` | 3 writes, 1 transaction, 1 close, cancellations except at BEGIN | does each call meet the one end it is promised and hear it truly, isolation, order |
| `flushes` | 2 writes, 1 transaction, 1 close, cancellations everywhere | applied once, close waits for what was queued, everyone is answered |
| `begin` | 1 write, 1 transaction canceled at BEGIN | *violated*, see findings |
| `barrier` | 2 writes, 2 closes, one canceled | *violated*, see findings |
| `producers` | 2 handles, 3 callers, a limit of 2, grants of 1 | how far past the limit, is a grant lost, does every acquire end |
| `handle` | 1 handle, 1 wait over 2 tasks and a key, or 1 worker; closes at every instant | does close leave anything on record, does retention come back, is a wake lost, is what a wait reports true |

**Bounds and why they are enough.** Every bound is a constant and its guard
carries the comment `\* bound`.
`MaxNow` stops the clock: at 2 a lease is granted, expires, is recovered, and
expires again at the last instant. `MaxAttempt` limits manual retries only: at 3 with a
budget of 2, one retry that resets the count, one that keeps it, and one delivery
past the budget all occur. Two tasks suffice for what rows may look like because
statements relate rows only through keys (two tasks for one key), batches and
draw order (two tasks of two priorities, of which one may come back from an
expired lease in the transaction that draws; due times differ by the instants of
the submits), and a delay of one instant makes a row wait for the clock. In
`lives` a second worker would only rename owners; in `crashes` two workers
suffice for a redelivery to another owner and for a move by one who is not the
owner, and one worker with two slots for a redelivery to itself. The number of
calls bounds that of zombies: `DeadRunsAreTakenOver` speaks of states that have one
left for the worker that takes over. With one key the second half of
`KeysPointAtRows` (no two keys share a row) says nothing in `lives`; the
theorem `KeysNeverDangle` has it for any number. `MaxBacklog`
bounds the tasks queued at a time, at 3 more than the concurrency. `MaxBusy`
= 1 lets each operation lose the write lock once and then either win it or give
up. Three writes are a group commit of two with a third that queues behind it
while it is rolled back.
In `producers` two callers share a probe and a third probes on its own, which is
every way two grants can meet; a limit of twice the grant leaves room for one
probe to read before another's inserts; `MaxNaps` lets a caller nap once and
then give up, `MaxOthers` lets one task come past the gates. The bound is
tight: with one less TLC finds it exceeded.
In `handle` a subject is awaited by one wait, since waits meet nowhere but in
`_done_waiters`, where each has its own event; two tasks and a key are the
replaced and the replacing one; two loops are a loop being stopped and its
successor; one connect is in line for the init lock, since those behind it find
what it leaves. Either the wait or the worker is under way: they share only
`_queued_event`, which a wait does not look at. Once the wait is, announcements
of queued work, which it does not hear, are not sent to the handle.

`CHECK_DEADLOCK FALSE` stands in the runs whose system ends: the clock reaches
`MaxNow` with every task settled, or every operation of the store, the gate or
the handle has been answered. `ClaimPlanner` never stops, and its runs check deadlock.

Symmetry is over ids no operator compares, and only in runs without liveness.

**Fairness.** `FairWorkersSpec`: the event loop runs the timeout (`max_run_ms` is
set), and a store call the runner waits for ends, in success or in an error
(connections have timeouts); nothing is assumed of handlers, zombies or the
heartbeat loop, and `SlotsComeBack` holds all the same. `ClaimPlanner.FairSpec`:
the loop goes on, every handler eventually returns, by itself or at its timeout;
each by weak fairness, so nothing favours one source. A claim may fail every
time, as it does while the database is away; what is promised is therefore that
a source is served *or* the loop backs off. `Backpressure.GateFairness`: the
event loop runs what is ready, naps end, and the store answers a probe or fails
it; nobody need ever drain the queue, and callers may be canceled at any time.
`SqliteStore.Fairness`: the event loop runs what is ready and the connection's
thread ends each statement; callers need not cancel or close, and BUSY may be
answered every time until the bound.

## 4. What disagrees with the code's own words

Each is a run TLC violates; the store's two were reproduced on the real class.

1. `expired`: *"a task whose lease really was lost writes nothing either way"*
   (worker.py:750). With two slots a worker can claim its own expired task while
   the first run goes on; both settle under one worker id, so the first run's
   outcome is recorded for the second attempt. With a concurrency of one,
   `OutcomeOfOwnAttempt` holds (run `crashes`).
2. `shared`: *"a name with a deep backlog cannot starve the others"*
   (README.md:140). The cursor advances also on polls that could only skip
   the sources of a busy resource; two names on one unit with a slot to spare
   keep in phase and one is never served. Every source that shares its resource
   with no other is served, whatever the backlogs (`RotationServes`, run `polls`).
3. `begin`: a caller canceled while its BEGIN executes leaves the connection in a
   transaction nobody owns; writes acknowledged from then on are rolled back by
   the next group commit, whose BEGIN fails (a transaction's would fail too, but
   rolls nothing back). Run `transactions`, without that cancellation, shows that
   `TransactionHasOwner` and `RefinesCalls`, which says more than
   `AcknowledgedIsDurable`, hold otherwise.
4. `barrier`: a close that finds a finished shutdown on record, because its
   caller was canceled or has yet to wake, returns with the connection open and
   the store refusing every operation for good.

Others have no run, because what they violate is a comment about the inside of a
class, or because the models leave out the second actor they take:

* SQLite: a transaction waiting out BUSY when close() passes it fails on a
  connection that is gone (it ends `"cut"`); a connect() that waited behind
  another can publish a connection after close() returned.
* Backpressure: *"N producers can overshoot the limit by up to (N-1) * MAX_GRANT
  tasks"* (backpressure.py:45) leaves out the writes in flight. A caller that has
  taken its unit inserts later; a probe that reads in between grants that room a
  second time. The bound that holds adds one for each further concurrent caller
  of a handle (`OvershootIsBounded`).
* Postgres: close() right after connect() cancels `_start_listener` before it
  began; its `finally` never runs, `_listener_connecting` stays set, and the
  reopened store never listens again, contrary to `_reset_listener_state`'s
  promise of *"a fresh verdict on LISTEN"* (postgres.py:275). The model has it as
  `subscribing = "dead"`; polling covers it.
* Postgres: *"Release everyone promptly"* (postgres.py:419) holds for waits, not
  for claims: a `claim_wake` released with nothing pending clears the event and
  waits on. And of two workers of one process on one queue a notification wakes
  the first only, which takes it off the record.
* Postgres: *"A connect() that started before the bump must not publish what it
  built ... and, worse, a LISTEN connection -- on a store nobody will close
  again"* (postgres.py:112-115). Two things escape. A connect in line for the init lock
  while close() runs reads the generation only once it has the lock, hence the new
  one, and publishes an executor and subscribes a listener after close() returned
  (`used = "revived"`). And a cancellation inside
  `add_listener` (pg_pool.py:84) passes by `except Exception`, so the connection
  stays open and nobody has its `stop()` (`stray`). Both are in the model, what
  the stray connection goes on hearing included (`StrayHears`).
  `QuietAfterClose` names them as its two exceptions: it is what close() does
  achieve, not what that comment says.
* Retention: two concurrent CairnQ.close() calls: the second finds no loop on
  record and closes the store under the first one's sweep; a connect in between
  starts a loop that sees `_stop` and ends, on record for good. A close()
  canceled inside stop() leaves `_stop` set, with the same end.
* Wait by key: `TaskTimeout.task_id` is the probe's and `.task` the read's; after
  a replacement between the two they name different tasks.

## 5. Proofs

TLAPS checks these for every number of tasks, workers, keys, calls, waits, loops,
handles and callers, every lease length, limit and bound. They assume only the
named ASSUMEs: nulls are not ids, budgets, lease lengths, depth limits, grants,
batches, ceilings and the concurrency are positive, delays, ages and draw limits
are naturals, priorities are integers, the sets of queues and of names are not
empty, calls, handles and callers are finitely many, a name is registered once and
by somebody, a worker's draws are among the limits offered, and task ids, keys, the names of
notifications, writes and transactions do not collide. Six theorems have a
hypothesis beyond these, each of them named where it stands: no cancellation at
BEGIN (three), one close() (two), a concurrency of one (one).

* `TaskTableProofs`. `TableInv` is inductive: `RowsInv` (each row satisfies
  `RowInv`) and the keys' facts. `RowInv` joins all that a row promises, because
  the parts need each other: `DeliveryBudget` is preserved by a claim only if a
  *queued* row still has budget left (`attempt < Budget(m)`), which recovery,
  failure and retry establish from their own guards; `OutcomeIsRecorded` needs
  that a running row has no result; `LeaseIffRunning` that no way out of "running"
  forgets the lease. One lemma per row function (`ClaimRowInv`, `FailRowInv`, ...)
  shows that it keeps `RowInv`; `NextTable` has a step for each action. From
  `TableInvariant` follow `TypeCorrect`, `LeasesAreHeld`, `CompletionsAreMarked`,
  `CleanRows`, `OutcomesAreTheLast`, `DeliveriesAreBounded` and `KeysNeverDangle`.
  `TableRefinesLifecycle`: each row function is a move of the lifecycle (one lemma each), and every action moves each task by one of them
  or not at all, a claim by two at once (recovered and redelivered in one
  transaction), which is why the lifecycle has that move. `LeasesHold` proves
  `LiveLeaseHolds`, both halves of it with one case per action: before the lease
  ends nobody but the owner moves the row (`NextHolds`), from that instant on the owner no
  longer does, only a cancel, the recovery and its draw (`NextLapses`). `ClaimsKeepOrder` proves
  `ClaimInOrder`: no statement but the claim's raises a count by one, and whatever
  a claim leaves of the rows it could have drawn, the recovered ones included,
  comes before nothing it draws.
  `TableImplementsView`: the claim, heartbeats, settlements, cancels and recoveries
  touch live rows alone, so for `TaskView` they settle some or none of them
  (`LiveRowsViewed`); inserts, retry, purge and the keyed submit are taken one
  by one. The keyed submit shows why it is a single transaction: with the cancel and the
  repointing apart, a key would for a while point at a task that was replaced, which
  is no move of the view. Which rows were replaced is not in the table, so the theorem adds a history
  variable (`History`), which has one successor for every step and restricts none.
* `WorkerAttemptsProofs`. `WorkersImplementTable`: with `WorkersInv` (calls and
  writes are well formed, so whoever writes is a worker and never the null), every
  step of workers, handlers, replies and crashes is a table step or stutters.
  `WorkersKeepTheTable` then carries the table's invariants and the lifecycle over.
  `AttemptsAreDeliveredOnce` needs more than the property itself: by `CountInv` no
  call holds an attempt its row has not reached, so the number a claim gives out
  is new. Nothing lowers a row's count there; a manual retry that resets it is
  not among the moves of `WorkerAttempts`' surroundings, and would.
  `AttemptsAreSettledOnce` rests on `SettleInv`: an attempt somebody was told to
  have settled belongs to a row that counts further or does not run, and a row
  runs again only under a new count. A batch of heartbeats may name many tasks, a
  settlement one, so what a reply says was settled is what left "running".
  `CallsAreSound` and `CallsSettleWhatTheyHeld` rest on `CallsInv`, three parts
  that need each other. `SlotInv`: a call is settling exactly while an answer to
  a write of its runner is due, so a reply finds the call that waits for it and a
  slot is forgotten only when nothing can come back to it. `OwnInv`: if the
  attempt a call was given is still leased, it is leased to the call's own worker,
  so a settlement that finds no row finds that the attempt is over.
  `OverInv`: what a call settled, or is about to hear it has settled, is over, and
  of what it covers each task is over, was reported because its write raised, or
  has a settlement of the runner's own outstanding. When the last answer is heard the
  third case is gone, which is the property.
  `OutcomesAreTheirOwn` has the hypothesis that the concurrency is one, without
  which run `expired` violates it. By `LatestInv`, what a worker leases of the
  tasks of a call in flight is the attempt that call was given: it can only be
  another if the worker has claimed since, and with one slot it claims when no
  call of its own is in flight (`DispatchOutcomes`). Zombies, heartbeats and
  other workers are free to do as they like.
* `ClaimPlannerProofs`. `PlannerInv` joins `Shapes`, `BudgetInv` and `MissInv`.
  `BudgetInv` states the ceilings with the plan in them: what runs, what the
  plan has drawn and what it may still draw fit the concurrency together, and a
  resource's charges and the plan's tally are the calls that spend it, so that
  dispatching moves units from one side to the other and a claim that raises only
  drops the plan's. `CountersAreSound`, `NoOverspending` and `ChargesAreReturned`
  follow. `ReleasesAreSeen` needs `MissInv`: a poll that has drawn nothing has, unless
  something was released meanwhile, looked at every source it is past, and the
  rotation leaves none out (`RotatedServesAll`), so the loop sleeps only when it
  has looked everywhere. Sources are built by a recursive function; `OwnExists`
  shows that its equation has a solution before anything is said about it.
* `FiniteSums` is what those proofs count with: that the library's sum over a
  finite set is `f[x]` more with `x` than without, and what follows. Induction
  here is over a *set* of good subsets, or of numbers, which the library's
  minimum principle for well-founded relations gives without an operator
  as a parameter.
* `SqliteStoreProofs`. `SqliteInv` is `Shapes`, `LockInv` and `OpenInv` (each of
  the two locks is a line of exactly those who wait for it or hold it, once each,
  and whoever works under it is its head), `QueueInv` (a queued write is in
  the queue or in the batch, once, and what is there is queued or was given up by
  its caller) and `DbInv` (the open transaction is the batch less its failures, or
  the body of one that has written nothing; what was committed is nowhere else).
  Mutual exclusion is thus derived from the order of the line, and every step is
  one of five things that happen to it (`LineStays` to `LineQuit`). From these
  `TypeCorrect` and `WritesApplyOnce`. `IssueOrderIsKept` looks
  at the batch followed by the queue as one line and shows that every step moves it
  up as a whole (`MovesUp`): some leave its front, newcomers join its back, and what
  is left keeps its order; only those who leave the front are committed.
  `TransactionsAreOwned` and `AcknowledgementsHold` need `OwnerInv` (an open
  transaction is the flush's or a body's, and whoever was told "ok" has landed)
  and the hypothesis that no caller is canceled at BEGIN; run `begin` shows that
  without it the code violates them. Under the same hypothesis `StoreRefinesCalls`: whatever
  a step does, each call stays as it was, or had no answer yet and goes on, or was
  canceled with its write underway, which is decided (`Advances`, one case per
  action). That is a move of `StoreCalls` because `DbInv` and `OwnerInv` tie the
  answer to the commit in both states. The invariant `AcknowledgedIsDurable` looks at
  one state; the refinement says besides that an answer is never taken back and
  that the write of a caller who is gone lands once or not at all.
  `BarrierIsTakenDown` and
  `OwedWritesAreFlushed` need `CloseInv` (until the one close() begins there is
  neither barrier nor debt; the barrier stands only while a shutdown is under
  way; an owed write is queued before the drain, or was answered, never "cut") and the
  hypothesis of a single close(). Run `barrier` shows that two violate the
  first. They violate the second as well: a close() that finds a finished
  shutdown on record leaves the barrier up under a connection that a call
  admitted before it has reopened, and the flush cuts the write that is owed.
* `PostgresHandleProofs`, first of its part `PostgresStore`. `StoreInv` ties the
  program counters of connect, close and the loops together: the loop on record runs, and any other is the one close
  waits for; `stop` is set exactly while it does; outside that wait an executor
  and a loop on record go together; a listener or a subscription lies within the
  executor's life; since the last close began, a connect that can publish and an
  executor are there only because somebody called, or a late connect published.
  `ClosedIsQuiet` and `ConnectedSweeps` follow. The first speaks of a store neither used nor revived,
  and of what it has on record: a stray connection is not.
* `WaitLoopProofs`. `WaitInv`: a wait whose subject was settled at its last probe
  and still is has the answer in hand, reads the row, has read it, or is over with
  it; no other step is possible. `FinishedWaitReturns` follows.
  `ReplacedNeverReported` needs `KeyInv` of the table's view: a key points at a
  submitted task of its own that no replace has canceled.
* `PostgresHandleProofs`, then of the whole. `HandleIsAStore` and `HandleWaits`
  are the two refinements of the composition, one step per action; the parts' theorems then
  hold of the whole. `NoWakeIsLost` adds `ChannelInv`: an open event belongs to a
  nap on a task and has the listener behind it; whoever has news has an event, or
  for a worker a registered queue, without which `_on_notification` would not
  keep the wake; and the listener goes only with `_release_waiters`, or where
  close finds a subscription in the making and so no listener.
* `BackpressureProofs`. `GrantsStand` rests on the probe starting only at
  headroom zero and nothing raising it but the probe. `OvershootHasABound`
  counts what a handle *holds*: units granted, taken by writes in flight, or on
  their way from the store in a probe's answer. By `OvershootInv` that is at most
  a full grant and a write for each caller but one, because whoever awaits a
  probe has no write of its own in flight; and at the instant a probe reads, what
  is queued and what it is to grant stay within the limit, while the other handles
  hold no more than their shares. So what is queued and held stays below the limit
  and all shares less one grant; every other step moves units within that sum or
  out of it. The shares add up by counting the callers handle by handle
  (`FibersAddUp`).

**Only model-checked**: the liveness properties `SlotsComeBack`, `RotationServes`,
`EveryoneIsAnswered` and `EveryAcquireEnds`, and `DeadRunsAreTakenOver`, which
says what a worker can do, since fairness and ENABLED are out of
the prover's reach. Every other property of a passing run is
a theorem, `OutcomeOfOwnAttempt` of workers with a concurrency of one only. The
refinements `TableIsViewed`, `HandleWaits` and `HandleIsAStore` are theorems
without a run: the history variable multiplies the states of `lives`, and a
mistake in the other two is one in a single step, which the proof looks at for
each action.

## 6. Not modelled

The components marked so in `PROJECT.json`, with reasons. Within the modelled
ones:

* Table and store: by-key cancel and retry are the call by id, since the lookup
  runs in the same transaction under the key's lock; `complete_in`, `list` and
  `stats` are left out.
* Worker: child submission and the cached cancel flag; unregistering a handler
  while it runs; the drain at `stop`; `background`.
* SQLite: the retention sweeper that connect starts (it is modelled with
  Postgres), migrations, reads beyond their turn on the lock.
* Postgres: the pool's connections; half-open connections, so that a listener is
  lost when its callback says so (until then the naps' timeouts cover); a second
  concurrent closer and a canceled one. Where a listener is lost, the news of a
  claiming worker goes with it, so `NewsWakesItsWaiters` speaks of waits there and
  the worker has its timeout. The branch of
  `_start_listener` without an executor cannot be reached, whoever lets the
  executor go having canceled that task first. The run has an executor of the
  store's own (`Provided = FALSE`); the theorems cover an injected one.
* Retention: `sweep()` called on demand.
* Liveness of waits and of close: a purge or a store call may take any time.

Payloads, formatting, ids and errors have no control of their own.

## 7. What is left

1. `WorkerAttempts`: stop and drain, unregistering, `succeed_in`; liveness of
   redelivery (a task whose worker died is eventually settled while workers live;
   `DeadRunsAreTakenOver` says that it can always be claimed).
2. `PostgresStore` with several closers, some of them canceled: the retention
   findings above as runs, once it is decided which promise they break.
3. `SqliteStore`: migrations by two processes, its own retention sweeper.
4. The Node SDK's differences in control, mapped to the same definitions where
   they agree.

Theorems: the properties of those extensions, as they come. For `SqliteStore` with
several closers, what a close() that returned still promises.
