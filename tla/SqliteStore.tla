------------------------------ MODULE SqliteStore ------------------------------
(***************************************************************************)
(* How one process shares one SQLite connection (cairnq/store/sqlite.py):  *)
(* the store lock, the group commit of plain writes, the transactions of   *)
(* keyed submits and claims, lazy connecting, and close.                   *)
(*                                                                         *)
(* Everything runs on one event loop: a step is what happens between two   *)
(* awaits.  A statement is executed by the connection's thread, so its     *)
(* caller may be canceled while it runs and the statement still takes      *)
(* effect.  Other processes appear only as BUSY answers.                   *)
(* A definition Foo_Slip before Foo is a plausible mistake in Foo; no run   *)
(* uses it, it is there to show that the properties would notice.          *)
(***************************************************************************)
EXTENDS Integers, Sequences, FiniteSets, SequencesExt

CONSTANTS
  Write,      \* plain writes: submits without a key, heartbeats, settlements
  Txn,        \* calls that open a transaction: keyed submits and claims
  Closer,     \* calls of close()
  CancelAt,   \* the awaits at which a caller may be canceled
  MaxBusy     \* bound: BUSY answers an operation waits out

Op == Write \cup Txn
Process == Op \cup {"flusher", "shutdown"}
Await == {"connect", "turn", "flush", "BEGIN", "COMMIT", "close"}

ASSUME StoreInputs ==
  /\ Write \cap Txn = {} /\ {"flusher", "shutdown"} \cap Op = {}
  /\ CancelAt \subseteq Await
  /\ MaxBusy \in Nat

VARIABLES
  pc,          \* where each operation stands
  seen,        \* the generation each connect() read
  tries,       \* BUSY answers waited out by each process
  lock,        \* _lock: its holder, then those waiting for it in turn
  opening,     \* _init_lock: likewise
  pending,     \* _pending: writes waiting for a flush
  batch,       \* the writes of the group commit in progress
  failing,     \* those of them whose statement failed
  flusher,     \* _flush_loop; its flag _flushing is flusher # "off"
  conn,        \* _conn
  txn,         \* writes in the connection's open transaction
  in_txn,      \* whether one is open
  landed,      \* how often each operation was committed
  closing,     \* _closing
  shutdown,    \* _closed: no task, or where _do_close stands
  closer,      \* where each close() stands
  generation,  \* _generation
  owed         \* history: writes that were queued when close() was called

asyncVars == <<pc, seen, tries, lock, opening>>
flushVars == <<pending, batch, failing, flusher>>
dbVars == <<conn, txn, in_txn, landed>>
closeVars == <<closing, shutdown, closer, generation, owed>>
vars == <<pc, seen, tries, lock, opening, pending, batch, failing, flusher,
          conn, txn, in_txn, landed, closing, shutdown, closer, generation,
          owed>>

\* An operation's end: done, refused (StoreClosed), raised, canceled, or cut
\* short because the connection was gone.
Ended == {"ok", "refused", "raised", "canceled", "cut"}

Holds(p) == lock # <<>> /\ Head(lock) = p

\* The flush loop has run out of work; close() may be waiting for that.
LoopEnds == /\ flusher' = "off"
            /\ shutdown' = IF shutdown = "draining" THEN "drained" ELSE shutdown

-----------------------------------------------------------------------------
(* Getting in: _ensure, connect, the statistics timer.                     *)

Enters_FlagIgnored(o, queue) ==
  IF o \in Write
  THEN /\ pc' = [pc EXCEPT ![o] = "queued"]
       /\ pending' = Append(pending, o)
       /\ flusher' = "away"
       /\ lock' = queue
  ELSE /\ pc' = [pc EXCEPT ![o] = "turn"]
       /\ lock' = Append(queue, o)
       /\ UNCHANGED <<pending, flusher>>

\* _fetch of a write, _begin of a transaction: past every guard.
Enters(o, queue) ==
  IF o \in Write
  THEN /\ pc' = [pc EXCEPT ![o] = "queued"]
       /\ pending' = Append(pending, o)
       /\ flusher' = IF flusher = "off" THEN "away" ELSE flusher
       /\ lock' = queue
  ELSE /\ pc' = [pc EXCEPT ![o] = "turn"]
       /\ lock' = Append(queue, o)
       /\ UNCHANGED <<pending, flusher>>

\* _maybe_refresh_statistics takes the lock when the timer is due.
Ensured(o, queue) ==
  \/ Enters(o, queue)
  \/ /\ pc' = [pc EXCEPT ![o] = "stats"]
     /\ lock' = Append(queue, o)
     /\ UNCHANGED <<pending, flusher>>

Issue(o) ==
  /\ pc[o] = "idle"
  /\ \/ /\ closing
        /\ pc' = [pc EXCEPT ![o] = "refused"]
        /\ UNCHANGED <<lock, opening, pending, flusher>>
     \/ /\ ~closing /\ conn = "open"
        /\ Ensured(o, lock)
        /\ UNCHANGED opening
     \/ /\ ~closing /\ conn = "none"
        /\ pc' = [pc EXCEPT ![o] = "connecting"]
        /\ opening' = Append(opening, o)
        /\ UNCHANGED <<lock, pending, flusher>>
  /\ UNCHANGED <<seen, tries, batch, failing, dbVars, closeVars>>

\* connect, once it holds the init lock.
OpenStarts(o) ==
  /\ pc[o] = "connecting" /\ Head(opening) = o
  /\ IF conn = "open"
     THEN /\ opening' = Tail(opening)
          /\ Ensured(o, lock)
          /\ UNCHANGED seen
     ELSE /\ pc' = [pc EXCEPT ![o] = "opening"]
          /\ seen' = [seen EXCEPT ![o] = generation]
          /\ UNCHANGED <<opening, lock, pending, flusher>>
  /\ UNCHANGED <<tries, batch, failing, dbVars, closeVars>>

\* Leaving connect() early: the file could not be opened or migrated, the
\* store was closed meanwhile, or closes now and refuses the version read.
OpenFails(o) ==
  /\ pc[o] = "opening"
  /\ \/ pc' = [pc EXCEPT ![o] = "raised"] /\ UNCHANGED conn
     \/ /\ seen[o] = generation /\ closing
        /\ pc' = [pc EXCEPT ![o] = "refused"] /\ conn' = "open"
  /\ opening' = Tail(opening)
  /\ UNCHANGED <<seen, tries, lock, flushVars, txn, in_txn, landed, closeVars>>

\* The connection is published; the protocol version is read under the lock.
Publish(o) ==
  /\ pc[o] = "opening" /\ seen[o] = generation /\ ~closing
  /\ conn' = "open"
  /\ pc' = [pc EXCEPT ![o] = "version"]
  /\ lock' = Append(lock, o)
  /\ UNCHANGED <<seen, tries, opening, flushVars, txn, in_txn, landed, closeVars>>

\* A turn on the lock that comes to nothing.
GivesUp(o, outcome) ==
  /\ pc' = [pc EXCEPT ![o] = outcome] /\ lock' = Tail(lock)
  /\ UNCHANGED <<pending, flusher>>

\* A read that raises, or a protocol this SDK does not speak, is the caller's
\* to hear; the connection stays published.
ReadVersion(o) ==
  /\ pc[o] = "version" /\ Holds(o)
  /\ opening' = Tail(opening)
  /\ \/ conn = "none" /\ GivesUp(o, "cut")
     \/ conn = "open" /\ GivesUp(o, "raised")
     \/ conn = "open" /\ Ensured(o, Tail(lock))
  /\ UNCHANGED <<seen, tries, batch, failing, dbVars, closeVars>>

RefreshStatistics(o) ==
  /\ pc[o] = "stats" /\ Holds(o)
  /\ IF conn = "none" THEN GivesUp(o, "cut") ELSE Enters(o, Tail(lock))
  /\ UNCHANGED <<seen, tries, opening, batch, failing, dbVars, closeVars>>

-----------------------------------------------------------------------------
(* Group commit: _flush_loop and _flush.                                   *)

FlusherArrives ==
  /\ flusher = "away"
  /\ flusher' = "in line"
  /\ lock' = Append(lock, "flusher")
  /\ UNCHANGED <<pc, seen, tries, opening, pending, batch, failing, dbVars,
                 closeVars>>

\* Outcomes reach the waiters that are still there.
Told(good, bad, outcome) ==
  [o \in Op |-> IF pc[o] # "queued" THEN pc[o]
                ELSE IF o \in good THEN "ok"
                ELSE IF o \in bad THEN outcome ELSE "queued"]

\* A flush is over, with `left` waiting: the loop gives the lock up and gets
\* back in line, or ends.
TurnOver(left) ==
  /\ pending' = left /\ batch' = <<>> /\ failing' = {}
  /\ tries' = [tries EXCEPT !["flusher"] = 0]
  /\ IF left = <<>>
     THEN LoopEnds /\ lock' = Tail(lock)
     ELSE /\ flusher' = "in line" /\ lock' = Append(Tail(lock), "flusher")
          /\ UNCHANGED shutdown

Stranded_Forgotten(left, outcome) ==
  /\ TurnOver(<<>>)
  /\ UNCHANGED pc

\* Nobody will come for these writes any more: their waiters hear it now.
Stranded(left, outcome) ==
  /\ TurnOver(<<>>)
  /\ pc' = Told({}, ToSet(left), outcome)

\* The write lock was lost with `left` still to flush: back off, or give up.
FlushIsBusy(left) ==
  \/ /\ tries["flusher"] < MaxBusy   \* bound
     /\ tries' = [tries EXCEPT !["flusher"] = @ + 1]
     /\ flusher' = "away" /\ lock' = Tail(lock)
     /\ pending' = left /\ batch' = <<>> /\ failing' = {}
     /\ UNCHANGED <<pc, shutdown>>
  \/ Stranded(left, "raised")

\* A statement by itself: committed at once, or part of whatever transaction
\* is open on the connection.
Executes(o) ==
  IF in_txn THEN txn' = txn \cup {o} /\ UNCHANGED landed
  ELSE landed' = [landed EXCEPT ![o] = @ + 1] /\ UNCHANGED txn

\* One write waiting: no transaction around it.
FlushOne ==
  /\ Holds("flusher") /\ flusher = "in line"
  /\ Len(pending) = 1
  /\ LET o == Head(pending)
     IN \/ /\ conn = "open"
           /\ Executes(o)
           /\ pc' = Told({o}, {}, "ok") /\ TurnOver(<<>>)
        \/ /\ conn = "open"
           /\ pc' = Told({}, {o}, "raised") /\ TurnOver(<<>>)
           /\ UNCHANGED <<txn, landed>>
        \/ /\ conn = "open" /\ ~in_txn
           /\ FlushIsBusy(pending)
           /\ UNCHANGED <<txn, landed>>
        \/ /\ conn = "none"
           /\ pc' = Told({}, {o}, "cut") /\ TurnOver(<<>>)
           /\ UNCHANGED <<txn, landed>>
  /\ UNCHANGED <<seen, opening, conn, in_txn, closing, closer, generation, owed>>

FlushBegin_NoTransaction ==
  /\ Holds("flusher") /\ flusher = "in line" /\ Len(pending) > 1
  /\ conn = "open" /\ ~in_txn
  /\ batch' = pending /\ pending' = <<>> /\ flusher' = "flushing"
  /\ failing' \in SUBSET ToSet(pending)
  /\ landed' = [o \in Op |-> landed[o] + IF o \in ToSet(pending) \ failing'
                                        THEN 1 ELSE 0]
  /\ UNCHANGED <<asyncVars, conn, txn, in_txn, closeVars>>

\* Several: BEGIN, then their statements, any of which may fail by itself.
FlushBegin ==
  /\ Holds("flusher") /\ flusher = "in line" /\ Len(pending) > 1
  /\ conn = "open" /\ ~in_txn
  /\ batch' = pending /\ pending' = <<>> /\ flusher' = "flushing"
  /\ failing' \in SUBSET ToSet(pending)
  /\ in_txn' = TRUE /\ txn' = ToSet(pending) \ failing'
  /\ UNCHANGED <<asyncVars, conn, landed, closeVars>>

FlushBeginFails ==
  /\ Holds("flusher") /\ flusher = "in line" /\ Len(pending) > 1
  /\ \/ /\ conn = "open" /\ ~in_txn
        /\ FlushIsBusy(pending)
        /\ UNCHANGED <<txn, in_txn>>
     \/ /\ conn = "open" /\ in_txn    \* no transaction within a transaction
        /\ pc' = Told({}, ToSet(pending), "raised") /\ TurnOver(<<>>)
        /\ txn' = {} /\ in_txn' = FALSE
     \/ /\ conn = "none"
        /\ Stranded(pending, "cut")
        /\ UNCHANGED <<txn, in_txn>>
  /\ UNCHANGED <<seen, opening, conn, landed, closing, closer, generation, owed>>

FlushCommit_ToldFirst ==
  /\ flusher = "flushing"
  /\ pc' = Told(ToSet(batch) \ failing, failing, "raised")
  /\ \/ /\ landed' = [o \in Op |-> landed[o] + IF o \in txn THEN 1 ELSE 0]
        /\ TurnOver(pending)
     \/ UNCHANGED landed /\ TurnOver(batch \o pending)
  /\ txn' = {} /\ in_txn' = FALSE
  /\ UNCHANGED <<seen, opening, conn, closing, closer, generation, owed>>

\* COMMIT: only now does anyone hear.
FlushCommit ==
  /\ flusher = "flushing"
  /\ landed' = [o \in Op |-> landed[o] + IF o \in txn THEN 1 ELSE 0]
  /\ txn' = {} /\ in_txn' = FALSE
  /\ pc' = Told(ToSet(batch) \ failing, failing, "raised")
  /\ TurnOver(pending)
  /\ UNCHANGED <<seen, opening, conn, closing, closer, generation, owed>>

FlushRollback_Reordered ==
  /\ flusher = "flushing"
  /\ txn' = {} /\ in_txn' = FALSE
  /\ FlushIsBusy(pending \o batch)
  /\ UNCHANGED <<seen, opening, conn, landed, closing, closer, generation, owed>>

\* It failed, or a statement tore the transaction down: nothing survived.
\* Writes beaten to the write lock go back to the head of the queue.
FlushRollback ==
  /\ flusher = "flushing"
  /\ txn' = {} /\ in_txn' = FALSE
  /\ \/ FlushIsBusy(batch \o pending)
     \/ pc' = Told({}, ToSet(batch), "raised") /\ TurnOver(pending)
  /\ UNCHANGED <<seen, opening, conn, landed, closing, closer, generation, owed>>

-----------------------------------------------------------------------------
(* _transaction and _begin: the lock is held from BEGIN to the end.        *)

TxnEnds(o, outcome) ==
  /\ pc' = [pc EXCEPT ![o] = outcome]
  /\ lock' = Tail(lock)
  /\ UNCHANGED <<seen, tries, opening, flushVars, conn, closeVars>>

TxnBegin(o) ==
  /\ pc[o] = "turn" /\ Holds(o)
  /\ conn = "open" /\ ~in_txn
  /\ pc' = [pc EXCEPT ![o] = "body"]
  /\ in_txn' = TRUE
  /\ UNCHANGED <<seen, tries, lock, opening, flushVars, conn, txn, landed,
                 closeVars>>

\* BEGIN raised: the lock is given up, and only BUSY is retried.
TxnBeginFails(o) ==
  /\ pc[o] = "turn" /\ Holds(o)
  /\ \/ conn = "none" /\ TxnEnds(o, "cut")
     \/ conn = "open" /\ TxnEnds(o, "raised")
     \/ /\ conn = "open" /\ ~in_txn
        /\ tries[o] < MaxBusy   \* bound
        /\ tries' = [tries EXCEPT ![o] = @ + 1]
        /\ pc' = [pc EXCEPT ![o] = "backoff"] /\ lock' = Tail(lock)
        /\ UNCHANGED <<seen, opening, flushVars, conn, closeVars>>
  /\ UNCHANGED <<txn, in_txn, landed>>

TxnComesBack(o) ==
  /\ pc[o] = "backoff"
  /\ pc' = [pc EXCEPT ![o] = "turn"] /\ lock' = Append(lock, o)
  /\ UNCHANGED <<seen, tries, opening, flushVars, dbVars, closeVars>>

TxnCommit(o) ==
  /\ pc[o] = "body"
  /\ TxnEnds(o, "ok")
  /\ landed' = [p \in Op |-> landed[p] + IF p \in txn \cup {o} THEN 1 ELSE 0]
  /\ txn' = {} /\ in_txn' = FALSE

TxnRollback_CommitOutside(o) ==
  /\ pc[o] = "body"
  /\ TxnEnds(o, "raised")
  /\ UNCHANGED <<txn, in_txn, landed>>

\* A statement, the caller's code or COMMIT raised, a cancellation included.
TxnRollback(o) ==
  /\ pc[o] = "body"
  /\ TxnEnds(o, "raised")
  /\ txn' = {} /\ in_txn' = FALSE
  /\ UNCHANGED landed

-----------------------------------------------------------------------------
(* Callers canceled at an await.                                           *)

\* In connect(), or in line for the lock or between two tries: simply gone.
CancelWaiting(o) ==
  /\ \/ "connect" \in CancelAt /\ pc[o] \in {"connecting", "opening"}
     \/ "turn" \in CancelAt /\ pc[o] \in {"version", "stats", "backoff"}
     \/ "turn" \in CancelAt /\ pc[o] = "turn" /\ ~Holds(o)
  /\ pc' = [pc EXCEPT ![o] = "canceled"]
  /\ lock' = RemoveFirst(lock, o) /\ opening' = RemoveFirst(opening, o)
  /\ UNCHANGED <<seen, tries, flushVars, dbVars, closeVars>>

\* Waiting for a flush: its future is dead, its write still goes ahead.
CancelQueued(o) ==
  /\ "flush" \in CancelAt /\ pc[o] = "queued"
  /\ pc' = [pc EXCEPT ![o] = "canceled"]
  /\ UNCHANGED <<seen, tries, lock, opening, flushVars, dbVars, closeVars>>

\* While the connection's thread executes BEGIN: the lock is given up, and
\* nothing undoes the BEGIN.
CancelBegin(o) ==
  /\ "BEGIN" \in CancelAt /\ pc[o] = "turn" /\ Holds(o)
  /\ conn = "open" /\ ~in_txn
  /\ TxnEnds(o, "canceled")
  /\ in_txn' = TRUE
  /\ UNCHANGED <<txn, landed>>

\* While it executes COMMIT: the ROLLBACK that follows finds nothing open.
CancelCommit(o) ==
  /\ "COMMIT" \in CancelAt /\ pc[o] = "body"
  /\ TxnEnds(o, "canceled")
  /\ landed' = [p \in Op |-> landed[p] + IF p \in txn \cup {o} THEN 1 ELSE 0]
  /\ txn' = {} /\ in_txn' = FALSE

-----------------------------------------------------------------------------
(* close and _do_close.                                                    *)

\* close: the barrier goes up, and the caller waits for the one shutdown.  A
\* finished shutdown still on record is taken for the one to wait for.
Close(c) ==
  /\ closer[c] = "idle"
  /\ closing' = TRUE
  /\ IF shutdown = "done"
     THEN shutdown' = "none" /\ closer' = [closer EXCEPT ![c] = "returned"]
     ELSE /\ shutdown' = IF shutdown = "none" THEN "scheduled" ELSE shutdown
          /\ closer' = [closer EXCEPT ![c] = "waiting"]
  /\ owed' = owed \cup {o \in Write : pc[o] = "queued"}
  /\ UNCHANGED <<asyncVars, flushVars, dbVars, generation>>

ShutdownEnds_BarrierLeft ==
  /\ UNCHANGED closing
  /\ shutdown' = "done"
  /\ closer' = [c \in Closer |-> IF closer[c] = "waiting" THEN "woken"
                                                          ELSE closer[c]]

\* The shutdown is over: the barrier comes down and the waiters wake.
ShutdownEnds ==
  /\ closing' = FALSE
  /\ shutdown' = "done"
  /\ closer' = [c \in Closer |-> IF closer[c] = "waiting" THEN "woken"
                                                          ELSE closer[c]]

\* Once no group commit is in flight: close behind whoever holds the lock.
ShutdownLocks ==
  IF conn = "none" THEN ShutdownEnds /\ UNCHANGED lock
  ELSE /\ shutdown' = "in line" /\ lock' = Append(lock, "shutdown")
       /\ UNCHANGED <<closing, closer>>

ShutdownStarts_Undrained ==
  /\ shutdown = "scheduled"
  /\ generation' = generation + 1
  /\ ShutdownLocks
  /\ UNCHANGED <<pc, seen, tries, opening, flushVars, dbVars, owed>>

ShutdownStarts ==
  /\ shutdown = "scheduled"
  /\ generation' = generation + 1
  /\ IF flusher = "off" THEN ShutdownLocks
     ELSE shutdown' = "draining" /\ UNCHANGED <<closing, closer, lock>>
  /\ UNCHANGED <<pc, seen, tries, opening, flushVars, dbVars, owed>>

ShutdownDrained ==
  /\ shutdown = "drained"
  /\ ShutdownLocks
  /\ UNCHANGED <<pc, seen, tries, opening, flushVars, dbVars, generation,
                 owed>>

\* Closing the connection discards a transaction left open on it.
ShutdownCloses ==
  /\ shutdown = "in line" /\ Holds("shutdown")
  /\ conn' = "none" /\ txn' = {} /\ in_txn' = FALSE
  /\ lock' = Tail(lock)
  /\ ShutdownEnds
  /\ UNCHANGED <<pc, seen, tries, opening, flushVars, landed, generation, owed>>

CloseReturns(c) ==
  /\ closer[c] = "woken"
  /\ closer' = [closer EXCEPT ![c] = "returned"]
  /\ shutdown' = IF shutdown = "done" THEN "none" ELSE shutdown
  /\ UNCHANGED <<asyncVars, flushVars, dbVars, closing, generation,
                 owed>>

\* close() itself canceled: the shutdown is shielded and goes on, on record.
CancelClose(c) ==
  /\ "close" \in CancelAt /\ closer[c] = "waiting"
  /\ closer' = [closer EXCEPT ![c] = "canceled"]
  /\ UNCHANGED <<asyncVars, flushVars, dbVars, closing, shutdown,
                 generation, owed>>

-----------------------------------------------------------------------------
Init ==
  /\ pc = [o \in Op |-> "idle"] /\ seen = [o \in Op |-> 0]
  /\ tries = [p \in Process |-> 0]
  /\ lock = <<>> /\ opening = <<>>
  /\ pending = <<>> /\ batch = <<>> /\ failing = {} /\ flusher = "off"
  /\ conn = "none" /\ txn = {} /\ in_txn = FALSE
  /\ landed = [o \in Op |-> 0]
  /\ closing = FALSE /\ shutdown = "none" /\ generation = 0 /\ owed = {}
  /\ closer = [c \in Closer |-> "idle"]

Flush == FlusherArrives \/ FlushOne \/ FlushBegin \/ FlushBeginFails
           \/ FlushCommit \/ FlushRollback

\* Each operation goes on by itself: the locks are fair and statements return.
Advance(o) ==
  \/ OpenStarts(o) \/ OpenFails(o) \/ Publish(o) \/ ReadVersion(o)
  \/ RefreshStatistics(o)
  \/ TxnBegin(o) \/ TxnBeginFails(o) \/ TxnComesBack(o)
  \/ TxnCommit(o) \/ TxnRollback(o)

Cancel(o) == CancelWaiting(o) \/ CancelQueued(o) \/ CancelBegin(o)
               \/ CancelCommit(o)

Shutdown == ShutdownStarts \/ ShutdownDrained \/ ShutdownCloses

Next == \/ \E o \in Op : Issue(o) \/ Advance(o) \/ Cancel(o)
        \/ Flush \/ Shutdown
        \/ \E c \in Closer : Close(c) \/ CloseReturns(c) \/ CancelClose(c)

Spec == Init /\ [][Next]_vars

Fairness == /\ WF_vars(Flush) /\ WF_vars(Shutdown)
            /\ \A o \in Op : WF_vars(Advance(o))
            /\ \A c \in Closer : WF_vars(CloseReturns(c))

FairSpec == Spec /\ Fairness
-----------------------------------------------------------------------------
(* Properties.                                                             *)

TypeOK ==
  /\ pc \in [Op -> Ended \cup {"idle", "connecting", "opening", "version",
                               "stats", "queued", "turn", "backoff", "body"}]
  /\ tries \in [Process -> 0..MaxBusy] /\ landed \in [Op -> Nat]
  /\ lock \in Seq(Process) /\ IsInjective(lock)
  /\ opening \in Seq(Op) /\ IsInjective(opening)
  /\ pending \in Seq(Write) /\ batch \in Seq(Write)
  /\ failing \subseteq ToSet(batch) /\ txn \subseteq Op
  /\ flusher \in {"off", "away", "in line", "flushing"}
  /\ conn \in {"none", "open"} /\ in_txn \in BOOLEAN /\ closing \in BOOLEAN
  /\ shutdown \in {"none", "scheduled", "draining", "drained", "in line", "done"}

\* A caller is told a write went through only when it is committed, and told
\* it failed only when it is not and never will be.
AcknowledgedIsDurable ==
  \A o \in Op :
    /\ pc[o] = "ok" => landed[o] = 1
    /\ pc[o] \in {"refused", "raised", "cut"} =>
         landed[o] = 0 /\ o \notin txn \cup ToSet(pending \o batch)

\* What a caller knows of its call, and what the connection may yet make of it.
Answer(o) == IF pc[o] = "idle" THEN "none"
             ELSE IF pc[o] \in {"refused", "raised", "cut"} THEN "failed"
             ELSE IF pc[o] \in {"ok", "canceled"} THEN pc[o]
             ELSE "waiting"

MayLand(o) == \/ pc[o] \notin Ended
              \/ pc[o] = "canceled" /\ o \in ToSet(pending) \cup ToSet(batch)

CallOf(o) == [answer |-> Answer(o), landed |-> landed[o], open |-> MayLand(o)]
CallsSeen == [o \in Op |-> CallOf(o)]
Calls == INSTANCE StoreCalls WITH call <- CallsSeen

\* Every call meets the one end StoreCalls promises it, whatever it shares the
\* connection, the batch and the transaction with: applied before its caller
\* hears "ok", never after it hears an error, and each hears once.
RefinesCalls == Calls!Spec

\* However often a batch is rolled back and queued again, no write is applied
\* twice, whether its caller still waits or not.
AppliedOnce == \A o \in Op : landed[o] <= 1

\* "No other operation can slip a statement into it": while a transaction is
\* open, its owner holds the lock, and the writes in it are its own.
TransactionHasOwner ==
  in_txn => \/ flusher = "flushing" /\ Holds("flusher") /\ txn \subseteq ToSet(batch)
            \/ \E o \in Txn : pc[o] = "body" /\ Holds(o) /\ txn = {}

\* "The retry preserves the order the writes were issued in": a write is never
\* overtaken by one that queued behind it.
KeepsIssueOrder ==
  [][LET line == batch \o pending
         next == batch' \o pending'
     IN \A i, j \in DOMAIN line :
          i < j /\ line[i] \in ToSet(next) =>
            /\ landed'[line[j]] = landed[line[j]]
            /\ \A k, l \in DOMAIN next :
                 next[k] = line[i] /\ next[l] = line[j] => k < l]_vars

\* close() drops the connection under no write that was already queued: it is
\* flushed first, however long the write lock is fought over.
QueuedWritesLand == \A o \in owed : pc[o] # "cut"

\* The barrier is up only while a shutdown is there to take it down: "closing
\* does not retire the store".
BarrierComesDown ==
  closing => shutdown \in {"scheduled", "draining", "drained", "in line"}

\* Every caller gets an answer: a write is never left in a queue that nobody
\* flushes, and close() returns.
EveryoneIsAnswered ==
  /\ \A o \in Op : pc[o] # "idle" ~> pc[o] \in Ended
  /\ \A c \in Closer : closer[c] = "waiting" ~> closer[c] \in {"returned", "canceled"}
=============================================================================
