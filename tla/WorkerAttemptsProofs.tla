------------------------ MODULE WorkerAttemptsProofs ------------------------
(***************************************************************************)
(* Workers reach the table only through its own operations, whatever their *)
(* calls, replies, timeouts and crashes do: WorkersSpec implements Spec,   *)
(* and every theorem about the table holds of a table that workers use.    *)
(* Of the workers themselves: an attempt goes to one call and is settled   *)
(* for one caller, a call keeps its slot as long as an answer is due, and  *)
(* when it is over it has settled what it held.  With a concurrency of one *)
(* what it settles is the attempt it ran.                                  *)
(***************************************************************************)
EXTENDS WorkerAttempts, TaskTableProofs, FiniteSetTheorems

CallRecord ==
  [worker : Worker \cup {NoWorker},
   runner : {"free", "running", "settling", "over"},
   handler : {"running", "over"},
   attempt : [Task -> Nat],
   lost : SUBSET Task, settled : SUBSET Task, reported : SUBSET Task]

\* A call with anything left to do belongs to a worker, and so does a write.
CallInv(call) ==
  /\ call \in CallRecord
  /\ call.worker = NoWorker => call.runner = "free" /\ call.handler = "over"

Writers == {"worker", "handler", "heartbeat loop"}

WriteInv(o) == /\ o.call \in Call
               /\ o.by \in Writers
               /\ o.worker \in Worker
               /\ o.kind \in Settlements \cup {"progress", "heartbeat"}
               /\ o.tasks \in SUBSET Task /\ o.tasks # {}

ReplyInv(r) ==
  r.call \in Call /\ r.by \in Writers /\ r.tasks \in SUBSET Task

WorkersInv == /\ calls \in [Call -> CallRecord]
              /\ \A c \in Call : CallInv(calls[c])
              /\ \A o \in sent : WriteInv(o)
              /\ \A r \in replies : ReplyInv(r)

-----------------------------------------------------------------------------
(* Calls.                                                                  *)

LEMMA FreeCallInv == CallInv(FreeCall)
BY DEF CallInv, FreeCall, CallRecord

LEMMA ClosedInv ==
  ASSUME NEW call, CallInv(call)
  PROVE  CallInv(Closed(call))
<1>1. CASE call.handler = "over"
  BY <1>1, FreeCallInv DEF Closed
<1>2. CASE call.handler # "over"
  BY <1>2 DEF Closed, CallInv, CallRecord
<1> QED
  BY <1>1, <1>2

\* One call changes and replies are only dropped.
LEMMA TurnInv ==
  ASSUME WorkersInv, NEW c \in Call, NEW call, CallInv(call),
         NEW ops, ops \subseteq replies, Turn([calls EXCEPT ![c] = call], ops)
  PROVE  /\ calls' \in [Call -> CallRecord]
         /\ \A d \in Call : CallInv(calls'[d])
         /\ \A r \in replies' : ReplyInv(r)
<1>1. calls' = [calls EXCEPT ![c] = call]
  BY DEF Turn
<1>2. replies' \subseteq replies
  BY DEF Turn
<1>3. call \in CallRecord
  BY DEF CallInv
<1> QED
  BY <1>1, <1>2, <1>3 DEF WorkersInv

LEMMA WriteIsOfAWorker ==
  ASSUME WorkersInv, NEW c \in Call, calls[c].worker # NoWorker,
         NEW by \in Writers, NEW kind \in Settlements \cup {"progress", "heartbeat"},
         NEW ts \in SUBSET Task, ts # {}
  PROVE  WriteInv(Write(c, by, kind, ts))
<1>1. calls[c].worker \in Worker
  BY DEF WorkersInv, CallRecord
<1> QED
  BY <1>1 DEF WriteInv, Write, Writers
-----------------------------------------------------------------------------
LEMMA InitWorkers == WorkersInit => WorkersInv
<1> SUFFICES ASSUME WorkersInit PROVE WorkersInv
  OBVIOUS
<1>1. FreeCall \in CallRecord
  BY FreeCallInv DEF CallInv
<1> QED
  BY <1>1, FreeCallInv DEF WorkersInit, WorkersInv

LEMMA EndsInv ==
  ASSUME WorkersInv, NEW c \in Call, NEW lost \in SUBSET Task,
         NEW handler \in {"running", "over"},
         NEW kinds \in [Task -> Settlements], Ends(c, kinds, lost, handler)
  PROVE  WorkersInv'
<1> DEFINE call == [calls[c] EXCEPT !.lost = lost, !.handler = handler]
           left == LeftBehind(call)
           next == IF left = {} THEN Closed(call)
                                ELSE [call EXCEPT !.runner = "settling"]
<1>1. calls[c].runner = "running" /\ CallInv(calls[c])
  BY DEF Ends, WorkersInv
<1>2. calls[c].worker # NoWorker
  BY <1>1 DEF CallInv
<1>3. CallInv(call) /\ CallInv([call EXCEPT !.runner = "settling"])
  BY <1>1, <1>2 DEF CallInv, CallRecord
<1>4. CallInv(next)
  BY <1>3, ClosedInv
<1>5. Turn([calls EXCEPT ![c] = next], replies)
  BY DEF Ends
<1>6. left \subseteq Task
  BY DEF LeftBehind
<1>7. \A t \in left : WriteInv(Write(c, "worker", kinds[t], {t}))
  BY <1>2, <1>6, WriteIsOfAWorker DEF Writers
<1>8. \A o \in sent' : WriteInv(o)
  BY <1>7 DEF Ends, WorkersInv
<1> HIDE DEF next
<1> QED
  BY <1>4, <1>5, <1>8, TurnInv DEF WorkersInv

LEMMA CallNextInv ==
  ASSUME WorkersInv, NEW c \in Call, CallNext(c)
  PROVE  WorkersInv'
<1> USE DEF WorkersInv
<1>a. CallInv(calls[c]) /\ calls[c] \in CallRecord
  OBVIOUS
<1>b. Covers(c) \subseteq Task
  BY DEF Covers
<1>c. calls[c].lost \in SUBSET Task
  BY <1>a DEF CallRecord
<1>1. ASSUME NEW t \in Task, NEW kind \in HandlerWrites, HandlerWrite(c, t, kind)
      PROVE  WorkersInv'
  <2>1. calls[c].worker # NoWorker
    BY <1>1, <1>a DEF HandlerWrite, CallInv
  <2>2. kind \in Settlements \cup {"progress", "heartbeat"}
    BY WorkerInputs
  <2>3. WriteInv(Write(c, "handler", kind, {t}))
    BY <2>1, <2>2, WriteIsOfAWorker DEF Writers
  <2> QED
    BY <1>1, <2>3 DEF HandlerWrite
<1>2. CASE Returns(c)
  <2>1. PICK bad \in SUBSET Covers(c) :
          Ends(c, [t \in Task |-> IF t \in bad THEN "fail" ELSE "complete"],
               calls[c].lost, "over")
    BY <1>2 DEF Returns
  <2> QED
    BY <2>1, <1>c, EndsInv DEF Settlements
<1>3. CASE Raises(c)
  <2>1. PICK kind \in {"retry", "fail"} :
          Ends(c, [t \in Task |-> kind], calls[c].lost, "over")
    BY <1>3 DEF Raises
  <2> QED
    BY <2>1, <1>c, EndsInv DEF Settlements
<1>4. CASE RaisesLostLease(c)
  BY <1>4, FreeCallInv, TurnInv DEF RaisesLostLease
<1>5. CASE TimesOut(c)
  <2>1. PICK handler \in {"running", "over"} :
          Ends(c, [t \in Task |-> "retry"], Covers(c), handler)
    BY <1>5 DEF TimesOut
  <2> QED
    BY <2>1, <1>b, EndsInv DEF Settlements
<1>6. CASE ZombieEnds(c)
  <2> DEFINE next == IF calls[c].runner = "over" THEN FreeCall
                     ELSE [calls[c] EXCEPT !.handler = "over"]
  <2>1. CallInv(next)
    BY <1>a, FreeCallInv DEF CallInv, CallRecord
  <2>2. Turn([calls EXCEPT ![c] = next], replies)
    BY <1>6 DEF ZombieEnds
  <2>3. UNCHANGED sent
    BY <1>6 DEF ZombieEnds
  <2> HIDE DEF next
  <2> QED
    BY <2>1, <2>2, <2>3, TurnInv
<1>7. CASE Beat(c)
  <2> DEFINE live == Covers(c) \ (calls[c].lost \cup calls[c].settled)
  <2>1. calls[c].worker # NoWorker
    BY <1>7, <1>a DEF Beat, CallInv
  <2>2. live # {} /\ live \in SUBSET Task
    BY <1>7, <1>b DEF Beat
  <2>3. WriteInv(Write(c, "heartbeat loop", "heartbeat", live))
    BY <2>1, <2>2, WriteIsOfAWorker DEF Writers
  <2> QED
    BY <1>7, <2>3 DEF Beat
<1> QED
  BY <1>1, <1>2, <1>3, <1>4, <1>5, <1>6, <1>7 DEF CallNext

LEMMA AnswerInv ==
  ASSUME WorkersInv, NEW o \in sent, NEW hits, NEW raised, Answer(o, hits, raised)
  PROVE  WorkersInv'
<1>1. WriteInv(o)
  BY DEF WorkersInv
<1>2. ReplyInv(Reply(o, hits, raised))
  BY <1>1 DEF WriteInv, ReplyInv, Reply
<1>3. UNCHANGED calls /\ sent' \subseteq sent
      /\ replies' \subseteq replies \cup {Reply(o, hits, raised)}
  BY DEF Answer
<1> QED
  BY <1>2, <1>3 DEF WorkersInv

LEMMA HearInv ==
  ASSUME WorkersInv, NEW r \in replies, Hear(r)
  PROVE  WorkersInv'
<1> DEFINE call == calls[r.call]
           last == r.by = "worker" /\ Outstanding(r.call, "worker") = {r}
           heard == CASE r.by = "handler" -> HandlerHears(call, r)
                      [] r.by = "worker" -> RunnerHears(call, r)
                      [] r.by = "heartbeat loop" -> LoopHears(call, r)
           next == IF last THEN Closed(heard) ELSE heard
<1>1. r.call \in Call /\ r.tasks \in SUBSET Task /\ CallInv(call)
  BY DEF WorkersInv, ReplyInv
<1>2. /\ CallInv(HandlerHears(call, r))
      /\ CallInv(RunnerHears(call, r))
      /\ CallInv(LoopHears(call, r))
  BY <1>1 DEF HandlerHears, RunnerHears, LoopHears, CallInv, CallRecord
<1>3. CallInv(heard)
  <2>1. r.by \in Writers
    BY DEF WorkersInv, ReplyInv
  <2>2. CASE r.by = "handler"
    BY <1>2, <2>2
  <2>3. CASE r.by = "worker"
    BY <1>2, <2>3
  <2>4. CASE r.by = "heartbeat loop"
    BY <1>2, <2>4
  <2> QED
    BY <2>1, <2>2, <2>3, <2>4 DEF Writers
<1>4. CallInv(next)
  BY <1>3, ClosedInv
<1>5. Turn([calls EXCEPT ![r.call] = next], replies \ {r}) /\ UNCHANGED sent
  BY DEF Hear
<1> HIDE DEF next
<1>6. replies \ {r} \subseteq replies
  OBVIOUS
<1>7. /\ calls' \in [Call -> CallRecord]
      /\ \A d \in Call : CallInv(calls'[d])
      /\ \A q \in replies' : ReplyInv(q)
  BY <1>1, <1>4, <1>5, <1>6, TurnInv
<1> QED
  BY <1>5, <1>7 DEF WorkersInv

\* A claim for the free slots is one of the table's claims.
LEMMA DispatchLimit ==
  ASSUME NEW w \in Worker, Dispatch(w)
  PROVE  \E limit \in DrawLimits : Claim(w, Queue, Name, limit)
<1> DEFINE free == Concurrency - Cardinality(InFlight(w))
<1>1. free \in 1..Concurrency
  <2>1. InFlight(w) \subseteq Call
    BY DEF InFlight
  <2>2. Cardinality(InFlight(w)) \in Nat
    BY <2>1, WorkerInputs, FS_Subset, FS_CardinalityType
  <2> QED
    BY <2>2, WorkerInputs DEF Dispatch
<1>2. Batch * free \in DrawLimits /\ Claim(w, Queue, Name, Batch * free)
  BY <1>1, WorkerInputs DEF Dispatch
<1> QED
  BY <1>2

LEMMA DispatchInv ==
  ASSUME WorkersInv, NEW w \in Worker, Dispatch(w), TypeOK'
  PROVE  WorkersInv'
<1>3. ASSUME NEW t \in Task PROVE rows'[t].attempt \in Nat
  BY DEF TypeOK, Row
<1>4. ASSUME NEW G \in SUBSET Task
      PROVE  CallInv(NewCall(w, [t \in Task |-> IF t \in G THEN rows'[t].attempt
                                                           ELSE 0]))
  <2> DEFINE f == [t \in Task |-> IF t \in G THEN rows'[t].attempt ELSE 0]
  <2>1. f \in [Task -> Nat]
    BY <1>3
  <2> HIDE DEF f
  <2>2. CallInv(NewCall(w, f))
    BY <2>1, IdsAreDistinct, FreeCallInv DEF NewCall, CallInv, CallRecord, FreeCall
  <2> QED
    BY <2>2 DEF f
<1>5. /\ calls' \in [Call -> CallRecord]
      /\ \A c \in Call : CallInv(calls'[c])
      /\ UNCHANGED <<sent, replies>>
  <2> DEFINE drawn == {t \in Task : /\ rows'[t].status = "running"
                                    /\ Recovered[t].status = "queued"}
  <2>1. PICK given \in [drawn -> Idle] :
          calls' = [c \in Call |->
            IF c \in Idle /\ {t \in drawn : given[t] = c} # {}
            THEN NewCall(w, [t \in Task |-> IF t \in {u \in drawn : given[u] = c}
                                            THEN rows'[t].attempt ELSE 0])
            ELSE calls[c]]
    BY DEF Dispatch
  <2>2. ASSUME NEW c \in Call PROVE CallInv(calls'[c])
    <3> DEFINE G == {u \in drawn : given[u] = c}
               new == NewCall(w, [t \in Task |-> IF t \in G THEN rows'[t].attempt
                                                 ELSE 0])
    <3>1. G \in SUBSET Task
      OBVIOUS
    <3>2. CallInv(new)
      BY <3>1, <1>4
    <3>3. calls'[c] = new \/ calls'[c] = calls[c]
      BY <2>1
    <3> QED
      BY <3>2, <3>3 DEF WorkersInv
  <2>3. \A c \in Call : calls'[c] \in CallRecord
    BY <2>2 DEF CallInv
  <2>4. UNCHANGED <<sent, replies>>
    BY DEF Dispatch
  <2> QED
    BY <2>1, <2>2, <2>3, <2>4
<1> QED
  BY <1>5 DEF WorkersInv

LEMMA CrashInv ==
  ASSUME WorkersInv, NEW w \in Worker, Crash(w)
  PROVE  WorkersInv'
<1>1. calls' = [c \in Call |-> IF calls[c].worker = w THEN FreeCall ELSE calls[c]]
  BY DEF Crash, Turn
<1>2. sent' \subseteq sent /\ replies' \subseteq replies
  BY DEF Crash, Turn
<1>3. ASSUME NEW c \in Call PROVE CallInv(calls'[c]) /\ calls'[c] \in CallRecord
  BY <1>1, FreeCallInv DEF WorkersInv, CallInv
<1> QED
  BY <1>1, <1>2, <1>3 DEF WorkersInv

-----------------------------------------------------------------------------
(* The simulation.                                                         *)

\* A write lands as one of the table's worker operations, or matches no row.
LEMMA LandIsTableStep ==
  ASSUME WorkersInv, NEW o \in sent, Land(o)
  PROVE  [Next]_vars
<1>1. WriteInv(o)
  BY DEF WorkersInv
<1>2. o.worker \in Worker
  BY <1>1 DEF WriteInv
<1> SUFFICES ASSUME ~UNCHANGED vars PROVE WorkerNext
  BY DEF Next
<1> DEFINE owned == {t \in o.tasks : Owns(o.worker, t)}
<1>3. CASE o.kind = "heartbeat" /\ owned # {}
  <2>1. Heartbeat(o.worker, o.tasks) /\ o.tasks \in SUBSET Task
    BY <1>1, <1>3 DEF Land, WriteInv
  <2> QED
    BY <1>2, <2>1 DEF WorkerNext
<1>4. CASE o.kind = "heartbeat" /\ owned = {}
  BY <1>4 DEF Land, table, vars
<1>5. CASE o.kind # "heartbeat"
  <2>1. PICK t \in o.tasks : Execute(o.worker, t, o.kind)
    BY <1>5 DEF Land, table, vars
  <2>2. t \in Task /\ o.kind \in {"progress", "complete", "fail", "retry"}
    BY <1>1, <1>5 DEF WriteInv, Settlements
  <2>3. \/ Progress(o.worker, t) \/ Complete(o.worker, t)
        \/ \E retryable \in BOOLEAN, delay \in Delays :
             Fail(o.worker, t, retryable, delay)
    BY <2>1, <2>2, WorkerInputs DEF Execute
  <2> QED
    BY <1>2, <2>2, <2>3 DEF WorkerNext
<1> QED
  BY <1>3, <1>4, <1>5

LEMMA StepIsTableStep ==
  ASSUME WorkersInv, [WorkersNext]_wvars
  PROVE  [Next]_vars
<1>1. CASE Outside
  BY <1>1 DEF Outside, Next, ClientNext
<1>2. ASSUME NEW w \in Worker, Dispatch(w) PROVE [Next]_vars
  <2>1. \E limit \in DrawLimits : Claim(w, Queue, Name, limit)
    BY <1>2, DispatchLimit
  <2> QED
    BY <2>1 DEF Next, WorkerNext
<1>3. ASSUME NEW w \in Worker, Crash(w) PROVE [Next]_vars
  BY <1>3 DEF Crash, table, vars
<1>4. ASSUME NEW c \in Call, CallNext(c) PROVE [Next]_vars
  BY <1>4 DEF CallNext, HandlerWrite, Returns, Raises, RaisesLostLease, TimesOut,
              ZombieEnds, Beat, Ends, table, vars
<1>5. ASSUME NEW o \in sent, Land(o) \/ Faults(o) PROVE [Next]_vars
  BY <1>5, LandIsTableStep DEF Faults, table, vars
<1>6. ASSUME NEW r \in replies, Hear(r) PROVE [Next]_vars
  BY <1>6 DEF Hear, table, vars
<1>7. CASE UNCHANGED wvars
  BY <1>7 DEF wvars, vars
<1> QED
  BY <1>1, <1>2, <1>3, <1>4, <1>5, <1>6, <1>7 DEF WorkersNext

LEMMA NextWorkers ==
  ASSUME WorkersInv, TypeOK', [WorkersNext]_wvars
  PROVE  WorkersInv'
<1>1. CASE Outside
  BY <1>1 DEF Outside, workers, WorkersInv
<1>2. ASSUME NEW w \in Worker, Dispatch(w) PROVE WorkersInv'
  BY <1>2, DispatchInv
<1>3. ASSUME NEW w \in Worker, Crash(w) PROVE WorkersInv'
  BY <1>3, CrashInv
<1>4. ASSUME NEW c \in Call, CallNext(c) PROVE WorkersInv'
  BY <1>4, CallNextInv
<1>5. ASSUME NEW o \in sent, Land(o) \/ Faults(o) PROVE WorkersInv'
  BY <1>5, AnswerInv DEF Land, Faults
<1>6. ASSUME NEW r \in replies, Hear(r) PROVE WorkersInv'
  BY <1>6, HearInv
<1>7. CASE UNCHANGED wvars
  BY <1>7 DEF wvars, WorkersInv
<1> QED
  BY <1>1, <1>2, <1>3, <1>4, <1>5, <1>6, <1>7 DEF WorkersNext

\* Workers, whatever they do, move the table by its own operations alone.
THEOREM WorkersImplementTable == WorkersSpec => Spec
<1>1. WorkersInit => Init /\ TableInv /\ WorkersInv
  BY InitTable, InitWorkers DEF WorkersInit
<1>2. TableInv /\ WorkersInv /\ [WorkersNext]_wvars => [Next]_vars
  BY StepIsTableStep
<1>3. TableInv /\ WorkersInv /\ [WorkersNext]_wvars => TableInv' /\ WorkersInv'
  <2> SUFFICES ASSUME TableInv, WorkersInv, [WorkersNext]_wvars
               PROVE  TableInv' /\ WorkersInv'
    OBVIOUS
  <2>1. [Next]_vars
    BY StepIsTableStep
  <2>2. TableInv'
    BY <2>1, NextTable
  <2>3. TypeOK'
    BY <2>2 DEF TableInv, RowsInv, TypeOK
  <2> QED
    BY <2>2, <2>3, NextWorkers
<1> QED
  BY <1>1, <1>2, <1>3, PTL DEF WorkersSpec, Spec

\* A table that crashing, stalling workers use keeps its invariants and each of
\* its tasks lives the life the lifecycle promises.
THEOREM WorkersKeepTheTable ==
  WorkersSpec =>
    /\ [](/\ LeaseIffRunning /\ CompletedIffTerminal /\ QueuedIsClean
          /\ OutcomeIsRecorded /\ DeliveryBudget /\ KeysPointAtRows)
    /\ RefinesLifecycle
BY WorkersImplementTable, LeasesAreHeld, CompletionsAreMarked, CleanRows,
   OutcomesAreTheLast, DeliveriesAreBounded, KeysNeverDangle,
   TableRefinesLifecycle, PTL

\* Workers move what a client waits on only as the wait loop assumes: so do their
\* settlements, zombies' included, and the recovery of what a crash left leased.
THEOREM WorkersKeepTheView == WorkersSpec /\ History => TableIsViewed
BY WorkersImplementTable, TableImplementsView
-----------------------------------------------------------------------------
(* One attempt, one call.                                                  *)

\* The row counts the attempts given out, and never counts back.
CountInv ==
  /\ DeliveredOnce
  /\ \A c \in Call, t \in Task : calls[c].attempt[t] <= rows[t].attempt
  /\ \A t \in Task : rows[t].status = "unused" => rows[t].attempt = 0

\* Outside a claim, no row's count moves and no row starts to run,
CountKept ==
  \A t \in Task :
    /\ rows'[t].attempt = rows[t].attempt
    /\ rows'[t].status = "unused" => rows[t].status = "unused"
    /\ rows'[t].status = "running" => rows[t].status = "running"

\* and a call keeps what it was given, or is forgotten.
GivenKept ==
  \A c \in Call :
    calls'[c].attempt \in {calls[c].attempt, [t \in Task |-> 0]}

LEMMA RowCounts ==
  ASSUME NEW r \in Row, r.status # "unused", NEW retryable, NEW delay
  PROVE  /\ CompleteRow(r).attempt = r.attempt /\ CompleteRow(r).status # "unused"
         /\ FailRow(r, retryable, delay).attempt = r.attempt
         /\ FailRow(r, retryable, delay).status # "unused"
         /\ CancelRow(r).attempt = r.attempt /\ CancelRow(r).status # "unused"
         /\ CancelRow(r).status = "running" => r.status = "running"
         /\ RecoverRow(r).attempt = r.attempt
         /\ RecoverRow(r).status # "unused"
BY DEF Row, CompleteRow, FailRow, CancelRow, RecoverRow, Requeued

LEMMA OneRowCounts ==
  ASSUME TypeOK, NEW t \in Task, NEW r, rows' = [rows EXCEPT ![t] = r],
         r.attempt = rows[t].attempt,
         r.status = "unused" => rows[t].status = "unused",
         r.status = "running" => rows[t].status = "running"
  PROVE  CountKept
<1>1. ASSUME NEW u \in Task
      PROVE  /\ rows'[u].attempt = rows[u].attempt
             /\ rows'[u].status = "unused" => rows[u].status = "unused"
             /\ rows'[u].status = "running" => rows[u].status = "running"
  <2>1. CASE u = t
    <3>1. rows'[u] = r
      BY <2>1 DEF TypeOK
    <3> QED
      BY <2>1, <3>1
  <2>2. CASE u # t
    <3>1. rows'[u] = rows[u]
      BY <2>2 DEF TypeOK
    <3> QED
      BY <3>1
  <2> QED
    BY <2>1, <2>2
<1> QED
  BY <1>1 DEF CountKept

LEMMA OutsideCounts ==
  ASSUME TypeOK, CountInv, Outside PROVE CountKept
<1>t. rows \in [Task -> Row]
  BY DEF TypeOK
<1>1. CASE Tick
  BY <1>1 DEF Tick, CountKept
<1>2. ASSUME NEW t \in Task, NEW q, NEW n, NEW p, NEW m, NEW delay,
             Submit(t, q, n, p, m, delay)
      PROVE  CountKept
  <2>1. rows[t].attempt = 0 /\ NewRow(q, n, p, m, delay).attempt = 0
        /\ NewRow(q, n, p, m, delay).status = "queued"
    BY <1>2 DEF Submit, CountInv, NewRow
  <2> QED
    BY <1>t, <1>2, <2>1 DEF Submit, CountKept
<1>3. ASSUME NEW t \in Task, Cancel(t) PROVE CountKept
  <2>1. /\ CancelRow(rows[t]).attempt = rows[t].attempt
        /\ CancelRow(rows[t]).status # "unused"
        /\ CancelRow(rows[t]).status = "running" => rows[t].status = "running"
    BY <1>t, <1>3, RowCounts DEF Cancel, Live
  <2>2. rows' = [rows EXCEPT ![t] = CancelRow(rows[t])]
    BY <1>3 DEF Cancel
  <2> QED
    BY <2>1, <2>2, OneRowCounts
<1> QED
  BY <1>1, <1>2, <1>3 DEF Outside

LEMMA LandCounts ==
  ASSUME TypeOK, WorkersInv, NEW o \in sent, Land(o) PROVE CountKept
<1>t. rows \in [Task -> Row]
  BY DEF TypeOK
<1>1. CASE o.kind = "heartbeat" /\ ~UNCHANGED rows
  <2>1. rows' = [t \in Task |-> IF t \in o.tasks /\ Owns(o.worker, t)
                 THEN [rows[t] EXCEPT !.lease_until = now + LeaseTicks]
                 ELSE rows[t]]
    BY <1>1 DEF Land, Heartbeat, table
  <2>2. ASSUME NEW t \in Task
        PROVE  /\ rows'[t].attempt = rows[t].attempt
               /\ rows'[t].status = rows[t].status
    BY <1>t, <2>1 DEF Row
  <2> QED
    BY <2>2 DEF CountKept
<1>2. CASE UNCHANGED rows
  BY <1>2 DEF CountKept
<1>3. ASSUME NEW t \in Task, Owns(o.worker, t), o.kind # "heartbeat",
             Execute(o.worker, t, o.kind)
      PROVE  CountKept
  <2>1. o.kind \in {"progress", "complete", "fail", "retry"}
    BY <1>3 DEF WorkersInv, WriteInv, Settlements
  <2>2. rows[t] \in Row /\ rows[t].status = "running"
    BY <1>t, <1>3 DEF Owns
  <2>3. CASE Progress(o.worker, t)
    <3>1. rows' = [rows EXCEPT ![t].progress = rows[t].attempt]
      BY <2>3 DEF Progress
    <3> QED
      BY <1>t, <2>2, <3>1 DEF CountKept, Row
  <2>4. CASE Complete(o.worker, t)
    <3>1. rows' = [rows EXCEPT ![t] = CompleteRow(rows[t])]
      BY <2>4 DEF Complete
    <3>2. /\ CompleteRow(rows[t]).attempt = rows[t].attempt
          /\ CompleteRow(rows[t]).status # "unused"
      BY <2>2, RowCounts
    <3> QED
      BY <2>2, <3>1, <3>2, OneRowCounts
  <2>5. ASSUME NEW retryable, NEW delay, Fail(o.worker, t, retryable, delay)
        PROVE  CountKept
    <3>1. rows' = [rows EXCEPT ![t] = FailRow(rows[t], retryable, delay)]
      BY <2>5 DEF Fail
    <3>2. /\ FailRow(rows[t], retryable, delay).attempt = rows[t].attempt
          /\ FailRow(rows[t], retryable, delay).status # "unused"
      BY <2>2, RowCounts
    <3> QED
      BY <2>2, <3>1, <3>2, OneRowCounts
  <2> QED
    BY <1>3, <2>1, <2>3, <2>4, <2>5 DEF Execute
<1>4. o.tasks \subseteq Task
  BY DEF WorkersInv, WriteInv
<1> QED
  BY <1>1, <1>2, <1>3, <1>4 DEF Land, table

LEMMA CallsKept ==
  ASSUME WorkersInv,
         \/ \E w \in Worker : Crash(w)
         \/ \E c \in Call : CallNext(c)
         \/ \E r \in replies : Hear(r)
  PROVE  GivenKept /\ UNCHANGED rows
<1>a. ASSUME NEW c \in Call, NEW call \in CallRecord, NEW ops,
             Turn([calls EXCEPT ![c] = call], ops),
             call.attempt \in {calls[c].attempt, [t \in Task |-> 0]}
      PROVE  GivenKept
  <2>1. calls' = [calls EXCEPT ![c] = call]
    BY <1>a DEF Turn
  <2> QED
    BY <1>a, <2>1 DEF GivenKept, WorkersInv
<1>b. FreeCall.attempt = [t \in Task |-> 0] /\ FreeCall \in CallRecord
  BY FreeCallInv DEF FreeCall, CallInv
<1>c. ASSUME NEW call \in CallRecord
      PROVE  /\ Closed(call) \in CallRecord
             /\ Closed(call).attempt \in {call.attempt, [t \in Task |-> 0]}
  BY <1>b, <1>c DEF Closed, CallRecord
<1>1. ASSUME NEW w \in Worker, Crash(w) PROVE GivenKept /\ UNCHANGED rows
  BY <1>b, <1>1 DEF Crash, Turn, GivenKept, table
<1>2. ASSUME NEW c \in Call, NEW lost \in SUBSET Task,
             NEW handler \in {"running", "over"}, NEW kinds,
             Ends(c, kinds, lost, handler)
      PROVE  GivenKept /\ UNCHANGED rows
  <2> DEFINE call == [calls[c] EXCEPT !.lost = lost, !.handler = handler]
             next == IF LeftBehind(call) = {} THEN Closed(call)
                     ELSE [call EXCEPT !.runner = "settling"]
  <2>1. Turn([calls EXCEPT ![c] = next], replies) /\ UNCHANGED rows
    BY <1>2 DEF Ends, table
  <2>2. call \in CallRecord /\ call.attempt = calls[c].attempt
    BY DEF WorkersInv, CallRecord
  <2>3. /\ [call EXCEPT !.runner = "settling"] \in CallRecord
        /\ [call EXCEPT !.runner = "settling"].attempt = calls[c].attempt
    BY <2>2 DEF CallRecord
  <2>4. /\ next \in CallRecord
        /\ next.attempt \in {calls[c].attempt, [t \in Task |-> 0]}
    BY <1>c, <2>2, <2>3
  <2> HIDE DEF next
  <2> QED
    BY <1>a, <2>1, <2>4
<1>3. ASSUME NEW c \in Call, CallNext(c) PROVE GivenKept /\ UNCHANGED rows
  <2>1. CASE \/ \E t \in Task, kind \in HandlerWrites : HandlerWrite(c, t, kind)
             \/ Beat(c)
    BY <2>1 DEF HandlerWrite, Beat, GivenKept, table
  <2>2. CASE Returns(c) \/ Raises(c) \/ TimesOut(c)
    <3>1. calls[c].lost \in SUBSET Task /\ Covers(c) \in SUBSET Task
      BY DEF WorkersInv, CallRecord, Covers
    <3>2. CASE Returns(c)
      <4>1. PICK bad \in SUBSET Covers(c) :
              Ends(c, [t \in Task |-> IF t \in bad THEN "fail" ELSE "complete"],
                   calls[c].lost, "over")
        BY <3>2 DEF Returns
      <4> QED
        BY <1>2, <3>1, <4>1
    <3>3. CASE Raises(c)
      <4>1. PICK kind \in {"retry", "fail"} :
              Ends(c, [t \in Task |-> kind], calls[c].lost, "over")
        BY <3>3 DEF Raises
      <4> QED
        BY <1>2, <3>1, <4>1
    <3>4. CASE TimesOut(c)
      <4>1. PICK handler \in {"running", "over"} :
              Ends(c, [t \in Task |-> "retry"], Covers(c), handler)
        BY <3>4 DEF TimesOut
      <4> QED
        BY <1>2, <3>1, <4>1
    <3> QED
      BY <2>2, <3>2, <3>3, <3>4
  <2>3. CASE RaisesLostLease(c)
    BY <1>a, <1>b, <2>3 DEF RaisesLostLease, table
  <2>4. CASE ZombieEnds(c)
    <3> DEFINE next == IF calls[c].runner = "over" THEN FreeCall
                       ELSE [calls[c] EXCEPT !.handler = "over"]
    <3>1. Turn([calls EXCEPT ![c] = next], replies) /\ UNCHANGED rows
      BY <2>4 DEF ZombieEnds, table
    <3>2. /\ next \in CallRecord
          /\ next.attempt \in {calls[c].attempt, [t \in Task |-> 0]}
      BY <1>b DEF WorkersInv, CallRecord
    <3> HIDE DEF next
    <3> QED
      BY <1>a, <3>1, <3>2
  <2> QED
    BY <1>3, <2>1, <2>2, <2>3, <2>4 DEF CallNext
<1>4. ASSUME NEW r \in replies, Hear(r) PROVE GivenKept /\ UNCHANGED rows
  <2> DEFINE call == calls[r.call]
             last == r.by = "worker" /\ Outstanding(r.call, "worker") = {r}
             heard == CASE r.by = "handler" -> HandlerHears(call, r)
                        [] r.by = "worker" -> RunnerHears(call, r)
                        [] r.by = "heartbeat loop" -> LoopHears(call, r)
             next == IF last THEN Closed(heard) ELSE heard
  <2>1. r.call \in Call /\ r.by \in Writers /\ r.tasks \in SUBSET Task
    BY DEF WorkersInv, ReplyInv
  <2>2. call \in CallRecord
    BY <2>1 DEF WorkersInv
  <2> HIDE DEF call
  <2>3. /\ HandlerHears(call, r) \in CallRecord
        /\ HandlerHears(call, r).attempt = call.attempt
        /\ RunnerHears(call, r) \in CallRecord
        /\ RunnerHears(call, r).attempt = call.attempt
        /\ LoopHears(call, r) \in CallRecord
        /\ LoopHears(call, r).attempt = call.attempt
    BY <2>1, <2>2 DEF HandlerHears, RunnerHears, LoopHears, CallRecord
  <2>4. heard \in CallRecord /\ heard.attempt = call.attempt
    BY <2>1, <2>3 DEF Writers
  <2> HIDE DEF heard
  <2>5. /\ next \in CallRecord
        /\ next.attempt \in {call.attempt, [t \in Task |-> 0]}
    BY <1>c, <2>4
  <2>6. Turn([calls EXCEPT ![r.call] = next], replies \ {r}) /\ UNCHANGED rows
    BY <1>4 DEF Hear, heard, call, table
  <2> HIDE DEF next
  <2> QED
    BY <1>a, <2>1, <2>5, <2>6 DEF call
<1> QED
  BY <1>1, <1>3, <1>4

\* Neither a row that kept its count nor a call that kept its attempts can make
\* two calls share one.
LEMMA CountsKeep ==
  ASSUME WorkersInv, CountInv, TypeOK, CountKept, GivenKept
  PROVE  CountInv'
<1>1. ASSUME NEW c \in Call, NEW t \in Task
      PROVE  /\ calls'[c].attempt[t] \in {calls[c].attempt[t], 0}
             /\ calls[c].attempt[t] \in Nat /\ rows[t].attempt \in Nat
  BY DEF GivenKept, WorkersInv, CallRecord, TypeOK, Row
<1>2. DeliveredOnce'
  <2> SUFFICES ASSUME NEW c \in Call, NEW d \in Call, NEW t \in Task, c # d,
                      calls'[c].attempt[t] = calls'[d].attempt[t],
                      calls'[c].attempt[t] # 0
               PROVE  FALSE
    BY DEF DeliveredOnce
  <2> QED
    BY <1>1 DEF CountInv, DeliveredOnce
<1>3. \A c \in Call, t \in Task : calls'[c].attempt[t] <= rows'[t].attempt
  <2> SUFFICES ASSUME NEW c \in Call, NEW t \in Task
               PROVE  calls'[c].attempt[t] <= rows'[t].attempt
    OBVIOUS
  <2>1. /\ calls[c].attempt[t] <= rows[t].attempt
        /\ rows'[t].attempt = rows[t].attempt
    BY DEF CountKept, CountInv
  <2> QED
    BY <1>1, <2>1
<1>4. \A t \in Task : rows'[t].status = "unused" => rows'[t].attempt = 0
  BY DEF CountKept, CountInv
<1> QED
  BY <1>2, <1>3, <1>4 DEF CountInv

\* A claim counts each row it draws up by one, and gives it to one call.
LEMMA DispatchCounts ==
  ASSUME TableInv, WorkersInv, CountInv, NEW w \in Worker, Dispatch(w)
  PROVE  CountInv'
<1>t. rows \in [Task -> Row] /\ TypeOK
  BY DEF TableInv, RowsInv, TypeOK
<1> DEFINE drawn == {t \in Task : /\ rows'[t].status = "running"
                                  /\ Recovered[t].status = "queued"}
<1>1. PICK S \in SUBSET Task :
        rows' = [t \in Task |-> IF t \in S THEN ClaimRow(Recovered[t], w)
                                           ELSE Recovered[t]]
  BY DEF Dispatch, Claim, Draws, Claimable
<1>2. ASSUME NEW t \in Task
      PROVE  /\ Recovered[t].attempt = rows[t].attempt
             /\ rows[t].attempt \in Nat
             /\ Recovered[t] \in Row
             /\ Recovered[t].status = "unused" => rows[t].status = "unused"
  <2>1. rows[t] \in Row /\ RowInv(rows[t])
    BY DEF TableInv, RowsInv
  <2>2. CASE Expired(rows[t])
    <3>1. Recovered[t] = RecoverRow(rows[t]) /\ rows[t].status # "unused"
      BY <2>2 DEF Recovered, Expired
    <3>2. /\ RecoverRow(rows[t]).attempt = rows[t].attempt
          /\ RecoverRow(rows[t]).status # "unused"
      BY <2>1, <3>1, RowCounts
    <3>3. RowInv(RecoverRow(rows[t]))
      BY <2>1, <2>2, RecoverRowInv DEF Expired, TableInv
    <3> QED
      BY <2>1, <3>1, <3>2, <3>3 DEF RowInv, Row
  <2>3. CASE ~Expired(rows[t])
    BY <2>1, <2>3 DEF Recovered, Row
  <2> QED
    BY <2>2, <2>3
<1>3. ASSUME NEW t \in Task
      PROVE  /\ rows'[t].attempt \in {rows[t].attempt, rows[t].attempt + 1}
             /\ t \in drawn => rows'[t].attempt = rows[t].attempt + 1
             /\ rows'[t].status = "unused" => /\ rows[t].status = "unused"
                                              /\ rows'[t].attempt = rows[t].attempt
  <2>1. /\ ClaimRow(Recovered[t], w).attempt = rows[t].attempt + 1
        /\ ClaimRow(Recovered[t], w).status = "running"
    BY <1>2 DEF ClaimRow, Row
  <2> QED
    BY <1>1, <1>2, <2>1
<1>4. PICK given \in [drawn -> Idle] :
        calls' = [c \in Call |->
          IF c \in Idle /\ {t \in drawn : given[t] = c} # {}
          THEN NewCall(w, [t \in Task |-> IF t \in {u \in drawn : given[u] = c}
                                          THEN rows'[t].attempt ELSE 0])
          ELSE calls[c]]
  BY DEF Dispatch
<1>g. ASSUME NEW c \in Call
      PROVE  \/ calls'[c] = calls[c]
             \/ \A t \in Task :
                  calls'[c].attempt[t] = IF t \in drawn /\ given[t] = c
                                         THEN rows'[t].attempt ELSE 0
  <2> HIDE DEF drawn
  <2> DEFINE f == [t \in Task |-> IF t \in {u \in drawn : given[u] = c}
                                 THEN rows'[t].attempt ELSE 0]
  <2>1. calls'[c] = calls[c] \/ calls'[c] = NewCall(w, f)
    BY <1>4
  <2>2. NewCall(w, f).attempt = f
    BY DEF NewCall, FreeCall
  <2> QED
    BY <2>1, <2>2
<1>5. ASSUME NEW c \in Call, NEW t \in Task
      PROVE  \/ calls'[c].attempt[t] \in {calls[c].attempt[t], 0}
             \/ /\ t \in drawn /\ given[t] = c
                /\ calls'[c].attempt[t] = rows[t].attempt + 1
  <2>1. t \in drawn => rows'[t].attempt = rows[t].attempt + 1
    BY <1>3
  <2> HIDE DEF drawn
  <2> QED
    BY <1>g, <2>1
<1>6. ASSUME NEW c \in Call, NEW t \in Task
      PROVE  calls[c].attempt[t] \in Nat /\ calls[c].attempt[t] <= rows[t].attempt
  BY DEF CountInv, WorkersInv, CallRecord
<1>7. DeliveredOnce'
  <2> SUFFICES ASSUME NEW c \in Call, NEW d \in Call, NEW t \in Task, c # d,
                      calls'[c].attempt[t] = calls'[d].attempt[t],
                      calls'[c].attempt[t] # 0
               PROVE  FALSE
    BY DEF DeliveredOnce
  <2>1. calls[c].attempt[t] # calls[d].attempt[t] \/ calls[c].attempt[t] = 0
    BY DEF CountInv, DeliveredOnce
  <2> HIDE DEF drawn
  <2> QED
    BY <1>2, <1>5, <1>6, <2>1
<1>8. \A c \in Call, t \in Task : calls'[c].attempt[t] <= rows'[t].attempt
  <2> SUFFICES ASSUME NEW c \in Call, NEW t \in Task
               PROVE  calls'[c].attempt[t] <= rows'[t].attempt
    OBVIOUS
  <2> HIDE DEF drawn
  <2> QED
    BY <1>2, <1>3, <1>5, <1>6
<1>9. \A t \in Task : rows'[t].status = "unused" => rows'[t].attempt = 0
  BY <1>3 DEF CountInv
<1> QED
  BY <1>7, <1>8, <1>9 DEF CountInv

LEMMA InitCounts == WorkersInit => CountInv
  BY DEF WorkersInit, Init, NoRow, FreeCall, CountInv, DeliveredOnce

LEMMA NextCounts ==
  ASSUME TableInv, WorkersInv, CountInv, [WorkersNext]_wvars
  PROVE  CountInv'
<1>t. TypeOK
  BY DEF TableInv, RowsInv, TypeOK
<1>1. CASE Outside
  <2>1. CountKept
    BY <1>1, <1>t, OutsideCounts
  <2>2. GivenKept
    BY <1>1 DEF Outside, workers, GivenKept
  <2> QED
    BY <1>t, <2>1, <2>2, CountsKeep
<1>2. ASSUME NEW w \in Worker, Dispatch(w) PROVE CountInv'
  BY <1>2, DispatchCounts
<1>3. ASSUME NEW o \in sent, Land(o) PROVE CountInv'
  <2>1. CountKept
    BY <1>3, <1>t, LandCounts
  <2>2. GivenKept
    BY <1>3 DEF Land, Answer, GivenKept
  <2> QED
    BY <1>t, <2>1, <2>2, CountsKeep
<1>4. ASSUME NEW o \in sent, Faults(o) PROVE CountInv'
  BY <1>4, <1>t, CountsKeep DEF Faults, Answer, table, GivenKept, CountKept
<1>5. CASE \/ \E w \in Worker : Crash(w)
           \/ \E c \in Call : CallNext(c)
           \/ \E r \in replies : Hear(r)
  <2>1. GivenKept /\ UNCHANGED rows
    BY <1>5, CallsKept
  <2> QED
    BY <1>t, <2>1, CountsKeep DEF CountKept
<1>6. CASE UNCHANGED wvars
  BY <1>6, <1>t, CountsKeep DEF wvars, GivenKept, CountKept
<1> QED
  BY <1>1, <1>2, <1>3, <1>4, <1>5, <1>6 DEF WorkersNext

\* No attempt is ever given to two calls, whatever workers crash, stall or run
\* the same task twice.
THEOREM AttemptsAreDeliveredOnce == WorkersSpec => []DeliveredOnce
<1>1. WorkersInit => TableInv /\ WorkersInv /\ CountInv
  BY InitTable, InitWorkers, InitCounts DEF WorkersInit
<1>2. TableInv /\ WorkersInv /\ CountInv /\ [WorkersNext]_wvars
        => TableInv' /\ WorkersInv' /\ CountInv'
  <2> SUFFICES ASSUME TableInv, WorkersInv, CountInv, [WorkersNext]_wvars
               PROVE  TableInv' /\ WorkersInv' /\ CountInv'
    OBVIOUS
  <2>1. TableInv'
    BY StepIsTableStep, NextTable
  <2>2. TypeOK'
    BY <2>1 DEF TableInv, RowsInv, TypeOK
  <2> QED
    BY <2>1, <2>2, NextWorkers, NextCounts
<1>3. CountInv => DeliveredOnce
  BY DEF CountInv
<1> QED
  BY <1>1, <1>2, <1>3, PTL DEF WorkersSpec
-----------------------------------------------------------------------------
(* One attempt, one settlement.                                            *)

Settles(o) == o.kind \in Settlements

\* An attempt somebody was told to have settled is over for good: its row
\* counts further or does not run.
SettledFor(r, t) ==
  /\ r.hits[t] \in Nat /\ r.hits[t] <= rows[t].attempt
  /\ r.hits[t] = rows[t].attempt => rows[t].status # "running"

\* A settlement is of one task.
SettleInv ==
  /\ \A o \in sent : Settles(o) => \E t \in Task : o.tasks = {t}
  /\ \A r \in replies : \A t \in r.tasks :
       Settles(r) /\ r.hits[t] # 0 => SettledFor(r, t)
  /\ SettledOnce

\* A row counts up with every delivery, and runs again only as a new one.
RowsGoOn ==
  \A t \in Task :
    /\ rows'[t].attempt >= rows[t].attempt
    /\ rows'[t].status = "running" /\ rows'[t].attempt = rows[t].attempt
         => rows[t].status = "running"

LEMMA DispatchGoesOn ==
  ASSUME TableInv, NEW w \in Worker, Dispatch(w) PROVE RowsGoOn
<1>1. PICK S \in SUBSET Task :
        rows' = [t \in Task |-> IF t \in S THEN ClaimRow(Recovered[t], w)
                                           ELSE Recovered[t]]
  BY DEF Dispatch, Claim, Draws, Claimable
<1>2. ASSUME NEW t \in Task
      PROVE  /\ rows[t] \in Row /\ Recovered[t] \in Row
             /\ Recovered[t].attempt = rows[t].attempt
             /\ Recovered[t].status = "running" => rows[t].status = "running"
  <2>1. rows[t] \in Row /\ RowInv(rows[t])
    BY DEF TableInv, RowsInv
  <2>2. CASE Expired(rows[t])
    <3>1. Recovered[t] = RecoverRow(rows[t]) /\ rows[t].status = "running"
      BY <2>2 DEF Recovered, Expired
    <3>2. RecoverRow(rows[t]).attempt = rows[t].attempt
      BY <2>1, <3>1, RowCounts
    <3>3. RowInv(RecoverRow(rows[t]))
      BY <2>1, <2>2, RecoverRowInv DEF Expired, TableInv
    <3> QED
      BY <2>1, <3>1, <3>2, <3>3 DEF RowInv
  <2>3. CASE ~Expired(rows[t])
    BY <2>1, <2>3 DEF Recovered
  <2> QED
    BY <2>2, <2>3
<1>3. ASSUME NEW t \in Task
      PROVE  /\ rows'[t].attempt >= rows[t].attempt
             /\ rows'[t].status = "running" /\ rows'[t].attempt = rows[t].attempt
                  => rows[t].status = "running"
  <2>1. ClaimRow(Recovered[t], w).attempt = rows[t].attempt + 1
    BY <1>2 DEF ClaimRow, Row
  <2>2. rows[t].attempt \in Nat
    BY <1>2 DEF Row
  <2> QED
    BY <1>1, <1>2, <2>1, <2>2
<1> QED
  BY <1>3 DEF RowsGoOn

\* What was settled stays settled while rows go on; dropped replies and writes
\* take nothing with them.
LEMMA SettledStays ==
  ASSUME TypeOK, TypeOK', WorkersInv, SettleInv, RowsGoOn,
         replies' \subseteq replies,
         \A o \in sent' : Settles(o) => \E t \in Task : o.tasks = {t}
  PROVE  SettleInv'
<1>1. ASSUME NEW r \in replies', NEW t \in r.tasks, Settles(r), r.hits[t] # 0
      PROVE  SettledFor(r, t)'
  <2>1. t \in Task /\ SettledFor(r, t)
    BY <1>1 DEF SettleInv, WorkersInv, ReplyInv
  <2>2. rows[t].attempt \in Nat /\ rows'[t].attempt \in Nat
    BY <2>1 DEF TypeOK, Row
  <2> QED
    BY <2>1, <2>2 DEF SettledFor, RowsGoOn
<1>2. SettledOnce'
  BY DEF SettleInv, SettledOnce
<1> QED
  BY <1>1, <1>2 DEF SettleInv, Settles

\* A step that issues writes of the runner issues one for each task.
LEMMA CallsSettle ==
  ASSUME WorkersInv, SettleInv,
         \/ \E w \in Worker : Crash(w)
         \/ \E c \in Call : CallNext(c)
         \/ \E r \in replies : Hear(r)
  PROVE  /\ replies' \subseteq replies
         /\ \A o \in sent' : Settles(o) => \E t \in Task : o.tasks = {t}
<1> DEFINE Single(ops) ==
      \A o \in ops : Settles(o) => \E t \in Task : o.tasks = {t}
<1>a. Single(sent)
  BY DEF SettleInv
<1>1. ASSUME NEW w \in Worker, Crash(w)
      PROVE  replies' \subseteq replies /\ Single(sent')
  BY <1>a, <1>1 DEF Crash, Turn
<1>2. ASSUME NEW r \in replies, Hear(r)
      PROVE  replies' \subseteq replies /\ Single(sent')
  BY <1>a, <1>2 DEF Hear, Turn
<1>3. ASSUME NEW c \in Call, NEW kinds, NEW lost, NEW handler,
             Ends(c, kinds, lost, handler)
      PROVE  replies' \subseteq replies /\ Single(sent')
  <2> DEFINE left == LeftBehind([calls[c] EXCEPT !.lost = lost,
                                                 !.handler = handler])
  <2>1. replies' \subseteq replies
    BY <1>3 DEF Ends, Turn
  <2>2. sent' = sent \cup {Write(c, "worker", kinds[t], {t}) : t \in left}
    BY <1>3 DEF Ends
  <2>3. left \subseteq Task
    BY DEF LeftBehind
  <2>4. \A t \in left : Write(c, "worker", kinds[t], {t}).tasks = {t}
    BY DEF Write
  <2> HIDE DEF left
  <2> QED
    BY <1>a, <2>1, <2>2, <2>3, <2>4
<1>4. ASSUME NEW c \in Call, CallNext(c)
      PROVE  replies' \subseteq replies /\ Single(sent')
  <2>1. ASSUME NEW t \in Task, NEW kind \in HandlerWrites, HandlerWrite(c, t, kind)
        PROVE  replies' \subseteq replies /\ Single(sent')
    BY <1>a, <2>1 DEF HandlerWrite, Write
  <2>2. CASE Returns(c) \/ Raises(c) \/ TimesOut(c)
    BY <1>3, <2>2 DEF Returns, Raises, TimesOut
  <2>3. CASE RaisesLostLease(c) \/ ZombieEnds(c)
    BY <1>a, <2>3 DEF RaisesLostLease, ZombieEnds, Turn
  <2>4. CASE Beat(c)
    <3>1. ~Settles(Write(c, "heartbeat loop", "heartbeat",
                         Covers(c) \ (calls[c].lost \cup calls[c].settled)))
      BY DEF Settles, Write, Settlements
    <3> QED
      BY <1>a, <2>4, <3>1 DEF Beat
  <2> QED
    BY <1>4, <2>1, <2>2, <2>3, <2>4 DEF CallNext
<1> QED
  BY <1>1, <1>2, <1>4

\* A settlement the table takes leaves its row not running.
LEMMA SettlementEnds ==
  ASSUME TypeOK, WorkersInv, SettleInv, NEW o \in sent, Land(o), Settles(o),
         NEW t \in o.tasks, Owns(o.worker, t)
  PROVE  rows'[t].status # "running"
<1>1. t \in Task /\ rows[t] \in Row /\ o.tasks = {t}
  BY DEF WorkersInv, WriteInv, TypeOK, SettleInv
<1>2. Execute(o.worker, t, o.kind) /\ o.kind \in Settlements
  BY <1>1 DEF Land, Settles, Settlements
<1>3. /\ CompleteRow(rows[t]).status # "running"
      /\ \A retryable, delay : FailRow(rows[t], retryable, delay).status # "running"
  BY <1>1 DEF CompleteRow, FailRow, Requeued, Row
<1>4. rows' = [rows EXCEPT ![t] = CompleteRow(rows[t])]
      \/ \E retryable, delay :
           rows' = [rows EXCEPT ![t] = FailRow(rows[t], retryable, delay)]
  BY <1>2 DEF Execute, Complete, Fail, Settlements
<1> QED
  BY <1>1, <1>3, <1>4 DEF TypeOK

\* Whoever settles a row takes it out of "running": its attempt is none that
\* was settled before, and will be none that is settled after.
LEMMA LandSettles ==
  ASSUME TypeOK, TypeOK', WorkersInv, SettleInv, NEW o \in sent, Land(o)
  PROVE  SettleInv'
<1> DEFINE owned == {t \in o.tasks : Owns(o.worker, t)}
           hits == [t \in Task |-> IF t \in owned THEN rows[t].attempt ELSE 0]
           new == Reply(o, hits, FALSE)
<1>1. /\ sent' \subseteq sent
      /\ replies' \subseteq replies \cup {new}
  BY DEF Land, Answer
<1>2. /\ new.hits = hits /\ new.tasks = o.tasks /\ new.kind = o.kind
  BY DEF Reply
<1>3. CountKept
  BY LandCounts
<1>4. o.tasks \subseteq Task
  BY DEF WorkersInv, WriteInv
<1>5. \A t \in Task : /\ rows[t].attempt \in Nat /\ rows'[t].attempt \in Nat
                      /\ rows[t] \in Row
  BY DEF TypeOK, Row
<1>6. ASSUME NEW r \in replies, NEW t \in r.tasks, Settles(r), r.hits[t] # 0
      PROVE  SettledFor(r, t) /\ SettledFor(r, t)'
  <2>1. t \in Task /\ SettledFor(r, t)
    BY <1>6 DEF SettleInv, WorkersInv, ReplyInv
  <2> QED
    BY <1>3, <1>5, <2>1 DEF SettledFor, CountKept
<1>7. ASSUME NEW t \in o.tasks, Settles(o), hits[t] # 0
      PROVE  /\ t \in Task /\ hits[t] = rows[t].attempt
             /\ rows[t].status = "running"
             /\ rows'[t].status # "running"
  <2>1. t \in owned /\ hits[t] = rows[t].attempt /\ Owns(o.worker, t) /\ t \in Task
    BY <1>4, <1>7
  <2>2. rows'[t].status # "running"
    BY <1>7, <2>1, SettlementEnds
  <2> QED
    BY <2>1, <2>2 DEF Owns
<1> HIDE DEF hits, new
<1>8. ASSUME NEW r \in replies', NEW t \in r.tasks, Settles(r), r.hits[t] # 0
      PROVE  SettledFor(r, t)'
  <2>1. CASE r \in replies
    BY <1>6, <1>8, <2>1
  <2>2. CASE r = new
    <3>1. /\ t \in Task /\ hits[t] = rows[t].attempt
          /\ rows'[t].status # "running"
      BY <1>2, <1>7, <1>8, <2>2 DEF Settles
    <3> QED
      BY <1>2, <1>3, <1>5, <2>2, <3>1 DEF SettledFor, CountKept
  <2> QED
    BY <1>1, <2>1, <2>2
<1>9. SettledOnce'
  <2>1. ASSUME NEW r \in replies, NEW t \in r.tasks \cap new.tasks,
               Settles(r), Settles(new), r.hits[t] # 0, new.hits[t] # 0
        PROVE  r.hits[t] # new.hits[t]
    <3>1. SettledFor(r, t)
      BY <1>6, <2>1
    <3>2. hits[t] = rows[t].attempt /\ rows[t].status = "running"
      BY <1>2, <1>7, <2>1 DEF Settles
    <3> QED
      BY <1>2, <3>1, <3>2 DEF SettledFor
  <2> SUFFICES ASSUME NEW q \in replies', NEW r \in replies', NEW t \in Task,
                      q # r, Settles(q), Settles(r), q.hits[t] # 0,
                      t \in q.tasks \cap r.tasks, q.hits[t] = r.hits[t]
               PROVE  FALSE
    BY DEF SettledOnce, Settles
  <2>2. CASE q \in replies /\ r \in replies
    BY <2>2 DEF SettleInv, SettledOnce, Settles
  <2>3. CASE q \in replies /\ r = new
    BY <2>1, <2>3
  <2>4. CASE q = new /\ r \in replies
    BY <2>1, <2>4
  <2> QED
    BY <1>1, <2>2, <2>3, <2>4
<1> QED
  BY <1>1, <1>8, <1>9 DEF SettleInv, Settles

LEMMA InitSettles == WorkersInit => SettleInv
  BY DEF WorkersInit, SettleInv, SettledOnce

LEMMA NextSettles ==
  ASSUME TableInv, TypeOK', WorkersInv, CountInv, SettleInv, [WorkersNext]_wvars
  PROVE  SettleInv'
<1>t. TypeOK
  BY DEF TableInv, RowsInv, TypeOK
<1>a. CountKept => RowsGoOn
  BY <1>t DEF CountKept, RowsGoOn, TypeOK, Row
<1>b. UNCHANGED rows => RowsGoOn
  BY <1>t DEF RowsGoOn, TypeOK, Row
<1>1. CASE Outside
  <2>1. RowsGoOn
    BY <1>1, <1>t, <1>a, OutsideCounts
  <2> QED
    BY <1>1, <1>t, <2>1, SettledStays DEF Outside, workers, SettleInv
<1>2. ASSUME NEW w \in Worker, Dispatch(w) PROVE SettleInv'
  <2>1. RowsGoOn
    BY <1>2, DispatchGoesOn
  <2> QED
    BY <1>2, <1>t, <2>1, SettledStays DEF Dispatch, SettleInv
<1>3. ASSUME NEW o \in sent, Land(o) PROVE SettleInv'
  BY <1>3, <1>t, LandSettles
<1>4. ASSUME NEW o \in sent, Faults(o) PROVE SettleInv'
  <2> DEFINE new == Reply(o, [t \in Task |-> 0], TRUE)
  <2>1. /\ sent' \subseteq sent /\ replies' \subseteq replies \cup {new}
        /\ UNCHANGED rows
    BY <1>4 DEF Faults, Answer, table
  <2>2. new.hits = [t \in Task |-> 0] /\ new.tasks \subseteq Task
    BY DEF Reply, WorkersInv, WriteInv
  <2> HIDE DEF new
  <2>3. \A r \in replies', t \in Task : t \in r.tasks =>
          \/ r \in replies
          \/ r.hits[t] = 0
    BY <2>1, <2>2
  <2>4. \A r \in replies' : r.tasks \subseteq Task
    BY <2>1, <2>2 DEF WorkersInv, ReplyInv
  <2>5. SettledOnce'
    <3> SUFFICES ASSUME NEW q \in replies', NEW r \in replies', NEW t \in Task,
                        q # r, {q.kind, r.kind} \subseteq Settlements,
                        q.hits[t] # 0, t \in q.tasks \cap r.tasks
                 PROVE  q.hits[t] # r.hits[t]
      BY DEF SettledOnce
    <3> QED
      BY <2>3 DEF SettleInv, SettledOnce
  <2>6. \A r \in replies' : \A t \in r.tasks :
          Settles(r) /\ r.hits[t] # 0 => SettledFor(r, t)'
    BY <2>1, <2>3, <2>4 DEF SettleInv, SettledFor
  <2> QED
    BY <2>1, <2>5, <2>6 DEF SettleInv, Settles
<1>5. CASE \/ \E w \in Worker : Crash(w)
           \/ \E c \in Call : CallNext(c)
           \/ \E r \in replies : Hear(r)
  <2>1. RowsGoOn
    BY <1>5, <1>b, CallsKept
  <2>2. /\ replies' \subseteq replies
        /\ \A o \in sent' : Settles(o) => \E t \in Task : o.tasks = {t}
    BY <1>5, CallsSettle
  <2> QED
    BY <1>t, <2>1, <2>2, SettledStays
<1>6. CASE UNCHANGED wvars
  <2>1. UNCHANGED <<rows, sent, replies>>
    BY <1>6 DEF wvars
  <2> QED
    BY <1>t, <1>b, <2>1, SettledStays DEF SettleInv
<1> QED
  BY <1>1, <1>2, <1>3, <1>4, <1>5, <1>6 DEF WorkersNext

\* Whatever races it (a zombie, a redelivery to another worker, a timeout's
\* settlement and the handler's own), an attempt is settled for one caller.
THEOREM AttemptsAreSettledOnce == WorkersSpec => []SettledOnce
<1>1. WorkersInit => TableInv /\ WorkersInv /\ CountInv /\ SettleInv
  BY InitTable, InitWorkers, InitCounts, InitSettles DEF WorkersInit
<1>2. TableInv /\ WorkersInv /\ CountInv /\ SettleInv /\ [WorkersNext]_wvars
        => TableInv' /\ WorkersInv' /\ CountInv' /\ SettleInv'
  <2> SUFFICES ASSUME TableInv, WorkersInv, CountInv, SettleInv,
                      [WorkersNext]_wvars
               PROVE  TableInv' /\ WorkersInv' /\ CountInv' /\ SettleInv'
    OBVIOUS
  <2>1. TableInv'
    BY StepIsTableStep, NextTable
  <2>2. TypeOK'
    BY <2>1 DEF TableInv, RowsInv, TypeOK
  <2> QED
    BY <2>1, <2>2, NextWorkers, NextCounts, NextSettles
<1>3. SettleInv => SettledOnce
  BY DEF SettleInv
<1> QED
  BY <1>1, <1>2, <1>3, PTL DEF WorkersSpec
-----------------------------------------------------------------------------
(* What a call held is settled, and whoever waits is answered.             *)

Leased(r) == r.status = "running" /\ r.lease_until > now

\* Nobody settles attempt a of task t any more.
Gone(t, a) == rows[t].attempt # a \/ ~Leased(rows[t])

\* A lease that is live at the end of a step was so before it, and as much the
\* same worker's, unless the step is a new delivery.
LeasesGoOn ==
  \A t \in Task :
    rows'[t].attempt = rows[t].attempt /\ Leased(rows[t])'
      => Leased(rows[t]) /\ rows'[t].worker_id = rows[t].worker_id

\* One row changes.
LEMMA OneLeaseGoesOn ==
  ASSUME TypeOK, NEW t \in Task, NEW r, rows' = [rows EXCEPT ![t] = r], UNCHANGED now,
         Leased(r) => Leased(rows[t]) /\ r.worker_id = rows[t].worker_id
  PROVE  LeasesGoOn
<1>1. ASSUME NEW u \in Task, Leased(rows'[u])
      PROVE  Leased(rows[u]) /\ rows'[u].worker_id = rows[u].worker_id
  <2>1. CASE u = t
    <3>1. rows'[u] = r
      BY <2>1 DEF TypeOK
    <3> QED
      BY <1>1, <2>1, <3>1
  <2>2. CASE u # t
    <3>1. rows'[u] = rows[u]
      BY <2>2 DEF TypeOK
    <3> QED
      BY <1>1, <3>1
  <2> QED
    BY <2>1, <2>2
<1>2. ASSUME NEW u \in Task, Leased(rows[u])'
      PROVE  Leased(rows'[u])
  BY <1>2 DEF Leased
<1> QED
  BY <1>1, <1>2 DEF LeasesGoOn

\* Clients and the clock take leases away at most,
LEMMA OutsideLeases ==
  ASSUME TypeOK, now \in Nat, Outside PROVE LeasesGoOn
<1>t. rows \in [Task -> Row]
  BY DEF TypeOK
<1>1. CASE Tick
  <2>1. \A t \in Task : rows[t].lease_until \in Int
    BY <1>t DEF Row, Time, Null
  <2> QED
    BY <1>1, <2>1 DEF Tick, LeasesGoOn, Leased
<1>2. ASSUME NEW t \in Task, NEW q, NEW n, NEW p, NEW m, NEW delay,
             Submit(t, q, n, p, m, delay)
      PROVE  LeasesGoOn
  <2>1. NewRow(q, n, p, m, delay).status = "queued"
    BY DEF NewRow
  <2>2. ~Leased(NewRow(q, n, p, m, delay))
    BY <2>1 DEF Leased
  <2> QED
    BY <1>2, <2>2, OneLeaseGoesOn DEF Submit
<1>3. ASSUME NEW t \in Task, Cancel(t) PROVE LeasesGoOn
  <2>1. Leased(CancelRow(rows[t]))
          => /\ Leased(rows[t])
             /\ CancelRow(rows[t]).worker_id = rows[t].worker_id
    BY <1>t DEF Leased, CancelRow, Row
  <2>2. rows' = [rows EXCEPT ![t] = CancelRow(rows[t])] /\ UNCHANGED now
    BY <1>3 DEF Cancel
  <2> QED
    BY <2>1, <2>2, OneLeaseGoesOn
<1> QED
  BY <1>1, <1>2, <1>3 DEF Outside

\* a claim gives new ones, all to the worker that claims,
LEMMA DispatchLeases ==
  ASSUME TableInv, NEW w \in Worker, Dispatch(w)
  PROVE  /\ LeasesGoOn
         /\ \A t \in Task :
              rows'[t].status = "running" /\ Recovered[t].status = "queued"
                => rows'[t].worker_id = w
<1>1. PICK S \in SUBSET Task :
        rows' = [t \in Task |-> IF t \in S THEN ClaimRow(Recovered[t], w)
                                           ELSE Recovered[t]]
  BY DEF Dispatch, Claim, Draws, Claimable
<1>2. UNCHANGED now
  BY DEF Dispatch, Claim
<1>3. ASSUME NEW t \in Task
      PROVE  /\ rows[t] \in Row /\ Recovered[t] \in Row
             /\ Recovered[t].attempt = rows[t].attempt
             /\ Recovered[t].status = "running" => Recovered[t] = rows[t]
  <2>1. rows[t] \in Row /\ RowInv(rows[t])
    BY DEF TableInv, RowsInv
  <2>2. CASE Expired(rows[t])
    <3>1. Recovered[t] = RecoverRow(rows[t]) /\ rows[t].status = "running"
      BY <2>2 DEF Recovered, Expired
    <3>2. RecoverRow(rows[t]).attempt = rows[t].attempt
      BY <2>1, <3>1, RowCounts
    <3>3. RowInv(RecoverRow(rows[t]))
      BY <2>1, <2>2, RecoverRowInv DEF Expired, TableInv
    <3>4. RecoverRow(rows[t]).status # "running"
      BY <2>1 DEF RecoverRow, Requeued, Row
    <3> QED
      BY <2>1, <3>1, <3>2, <3>3, <3>4 DEF RowInv
  <2>3. CASE ~Expired(rows[t])
    BY <2>1, <2>3 DEF Recovered
  <2> QED
    BY <2>2, <2>3
<1>4. ASSUME NEW t \in Task
      PROVE  /\ ClaimRow(Recovered[t], w).attempt # rows[t].attempt
             /\ ClaimRow(Recovered[t], w).worker_id = w
  BY <1>3 DEF ClaimRow, Row
<1>5. LeasesGoOn
  <2> SUFFICES ASSUME NEW t \in Task, rows'[t].attempt = rows[t].attempt,
                      Leased(rows[t])'
               PROVE  Leased(rows[t]) /\ rows'[t].worker_id = rows[t].worker_id
    BY DEF LeasesGoOn
  <2>1. rows'[t] = Recovered[t]
    BY <1>1, <1>4
  <2>2. rows'[t] = rows[t]
    BY <1>3, <2>1 DEF Leased
  <2> QED
    BY <1>2, <2>2 DEF Leased
<1>6. ASSUME NEW t \in Task, rows'[t].status = "running",
             Recovered[t].status = "queued"
      PROVE  rows'[t].worker_id = w
  BY <1>1, <1>4, <1>6
<1> QED
  BY <1>5, <1>6

\* and a write extends or ends those of its own worker.
LEMMA LandLeases ==
  ASSUME TypeOK, now \in Nat, WorkersInv, NEW o \in sent, Land(o)
  PROVE  LeasesGoOn
<1>t. rows \in [Task -> Row]
  BY DEF TypeOK
<1>0. UNCHANGED now
  BY DEF Land, Execute, Progress, Complete, Fail, Heartbeat, table, WorkersInv, WriteInv,
         Settlements
<1>1. CASE o.kind = "heartbeat" /\ ~UNCHANGED rows
  <2>1. rows' = [t \in Task |-> IF t \in o.tasks /\ Owns(o.worker, t)
                 THEN [rows[t] EXCEPT !.lease_until = now + LeaseTicks]
                 ELSE rows[t]]
    BY <1>1 DEF Land, Heartbeat, table
  <2>2. ASSUME NEW t \in Task, Leased(rows[t])'
        PROVE  Leased(rows[t]) /\ rows'[t].worker_id = rows[t].worker_id
    <3>1. CASE t \in o.tasks /\ Owns(o.worker, t)
      <4>1. rows'[t] = [rows[t] EXCEPT !.lease_until = now + LeaseTicks]
        BY <2>1, <3>1
      <4>2. rows'[t].worker_id = rows[t].worker_id
        BY <1>t, <4>1 DEF Row
      <4> QED
        BY <3>1, <4>2 DEF Owns, Leased
    <3>2. CASE ~(t \in o.tasks /\ Owns(o.worker, t))
      <4>1. rows'[t] = rows[t]
        BY <2>1, <3>2
      <4> QED
        BY <1>0, <2>2, <4>1 DEF Leased
    <3> QED
      BY <3>1, <3>2
  <2> QED
    BY <2>2 DEF LeasesGoOn
<1>2. CASE UNCHANGED rows
  BY <1>0, <1>2 DEF LeasesGoOn, Leased
<1>3. ASSUME NEW t \in Task, Owns(o.worker, t), o.kind # "heartbeat",
             Execute(o.worker, t, o.kind)
      PROVE  LeasesGoOn
  <2>1. o.kind \in {"progress", "complete", "fail", "retry"}
    BY <1>3 DEF WorkersInv, WriteInv, Settlements
  <2>2. rows[t] \in Row /\ Leased(rows[t])
    BY <1>t, <1>3 DEF Owns, Leased
  <2>3. CASE Progress(o.worker, t)
    <3>1. rows' = [rows EXCEPT ![t] = [rows[t] EXCEPT !.progress = rows[t].attempt]]
      BY <2>3 DEF Progress
    <3>2. [rows[t] EXCEPT !.progress = rows[t].attempt].worker_id = rows[t].worker_id
      BY <2>2 DEF Row
    <3> QED
      BY <1>0, <2>2, <3>1, <3>2, OneLeaseGoesOn
  <2>4. CASE Complete(o.worker, t)
    <3>1. rows' = [rows EXCEPT ![t] = CompleteRow(rows[t])]
      BY <2>4 DEF Complete
    <3>2. CompleteRow(rows[t]).status # "running"
      BY <2>2 DEF CompleteRow, Row
    <3> QED
      BY <1>0, <3>1, <3>2, OneLeaseGoesOn DEF Leased
  <2>5. ASSUME NEW retryable, NEW delay, Fail(o.worker, t, retryable, delay)
        PROVE  LeasesGoOn
    <3>1. rows' = [rows EXCEPT ![t] = FailRow(rows[t], retryable, delay)]
      BY <2>5 DEF Fail
    <3>2. FailRow(rows[t], retryable, delay).status # "running"
      BY <2>2 DEF FailRow, Requeued, Row
    <3> QED
      BY <1>0, <3>1, <3>2, OneLeaseGoesOn DEF Leased
  <2> QED
    BY <1>3, <2>1, <2>3, <2>4, <2>5 DEF Execute
<1>4. o.tasks \subseteq Task
  BY DEF WorkersInv, WriteInv
<1> QED
  BY <1>1, <1>2, <1>3, <1>4 DEF Land, table

\* What is over stays over, and a lease that lives on has the owner it had.
LEMMA GoneStays ==
  ASSUME TypeOK, TypeOK', RowsGoOn, LeasesGoOn, NEW t \in Task, NEW a \in Nat, NEW w,
         a <= rows[t].attempt
  PROVE  /\ Gone(t, a) => Gone(t, a)'
         /\ (rows[t].attempt = a /\ Leased(rows[t]) => rows[t].worker_id = w)
              => (rows'[t].attempt = a /\ Leased(rows[t])' => rows'[t].worker_id = w)
<1>1. /\ rows[t].attempt \in Nat /\ rows'[t].attempt \in Nat
      /\ rows'[t].attempt >= rows[t].attempt
  BY DEF TypeOK, Row, RowsGoOn
<1>2. CASE rows'[t].attempt = a
  <2>1. rows[t].attempt = a
    BY <1>1, <1>2
  <2> QED
    BY <1>2, <2>1 DEF Gone, LeasesGoOn
<1> QED
  BY <1>2 DEF Gone

\* A call that was forgotten is blank, and one that was not marks only tasks it
\* was given.
SoundCall(call) ==
  /\ call.runner = "free" => call = FreeCall
  /\ call.lost \cup call.settled \cup call.reported
       \subseteq {t \in Task : call.attempt[t] > 0}

\* The runner issues settlements, and a call's writes are of its own tasks.
SoundWrite(o) ==
  /\ WriteOf(o)
  /\ o.by = "worker" => o.kind \in Settlements
  /\ o.worker = calls[o.call].worker => o.tasks \subseteq Covers(o.call)

\* A call keeps its slot exactly while an answer to one of its writes is due,
\* and every answer on record is one that somebody waits for.
SlotInv ==
  /\ \A c \in Call : SoundCall(calls[c])
  /\ \A o \in sent : SoundWrite(o) /\ "hits" \notin DOMAIN o
  /\ \A r \in replies :
       SoundWrite(r) /\ "hits" \in DOMAIN r /\ Listens(calls[r.call], r)
  /\ \A c \in Call :
       calls[c].runner = "settling" <=> Outstanding(c, "worker") # {}
  /\ dead \subseteq Worker

\* A blank call.
LEMMA FreeCallIs ==
  /\ SoundCall(FreeCall) /\ FreeCall.worker = NoWorker /\ FreeCall.worker \notin Worker
  /\ FreeCall.runner = "free" /\ FreeCall.handler = "over"
  /\ FreeCall.attempt = [t \in Task |-> 0]
  /\ FreeCall.settled = {} /\ FreeCall.reported = {} /\ FreeCall.lost = {}
BY IdsAreDistinct DEF SoundCall, FreeCall

\* A write is never a blank call's.
LEMMA WorkerOfWrite ==
  ASSUME SlotInv, NEW o \in sent \cup replies
  PROVE  /\ o.call \in Call /\ o.worker \in Worker /\ o.worker # FreeCall.worker
         /\ o.tasks \subseteq Task
BY FreeCallIs DEF SlotInv, SoundWrite, WriteOf

\* One call becomes `next`, which may wait for the writes W; of the replies on
\* record only some of its own are taken.
TurnsTo(c, next, W, ops) ==
  /\ Turn([calls EXCEPT ![c] = next], ops)
  /\ sent' = sent \cup W
  /\ ops \subseteq replies
  /\ \A r \in replies \ ops : r.call = c
  /\ SoundCall(next)
  /\ next = FreeCall \/ /\ next.worker = calls[c].worker
                        /\ next.attempt = calls[c].attempt
  /\ \A o \in W : /\ WriteOf(o) /\ "hits" \notin DOMAIN o
                  /\ o.by = "worker" /\ o.kind \in Settlements
                  /\ o.call = c /\ o.worker = calls[c].worker
                  /\ o.tasks \subseteq Covers(c)
  /\ next.runner = "settling" =>
       W \cup Awaited(c, "worker", sent) \cup Awaited(c, "worker", ops) # {}
  /\ next.runner # "settling" =>
       /\ W = {}
       /\ next = FreeCall \/ Awaited(c, "worker", sent) \cup Awaited(c, "worker", ops) = {}

\* What the turn leaves of any call's writes.
LEMMA TurnFacts ==
  ASSUME WorkersInv, SlotInv, NEW c \in Call, NEW next, NEW W, NEW ops,
         TurnsTo(c, next, W, ops)
  PROVE  /\ calls'[c] = next /\ \A d \in Call : d # c => calls'[d] = calls[d]
         /\ replies' = {r \in ops : Listens(calls'[r.call], r)}
         /\ \A d \in Call : d # c => /\ Outstanding(d, "worker")' = Outstanding(d, "worker")
                                     /\ Covers(d)' = Covers(d)
         /\ next # FreeCall => Covers(c)' = Covers(c)
         /\ next.runner = "settling" =>
              Outstanding(c, "worker")'
                = W \cup Awaited(c, "worker", sent) \cup Awaited(c, "worker", ops)
         /\ next.runner # "settling" => Outstanding(c, "worker")' = {}
<1>1. calls' = [calls EXCEPT ![c] = next] /\ calls \in [Call -> CallRecord]
  BY DEF TurnsTo, Turn, WorkersInv
<1>2. calls'[c] = next /\ \A d \in Call : d # c => calls'[d] = calls[d]
  BY <1>1
<1>3. replies' = {r \in ops : Listens(calls'[r.call], r)}
  BY DEF TurnsTo, Turn
<1>4. /\ sent' = sent \cup W /\ ops \subseteq replies
      /\ \A r \in replies \ ops : r.call = c
      /\ \A o \in W : o.call = c /\ o.by = "worker" /\ o.worker = calls[c].worker
  BY DEF TurnsTo
<1>5. ASSUME NEW d \in Call, d # c
      PROVE  /\ Outstanding(d, "worker")' = Outstanding(d, "worker")
             /\ Covers(d)' = Covers(d)
  <2>1. calls'[d] = calls[d]
    BY <1>2, <1>5
  <2>a. ASSUME NEW o, o.call = d
        PROVE  o \in sent' <=> o \in sent
    <3>1. o \notin W
      BY <1>4, <1>5, <2>a
    <3> QED
      BY <1>4, <3>1
  <2>2. Awaited(d, "worker", sent)' = Awaited(d, "worker", sent)
    BY <2>1, <2>a DEF Awaited
  <2>3. \A r \in replies : r.call = d => r \in replies'
    BY <1>3, <1>4, <1>5, <2>1 DEF SlotInv
  <2>4. replies' \subseteq replies
    BY <1>3, <1>4
  <2>5. Awaited(d, "worker", replies)' = Awaited(d, "worker", replies)
    BY <2>1, <2>3, <2>4 DEF Awaited
  <2> QED
    BY <2>1, <2>2, <2>5 DEF Outstanding, Covers
<1>6. next # FreeCall => next.worker = calls[c].worker /\ next.attempt = calls[c].attempt
  BY DEF TurnsTo
<1>7. next # FreeCall => Covers(c)' = Covers(c)
  BY <1>2, <1>6 DEF Covers
<1>8. ASSUME next.runner = "settling"
      PROVE  Outstanding(c, "worker")'
               = W \cup Awaited(c, "worker", sent) \cup Awaited(c, "worker", ops)
  <2>1. calls'[c] = next /\ next.worker = calls[c].worker
    BY <1>2, <1>6, <1>8, FreeCallIs
  <2>2. Awaited(c, "worker", sent)' = W \cup Awaited(c, "worker", sent)
    <3>1. \A o : o \in sent' <=> o \in sent \/ o \in W
      BY <1>4
    <3> DEFINE A == Awaited(c, "worker", sent)'
               B == W \cup Awaited(c, "worker", sent)
    <3>2. ASSUME NEW o \in A PROVE o \in B
      BY <2>1, <3>1, <3>2 DEF Awaited
    <3>3. ASSUME NEW o \in B PROVE o \in A
      <4>1. CASE o \in W
        <5>1. /\ o.call = c /\ o.by = "worker" /\ o.worker = calls'[c].worker
              /\ o \in sent'
          BY <1>4, <2>1, <3>1, <4>1
        <5> QED
          BY <5>1 DEF Awaited
      <4>2. CASE o \in Awaited(c, "worker", sent)
        BY <2>1, <3>1, <4>2 DEF Awaited
      <4> QED
        BY <3>3, <4>1, <4>2
    <3> HIDE DEF A, B
    <3>4. A = B
      BY <3>2, <3>3
    <3> QED
      BY <3>4 DEF A, B
  <2>3. ASSUME NEW r \in ops, r.call = c, r.by = "worker", r.worker = calls[c].worker
        PROVE  r \in replies'
    BY <1>3, <1>8, <2>1, <2>3 DEF Listens
  <2>4. replies' \subseteq ops
    BY <1>3
  <2>5. Awaited(c, "worker", replies)' = Awaited(c, "worker", ops)
    BY <2>1, <2>3, <2>4 DEF Awaited
  <2> QED
    BY <2>2, <2>5 DEF Outstanding
<1>9. ASSUME next.runner # "settling"
      PROVE  Outstanding(c, "worker")' = {}
  <2>1. W = {} /\ sent' = sent /\ replies' \subseteq ops
    BY <1>3, <1>4, <1>9 DEF TurnsTo
  <2>2. CASE next = FreeCall
    <3>1. \A o \in sent' \cup replies' : o.worker # calls'[c].worker
      BY <1>2, <1>4, <2>1, <2>2, WorkerOfWrite
    <3> QED
      BY <3>1 DEF Outstanding, Awaited
  <2>3. CASE next # FreeCall
    <3>1. Awaited(c, "worker", sent) \cup Awaited(c, "worker", ops) = {}
      BY <1>9, <2>3 DEF TurnsTo
    <3>2. calls'[c].worker = calls[c].worker
      BY <1>2, <1>6, <2>3
    <3> QED
      BY <2>1, <3>1, <3>2 DEF Outstanding, Awaited
  <2> QED
    BY <2>2, <2>3
<1> QED
  BY <1>2, <1>3, <1>5, <1>7, <1>8, <1>9

\* Such a turn keeps the slots.
LEMMA TurnSlots ==
  ASSUME WorkersInv, SlotInv, NEW c \in Call, NEW next, NEW W, NEW ops,
         TurnsTo(c, next, W, ops), UNCHANGED dead
  PROVE  SlotInv'
<1>1. /\ calls'[c] = next /\ \A d \in Call : d # c => calls'[d] = calls[d]
      /\ replies' = {r \in ops : Listens(calls'[r.call], r)}
      /\ \A d \in Call : d # c => /\ Outstanding(d, "worker")' = Outstanding(d, "worker")
                                  /\ Covers(d)' = Covers(d)
      /\ next # FreeCall => Covers(c)' = Covers(c)
      /\ next.runner = "settling" =>
           Outstanding(c, "worker")'
             = W \cup Awaited(c, "worker", sent) \cup Awaited(c, "worker", ops)
      /\ next.runner # "settling" => Outstanding(c, "worker")' = {}
  BY TurnFacts
<1>2. \A d \in Call : SoundCall(calls'[d])
  BY <1>1 DEF TurnsTo, SlotInv
<1>3. sent' = sent \cup W /\ ops \subseteq replies
  BY DEF TurnsTo
<1>4. ASSUME NEW o \in sent \cup replies \cup W
      PROVE  SoundWrite(o)'
  <2>1. /\ WriteOf(o) /\ (o.by = "worker" => o.kind \in Settlements)
        /\ o.worker = calls[o.call].worker => o.tasks \subseteq Covers(o.call)
    BY DEF SlotInv, SoundWrite, TurnsTo
  <2>2. ASSUME o.worker = calls'[o.call].worker
        PROVE  o.tasks \subseteq Covers(o.call)'
    <3>1. CASE o.call = c
      <4>1. next # FreeCall
        BY <1>1, <2>1, <2>2, <3>1, FreeCallIs DEF WriteOf
      <4>2. o.worker = calls[c].worker
        BY <1>1, <2>2, <3>1, <4>1 DEF TurnsTo
      <4> QED
        BY <1>1, <2>1, <3>1, <4>1, <4>2
    <3>2. CASE o.call # c
      BY <1>1, <2>1, <2>2, <3>2 DEF WriteOf
    <3> QED
      BY <3>1, <3>2
  <2> QED
    BY <2>1, <2>2 DEF SoundWrite, WriteOf
<1>5. \A o \in sent' : SoundWrite(o)' /\ "hits" \notin DOMAIN o
  BY <1>3, <1>4 DEF SlotInv, TurnsTo
<1>6. \A r \in replies' : SoundWrite(r)' /\ "hits" \in DOMAIN r /\ Listens(calls'[r.call], r)
  BY <1>1, <1>3, <1>4 DEF SlotInv
<1>7. ASSUME NEW d \in Call
      PROVE  calls'[d].runner = "settling" <=> Outstanding(d, "worker")' # {}
  <2>1. CASE d = c
    BY <1>1, <2>1 DEF TurnsTo
  <2>2. CASE d # c
    BY <1>1, <2>2 DEF SlotInv
  <2> QED
    BY <2>1, <2>2
<1> QED
  BY <1>2, <1>5, <1>6, <1>7 DEF SlotInv

\* What a call ran of an attempt that still runs is its own worker's.
OwnInv ==
  \A c \in Call : \A t \in Covers(c) :
    rows[t].attempt = calls[c].attempt[t] /\ Leased(rows[t])
      => rows[t].worker_id = calls[c].worker

\* Nobody settles any more what a call has settled, or was told about; and what
\* it has yet to hear of, it waits for.
OverInv ==
  /\ \A c \in Call : \A t \in calls[c].settled : Gone(t, calls[c].attempt[t])
  /\ \A r \in replies : \A t \in r.tasks :
       Settles(r) /\ (~r.raised \/ r.hits[t] # 0)
         => Gone(t, calls[r.call].attempt[t])
  /\ \A c \in Call : calls[c].runner = "settling" =>
       \A t \in Covers(c) : \/ t \in calls[c].reported
                            \/ Gone(t, calls[c].attempt[t])
                            \/ \E o \in Outstanding(c, "worker") : t \in o.tasks

\* A turn whose call settled only what is gone, and waits for the rest.
LEMMA TurnOver ==
  ASSUME WorkersInv, SlotInv, OwnInv, OverInv, NEW c \in Call, NEW next, NEW W, NEW ops,
         TurnsTo(c, next, W, ops), UNCHANGED <<rows, now>>,
         \A t \in next.settled : Gone(t, calls[c].attempt[t]),
         next.runner = "settling" =>
           \A t \in Covers(c) :
             \/ t \in next.reported \/ Gone(t, calls[c].attempt[t])
             \/ \E o \in W \cup Awaited(c, "worker", sent) \cup Awaited(c, "worker", ops) :
                  t \in o.tasks
  PROVE  OwnInv' /\ OverInv'
<1>1. /\ calls'[c] = next /\ \A d \in Call : d # c => calls'[d] = calls[d]
      /\ replies' = {r \in ops : Listens(calls'[r.call], r)}
      /\ \A d \in Call : d # c => /\ Outstanding(d, "worker")' = Outstanding(d, "worker")
                                  /\ Covers(d)' = Covers(d)
      /\ next # FreeCall => Covers(c)' = Covers(c)
      /\ next.runner = "settling" =>
           Outstanding(c, "worker")'
             = W \cup Awaited(c, "worker", sent) \cup Awaited(c, "worker", ops)
  BY TurnFacts
<1>2. next = FreeCall \/ /\ next.worker = calls[c].worker
                         /\ next.attempt = calls[c].attempt
  BY DEF TurnsTo
<1>3. next = FreeCall => Covers(c)' = {}
  BY <1>1, FreeCallIs DEF Covers
<1>4. OwnInv'
  <2> SUFFICES ASSUME NEW d \in Call, NEW t \in Covers(d)',
                      rows[t].attempt = calls'[d].attempt[t], Leased(rows[t])
               PROVE  rows[t].worker_id = calls'[d].worker
    BY DEF OwnInv, Leased
  <2>1. /\ t \in Covers(d) /\ calls'[d].attempt = calls[d].attempt
        /\ calls'[d].worker = calls[d].worker
    BY <1>1, <1>2, <1>3
  <2> QED
    BY <2>1 DEF OwnInv
<1>5. ASSUME NEW d \in Call, NEW t \in calls'[d].settled
      PROVE  Gone(t, calls[d].attempt[t]) /\ calls'[d].attempt = calls[d].attempt
  <2>1. CASE d = c
    BY <1>1, <1>2, <1>5, <2>1, FreeCallIs
  <2>2. CASE d # c
    BY <1>1, <1>5, <2>2 DEF OverInv
  <2> QED
    BY <2>1, <2>2
<1>6. ASSUME NEW r \in replies', NEW t \in r.tasks, Settles(r), ~r.raised \/ r.hits[t] # 0
      PROVE  /\ Gone(t, calls[r.call].attempt[t])
             /\ calls'[r.call].attempt = calls[r.call].attempt
  <2>1. r \in replies /\ Listens(calls'[r.call], r)
    BY <1>1 DEF TurnsTo
  <2>2. r.call \in Call /\ r.worker = calls'[r.call].worker /\ r.worker # FreeCall.worker
    BY <2>1, WorkerOfWrite DEF Listens
  <2>3. calls'[r.call].attempt = calls[r.call].attempt
    BY <1>1, <1>2, <2>2
  <2> QED
    BY <1>6, <2>1, <2>3 DEF OverInv
<1>7. ASSUME NEW d \in Call, calls'[d].runner = "settling", NEW t \in Covers(d)'
      PROVE  \/ t \in calls'[d].reported
             \/ Gone(t, calls[d].attempt[t]) /\ calls'[d].attempt = calls[d].attempt
             \/ \E o \in Outstanding(d, "worker")' : t \in o.tasks
  <2>1. CASE d = c
    <3>1. next # FreeCall /\ t \in Covers(c) /\ next.attempt = calls[c].attempt
      BY <1>1, <1>2, <1>3, <1>7, <2>1
    <3> QED
      BY <1>1, <1>7, <2>1, <3>1
  <2>2. CASE d # c
    BY <1>1, <1>7, <2>2 DEF OverInv
  <2> QED
    BY <2>1, <2>2
<1>8. OverInv'
  <2>1. \A d \in Call : \A t \in calls'[d].settled : Gone(t, calls[d].attempt[t])'
    BY <1>5 DEF Gone, Leased
  <2>2. \A r \in replies' : \A t \in r.tasks :
          Settles(r) /\ (~r.raised \/ r.hits[t] # 0) => Gone(t, calls[r.call].attempt[t])'
    BY <1>6 DEF Gone, Leased
  <2>3. \A d \in Call : calls'[d].runner = "settling" =>
          \A t \in Covers(d)' : \/ t \in calls'[d].reported
                                \/ Gone(t, calls[d].attempt[t])'
                                \/ \E o \in Outstanding(d, "worker")' : t \in o.tasks
    BY <1>7 DEF Gone, Leased
  <2> QED
    BY <2>1, <2>2, <2>3 DEF OverInv, Settles
<1> QED
  BY <1>4, <1>8

\* While rows go on, a call that is still about keeps what it knows of them.
LEMMA KnownStays ==
  ASSUME TypeOK, TypeOK', WorkersInv, CountInv, OwnInv, RowsGoOn, LeasesGoOn,
         NEW c \in Call, calls'[c].attempt = calls[c].attempt,
         calls'[c].worker = calls[c].worker, NEW t \in Task
  PROVE  /\ Gone(t, calls[c].attempt[t]) => Gone(t, calls[c].attempt[t])'
         /\ t \in Covers(c)' /\ rows'[t].attempt = calls'[c].attempt[t] /\ Leased(rows[t])'
              => rows'[t].worker_id = calls'[c].worker
<1> DEFINE a == calls[c].attempt[t]
           w == calls[c].worker
<1>1. a \in Nat /\ a <= rows[t].attempt
  BY DEF WorkersInv, CallRecord, CountInv
<1>2. \A b \in Nat : \A v : b <= rows[t].attempt =>
        /\ Gone(t, b) => Gone(t, b)'
        /\ (rows[t].attempt = b /\ Leased(rows[t]) => rows[t].worker_id = v)
             => (rows'[t].attempt = b /\ Leased(rows[t])' => rows'[t].worker_id = v)
  BY GoneStays
<1>3. Gone(t, a) => rows'[t].attempt # a \/ ~Leased(rows[t])'
  BY <1>1, <1>2 DEF Gone
<1>4. (rows[t].attempt = a /\ Leased(rows[t]) => rows[t].worker_id = w)
        => (rows'[t].attempt = a /\ Leased(rows[t])' => rows'[t].worker_id = w)
  BY <1>1, <1>2
<1>5. t \in Covers(c)' => t \in Covers(c)
  BY DEF Covers
<1>6. t \in Covers(c) => (rows[t].attempt = a /\ Leased(rows[t]) => rows[t].worker_id = w)
  BY DEF OwnInv
<1>7. calls'[c].attempt[t] = a /\ calls'[c].worker = w
  OBVIOUS
<1>8. Gone(t, calls[c].attempt[t])' <=> rows'[t].attempt # a \/ ~Leased(rows[t])'
  BY <1>7 DEF Gone
<1> HIDE DEF a, w
<1>9. Gone(t, a) => Gone(t, calls[c].attempt[t])'
  BY <1>3, <1>8
<1>10. t \in Covers(c)' /\ rows'[t].attempt = a /\ Leased(rows[t])'
         => rows'[t].worker_id = w
  BY <1>4, <1>5, <1>6
<1> QED
  BY <1>7, <1>9, <1>10 DEF a, w

\* A turn of c that settles only what is gone and waits for the rest.
KnowingTurn(c) ==
  \E next, W, ops :
    /\ TurnsTo(c, next, W, ops)
    /\ \A t \in next.settled : Gone(t, calls[c].attempt[t])
    /\ next.runner = "settling" =>
         \A t \in Covers(c) :
           \/ t \in next.reported \/ Gone(t, calls[c].attempt[t])
           \/ \E o \in W \cup Awaited(c, "worker", sent) \cup Awaited(c, "worker", ops) :
                t \in o.tasks

CallsInv == SlotInv /\ OwnInv /\ OverInv

\* It keeps the invariant.
LEMMA KnowingTurnKeeps ==
  ASSUME WorkersInv, CallsInv, NEW c \in Call, KnowingTurn(c), UNCHANGED <<rows, now, dead>>
  PROVE  CallsInv'
<1>1. PICK next, W, ops :
        /\ TurnsTo(c, next, W, ops)
        /\ \A t \in next.settled : Gone(t, calls[c].attempt[t])
        /\ next.runner = "settling" =>
             \A t \in Covers(c) :
               \/ t \in next.reported \/ Gone(t, calls[c].attempt[t])
               \/ \E o \in W \cup Awaited(c, "worker", sent)
                               \cup Awaited(c, "worker", ops) : t \in o.tasks
  BY DEF KnowingTurn
<1>2. SlotInv'
  BY <1>1, TurnSlots DEF CallsInv
<1>3. OwnInv' /\ OverInv'
  BY <1>1, TurnOver DEF CallsInv
<1> QED
  BY <1>2, <1>3 DEF CallsInv

\* What is left of a call whose coroutine returned.
LEMMA ClosedFacts ==
  ASSUME NEW call \in CallRecord
  PROVE  /\ Closed(call).runner # "settling" /\ Closed(call).settled = {}
         /\ Closed(call) = FreeCall \/ /\ Closed(call).worker = call.worker
                                       /\ Closed(call).attempt = call.attempt
         /\ call.lost \subseteq {t \in Task : call.attempt[t] > 0}
              => SoundCall(Closed(call))
<1>1. CASE call.handler = "over"
  BY <1>1, FreeCallIs DEF Closed
<1>2. CASE call.handler # "over"
  <2>1. /\ Closed(call).runner = "over" /\ Closed(call).settled = {}
        /\ Closed(call).reported = {} /\ Closed(call).lost = call.lost
        /\ Closed(call).worker = call.worker /\ Closed(call).attempt = call.attempt
    BY <1>2 DEF Closed, CallRecord
  <2> QED
    BY <2>1 DEF SoundCall
<1> QED
  BY <1>1, <1>2

\* The runner settles what is left, or is done.
LEMMA EndsTurn ==
  ASSUME WorkersInv, CallsInv, NEW c \in Call, NEW lost \in SUBSET Covers(c),
         NEW handler \in {"running", "over"}, NEW kinds \in [Task -> Settlements],
         Ends(c, kinds, lost, handler)
  PROVE  KnowingTurn(c)
<1> DEFINE call == [calls[c] EXCEPT !.lost = lost, !.handler = handler]
           left == LeftBehind(call)
           W == {Write(c, "worker", kinds[t], {t}) : t \in left}
           waiting == [call EXCEPT !.runner = "settling"]
<1>1. /\ calls[c].runner = "running" /\ calls[c] \in CallRecord
      /\ sent' = sent \cup W
      /\ Turn([calls EXCEPT ![c] = IF left = {} THEN Closed(call) ELSE waiting], replies)
  BY DEF Ends, WorkersInv
<1>2. calls[c].worker \in Worker
  <2>1. CallInv(calls[c])
    BY DEF WorkersInv
  <2> QED
    BY <1>1, <2>1 DEF CallInv, CallRecord
<1>3. /\ call \in CallRecord /\ call.lost = lost /\ call.runner = "running"
      /\ call.worker = calls[c].worker /\ call.attempt = calls[c].attempt
      /\ call.settled = calls[c].settled /\ call.reported = calls[c].reported
      /\ waiting.runner = "settling" /\ waiting.worker = calls[c].worker
      /\ waiting.attempt = calls[c].attempt /\ waiting.settled = calls[c].settled
      /\ waiting.reported = calls[c].reported /\ waiting.lost = lost
  <2>1. lost \subseteq Task
    BY DEF Covers
  <2> QED
    BY <1>1, <2>1 DEF CallRecord
<1>4. left = Covers(c) \ calls[c].settled
  BY <1>3 DEF LeftBehind, Covers
<1>5. \A t \in calls[c].settled : Gone(t, calls[c].attempt[t])
  BY DEF CallsInv, OverInv
<1>6. Awaited(c, "worker", sent) \cup Awaited(c, "worker", replies) = {}
  BY <1>1 DEF CallsInv, SlotInv, Outstanding
<1>7. calls[c].settled \cup calls[c].reported \cup lost
        \subseteq {t \in Task : calls[c].attempt[t] > 0}
  BY DEF CallsInv, SlotInv, SoundCall, Covers
<1>8. CASE left = {}
  <2>1. /\ Closed(call).runner # "settling" /\ Closed(call).settled = {}
        /\ Closed(call) = FreeCall \/ /\ Closed(call).worker = calls[c].worker
                                      /\ Closed(call).attempt = calls[c].attempt
        /\ SoundCall(Closed(call))
    BY <1>3, <1>7, ClosedFacts
  <2>2. Turn([calls EXCEPT ![c] = Closed(call)], replies) /\ sent' = sent \cup {}
    BY <1>1, <1>8
  <2> HIDE DEF call
  <2>3. TurnsTo(c, Closed(call), {}, replies)
    BY <1>6, <2>1, <2>2 DEF TurnsTo
  <2> QED
    BY <2>1, <2>3 DEF KnowingTurn
<1>9. CASE left # {}
  <2>1. SoundCall(waiting)
    BY <1>3, <1>7 DEF SoundCall
  <2>2. ASSUME NEW t \in left
        PROVE  LET o == Write(c, "worker", kinds[t], {t})
               IN /\ WriteOf(o) /\ "hits" \notin DOMAIN o
                  /\ o.by = "worker" /\ o.kind \in Settlements
                  /\ o.call = c /\ o.worker = calls[c].worker
                  /\ o.tasks \subseteq Covers(c) /\ o.tasks = {t}
    <3>1. t \in Task /\ t \in Covers(c) /\ kinds[t] \in Settlements
      BY <1>4 DEF Covers
    <3> QED
      BY <1>2, <3>1 DEF Write, WriteOf
  <2>3. Turn([calls EXCEPT ![c] = waiting], replies)
    BY <1>1, <1>9
  <2> DEFINE o(t) == Write(c, "worker", kinds[t], {t})
  <2>4. W = {o(t) : t \in left}
    OBVIOUS
  <2>5. \A t \in left : /\ WriteOf(o(t)) /\ "hits" \notin DOMAIN o(t)
                        /\ o(t).by = "worker" /\ o(t).kind \in Settlements
                        /\ o(t).call = c /\ o(t).worker = calls[c].worker
                        /\ o(t).tasks \subseteq Covers(c) /\ o(t).tasks = {t}
    BY <2>2
  <2> HIDE DEF o, W, call, left, waiting
  <2>6. W # {}
    BY <1>9, <2>4
  <2>7. \A x \in W : /\ WriteOf(x) /\ "hits" \notin DOMAIN x
                     /\ x.by = "worker" /\ x.kind \in Settlements
                     /\ x.call = c /\ x.worker = calls[c].worker
                     /\ x.tasks \subseteq Covers(c)
    BY <2>4, <2>5
  <2>8. TurnsTo(c, waiting, W, replies)
    BY <1>1, <1>3, <2>1, <2>3, <2>6, <2>7 DEF TurnsTo
  <2>9. \A t \in Covers(c) : Gone(t, calls[c].attempt[t]) \/ \E x \in W : t \in x.tasks
    <3> TAKE t \in Covers(c)
    <3>1. CASE t \in left
      BY <2>4, <2>5, <3>1
    <3>2. CASE t \notin left
      BY <1>4, <1>5, <3>2
    <3> QED
      BY <3>1, <3>2
  <2> QED
    BY <1>3, <1>5, <2>8, <2>9 DEF KnowingTurn
<1> QED
  BY <1>8, <1>9

\* So does reading a reply.
LEMMA HearTurn ==
  ASSUME WorkersInv, CallsInv, NEW r \in replies, Hear(r)
  PROVE  r.call \in Call /\ KnowingTurn(r.call)
<1> DEFINE c == r.call
           call == calls[c]
           last == r.by = "worker" /\ Outstanding(c, "worker") = {r}
           heard == CASE r.by = "handler" -> HandlerHears(call, r)
                      [] r.by = "worker" -> RunnerHears(call, r)
                      [] r.by = "heartbeat loop" -> LoopHears(call, r)
           ops == replies \ {r}
<1>1. /\ c \in Call /\ call \in CallRecord /\ r.tasks \subseteq Covers(c)
      /\ r.worker = call.worker /\ r.by \in Writers
      /\ r.by = "worker" => Settles(r)
      /\ call.handler = "running" \/ call.runner \in {"running", "settling"}
      /\ "hits" \in DOMAIN r
  <2>1. SoundWrite(r) /\ Listens(calls[r.call], r) /\ "hits" \in DOMAIN r
    BY DEF CallsInv, SlotInv
  <2> QED
    BY <2>1 DEF SoundWrite, WriteOf, Listens, WorkersInv, Writers, Settles
<1>2. call.runner # "free"
  BY <1>1, FreeCallIs DEF CallsInv, SlotInv, SoundCall
<1>3. call.lost \cup call.settled \cup call.reported \subseteq Covers(c)
  BY <1>1 DEF CallsInv, SlotInv, SoundCall, Covers
<1>4. Turn([calls EXCEPT ![c] = IF last THEN Closed(heard) ELSE heard], ops)
      /\ UNCHANGED sent
  BY DEF Hear
<1>5. Covers(c) = {t \in Task : call.attempt[t] > 0} /\ r.tasks \subseteq Task
  BY <1>1 DEF Covers
<1> HIDE DEF call
<1>7. /\ heard \in CallRecord /\ heard.runner = call.runner /\ heard.worker = call.worker
      /\ heard.attempt = call.attempt
      /\ heard.settled \subseteq call.settled \cup {t \in r.tasks : r.hits[t] # 0}
      /\ \A t \in heard.settled \ call.settled : Settles(r)
      /\ call.reported \subseteq heard.reported
      /\ r.by = "worker" /\ r.raised => r.tasks \subseteq heard.reported
      /\ heard.lost \cup heard.settled \cup heard.reported \subseteq Covers(c)
  <2>1. CASE r.by = "worker"
    <3>1. heard = RunnerHears(call, r)
      BY <2>1
    <3> HIDE DEF heard
    <3> QED
      BY <1>1, <1>3, <1>5, <2>1, <3>1 DEF RunnerHears, CallRecord
  <2>2. CASE r.by = "handler"
    <3>1. heard = HandlerHears(call, r)
      BY <2>2
    <3> HIDE DEF heard
    <3> QED
      BY <1>1, <1>3, <1>5, <2>2, <3>1 DEF HandlerHears, CallRecord, Settles
  <2>3. CASE r.by = "heartbeat loop"
    <3>1. heard = LoopHears(call, r)
      BY <2>3
    <3> HIDE DEF heard
    <3> QED
      BY <1>1, <1>3, <1>5, <2>3, <3>1 DEF LoopHears, CallRecord
  <2> QED
    BY <1>1, <2>1, <2>2, <2>3 DEF Writers
<1> HIDE DEF heard
<1>8. \A t \in heard.settled : Gone(t, call.attempt[t])
  <2> TAKE t \in heard.settled
  <2>1. CASE t \in call.settled
    BY <1>1, <2>1 DEF CallsInv, OverInv, call
  <2>2. CASE t \notin call.settled
    <3>1. t \in r.tasks /\ r.hits[t] # 0 /\ Settles(r)
      BY <1>7, <2>2
    <3> QED
      BY <3>1 DEF CallsInv, OverInv, call
  <2> QED
    BY <2>1, <2>2
<1>9. /\ ops \subseteq replies /\ \A x \in replies \ ops : x.call = c
      /\ sent' = sent \cup {}
  BY <1>4
<1>10. CASE last
  <2>1. /\ Closed(heard).runner # "settling" /\ Closed(heard).settled = {}
        /\ Closed(heard) = FreeCall \/ /\ Closed(heard).worker = call.worker
                                       /\ Closed(heard).attempt = call.attempt
        /\ SoundCall(Closed(heard))
    <3>1. heard.lost \subseteq {t \in Task : heard.attempt[t] > 0}
      BY <1>5, <1>7
    <3> QED
      BY <1>7, <3>1, ClosedFacts
  <2>2. Awaited(c, "worker", sent) \cup Awaited(c, "worker", ops) = {}
    <3> SUFFICES ASSUME NEW x \in Awaited(c, "worker", sent) \cup Awaited(c, "worker", ops)
                 PROVE  FALSE
      OBVIOUS
    <3>1. x \in Outstanding(c, "worker")
      BY DEF Outstanding, Awaited
    <3>2. x = r
      BY <1>10, <3>1
    <3>3. x \in sent
      BY <3>2 DEF Awaited
    <3> QED
      BY <1>1, <3>2, <3>3 DEF CallsInv, SlotInv
  <2>3. Turn([calls EXCEPT ![c] = Closed(heard)], ops)
    BY <1>4, <1>10
  <2> HIDE DEF ops, c, last
  <2>4. TurnsTo(c, Closed(heard), {}, ops)
    BY <1>9, <2>1, <2>2, <2>3 DEF TurnsTo, call
  <2>5. KnowingTurn(c)
    BY <2>1, <2>4 DEF KnowingTurn
  <2> QED
    BY <1>1, <2>5 DEF c
<1>11. CASE ~last
  <2>1. SoundCall(heard)
    BY <1>2, <1>5, <1>7 DEF SoundCall
  <2>2. call.runner = "settling" =>
          /\ Awaited(c, "worker", sent) \cup Awaited(c, "worker", ops) # {}
          /\ \A t \in Covers(c) :
               \/ t \in heard.reported \/ Gone(t, call.attempt[t])
               \/ \E o \in Awaited(c, "worker", sent) \cup Awaited(c, "worker", ops) :
                    t \in o.tasks
    <3> SUFFICES ASSUME call.runner = "settling"
                 PROVE  /\ Awaited(c, "worker", sent) \cup Awaited(c, "worker", ops) # {}
                        /\ \A t \in Covers(c) :
                             \/ t \in heard.reported \/ Gone(t, call.attempt[t])
                             \/ \E o \in Awaited(c, "worker", sent)
                                           \cup Awaited(c, "worker", ops) : t \in o.tasks
      OBVIOUS
    <3>1. \A x \in Outstanding(c, "worker") :
            x = r \/ x \in Awaited(c, "worker", sent) \cup Awaited(c, "worker", ops)
      BY DEF Outstanding, Awaited
    <3>2. r \in Outstanding(c, "worker") <=> r.by = "worker"
      <4>1. r.by = "worker" => r \in Outstanding(c, "worker")
        BY <1>1 DEF Outstanding, Awaited, call
      <4>2. r \in Outstanding(c, "worker") => r.by = "worker"
        BY DEF Outstanding, Awaited
      <4> QED
        BY <4>1, <4>2
    <3>3. \E x \in Outstanding(c, "worker") : x # r
      <4>1. Outstanding(c, "worker") # {}
        BY <1>1 DEF CallsInv, SlotInv, call
      <4> QED
        BY <1>11, <3>2, <4>1
    <3>4. ASSUME NEW t \in Covers(c)
          PROVE  \/ t \in heard.reported \/ Gone(t, call.attempt[t])
                 \/ \E o \in Awaited(c, "worker", sent)
                               \cup Awaited(c, "worker", ops) : t \in o.tasks
      <4>1. \/ t \in call.reported \/ Gone(t, call.attempt[t])
            \/ \E o \in Outstanding(c, "worker") : t \in o.tasks
        BY <1>1 DEF CallsInv, OverInv, call
      <4>2. CASE t \in r.tasks /\ r \in Outstanding(c, "worker")
        <5>1. r.by = "worker" /\ Settles(r)
          BY <1>1, <3>2, <4>2
        <5>2. CASE r.raised
          BY <1>7, <4>2, <5>1, <5>2
        <5>3. CASE ~r.raised
          BY <4>2, <5>1, <5>3 DEF CallsInv, OverInv, call
        <5> QED
          BY <5>2, <5>3
      <4> QED
        BY <1>7, <3>1, <4>1, <4>2
    <3> QED
      BY <3>1, <3>3, <3>4
  <2>3. call.runner # "settling" =>
          Awaited(c, "worker", sent) \cup Awaited(c, "worker", ops) = {}
    <3> SUFFICES ASSUME call.runner # "settling"
                 PROVE  Awaited(c, "worker", sent) \cup Awaited(c, "worker", ops) = {}
      OBVIOUS
    <3>1. Outstanding(c, "worker") = {}
      BY <1>1 DEF CallsInv, SlotInv, call
    <3> QED
      BY <3>1 DEF Outstanding, Awaited
  <2>4. Turn([calls EXCEPT ![c] = heard], ops)
    BY <1>4, <1>11
  <2> HIDE DEF ops, c, last
  <2>5. TurnsTo(c, heard, {}, ops)
    BY <1>7, <1>9, <2>1, <2>2, <2>3, <2>4 DEF TurnsTo, call
  <2>6. KnowingTurn(c)
    BY <1>7, <1>8, <2>2, <2>5 DEF KnowingTurn, call
  <2> QED
    BY <1>1, <2>6 DEF c
<1> QED
  BY <1>10, <1>11

\* A write of the handler's or of the loop's changes nothing the runner awaits.
LEMMA IssueKeeps ==
  ASSUME WorkersInv, CallsInv, NEW c \in Call, calls[c].worker \in Worker,
         NEW by \in {"handler", "heartbeat loop"},
         NEW kind \in Settlements \cup {"progress", "heartbeat"},
         NEW ts \in SUBSET Covers(c), ts # {},
         sent' = sent \cup {Write(c, by, kind, ts)},
         UNCHANGED <<rows, now, calls, replies, dead>>
  PROVE  CallsInv'
<1> DEFINE o == Write(c, by, kind, ts)
<1>1. ts \subseteq Task
  BY DEF Covers
<1>2. /\ o.call = c /\ o.worker = calls[c].worker /\ o.by = by /\ o.kind = kind
      /\ o.tasks = ts /\ "hits" \notin DOMAIN o /\ WriteOf(o)
  BY <1>1 DEF Write, WriteOf
<1>3. sent' = sent \cup {o}
  OBVIOUS
<1> HIDE DEF o
<1>4. \A d \in Call : Covers(d)' = Covers(d)
  BY DEF Covers
<1>5. \A d \in Call : Outstanding(d, "worker")' = Outstanding(d, "worker")
  <2> TAKE d \in Call
  <2>1. \A x : x \in sent' /\ x.by = "worker" <=> x \in sent /\ x.by = "worker"
    BY <1>2, <1>3
  <2>2. Awaited(d, "worker", sent)' = Awaited(d, "worker", sent)
    BY <2>1 DEF Awaited
  <2>3. Awaited(d, "worker", replies)' = Awaited(d, "worker", replies)
    BY DEF Awaited
  <2> QED
    BY <2>2, <2>3 DEF Outstanding
<1>6. \A x \in sent \cup replies \cup {o} : SoundWrite(x)'
  <2>1. \A x \in sent \cup replies \cup {o} : SoundWrite(x)
    BY <1>2 DEF CallsInv, SlotInv, SoundWrite
  <2> QED
    BY <1>4, <2>1 DEF SoundWrite, WriteOf
<1>7. SlotInv'
  BY <1>2, <1>3, <1>5, <1>6 DEF CallsInv, SlotInv
<1>8. OwnInv'
  BY <1>4 DEF CallsInv, OwnInv, Leased
<1>9. OverInv'
  BY <1>4, <1>5 DEF CallsInv, OverInv, Gone, Leased, Settles
<1> QED
  BY <1>7, <1>8, <1>9 DEF CallsInv

\* Every step of a call keeps the invariant.
LEMMA CallNextKeeps ==
  ASSUME WorkersInv, CallsInv, NEW c \in Call, CallNext(c)
  PROVE  CallsInv'
<1>a. CallInv(calls[c]) /\ calls[c] \in CallRecord /\ SoundCall(calls[c])
  BY DEF WorkersInv, CallsInv, SlotInv
<1>b. calls[c].lost \in SUBSET Covers(c)
  BY <1>a DEF SoundCall, Covers
<1>c. UNCHANGED <<rows, now, dead>>
  BY DEF CallNext, HandlerWrite, Returns, Raises, RaisesLostLease, TimesOut, ZombieEnds,
         Beat, Ends, table
<1>d. calls[c].runner # "free" => calls[c].worker \in Worker
  BY <1>a DEF CallInv, CallRecord
<1>e. calls[c].handler = "running" => calls[c].runner # "free"
  BY <1>a, FreeCallIs DEF SoundCall
<1>1. ASSUME NEW t \in Task, NEW kind \in HandlerWrites, HandlerWrite(c, t, kind)
      PROVE  CallsInv'
  <2>1. kind \in Settlements \cup {"progress", "heartbeat"}
    BY WorkerInputs
  <2>2. {t} \in SUBSET Covers(c) /\ {t} # {} /\ calls[c].worker \in Worker
    BY <1>1, <1>d, <1>e DEF HandlerWrite
  <2> QED
    BY <1>1, <1>c, <2>1, <2>2, IssueKeeps DEF HandlerWrite
<1>2. CASE Beat(c)
  <2> DEFINE live == Covers(c) \ (calls[c].lost \cup calls[c].settled)
  <2>1. live # {} /\ live \in SUBSET Covers(c) /\ calls[c].worker \in Worker
    BY <1>2, <1>d DEF Beat
  <2>2. sent' = sent \cup {Write(c, "heartbeat loop", "heartbeat", live)}
        /\ UNCHANGED <<calls, replies>>
    BY <1>2 DEF Beat
  <2> HIDE DEF live
  <2> QED
    BY <1>c, <2>1, <2>2, IssueKeeps
<1>3. ASSUME KnowingTurn(c) PROVE CallsInv'
  BY <1>3, <1>c, KnowingTurnKeeps
<1>4. CASE Returns(c)
  <2>1. PICK bad \in SUBSET Covers(c) :
          Ends(c, [t \in Task |-> IF t \in bad THEN "fail" ELSE "complete"],
               calls[c].lost, "over")
    BY <1>4 DEF Returns
  <2> QED
    BY <1>b, <1>3, <2>1, EndsTurn DEF Settlements
<1>5. CASE Raises(c)
  <2>1. PICK kind \in {"retry", "fail"} :
          Ends(c, [t \in Task |-> kind], calls[c].lost, "over")
    BY <1>5 DEF Raises
  <2> QED
    BY <1>b, <1>3, <2>1, EndsTurn DEF Settlements
<1>6. CASE TimesOut(c)
  <2>1. PICK handler \in {"running", "over"} :
          Ends(c, [t \in Task |-> "retry"], Covers(c), handler)
    BY <1>6 DEF TimesOut
  <2> QED
    BY <1>3, <2>1, EndsTurn DEF Settlements
<1>7. CASE RaisesLostLease(c)
  <2>1. Awaited(c, "worker", sent) \cup Awaited(c, "worker", replies) = {}
    BY <1>7 DEF RaisesLostLease, CallsInv, SlotInv, Outstanding
  <2>2. Turn([calls EXCEPT ![c] = FreeCall], replies) /\ sent' = sent \cup {}
    BY <1>7 DEF RaisesLostLease
  <2>3. TurnsTo(c, FreeCall, {}, replies)
    BY <2>1, <2>2, FreeCallIs DEF TurnsTo
  <2>4. KnowingTurn(c)
    BY <2>3, FreeCallIs DEF KnowingTurn
  <2> QED
    BY <1>3, <2>4
<1>8. CASE ZombieEnds(c)
  <2> DEFINE next == IF calls[c].runner = "over" THEN FreeCall
                     ELSE [calls[c] EXCEPT !.handler = "over"]
  <2>1. Turn([calls EXCEPT ![c] = next], replies) /\ sent' = sent \cup {}
        /\ calls[c].handler = "running" /\ calls[c].runner # "running"
    BY <1>8 DEF ZombieEnds
  <2>2. calls[c].runner \in {"settling", "over"}
    BY <1>a, <1>e, <2>1 DEF CallRecord
  <2>3. CASE calls[c].runner = "over"
    <3>1. next = FreeCall
      BY <2>3
    <3>2. Awaited(c, "worker", sent) \cup Awaited(c, "worker", replies) = {}
      BY <2>3 DEF CallsInv, SlotInv, Outstanding
    <3>3. TurnsTo(c, FreeCall, {}, replies)
      BY <2>1, <3>1, <3>2, FreeCallIs DEF TurnsTo
    <3>4. KnowingTurn(c)
      BY <3>3, FreeCallIs DEF KnowingTurn
    <3> QED
      BY <1>3, <3>4
  <2>4. CASE calls[c].runner = "settling"
    <3>1. /\ next.runner = "settling" /\ next.worker = calls[c].worker
          /\ next.attempt = calls[c].attempt /\ next.settled = calls[c].settled
          /\ next.reported = calls[c].reported /\ next.lost = calls[c].lost
      BY <1>a, <2>4 DEF CallRecord
    <3>2. Awaited(c, "worker", sent) \cup Awaited(c, "worker", replies)
            = Outstanding(c, "worker")
      BY DEF Outstanding
    <3>3. Outstanding(c, "worker") # {}
      BY <2>4 DEF CallsInv, SlotInv
    <3>4. SoundCall(next)
      BY <1>a, <3>1 DEF SoundCall
    <3> HIDE DEF next
    <3>5. TurnsTo(c, next, {}, replies)
      BY <2>1, <3>1, <3>2, <3>3, <3>4 DEF TurnsTo
    <3>6. KnowingTurn(c)
      BY <2>4, <3>1, <3>2, <3>5 DEF KnowingTurn, CallsInv, OverInv
    <3> QED
      BY <1>3, <3>6
  <2> QED
    BY <2>2, <2>3, <2>4
<1> QED
  BY <1>1, <1>2, <1>4, <1>5, <1>6, <1>7, <1>8 DEF CallNext

\* An answer takes the place of the write it answers.
LEMMA AnswerWaits ==
  ASSUME WorkersInv, SlotInv, NEW o \in sent, NEW hits, NEW raised,
         Answer(o, hits, raised)
  PROVE  /\ SlotInv'
         /\ UNCHANGED calls
         /\ \A r \in replies' : r \in replies \/ /\ r = Reply(o, hits, raised)
                                                 /\ Listens(calls[o.call], o)
         /\ \A c \in Call : calls[c].runner = "settling" =>
              \A t : (\E x \in Outstanding(c, "worker") : t \in x.tasks)
                       => \E x \in Outstanding(c, "worker")' : t \in x.tasks
<1> DEFINE r == Reply(o, hits, raised)
<1>1. /\ r.call = o.call /\ r.worker = o.worker /\ r.by = o.by /\ r.kind = o.kind
      /\ r.tasks = o.tasks /\ "hits" \in DOMAIN r
  BY DEF Reply
<1>2. /\ sent' = sent \ {o} /\ UNCHANGED <<calls, dead>>
      /\ replies' = replies \cup (IF Listens(calls[o.call], o) THEN {r} ELSE {})
  BY DEF Answer
<1> HIDE DEF r
<1>3. SoundWrite(o) /\ o.call \in Call
  BY DEF SlotInv, SoundWrite, WriteOf
<1>4. \A x \in replies' : x \in replies \/ (x = r /\ Listens(calls[o.call], o))
  BY <1>2
<1>5. SoundWrite(r) /\ (Listens(calls[o.call], o) => Listens(calls[r.call], r))
  BY <1>1, <1>3 DEF SoundWrite, WriteOf, Listens
<1>6. \A x : SoundWrite(x) => SoundWrite(x)'
  BY <1>2 DEF SoundWrite, WriteOf, Covers
<1>7. \A x \in sent' : SoundWrite(x)' /\ "hits" \notin DOMAIN x
  BY <1>2, <1>6 DEF SlotInv
<1>8. \A x \in replies' : SoundWrite(x)' /\ "hits" \in DOMAIN x /\ Listens(calls'[x.call], x)
  BY <1>1, <1>2, <1>4, <1>5, <1>6 DEF SlotInv
<1>9. ASSUME NEW c \in Call, NEW x \in Outstanding(c, "worker"),
             calls[c].runner = "settling"
      PROVE  x \in Outstanding(c, "worker")'
               \/ (r \in Outstanding(c, "worker")' /\ r.tasks = x.tasks)
  <2>1. x.call = c /\ x.by = "worker" /\ x.worker = calls[c].worker
        /\ x \in sent \cup replies
    BY DEF Outstanding, Awaited
  <2>2. CASE x # o
    <3>1. x \in sent' \cup replies'
      BY <1>2, <2>1, <2>2
    <3> QED
      BY <1>2, <2>1, <3>1 DEF Outstanding, Awaited
  <2>3. CASE x = o
    <3>1. Listens(calls[o.call], o)
      BY <1>9, <2>1, <2>3 DEF Listens
    <3>2. r \in replies'
      BY <1>2, <3>1
    <3> QED
      BY <1>1, <1>2, <2>1, <2>3, <3>2 DEF Outstanding, Awaited
  <2> QED
    BY <2>2, <2>3
<1>10. ASSUME NEW c \in Call, NEW x \in Outstanding(c, "worker")'
       PROVE  Outstanding(c, "worker") # {}
  <2>1. x.call = c /\ x.by = "worker" /\ x.worker = calls[c].worker
        /\ x \in sent' \cup replies'
    BY <1>2 DEF Outstanding, Awaited
  <2>2. CASE x \in sent \cup replies
    BY <2>1, <2>2 DEF Outstanding, Awaited
  <2>3. CASE x = r
    <3>1. o \in Outstanding(c, "worker")
      BY <1>1, <2>1, <2>3 DEF Outstanding, Awaited
    <3> QED
      BY <3>1
  <2> QED
    BY <1>2, <1>4, <2>1, <2>2, <2>3
<1>11. \A c \in Call : calls'[c].runner = "settling" <=> Outstanding(c, "worker")' # {}
  BY <1>2, <1>9, <1>10 DEF SlotInv
<1>12. SlotInv'
  BY <1>2, <1>7, <1>8, <1>11 DEF SlotInv
<1>13. \A c \in Call : calls[c].runner = "settling" =>
         \A t : (\E x \in Outstanding(c, "worker") : t \in x.tasks)
                  => \E x \in Outstanding(c, "worker")' : t \in x.tasks
  BY <1>9
<1> QED
  BY <1>2, <1>4, <1>12, <1>13 DEF r

\* An answer that a settlement was accepted or refused comes with its attempt
\* being over.
LEMMA AnswerKeeps ==
  ASSUME TypeOK, TypeOK', WorkersInv, CountInv, CallsInv, RowsGoOn, LeasesGoOn,
         NEW o \in sent, NEW hits, NEW raised, Answer(o, hits, raised),
         Settles(o) /\ Listens(calls[o.call], o) =>
           \A t \in o.tasks :
             ~raised \/ hits[t] # 0 => Gone(t, calls[o.call].attempt[t])'
  PROVE  CallsInv'
<1>1. /\ SlotInv'
      /\ UNCHANGED calls
      /\ \A r \in replies' : r \in replies \/ /\ r = Reply(o, hits, raised)
                                              /\ Listens(calls[o.call], o)
      /\ \A c \in Call : calls[c].runner = "settling" =>
           \A t : (\E x \in Outstanding(c, "worker") : t \in x.tasks)
                    => \E x \in Outstanding(c, "worker")' : t \in x.tasks
  BY AnswerWaits DEF CallsInv
<1>2. \A c \in Call, t \in Task :
        /\ Gone(t, calls[c].attempt[t]) => Gone(t, calls[c].attempt[t])'
        /\ t \in Covers(c)' /\ rows'[t].attempt = calls'[c].attempt[t] /\ Leased(rows[t])'
             => rows'[t].worker_id = calls'[c].worker
  BY <1>1, KnownStays DEF CallsInv
<1>3. \A c \in Call : Covers(c) = Covers(c)' /\ Covers(c) \subseteq Task
  BY <1>1 DEF Covers
<1>4. OwnInv'
  BY <1>2, <1>3 DEF OwnInv
<1>5. \A c \in Call : \A t \in calls'[c].settled : Gone(t, calls[c].attempt[t])'
  <2>1. \A c \in Call : calls[c].settled \subseteq Task
    BY DEF WorkersInv, CallRecord
  <2> QED
    BY <1>1, <1>2, <2>1 DEF CallsInv, OverInv
<1>6. ASSUME NEW r \in replies', NEW t \in r.tasks, Settles(r), ~r.raised \/ r.hits[t] # 0
      PROVE  Gone(t, calls[r.call].attempt[t])'
  <2>1. CASE r \in replies
    <3>1. r.call \in Call /\ t \in Task /\ Gone(t, calls[r.call].attempt[t])
      BY <1>6, <2>1 DEF CallsInv, OverInv, WorkersInv, ReplyInv
    <3> QED
      BY <1>2, <3>1
  <2>2. CASE r = Reply(o, hits, raised) /\ Listens(calls[o.call], o)
    <3>1. /\ r.call = o.call /\ r.kind = o.kind /\ r.tasks = o.tasks
          /\ r.hits = hits /\ r.raised = raised
      BY <2>2 DEF Reply
    <3> QED
      BY <1>6, <2>2, <3>1 DEF Settles
  <2> QED
    BY <1>1, <2>1, <2>2
<1>7. ASSUME NEW c \in Call, calls'[c].runner = "settling", NEW t \in Covers(c)'
      PROVE  \/ t \in calls'[c].reported \/ Gone(t, calls[c].attempt[t])'
             \/ \E x \in Outstanding(c, "worker")' : t \in x.tasks
  BY <1>1, <1>2, <1>3, <1>7 DEF CallsInv, OverInv
<1>8. OverInv'
  BY <1>5, <1>6, <1>7 DEF OverInv, Settles
<1> QED
  BY <1>1, <1>4, <1>8 DEF CallsInv

\* What lands for a settlement ends the attempt it was for, or finds it over.
LEMMA LandKeepsCalls ==
  ASSUME TableInv, TypeOK, TypeOK', WorkersInv, CountInv, SettleInv, CallsInv,
         NEW o \in sent, Land(o)
  PROVE  CallsInv'
<1>1. CountKept /\ LeasesGoOn
  BY LandCounts, LandLeases DEF TypeOK
<1>2. RowsGoOn
  BY <1>1 DEF CountKept, RowsGoOn, TypeOK, Row
<1> DEFINE hits == [t \in Task |-> IF t \in {u \in o.tasks : Owns(o.worker, u)}
                                   THEN rows[t].attempt ELSE 0]
<1>3. Answer(o, hits, FALSE)
  BY DEF Land
<1>4. ASSUME Settles(o), Listens(calls[o.call], o), NEW t \in o.tasks
      PROVE  Gone(t, calls[o.call].attempt[t])'
  <2>1. t \in Task /\ o.call \in Call /\ o.tasks = {t}
    BY <1>4 DEF WorkersInv, WriteInv, SettleInv
  <2>2. CASE Owns(o.worker, t)
    BY <1>4, <2>2, SettlementEnds DEF Gone, Leased
  <2>3. CASE ~Owns(o.worker, t)
    <3>1. UNCHANGED <<rows, keys, now, calls>>
      BY <1>4, <2>1, <2>3 DEF Land, table, Answer, Settles, Settlements
    <3>2. o.worker = calls[o.call].worker /\ t \in Covers(o.call)
      BY <1>4, <2>1 DEF Listens, CallsInv, SlotInv, SoundWrite
    <3>3. Gone(t, calls[o.call].attempt[t])
      BY <2>1, <2>3, <3>2 DEF Gone, Leased, Owns, CallsInv, OwnInv
    <3> QED
      BY <3>1, <3>3 DEF Gone, Leased
  <2> QED
    BY <2>2, <2>3
<1> HIDE DEF hits
<1> QED
  BY <1>1, <1>2, <1>3, <1>4, AnswerKeeps

\* Clients and the clock settle nothing a call waits to settle in vain.
LEMMA RowsKeepCalls ==
  ASSUME TypeOK, TypeOK', WorkersInv, CountInv, CallsInv, RowsGoOn, LeasesGoOn,
         UNCHANGED workers
  PROVE  CallsInv'
<1>1. UNCHANGED <<calls, sent, replies, dead>>
  BY DEF workers
<1>2. \A c \in Call, t \in Task :
        /\ Gone(t, calls[c].attempt[t]) => Gone(t, calls[c].attempt[t])'
        /\ t \in Covers(c)' /\ rows'[t].attempt = calls'[c].attempt[t] /\ Leased(rows[t])'
             => rows'[t].worker_id = calls'[c].worker
  BY <1>1, KnownStays DEF CallsInv
<1>3. \A c \in Call : /\ Covers(c) = Covers(c)' /\ Covers(c) \subseteq Task
                      /\ Outstanding(c, "worker")' = Outstanding(c, "worker")
                      /\ calls[c].settled \subseteq Task
  BY <1>1 DEF Covers, Outstanding, Awaited, WorkersInv, CallRecord
<1>4. SlotInv'
  <2>1. \A x : SoundWrite(x) => SoundWrite(x)'
    BY <1>1 DEF SoundWrite, WriteOf, Covers
  <2> QED
    BY <1>1, <1>3, <2>1 DEF CallsInv, SlotInv
<1>5. OwnInv'
  BY <1>2, <1>3 DEF OwnInv
<1>6. OverInv'
  <2>1. \A r \in replies : r.call \in Call /\ r.tasks \subseteq Task
    BY DEF WorkersInv, ReplyInv
  <2> QED
    BY <1>1, <1>2, <1>3, <2>1 DEF CallsInv, OverInv, Settles
<1> QED
  BY <1>4, <1>5, <1>6 DEF CallsInv

\* A crash forgets whole calls and what was on its way for them.
LEMMA CrashKeepsCalls ==
  ASSUME WorkersInv, CallsInv, NEW w \in Worker, Crash(w)
  PROVE  CallsInv'
<1>1. /\ calls' = [c \in Call |-> IF calls[c].worker = w THEN FreeCall ELSE calls[c]]
      /\ replies' = {r \in replies : Listens(calls'[r.call], r)}
      /\ sent' \subseteq sent /\ \A o \in sent \ sent' : o.worker = w
      /\ dead' = dead \cup {w} /\ UNCHANGED <<rows, now>>
  <2>1. PICK gone \in SUBSET {o \in sent : o.worker = w} : sent' = sent \ gone
    BY DEF Crash
  <2> QED
    BY <2>1 DEF Crash, Turn, table
<1>2. \A c \in Call : calls'[c] = calls[c] \/ (calls'[c] = FreeCall /\ calls[c].worker = w)
  BY <1>1
<1>3. ASSUME NEW c \in Call, calls'[c] = FreeCall
      PROVE  Outstanding(c, "worker")' = {} /\ Covers(c)' = {}
  <2>1. \A o \in sent' \cup replies' : o.worker # calls'[c].worker
    BY <1>1, <1>3, WorkerOfWrite DEF CallsInv
  <2> QED
    BY <1>3, <2>1, FreeCallIs DEF Outstanding, Awaited, Covers
<1>4. ASSUME NEW c \in Call, calls'[c] = calls[c], calls[c].worker # w
      PROVE  Outstanding(c, "worker")' = Outstanding(c, "worker") /\ Covers(c)' = Covers(c)
  <2>1. Awaited(c, "worker", sent)' = Awaited(c, "worker", sent)
    BY <1>1, <1>4 DEF Awaited
  <2>2. Awaited(c, "worker", replies)' = Awaited(c, "worker", replies)
    BY <1>1, <1>4 DEF Awaited, CallsInv, SlotInv
  <2> QED
    BY <1>4, <2>1, <2>2 DEF Outstanding, Covers
<1>5. \A c \in Call : \/ calls'[c] = FreeCall
                      \/ calls'[c] = calls[c] /\ calls[c].worker # w
  BY <1>1
<1>6. \A o \in sent \cup replies : SoundWrite(o)'
  <2> TAKE o \in sent \cup replies
  <2>1. SoundWrite(o) /\ o.call \in Call /\ o.worker # FreeCall.worker
    BY WorkerOfWrite DEF CallsInv, SlotInv
  <2>2. o.worker = calls'[o.call].worker => o.tasks \subseteq Covers(o.call)'
    BY <1>4, <1>5, <2>1 DEF SoundWrite
  <2> QED
    BY <2>1, <2>2 DEF SoundWrite, WriteOf
<1>7. \A c \in Call : /\ SoundCall(calls'[c])
                      /\ calls'[c].runner = "settling" <=> Outstanding(c, "worker")' # {}
  BY <1>3, <1>4, <1>5, FreeCallIs DEF CallsInv, SlotInv
<1>8. SlotInv'
  BY <1>1, <1>6, <1>7 DEF CallsInv, SlotInv
<1>9. OwnInv'
  BY <1>1, <1>3, <1>4, <1>5 DEF CallsInv, OwnInv, Leased
<1>10. \A c \in Call : \A t \in calls'[c].settled : Gone(t, calls'[c].attempt[t])
  BY <1>5, FreeCallIs DEF CallsInv, OverInv
<1>11. ASSUME NEW r \in replies', NEW t \in r.tasks, Settles(r), ~r.raised \/ r.hits[t] # 0
       PROVE  Gone(t, calls'[r.call].attempt[t])
  <2>1. r \in replies /\ Listens(calls'[r.call], r)
    BY <1>1
  <2>2. r.call \in Call /\ r.worker # FreeCall.worker
    BY <2>1, WorkerOfWrite DEF CallsInv
  <2>3. calls'[r.call] = calls[r.call]
    BY <1>5, <2>1, <2>2 DEF Listens
  <2> QED
    BY <1>11, <2>1, <2>3 DEF CallsInv, OverInv
<1>12. \A c \in Call : calls'[c].runner = "settling" =>
         \A t \in Covers(c)' : \/ t \in calls'[c].reported
                               \/ Gone(t, calls'[c].attempt[t])
                               \/ \E o \in Outstanding(c, "worker")' : t \in o.tasks
  BY <1>4, <1>5, FreeCallIs DEF CallsInv, OverInv
<1>13. OverInv'
  BY <1>1, <1>10, <1>11, <1>12 DEF OverInv, Gone, Leased, Settles
<1> QED
  BY <1>8, <1>9, <1>13 DEF CallsInv

\* A delivery goes to a call that no write on its way refers to.
LEMMA DispatchKeepsCalls ==
  ASSUME TableInv, TypeOK, TypeOK', WorkersInv, CountInv, CallsInv,
         NEW w \in Worker, Dispatch(w)
  PROVE  CallsInv'
<1>1. RowsGoOn /\ LeasesGoOn
  BY DispatchGoesOn, DispatchLeases
<1>2. UNCHANGED <<sent, replies, dead>>
  BY DEF Dispatch
<1> DEFINE drawn == {t \in Task : /\ rows'[t].status = "running"
                                  /\ Recovered[t].status = "queued"}
<1>3. \A t \in drawn : rows'[t].worker_id = w
  BY DispatchLeases
<1>4. PICK given \in [drawn -> Idle] :
        calls' = [c \in Call |->
          IF c \in Idle /\ {t \in drawn : given[t] = c} # {}
          THEN NewCall(w, [t \in Task |-> IF t \in {u \in drawn : given[u] = c}
                                          THEN rows'[t].attempt ELSE 0])
          ELSE calls[c]]
  BY DEF Dispatch
<1> HIDE DEF drawn
<1> DEFINE New(c) == /\ calls[c] = FreeCall
                     /\ \A o \in sent \cup replies : o.call # c
                     /\ calls'[c].runner = "running" /\ calls'[c].worker = w
                     /\ calls'[c].settled = {} /\ calls'[c].lost = {}
                     /\ calls'[c].reported = {}
                     /\ Covers(c)' \subseteq drawn
<1>5. ASSUME NEW c \in Call, calls'[c] # calls[c]
      PROVE  New(c)
  <2> DEFINE f == [t \in Task |-> IF t \in {u \in drawn : given[u] = c}
                                  THEN rows'[t].attempt ELSE 0]
  <2>1. c \in Idle /\ calls'[c] = NewCall(w, f)
    BY <1>4, <1>5
  <2>2. calls[c] = FreeCall
    BY <2>1 DEF Idle, CallsInv, SlotInv, SoundCall
  <2>3. \A o \in sent \cup replies : o.call # c
    <3>1. \A o \in sent : o.call # c
      BY <2>1 DEF Idle
    <3>2. \A r \in replies : r.call # c
      BY <2>2, WorkerOfWrite DEF CallsInv, SlotInv, Listens
    <3> QED
      BY <3>1, <3>2
  <2>4. \A t \in Task : f[t] > 0 => t \in drawn
    OBVIOUS
  <2> HIDE DEF f
  <2>5. /\ calls'[c].runner = "running" /\ calls'[c].worker = w
        /\ calls'[c].settled = {} /\ calls'[c].lost = {} /\ calls'[c].reported = {}
        /\ calls'[c].attempt = f
    BY <2>1 DEF NewCall, FreeCall
  <2>6. Covers(c)' \subseteq drawn
    BY <2>4, <2>5 DEF Covers
  <2> QED
    BY <2>2, <2>3, <2>5, <2>6
<1>6. \A c \in Call : New(c) => Outstanding(c, "worker")' = {}
  BY <1>2 DEF Outstanding, Awaited
<1>7. \A c \in Call : calls'[c] = calls[c] =>
        Outstanding(c, "worker")' = Outstanding(c, "worker") /\ Covers(c)' = Covers(c)
  BY <1>2 DEF Outstanding, Awaited, Covers
<1>8. \A o \in sent \cup replies : calls'[o.call] = calls[o.call] /\ o.call \in Call
  BY <1>5, WorkerOfWrite DEF CallsInv
<1>9. SlotInv'
  <2>1. \A o \in sent \cup replies : SoundWrite(o)'
    BY <1>7, <1>8 DEF CallsInv, SlotInv, SoundWrite, WriteOf
  <2>2. ASSUME NEW c \in Call
        PROVE  /\ SoundCall(calls'[c])
               /\ calls'[c].runner = "settling" <=> Outstanding(c, "worker")' # {}
    <3>1. CASE calls'[c] = calls[c]
      BY <1>7, <3>1 DEF CallsInv, SlotInv
    <3>2. CASE New(c)
      BY <1>6, <3>2 DEF SoundCall
    <3> QED
      BY <1>5, <3>1, <3>2
  <2> QED
    BY <1>2, <1>8, <2>1, <2>2 DEF CallsInv, SlotInv
<1>10. \A c \in Call, t \in Task : calls'[c] = calls[c] =>
         /\ Gone(t, calls[c].attempt[t]) => Gone(t, calls[c].attempt[t])'
         /\ t \in Covers(c)' /\ rows'[t].attempt = calls'[c].attempt[t] /\ Leased(rows[t])'
              => rows'[t].worker_id = calls'[c].worker
  BY <1>1, KnownStays DEF CallsInv
<1>11. OwnInv'
  <2> SUFFICES ASSUME NEW c \in Call, NEW t \in Covers(c)',
                      rows'[t].attempt = calls'[c].attempt[t], Leased(rows[t])'
               PROVE  rows'[t].worker_id = calls'[c].worker
    BY DEF OwnInv
  <2>1. t \in Task
    BY DEF Covers
  <2>2. CASE calls'[c] = calls[c]
    BY <1>10, <2>1, <2>2
  <2>3. CASE New(c)
    BY <1>3, <2>3
  <2> QED
    BY <1>5, <2>2, <2>3
<1>12. OverInv'
  <2>1. \A c \in Call : \A t \in calls'[c].settled : Gone(t, calls[c].attempt[t])'
    <3> TAKE c \in Call
    <3> TAKE t \in calls'[c].settled
    <3>1. calls'[c] = calls[c]
      BY <1>5
    <3>2. t \in Task /\ Gone(t, calls[c].attempt[t])
      BY <3>1 DEF CallsInv, OverInv, WorkersInv, CallRecord
    <3> QED
      BY <1>10, <3>1, <3>2
  <2>2. \A r \in replies' : \A t \in r.tasks :
          Settles(r) /\ (~r.raised \/ r.hits[t] # 0) => Gone(t, calls[r.call].attempt[t])'
    <3> TAKE r \in replies'
    <3> TAKE t \in r.tasks
    <3>1. r \in replies /\ r.call \in Call /\ t \in Task
          /\ calls'[r.call] = calls[r.call]
      BY <1>2, <1>8 DEF WorkersInv, ReplyInv
    <3> QED
      BY <1>10, <3>1 DEF CallsInv, OverInv
  <2>3. \A c \in Call : calls'[c].runner = "settling" =>
          \A t \in Covers(c)' : \/ t \in calls'[c].reported
                                \/ Gone(t, calls[c].attempt[t])'
                                \/ \E o \in Outstanding(c, "worker")' : t \in o.tasks
    <3> TAKE c \in Call
    <3> HAVE calls'[c].runner = "settling"
    <3> TAKE t \in Covers(c)'
    <3>1. calls'[c] = calls[c]
      BY <1>5
    <3>2. t \in Covers(c) /\ t \in Task /\ Outstanding(c, "worker")' = Outstanding(c, "worker")
      BY <1>7, <3>1 DEF Covers
    <3> QED
      BY <1>10, <3>1, <3>2 DEF CallsInv, OverInv
  <2> QED
    BY <2>1, <2>2, <2>3 DEF OverInv, Settles
<1> QED
  BY <1>9, <1>11, <1>12 DEF CallsInv

\* Before the first delivery there are only blank calls.
LEMMA InitCalls == WorkersInit => CallsInv
<1> SUFFICES ASSUME WorkersInit PROVE CallsInv
  OBVIOUS
<1>1. /\ calls = [c \in Call |-> FreeCall] /\ sent = {} /\ replies = {} /\ dead = {}
  BY DEF WorkersInit
<1>2. \A c \in Call : Covers(c) = {} /\ Outstanding(c, "worker") = {}
  BY <1>1, FreeCallIs DEF Covers, Outstanding, Awaited
<1>3. SlotInv
  BY <1>1, <1>2, FreeCallIs DEF SlotInv
<1>4. OwnInv /\ OverInv
  BY <1>1, <1>2, FreeCallIs DEF OwnInv, OverInv
<1> QED
  BY <1>3, <1>4 DEF CallsInv

\* Every step keeps the invariant.
LEMMA NextCalls ==
  ASSUME TableInv, TypeOK', WorkersInv, CountInv, SettleInv, CallsInv,
         [WorkersNext]_wvars
  PROVE  CallsInv'
<1>t. TypeOK /\ now \in Nat
  BY DEF TableInv, RowsInv, TypeOK
<1>a. UNCHANGED <<rows, now>> => RowsGoOn /\ LeasesGoOn
  BY <1>t DEF RowsGoOn, LeasesGoOn, Leased, TypeOK, Row
<1>1. CASE Outside
  <2>1. CountKept /\ LeasesGoOn
    BY <1>1, <1>t, OutsideCounts, OutsideLeases
  <2>2. RowsGoOn
    BY <1>t, <2>1 DEF CountKept, RowsGoOn, TypeOK, Row
  <2> QED
    BY <1>1, <1>t, <2>1, <2>2, RowsKeepCalls DEF Outside
<1>2. ASSUME NEW w \in Worker, Dispatch(w) PROVE CallsInv'
  BY <1>2, <1>t, DispatchKeepsCalls
<1>3. ASSUME NEW w \in Worker, Crash(w) PROVE CallsInv'
  BY <1>3, CrashKeepsCalls
<1>4. ASSUME NEW c \in Call, CallNext(c) PROVE CallsInv'
  BY <1>4, CallNextKeeps
<1>5. ASSUME NEW o \in sent, Land(o) PROVE CallsInv'
  BY <1>5, <1>t, LandKeepsCalls
<1>6. ASSUME NEW o \in sent, Faults(o) PROVE CallsInv'
  <2> DEFINE none == [t \in Task |-> 0]
  <2>1. RowsGoOn /\ LeasesGoOn /\ Answer(o, none, TRUE)
    BY <1>6, <1>a DEF Faults, table
  <2>2. \A t \in o.tasks : none[t] = 0
    BY DEF WorkersInv, WriteInv
  <2> HIDE DEF none
  <2> QED
    BY <1>t, <2>1, <2>2, AnswerKeeps
<1>7. ASSUME NEW r \in replies, Hear(r) PROVE CallsInv'
  <2>1. r.call \in Call /\ KnowingTurn(r.call)
    BY <1>7, HearTurn
  <2>2. UNCHANGED <<rows, now, dead>>
    BY <1>7 DEF Hear, table
  <2> QED
    BY <2>1, <2>2, KnowingTurnKeeps
<1>8. CASE UNCHANGED wvars
  <2>1. RowsGoOn /\ LeasesGoOn /\ UNCHANGED workers
    BY <1>8, <1>a DEF wvars, workers
  <2> QED
    BY <1>t, <2>1, RowsKeepCalls
<1> QED
  BY <1>1, <1>2, <1>3, <1>4, <1>5, <1>6, <1>7, <1>8 DEF WorkersNext

\* A call that ends in a return, an exception or a timeout has nothing of its
\* own left to settle.
LEMMA EndsSettled ==
  ASSUME WorkersInv, CallsInv, [WorkersNext]_wvars, NEW c \in Call, NEW t \in Covers(c),
         calls[c].runner \in {"running", "settling"}, ~RaisesLostLease(c),
         calls'[c].runner \in {"over", "free"}, calls[c].worker \notin dead',
         t \notin calls[c].reported,
         \A r \in replies \ replies' : r.call = c /\ t \in r.tasks => ~r.raised
  PROVE  Gone(t, calls[c].attempt[t]) /\ UNCHANGED <<rows, now>>
<1> DEFINE Done == Gone(t, calls[c].attempt[t]) /\ UNCHANGED <<rows, now>>
<1>1. calls'[c].runner # calls[c].runner
  OBVIOUS
<1>c. calls \in [Call -> CallRecord] /\ calls[c] \in CallRecord
  BY DEF WorkersInv
<1>2. \A d \in Call : \A next, ops :
        Turn([calls EXCEPT ![d] = next], ops) => d = c /\ calls'[c] = next
  BY <1>1, <1>c DEF Turn
<1>3. CASE UNCHANGED calls
  BY <1>1, <1>3
<1>4. ASSUME NEW w \in Worker, Dispatch(w) PROVE Done
  <2>1. c \notin Idle
    BY DEF Idle
  <2>2. calls'[c] = calls[c]
    BY <1>4, <2>1 DEF Dispatch
  <2> QED
    BY <1>1, <2>2
<1>5. ASSUME NEW w \in Worker, Crash(w) PROVE Done
  <2>1. calls[c].worker # w /\ calls'[c] = calls[c]
    BY <1>5 DEF Crash, Turn
  <2> QED
    BY <1>1, <2>1
<1>6. ASSUME NEW d \in Call, NEW kinds, NEW lost, NEW handler,
             Ends(d, kinds, lost, handler)
      PROVE  Done
  <2> DEFINE call == [calls[d] EXCEPT !.lost = lost, !.handler = handler]
             left == LeftBehind(call)
             next == IF left = {} THEN Closed(call)
                                  ELSE [call EXCEPT !.runner = "settling"]
  <2>1. Turn([calls EXCEPT ![d] = next], replies) /\ UNCHANGED <<rows, now>>
    BY <1>6 DEF Ends, table
  <2> HIDE DEF next
  <2>2. d = c /\ calls'[c] = next
    BY <1>2, <2>1
  <2>3. left = {}
    BY <1>c, <2>2 DEF next, CallRecord
  <2>4. t \in calls[c].settled
    BY <1>c, <2>2, <2>3 DEF LeftBehind, Covers, CallRecord
  <2> QED
    BY <2>1, <2>4 DEF CallsInv, OverInv
<1>7. ASSUME NEW d \in Call, CallNext(d) PROVE Done
  <2>1. CASE Returns(d) \/ Raises(d) \/ TimesOut(d)
    BY <1>6, <2>1 DEF Returns, Raises, TimesOut
  <2>2. CASE RaisesLostLease(d)
    BY <1>2, <2>2 DEF RaisesLostLease
  <2>3. CASE ZombieEnds(d)
    <3> DEFINE next == IF calls[d].runner = "over" THEN FreeCall
                       ELSE [calls[d] EXCEPT !.handler = "over"]
    <3>1. Turn([calls EXCEPT ![d] = next], replies)
      BY <2>3 DEF ZombieEnds
    <3> HIDE DEF next
    <3>2. d = c /\ calls'[c] = next
      BY <1>2, <3>1
    <3>3. next.runner = calls[c].runner
      BY <1>c, <3>2 DEF next, CallRecord
    <3> QED
      BY <1>1, <3>2, <3>3
  <2>4. CASE Beat(d) \/ \E u \in Task, kind \in HandlerWrites : HandlerWrite(d, u, kind)
    BY <1>3, <2>4 DEF Beat, HandlerWrite
  <2> QED
    BY <1>7, <2>1, <2>2, <2>3, <2>4 DEF CallNext
<1>8. ASSUME NEW r \in replies, Hear(r) PROVE Done
  <2> DEFINE call == calls[r.call]
             last == r.by = "worker" /\ Outstanding(r.call, "worker") = {r}
             heard == CASE r.by = "handler" -> HandlerHears(call, r)
                        [] r.by = "worker" -> RunnerHears(call, r)
                        [] r.by = "heartbeat loop" -> LoopHears(call, r)
             next == IF last THEN Closed(heard) ELSE heard
  <2>1. /\ r.call \in Call /\ r.by \in Writers
        /\ SoundWrite(r)
    BY DEF WorkersInv, ReplyInv, CallsInv, SlotInv
  <2>2. Turn([calls EXCEPT ![r.call] = next], replies \ {r}) /\ UNCHANGED <<rows, now>>
    BY <1>8 DEF Hear, table
  <2> HIDE DEF next
  <2>3. r.call = c /\ calls'[c] = next
    BY <1>2, <2>1, <2>2
  <2>4. heard.runner = calls[c].runner
    <3>1. /\ HandlerHears(calls[c], r).runner = calls[c].runner
          /\ RunnerHears(calls[c], r).runner = calls[c].runner
          /\ LoopHears(calls[c], r).runner = calls[c].runner
      BY <1>c DEF HandlerHears, RunnerHears, LoopHears, CallRecord
    <3> QED
      BY <2>1, <2>3, <3>1 DEF Writers
  <2> HIDE DEF heard
  <2>5. last
    BY <1>1, <2>3, <2>4 DEF next
  <2>6. calls[c].runner = "settling"
    BY <2>3, <2>5 DEF CallsInv, SlotInv
  <2>7. \/ Gone(t, calls[c].attempt[t])
        \/ t \in r.tasks
    BY <2>3, <2>5, <2>6 DEF CallsInv, OverInv
  <2>8. CASE t \in r.tasks
    <3>1. r \notin replies'
      BY <2>2 DEF Turn
    <3>2. ~r.raised /\ Settles(r)
      BY <2>1, <2>3, <2>5, <2>8, <3>1 DEF SoundWrite, Settles
    <3> QED
      BY <2>2, <2>3, <2>8, <3>2 DEF CallsInv, OverInv
  <2> QED
    BY <2>2, <2>7, <2>8
<1>9. ASSUME NEW o \in sent, Land(o) \/ Faults(o) PROVE Done
  BY <1>3, <1>9 DEF Land, Faults, Answer
<1> QED
  BY <1>3, <1>4, <1>5, <1>7, <1>8, <1>9 DEF WorkersNext, wvars, Outside, workers

\* It implies the types, and that slots are held as long as answers are due.
LEMMA CallsTypeOK ==
  ASSUME WorkersInv, CallsInv PROVE WorkersTypeOK
<1>1. ASSUME NEW c \in Call
      PROVE  /\ calls[c].worker \in Worker \cup {NoWorker}
             /\ calls[c].runner \in {"free", "running", "settling", "over"}
             /\ calls[c].handler \in {"running", "over"}
             /\ calls[c].attempt \in [Task -> Nat]
             /\ calls[c].lost \cup calls[c].settled \cup calls[c].reported
                  \subseteq Covers(c)
             /\ calls[c].runner = "settling" <=> Outstanding(c, "worker") # {}
  BY DEF WorkersInv, CallRecord, CallsInv, SlotInv, SoundCall, Covers
<1>2. \A o \in sent \cup replies : WriteOf(o)
  BY DEF CallsInv, SlotInv, SoundWrite
<1>3. dead \subseteq Worker
  BY DEF CallsInv, SlotInv
<1> QED
  BY <1>1, <1>2, <1>3 DEF WorkersTypeOK

\* All the invariants about workers hold together.
LEMMA CallsInvariant ==
  WorkersSpec => [](TableInv /\ WorkersInv /\ CountInv /\ SettleInv /\ CallsInv)
<1>1. WorkersInit => TableInv /\ WorkersInv /\ CountInv /\ SettleInv /\ CallsInv
  BY InitTable, InitWorkers, InitCounts, InitSettles, InitCalls DEF WorkersInit
<1>2. TableInv /\ WorkersInv /\ CountInv /\ SettleInv /\ CallsInv /\ [WorkersNext]_wvars
        => (TableInv /\ WorkersInv /\ CountInv /\ SettleInv /\ CallsInv)'
  <2> SUFFICES ASSUME TableInv, WorkersInv, CountInv, SettleInv, CallsInv,
                      [WorkersNext]_wvars
               PROVE  TableInv' /\ WorkersInv' /\ CountInv' /\ SettleInv' /\ CallsInv'
    OBVIOUS
  <2>1. TableInv'
    BY StepIsTableStep, NextTable
  <2>2. TypeOK'
    BY <2>1 DEF TableInv, RowsInv, TypeOK
  <2> QED
    BY <2>1, <2>2, NextWorkers, NextCounts, NextSettles, NextCalls
<1> QED
  BY <1>1, <1>2, PTL DEF WorkersSpec

\* Calls stay well formed, what a call marks is among the tasks it was given,
\* and a call keeps its slot exactly as long as an answer to one of its
\* settlements is due: _run_call neither returns early nor waits for nobody.
THEOREM CallsAreSound == WorkersSpec => []WorkersTypeOK
BY CallsInvariant, CallsTypeOK, PTL

\* However a handler call ends (a return, an exception, a timeout), and whatever
\* the settlements of its neighbours met, no task it was given and still held is
\* left running, unless its write raised and was reported or the handler let a
\* LostLease through: _settle_each skips only what was settled already.
THEOREM CallsSettleWhatTheyHeld == WorkersSpec => SettlesWhatItHeld
<1> DEFINE Settled ==
      \A c \in Call, t \in Task :
        LET call == calls[c]
        IN /\ t \in Covers(c)
           /\ call.runner \in {"running", "settling"}
           /\ ~RaisesLostLease(c)
           /\ calls'[c].runner \in {"over", "free"}
           /\ call.worker \notin dead'
           /\ t \notin call.reported
           /\ \A r \in replies \ replies' :
                r.call = c /\ t \in r.tasks => ~r.raised
           => ~ /\ rows'[t].status = "running"
                /\ rows'[t].worker_id = call.worker
                /\ rows'[t].attempt = call.attempt[t]
                /\ rows'[t].lease_until > now
<1>1. TableInv /\ WorkersInv /\ CountInv /\ SettleInv /\ CallsInv /\ [WorkersNext]_wvars
        => Settled
  BY EndsSettled DEF Gone, Leased
<1>2. [][Settled]_wvars => SettlesWhatItHeld
  BY PTL DEF SettlesWhatItHeld
<1> HIDE DEF Settled
<1> QED
  BY <1>1, <1>2, CallsInvariant, PTL DEF WorkersSpec
-----------------------------------------------------------------------------
(* The outcome of a worker's own attempt, with one call in flight at a time. *)

HoldsSlot(call) == call.runner \in {"running", "settling"}

\* A worker with a call in flight has claimed nothing since: what it leases of
\* the tasks of that call is the attempt the call was given.
LatestInv ==
  \A c \in Call : \A t \in Covers(c) :
    HoldsSlot(calls[c]) /\ Leased(rows[t]) /\ rows[t].worker_id = calls[c].worker
      => rows[t].attempt = calls[c].attempt[t]

OutcomeInv == LatestInv /\ OutcomeOfOwnAttempt

\* Outside a claim no call takes a slot, and one that keeps it keeps its tasks.
SlotsKept ==
  \A c \in Call : HoldsSlot(calls'[c]) =>
    /\ HoldsSlot(calls[c])
    /\ calls'[c].worker = calls[c].worker /\ calls'[c].attempt = calls[c].attempt

\* The steps of calls are such.
LEMMA CallsKeepSlots ==
  ASSUME WorkersInv,
         \/ \E w \in Worker : Crash(w)
         \/ \E c \in Call : CallNext(c)
         \/ \E r \in replies : Hear(r)
  PROVE  SlotsKept /\ replies' \subseteq replies /\ UNCHANGED <<rows, now>>
<1> DEFINE Keeps(call, next) == HoldsSlot(next) => /\ HoldsSlot(call)
                                                   /\ next.worker = call.worker
                                                   /\ next.attempt = call.attempt
           Goal == SlotsKept /\ replies' \subseteq replies /\ UNCHANGED <<rows, now>>
<1>a. ASSUME NEW c \in Call, NEW next, NEW ops, ops \subseteq replies,
             Turn([calls EXCEPT ![c] = next], ops), UNCHANGED <<rows, now>>,
             Keeps(calls[c], next)
      PROVE  Goal
  <2>1. /\ calls' = [calls EXCEPT ![c] = next] /\ replies' \subseteq replies
        /\ calls \in [Call -> CallRecord]
    BY <1>a DEF Turn, WorkersInv
  <2> QED
    BY <1>a, <2>1 DEF SlotsKept
<1>b. ~HoldsSlot(FreeCall)
  BY FreeCallIs DEF HoldsSlot
<1>c. ASSUME NEW call \in CallRecord
      PROVE  ~HoldsSlot(Closed(call))
  <2>1. CASE call.handler = "over"
    BY <1>b, <2>1 DEF Closed
  <2>2. CASE call.handler # "over"
    <3>1. Closed(call).runner = "over"
      BY <2>2 DEF Closed, CallRecord
    <3> QED
      BY <3>1 DEF HoldsSlot
  <2> QED
    BY <2>1, <2>2
<1>d. \A c \in Call : calls[c] \in CallRecord
  BY DEF WorkersInv
<1>1. ASSUME NEW w \in Worker, Crash(w) PROVE Goal
  <2>1. /\ calls' = [c \in Call |-> IF calls[c].worker = w THEN FreeCall ELSE calls[c]]
        /\ replies' \subseteq replies /\ UNCHANGED <<rows, now>>
    BY <1>1 DEF Crash, Turn, table
  <2> QED
    BY <1>b, <2>1 DEF SlotsKept
<1>2. ASSUME NEW c \in Call, NEW lost, NEW handler, NEW kinds,
             Ends(c, kinds, lost, handler)
      PROVE  Goal
  <2> DEFINE call == [calls[c] EXCEPT !.lost = lost, !.handler = handler]
             waiting == [call EXCEPT !.runner = "settling"]
             next == IF LeftBehind(call) = {} THEN Closed(call) ELSE waiting
  <2>1. /\ Turn([calls EXCEPT ![c] = next], replies) /\ UNCHANGED <<rows, now>>
        /\ calls[c].runner = "running"
    BY <1>2 DEF Ends, table
  <2>2. /\ waiting.worker = calls[c].worker /\ waiting.attempt = calls[c].attempt
        /\ call.handler = handler
    BY <1>d DEF CallRecord
  <2>3. ~HoldsSlot(Closed(call))
    <3>1. CASE handler = "over"
      BY <1>b, <2>2, <3>1 DEF Closed
    <3>2. CASE handler # "over"
      <4>1. Closed(call).runner = "over"
        BY <1>d, <2>2, <3>2 DEF Closed, CallRecord
      <4> QED
        BY <4>1 DEF HoldsSlot
    <3> QED
      BY <3>1, <3>2
  <2> HIDE DEF call, waiting
  <2>4. Keeps(calls[c], next)
    BY <2>1, <2>2, <2>3 DEF HoldsSlot
  <2> HIDE DEF next
  <2> QED
    BY <1>a, <2>1, <2>4
<1>3. ASSUME NEW c \in Call, CallNext(c) PROVE Goal
  <2>1. CASE \/ \E t \in Task, kind \in HandlerWrites : HandlerWrite(c, t, kind)
             \/ Beat(c)
    BY <2>1 DEF HandlerWrite, Beat, SlotsKept, table
  <2>2. CASE Returns(c) \/ Raises(c) \/ TimesOut(c)
    BY <1>2, <2>2 DEF Returns, Raises, TimesOut
  <2>3. CASE RaisesLostLease(c)
    BY <1>a, <1>b, <2>3 DEF RaisesLostLease, table
  <2>4. CASE ZombieEnds(c)
    <3> DEFINE next == IF calls[c].runner = "over" THEN FreeCall
                       ELSE [calls[c] EXCEPT !.handler = "over"]
    <3>1. Turn([calls EXCEPT ![c] = next], replies) /\ UNCHANGED <<rows, now>>
      BY <2>4 DEF ZombieEnds, table
    <3>2. Keeps(calls[c], next)
      BY <1>b, <1>d DEF CallRecord, HoldsSlot
    <3> HIDE DEF next
    <3> QED
      BY <1>a, <3>1, <3>2
  <2> QED
    BY <1>3, <2>1, <2>2, <2>3, <2>4 DEF CallNext
<1>4. ASSUME NEW r \in replies, Hear(r) PROVE Goal
  <2> DEFINE call == calls[r.call]
             last == r.by = "worker" /\ Outstanding(r.call, "worker") = {r}
             heard == CASE r.by = "handler" -> HandlerHears(call, r)
                        [] r.by = "worker" -> RunnerHears(call, r)
                        [] r.by = "heartbeat loop" -> LoopHears(call, r)
             next == IF last THEN Closed(heard) ELSE heard
  <2>1. r.call \in Call /\ r.by \in Writers /\ r.tasks \in SUBSET Task
    BY DEF WorkersInv, ReplyInv
  <2>2. Turn([calls EXCEPT ![r.call] = next], replies \ {r}) /\ UNCHANGED <<rows, now>>
    BY <1>4 DEF Hear, table
  <2>3. call \in CallRecord
    BY <1>d, <2>1
  <2> HIDE DEF call
  <2> DEFINE Same(x) == /\ x \in CallRecord /\ x.runner = call.runner
                        /\ x.worker = call.worker /\ x.attempt = call.attempt
  <2>h. Same(HandlerHears(call, r))
    BY <2>1, <2>3 DEF HandlerHears, CallRecord
  <2>w. Same(RunnerHears(call, r))
    BY <2>1, <2>3 DEF RunnerHears, CallRecord
  <2>l. Same(LoopHears(call, r))
    BY <2>1, <2>3 DEF LoopHears, CallRecord
  <2>5. Same(heard)
    BY <2>1, <2>h, <2>w, <2>l DEF Writers
  <2> HIDE DEF heard
  <2>6. Keeps(call, next)
    BY <1>c, <2>5 DEF HoldsSlot
  <2> HIDE DEF next
  <2>7. replies \ {r} \subseteq replies
    OBVIOUS
  <2> QED
    BY <1>a, <2>1, <2>2, <2>6, <2>7 DEF call
<1> QED
  BY <1>1, <1>3, <1>4

\* While no call takes a slot and no count moves, a worker's lease is of the
\* attempt it was; an answer that is still waited for is of one that goes on.
LEMMA OutcomeStays ==
  ASSUME WorkersInv, WorkersInv', CallsInv', OutcomeInv, CountKept, LeasesGoOn, SlotsKept,
         \A r \in replies' : \A t \in Task :
           r \notin replies /\ r.by = "worker" /\ r.hits[t] # 0
             => r.hits[t] = calls[r.call].attempt[t]
  PROVE  OutcomeInv'
<1>1. LatestInv'
  <2> SUFFICES ASSUME NEW c \in Call, NEW t \in Covers(c)', HoldsSlot(calls'[c]),
                      Leased(rows[t])', rows'[t].worker_id = calls'[c].worker
               PROVE  rows'[t].attempt = calls'[c].attempt[t]
    BY DEF LatestInv
  <2>1. /\ HoldsSlot(calls[c]) /\ calls'[c].worker = calls[c].worker
        /\ calls'[c].attempt = calls[c].attempt
    BY DEF SlotsKept
  <2>2. t \in Task /\ t \in Covers(c)
    BY <2>1 DEF Covers
  <2>3. /\ Leased(rows[t]) /\ rows'[t].worker_id = rows[t].worker_id
        /\ rows'[t].attempt = rows[t].attempt
    BY <2>2 DEF CountKept, LeasesGoOn
  <2> QED
    BY <2>1, <2>2, <2>3 DEF OutcomeInv, LatestInv
<1>2. OutcomeOfOwnAttempt'
  <2> SUFFICES ASSUME NEW r \in replies', NEW t \in Task,
                      r.by = "worker", r.hits[t] # 0
               PROVE  r.hits[t] = calls'[r.call].attempt[t]
    BY DEF OutcomeOfOwnAttempt
  <2>1. Listens(calls'[r.call], r) /\ r.call \in Call
    BY DEF CallsInv, SlotInv, WorkersInv, ReplyInv
  <2>2. calls'[r.call].attempt = calls[r.call].attempt
    BY <2>1 DEF Listens, SlotsKept, HoldsSlot
  <2> QED
    BY <2>2 DEF OutcomeInv, OutcomeOfOwnAttempt
<1> QED
  BY <1>1, <1>2 DEF OutcomeInv

\* A claim leaves a row that runs as it was, or draws it for its own worker.
LEMMA DispatchDraws ==
  ASSUME TableInv, NEW w \in Worker, Dispatch(w), NEW t \in Task,
         rows'[t].status = "running"
  PROVE  rows'[t] = rows[t] \/ rows'[t].worker_id = w
<1>1. PICK S \in SUBSET Task :
        rows' = [u \in Task |-> IF u \in S THEN ClaimRow(Recovered[u], w)
                                           ELSE Recovered[u]]
  BY DEF Dispatch, Claim, Draws, Claimable
<1>2. rows[t] \in Row /\ RowInv(rows[t])
  BY DEF TableInv, RowsInv
<1>3. CASE Expired(rows[t])
  <2>1. Recovered[t] = RecoverRow(rows[t]) /\ rows[t].status = "running"
    BY <1>3 DEF Recovered, Expired
  <2>2. Recovered[t] \in Row
    BY <1>2, <1>3, <2>1, RecoverRowInv DEF Expired, TableInv, RowInv
  <2>3. Recovered[t].status # "running"
    BY <1>2, <2>1 DEF RecoverRow, Requeued, Row
  <2>4. t \in S
    BY <1>1, <2>3
  <2> QED
    BY <1>1, <2>2, <2>4 DEF ClaimRow, Row
<1>4. CASE ~Expired(rows[t])
  <2>1. Recovered[t] = rows[t]
    BY <1>4 DEF Recovered
  <2> QED
    BY <1>1, <1>2, <2>1 DEF ClaimRow, Row
<1> QED
  BY <1>3, <1>4

\* A worker with one slot claims when it has no call in flight.
LEMMA DispatchOutcomes ==
  ASSUME Concurrency = 1, TableInv, WorkersInv, CallsInv, OutcomeInv,
         NEW w \in Worker, Dispatch(w)
  PROVE  OutcomeInv'
<1>1. \A c \in Call : HoldsSlot(calls[c]) => calls[c].worker # w
  <2>1. IsFiniteSet(InFlight(w))
    BY WorkerInputs, FS_Subset DEF InFlight
  <2>2. Concurrency - Cardinality(InFlight(w)) > 0
    BY DEF Dispatch
  <2>3. Cardinality(InFlight(w)) = 0
    BY <2>1, <2>2, FS_CardinalityType
  <2>4. InFlight(w) = {}
    BY <2>1, <2>3, FS_EmptySet
  <2> QED
    BY <2>4 DEF InFlight, HoldsSlot
<1> DEFINE drawn == {t \in Task : /\ rows'[t].status = "running"
                                  /\ Recovered[t].status = "queued"}
<1>2. PICK given \in [drawn -> Idle] :
        calls' = [c \in Call |->
          IF c \in Idle /\ {t \in drawn : given[t] = c} # {}
          THEN NewCall(w, [t \in Task |-> IF t \in {u \in drawn : given[u] = c}
                                          THEN rows'[t].attempt ELSE 0])
          ELSE calls[c]]
  BY DEF Dispatch
<1>3. UNCHANGED <<replies, now>>
  BY DEF Dispatch, Claim
<1>4. LatestInv'
  <2> SUFFICES ASSUME NEW c \in Call, NEW t \in Covers(c)', HoldsSlot(calls'[c]),
                      Leased(rows[t])', rows'[t].worker_id = calls'[c].worker
               PROVE  rows'[t].attempt = calls'[c].attempt[t]
    BY DEF LatestInv
  <2>1. t \in Task /\ calls'[c].attempt[t] > 0 /\ rows'[t].status = "running"
    BY DEF Covers, Leased
  <2>2. CASE calls'[c] = calls[c]
    <3>1. rows'[t].worker_id # w
      BY <1>1, <2>2
    <3>2. rows'[t] = rows[t]
      BY <2>1, <3>1, DispatchDraws
    <3>3. t \in Covers(c) /\ Leased(rows[t])
      BY <1>3, <2>1, <2>2, <3>2 DEF Covers, Leased
    <3> QED
      BY <2>2, <3>2, <3>3 DEF OutcomeInv, LatestInv
  <2>3. CASE calls'[c] # calls[c]
    <3> DEFINE f == [u \in Task |-> IF u \in {v \in drawn : given[v] = c}
                                    THEN rows'[u].attempt ELSE 0]
    <3>1. calls'[c] = NewCall(w, f)
      BY <1>2, <2>3
    <3>2. f[t] > 0 => f[t] = rows'[t].attempt
      BY <2>1
    <3> HIDE DEF f
    <3>3. calls'[c].attempt = f
      BY <3>1 DEF NewCall, FreeCall
    <3> QED
      BY <2>1, <3>2, <3>3
  <2> QED
    BY <2>2, <2>3
<1>5. OutcomeOfOwnAttempt'
  <2> SUFFICES ASSUME NEW r \in replies, NEW t \in Task,
                      r.by = "worker", r.hits[t] # 0
               PROVE  r.hits[t] = calls'[r.call].attempt[t]
    BY <1>3 DEF OutcomeOfOwnAttempt
  <2>1. Listens(calls[r.call], r) /\ r.call \in Call
    BY DEF CallsInv, SlotInv, WorkersInv, ReplyInv
  <2>2. r.call \notin Idle
    BY <2>1 DEF Listens, Idle
  <2>3. calls'[r.call] = calls[r.call]
    BY <1>2, <2>1, <2>2
  <2> QED
    BY <2>3 DEF OutcomeInv, OutcomeOfOwnAttempt
<1> QED
  BY <1>4, <1>5 DEF OutcomeInv

\* A runner's settlement that lands reaches what its call was given.
LEMMA LandOutcomes ==
  ASSUME TableInv, WorkersInv, WorkersInv', CallsInv, CallsInv', OutcomeInv,
         NEW o \in sent, Land(o)
  PROVE  OutcomeInv'
<1> DEFINE owned == {t \in o.tasks : Owns(o.worker, t)}
           hits == [t \in Task |-> IF t \in owned THEN rows[t].attempt ELSE 0]
<1>1. CountKept /\ LeasesGoOn
  BY LandCounts, LandLeases DEF TableInv, RowsInv, TypeOK
<1>2. Answer(o, hits, FALSE)
  BY DEF Land
<1>3. SlotsKept
  BY <1>2 DEF Answer, SlotsKept
<1>4. ASSUME NEW r \in replies', r \notin replies, r.by = "worker",
             NEW t \in Task, r.hits[t] # 0
      PROVE  r.hits[t] = calls[r.call].attempt[t]
  <2>1. r = Reply(o, hits, FALSE) /\ Listens(calls[o.call], o)
    BY <1>2, <1>4 DEF Answer
  <2>2. r.hits = hits /\ r.call = o.call /\ o.by = "worker"
    BY <1>4, <2>1 DEF Reply
  <2>3. t \in owned /\ r.hits[t] = rows[t].attempt
    BY <1>4, <2>2
  <2>4. /\ o.worker = calls[o.call].worker /\ HoldsSlot(calls[o.call])
        /\ o.call \in Call
    BY <2>1, <2>2 DEF Listens, HoldsSlot, WorkersInv, WriteInv
  <2>5. t \in Covers(o.call)
    BY <2>3, <2>4 DEF CallsInv, SlotInv, SoundWrite
  <2>6. Leased(rows[t]) /\ rows[t].worker_id = calls[o.call].worker
    BY <2>3, <2>4 DEF Owns, Leased
  <2> QED
    BY <2>2, <2>3, <2>4, <2>5, <2>6 DEF OutcomeInv, LatestInv
<1> QED
  BY <1>1, <1>3, <1>4, OutcomeStays

\* Every step keeps the invariant.
LEMMA NextOutcomes ==
  ASSUME Concurrency = 1, TableInv, WorkersInv, WorkersInv', CountInv,
         CallsInv, CallsInv', OutcomeInv, [WorkersNext]_wvars
  PROVE  OutcomeInv'
<1>t. TypeOK /\ now \in Nat
  BY DEF TableInv, RowsInv, TypeOK
<1>a. UNCHANGED <<rows, now>> => CountKept /\ LeasesGoOn
  BY DEF CountKept, LeasesGoOn, Leased
<1>1. CASE Outside
  <2>1. CountKept /\ LeasesGoOn
    BY <1>1, <1>t, OutsideCounts, OutsideLeases
  <2>2. SlotsKept /\ replies' = replies
    BY <1>1 DEF Outside, workers, SlotsKept
  <2> QED
    BY <2>1, <2>2, OutcomeStays
<1>2. ASSUME NEW w \in Worker, Dispatch(w) PROVE OutcomeInv'
  BY <1>2, DispatchOutcomes
<1>3. ASSUME NEW o \in sent, Land(o) PROVE OutcomeInv'
  BY <1>3, LandOutcomes
<1>4. ASSUME NEW o \in sent, Faults(o) PROVE OutcomeInv'
  <2> DEFINE none == [t \in Task |-> 0]
  <2>1. /\ UNCHANGED <<rows, now, calls>>
        /\ replies' \subseteq replies \cup {Reply(o, none, TRUE)}
    BY <1>4 DEF Faults, Answer, table
  <2>2. \A t \in Task : Reply(o, none, TRUE).hits[t] = 0
    BY DEF Reply
  <2> HIDE DEF none
  <2>3. \A r \in replies' : \A t \in Task : r \notin replies => r.hits[t] = 0
    BY <2>1, <2>2
  <2>4. SlotsKept
    BY <2>1 DEF SlotsKept
  <2> QED
    BY <1>a, <2>1, <2>3, <2>4, OutcomeStays
<1>5. CASE \/ \E w \in Worker : Crash(w)
           \/ \E c \in Call : CallNext(c)
           \/ \E r \in replies : Hear(r)
  BY <1>5, <1>a, CallsKeepSlots, OutcomeStays
<1>6. CASE UNCHANGED wvars
  <2>1. SlotsKept /\ UNCHANGED <<rows, now, replies>>
    BY <1>6 DEF wvars, SlotsKept
  <2> QED
    BY <1>a, <2>1, OutcomeStays
<1> QED
  BY <1>1, <1>2, <1>3, <1>4, <1>5, <1>6 DEF WorkersNext

\* With a concurrency of one, the outcome a runner writes down is recorded for
\* the attempt it ran, whatever leases expire, handlers overstay or workers
\* crash: "a task whose lease really was lost writes nothing either way".  With
\* two slots it is not so (run `expired`).
THEOREM OutcomesAreTheirOwn ==
  ASSUME Concurrency = 1
  PROVE  WorkersSpec => []OutcomeOfOwnAttempt
<1>1. WorkersInit => OutcomeInv
  <2> SUFFICES ASSUME WorkersInit PROVE OutcomeInv
    OBVIOUS
  <2>1. (\A c \in Call : ~HoldsSlot(calls[c])) /\ replies = {}
    BY FreeCallIs DEF WorkersInit, HoldsSlot
  <2> QED
    BY <2>1 DEF OutcomeInv, LatestInv, OutcomeOfOwnAttempt
<1>2. TableInv /\ WorkersInv /\ WorkersInv' /\ CountInv /\ CallsInv /\ CallsInv'
        /\ OutcomeInv /\ [WorkersNext]_wvars => OutcomeInv'
  BY NextOutcomes
<1>3. OutcomeInv => OutcomeOfOwnAttempt
  BY DEF OutcomeInv
<1> QED
  BY <1>1, <1>2, <1>3, CallsInvariant, PTL DEF WorkersSpec
=============================================================================
