---------------------------- MODULE WorkerAttempts ----------------------------
(***************************************************************************)
(* Workers (cairnq/worker.py, cairnq/context.py) over the task table.      *)
(*                                                                         *)
(* A call is one run of a handler: the TaskContext of each task it was     *)
(* given, the coroutine that runs the handler (_run_call), the handler     *)
(* itself, which outlives the coroutine once it is timed out, and the      *)
(* heartbeat loop.  The three write through the store concurrently.  A     *)
(* write is in flight (`sent`), then lands on the table and its reply is   *)
(* in flight (`replies`), then its caller reads the reply.  Nothing orders *)
(* two writes: a Postgres pool gives each a connection of its own, and     *)
(* SQLite's group commit, which does order them, is one of the behaviours. *)
(***************************************************************************)
EXTENDS TaskTable

CONSTANTS
  Call,          \* identities of handler calls, reused once forgotten (bound)
  Concurrency,   \* calls a worker may have in flight
  Batch,         \* tasks per call, 1 for single-task delivery
  HandlerWrites  \* what handlers do through their contexts

Settlements == {"complete", "fail", "retry"}   \* retry: a retryable fail

ASSUME WorkerInputs ==
  /\ Concurrency \in Nat \ {0} /\ Batch \in Nat \ {0}
  /\ \A free \in 1..Concurrency : Batch * free \in DrawLimits
  /\ IsFiniteSet(Call)
  /\ 0 \in Delays
  /\ HandlerWrites \subseteq Settlements \cup {"progress", "heartbeat"}

VARIABLES
  calls,     \* the handler calls of every worker
  sent,      \* writes issued and not yet executed
  replies,   \* writes executed, or failed, whose caller has yet to hear
  dead       \* workers whose process crashed

table == <<rows, keys, now>>
workers == <<calls, sent, replies, dead>>
wvars == <<rows, keys, now, calls, sent, replies, dead>>

\* attempt[t] is the attempt of t this call was given, 0 for a task not in it.
FreeCall ==
  [worker |-> NoWorker, runner |-> "free", handler |-> "over",
   attempt |-> [t \in Task |-> 0], lost |-> {}, settled |-> {},
   reported |-> {}]

NewCall(w, attempt) ==
  [FreeCall EXCEPT !.worker = w, !.runner = "running", !.handler = "running",
                   !.attempt = attempt]

Covers(c) == {t \in Task : calls[c].attempt[t] > 0}

\* The calls that hold a slot: _run_call has not returned.
InFlight(w) == {c \in Call : /\ calls[c].worker = w
                             /\ calls[c].runner \in {"running", "settling"}}

Write(c, by, kind, ts) == [call |-> c, worker |-> calls[c].worker, by |-> by,
                           kind |-> kind, tasks |-> ts]

\* What `by` still waits for in call c.
Awaited(c, by, ops) ==
  {o \in ops : o.call = c /\ o.worker = calls[c].worker /\ o.by = by}
Outstanding(c, by) == Awaited(c, by, sent) \cup Awaited(c, by, replies)

\* An identity no running code and no write on its way refers to.
Idle == {c \in Call : calls[c].runner = "free" /\ \A o \in sent : o.call # c}

\* _run_call returned: only a zombie handler is left of the call.
Closed(call) ==
  IF call.handler = "over" THEN FreeCall
  ELSE [call EXCEPT !.runner = "over", !.settled = {}, !.reported = {}]

\* Whoever issued o is still there to hear of it.
Listens(call, o) ==
  /\ call.worker = o.worker
  /\ IF o.by = "handler" THEN call.handler = "running"
                         ELSE call.runner \in {"running", "settling"}

\* Calls become `next`, and the replies nobody waits for any more are dropped.
Turn(next, ops) == /\ calls' = next
                   /\ replies' = {r \in ops : Listens(next[r.call], r)}

-----------------------------------------------------------------------------
(* The run loop.                                                           *)

\* run: claim for the free slots, then start a call for each delivery; batches
\* are of one name and only the last may be short (_deliveries).
Dispatch(w) ==
  LET free == Concurrency - Cardinality(InFlight(w))
  IN /\ w \notin dead
     /\ free > 0
     /\ Claim(w, Queue, Name, Batch * free)
     /\ LET drawn == {t \in Task : /\ rows'[t].status = "running"
                                   /\ Recovered[t].status = "queued"}
        IN \E given \in [drawn -> Idle] :
             LET Given(c) == {t \in drawn : given[t] = c}
                 short == {c \in Idle : Cardinality(Given(c)) \in 1..(Batch - 1)}
             IN /\ \A c \in Idle : Cardinality(Given(c)) <= Batch
                /\ \A t, u \in drawn :
                     given[t] = given[u] => rows[t].name = rows[u].name
                /\ \A t, u \in drawn :
                     /\ {given[t], given[u]} \subseteq short
                     /\ given[t] # given[u]
                     => rows[t].name # rows[u].name
                /\ calls' = [c \in Call |->
                     IF c \in Idle /\ Given(c) # {}
                     THEN NewCall(w, [t \in Task |-> IF t \in Given(c)
                                                     THEN rows'[t].attempt
                                                     ELSE 0])
                     ELSE calls[c]]
     /\ UNCHANGED <<sent, replies, dead>>

-----------------------------------------------------------------------------
(* The handler and its contexts.                                           *)

\* progress, heartbeat, succeed or fail on a context: refused locally once the
\* lease is known lost or the task settled.  One write per context at a time.
HandlerWrite(c, t, kind) ==
  /\ calls[c].handler = "running"
  /\ t \in Covers(c) \ (calls[c].lost \cup calls[c].settled)
  /\ \A o \in Outstanding(c, "handler") : t \notin o.tasks   \* bound
  /\ sent' = sent \cup {Write(c, "handler", kind, {t})}
  /\ UNCHANGED <<table, calls, replies, dead>>

LeftBehind_OnlyUnflagged(call) ==
  {t \in Task : call.attempt[t] > 0} \ (call.settled \cup call.lost)

\* The tasks _settle_each settles: all the handler left, flagged lost or not.
LeftBehind(call) == {t \in Task : call.attempt[t] > 0} \ call.settled

\* How an attempt ends: a write is issued for each task left, and the call
\* keeps its slot until every one of them was answered.
Ends(c, kinds, lost, handler) ==
  LET call == [calls[c] EXCEPT !.lost = lost, !.handler = handler]
      left == LeftBehind(call)
  IN /\ calls[c].runner = "running"
     /\ Turn([calls EXCEPT ![c] =
                 IF left = {} THEN Closed(call)
                              ELSE [call EXCEPT !.runner = "settling"]],
             replies)
     /\ sent' = sent \cup {Write(c, "worker", kinds[t], {t}) : t \in left}
     /\ UNCHANGED <<table, dead>>

\* The handler awaited its own writes and is about to return or to raise.
Awake(c) == calls[c].handler = "running" /\ Outstanding(c, "handler") = {}

\* It returned: complete each task, or fail for good one whose result does not
\* serialize.
Returns(c) ==
  /\ Awake(c)
  /\ \E bad \in SUBSET Covers(c) :
       Ends(c, [t \in Task |-> IF t \in bad THEN "fail" ELSE "complete"],
            calls[c].lost, "over")

Raises(c) ==
  /\ Awake(c)
  /\ \E kind \in {"retry", "fail"} :
       Ends(c, [t \in Task |-> kind], calls[c].lost, "over")

\* A gate refused a write and the handler let the LostLease through: nothing
\* is recorded for any task of the call.
RaisesLostLease(c) ==
  /\ Awake(c) /\ calls[c].runner = "running"
  /\ calls[c].lost \cup calls[c].settled # {}
  /\ Turn([calls EXCEPT ![c] = FreeCall], replies)
  /\ UNCHANGED <<table, sent, dead>>

TimesOut_Awaited(c) ==
  calls[c].handler = "over" /\ Ends(c, [t \in Task |-> "retry"], Covers(c), "over")

\* max_run_ms: every context is flagged, the handler canceled and not waited
\* for; it may die at its await or survive as a zombie.
TimesOut(c) ==
  \E handler \in {"running", "over"} :
    Ends(c, [t \in Task |-> "retry"], Covers(c), handler)

ZombieEnds(c) ==
  /\ calls[c].handler = "running" /\ calls[c].runner # "running"
  /\ Turn([calls EXCEPT ![c] = IF @.runner = "over" THEN FreeCall
                                ELSE [@ EXCEPT !.handler = "over"]],
          replies)
  /\ UNCHANGED <<table, sent, dead>>

\* _heartbeat_loop: one write for every task still in play, one at a time; the
\* loop is canceled when the call is over.
Beat(c) ==
  LET live == Covers(c) \ (calls[c].lost \cup calls[c].settled)
  IN /\ calls[c].runner \in {"running", "settling"}
     /\ live # {}
     /\ Outstanding(c, "heartbeat loop") = {}
     /\ sent' = sent \cup {Write(c, "heartbeat loop", "heartbeat", live)}
     /\ UNCHANGED <<table, calls, replies, dead>>

-----------------------------------------------------------------------------
(* The store.                                                              *)

Execute(w, t, kind) ==
  CASE kind = "progress" -> Progress(w, t)
    [] kind = "complete" -> Complete(w, t)
    [] kind = "fail" -> Fail(w, t, FALSE, 0)
    [] kind = "retry" -> \E delay \in Delays : Fail(w, t, TRUE, delay)

\* The reply to write o: the attempt of each row it reached, as the returned
\* rows show it, or that the store raised.
Reply(o, hits, raised) ==
  [call |-> o.call, worker |-> o.worker, by |-> o.by, kind |-> o.kind,
   tasks |-> o.tasks, hits |-> hits, raised |-> raised]

Answer_ErrorDropped(o, hits, raised) ==
  /\ sent' = sent \ {o}
  /\ replies' = replies \cup (IF Listens(calls[o.call], o) /\ ~raised
                              THEN {Reply(o, hits, raised)} ELSE {})
  /\ UNCHANGED <<calls, dead>>
Answer(o, hits, raised) ==
  /\ sent' = sent \ {o}
  /\ replies' = replies \cup (IF Listens(calls[o.call], o)
                              THEN {Reply(o, hits, raised)} ELSE {})
  /\ UNCHANGED <<calls, dead>>

\* The write reaches the table, which takes it or matches no row.
Land(o) ==
  LET owned == {t \in o.tasks : Owns(o.worker, t)}
  IN /\ o \in sent
     /\ IF o.kind = "heartbeat" /\ owned # {} THEN Heartbeat(o.worker, o.tasks)
        ELSE \E t \in o.tasks : IF t \in owned THEN Execute(o.worker, t, o.kind)
                                              ELSE UNCHANGED table
     /\ Answer(o, [t \in Task |-> IF t \in owned THEN rows[t].attempt ELSE 0],
               FALSE)

\* It never does: a dropped connection, a write lock not won in time.
Faults(o) ==
  /\ o \in sent
  /\ Answer(o, [t \in Task |-> 0], TRUE)
  /\ UNCHANGED table

\* What the caller makes of a reply.  A rejected write flags the lease lost.
HandlerHears(call, r) ==
  IF r.raised THEN call
  ELSE [call EXCEPT
          !.lost = @ \cup {t \in r.tasks : r.hits[t] = 0},
          !.settled = IF r.kind \in Settlements
                      THEN @ \cup {t \in r.tasks : r.hits[t] # 0} ELSE @]

\* _succeed_one flags a lost lease, _safe_fail passes over it; an error is
\* reported and the others go on.
RunnerHears(call, r) ==
  [call EXCEPT
     !.reported = IF r.raised THEN @ \cup r.tasks ELSE @,
     !.settled = @ \cup {t \in r.tasks : r.hits[t] # 0},
     !.lost = IF ~r.raised /\ r.kind = "complete"
              THEN @ \cup {t \in r.tasks : r.hits[t] = 0} ELSE @]

\* An absent task lost its lease, unless it was settled in the meantime.
LoopHears(call, r) ==
  IF r.raised THEN call
  ELSE [call EXCEPT !.lost = @ \cup {t \in r.tasks \ call.settled :
                                       r.hits[t] = 0}]

\* A reply is read.  The last answer the runner waited for ends the call, and
\* with it whatever the loop had in flight.
Hear(r) ==
  LET call == calls[r.call]
      last == r.by = "worker" /\ Outstanding(r.call, "worker") = {r}
      heard == CASE r.by = "handler" -> HandlerHears(call, r)
                 [] r.by = "worker" -> RunnerHears(call, r)
                 [] r.by = "heartbeat loop" -> LoopHears(call, r)
  IN /\ r \in replies
     /\ Turn([calls EXCEPT ![r.call] = IF last THEN Closed(heard) ELSE heard],
             replies \ {r})
     /\ UNCHANGED <<table, sent, dead>>

\* The process dies; its writes already on the wire may still be executed.
Crash(w) ==
  /\ w \notin dead
  /\ \E gone \in SUBSET {o \in sent : o.worker = w} : sent' = sent \ gone
  /\ dead' = dead \cup {w}
  /\ Turn([c \in Call |-> IF calls[c].worker = w THEN FreeCall ELSE calls[c]],
          replies)
  /\ UNCHANGED table

-----------------------------------------------------------------------------
WorkersInit == /\ Init
               /\ calls = [c \in Call |-> FreeCall]
               /\ sent = {} /\ replies = {} /\ dead = {}

\* The clock, and clients that submit and cancel.
Outside ==
  /\ \/ Tick
     \/ \E t \in Task, q \in Queue, n \in Name, p \in Priorities, m \in Budgets,
           delay \in Delays : Submit(t, q, n, p, m, delay)
     \/ \E t \in Task : Cancel(t)
  /\ UNCHANGED workers

CallNext(c) ==
  \/ \E t \in Task, kind \in HandlerWrites : HandlerWrite(c, t, kind)
  \/ Returns(c) \/ Raises(c) \/ RaisesLostLease(c) \/ TimesOut(c)
  \/ ZombieEnds(c) \/ Beat(c)

WorkersNext ==
  \/ Outside
  \/ \E w \in Worker : Dispatch(w) \/ Crash(w)
  \/ \E c \in Call : CallNext(c)
  \/ \E o \in sent : Land(o) \/ Faults(o)
  \/ \E r \in replies : Hear(r)

WorkersSpec == WorkersInit /\ [][WorkersNext]_wvars
-----------------------------------------------------------------------------
(* Properties.                                                             *)

WriteOf(o) == /\ o.call \in Call /\ o.worker \in Worker
              /\ o.by \in {"worker", "handler", "heartbeat loop"}
              /\ o.kind \in Settlements \cup {"progress", "heartbeat"}
              /\ o.tasks # {} /\ o.tasks \subseteq Task

\* Calls are well formed, and a call that waits for an answer will get one.
WorkersTypeOK ==
  /\ \A c \in Call :
       /\ calls[c].worker \in Worker \cup {NoWorker}
       /\ calls[c].runner \in {"free", "running", "settling", "over"}
       /\ calls[c].handler \in {"running", "over"}
       /\ calls[c].attempt \in [Task -> Nat]
       /\ calls[c].lost \cup calls[c].settled \cup calls[c].reported
            \subseteq Covers(c)
       /\ calls[c].runner = "settling" <=> Outstanding(c, "worker") # {}
  /\ \A o \in sent \cup replies : WriteOf(o)
  /\ dead \subseteq Worker

\* One delivery goes to one call: of the calls not yet forgotten, those of dead
\* workers apart, no two, of one worker or of two, were given the same attempt of
\* a task.
DeliveredOnce ==
  \A c, d \in Call, t \in Task :
    c # d /\ calls[c].attempt[t] = calls[d].attempt[t] => calls[c].attempt[t] = 0

\* The death of a worker costs its task one lease and no more, whatever the dead
\* process left on the wire: from the instant the lease is over, any worker with a
\* free slot can claim, work queued or not, and cannot claim without ending the
\* dead run.  Bound: with identities left for its calls.
DeadRunsAreTakenOver ==
  \A t \in Task, w \in Worker \ dead :
    LET DeadRun == rows[t].status = "running" /\ rows[t].worker_id \in dead
    IN /\ DeadRun /\ rows[t].lease_until <= now
       /\ Cardinality(InFlight(w)) < Concurrency
       /\ Cardinality(Idle) >= Concurrency
       => /\ ENABLED Dispatch(w)
          /\ ~ENABLED (Dispatch(w) /\ DeadRun')

\* Of all the writes that would settle one attempt (the handler's, the
\* runner's, a zombie's, another worker's) at most one is told it did.
SettledOnce ==
  \A q, r \in replies, t \in Task :
    /\ q # r /\ {q.kind, r.kind} \subseteq Settlements
    /\ q.hits[t] # 0 /\ t \in q.tasks \cap r.tasks
    => q.hits[t] # r.hits[t]

\* The outcome the runner writes down is the outcome of the attempt it ran:
\* "a task whose lease really was lost writes nothing either way".
OutcomeOfOwnAttempt ==
  \A r \in replies, t \in Task :
    r.by = "worker" /\ r.hits[t] # 0 => r.hits[t] = calls[r.call].attempt[t]

\* When a call is over, nothing it was given and still held is left running,
\* whichever way it ended (a return, an exception, a timeout) and whatever
\* became of its neighbours, except a task whose write raised and was reported,
\* and unless the handler let a LostLease through.
SettlesWhatItHeld ==
  [][\A c \in Call, t \in Task :
       LET call == calls[c]
       IN /\ t \in Covers(c)
          /\ call.runner \in {"running", "settling"}
          /\ ~RaisesLostLease(c)
          /\ calls'[c].runner \in {"over", "free"}
          /\ call.worker \notin dead'
          /\ t \notin call.reported
          /\ \A r \in replies \ replies' :
               r.call = c /\ t \in r.tasks => ~r.raised
          => ~ /\ rows'[t].status = "running"
               /\ rows'[t].worker_id = call.worker
               /\ rows'[t].attempt = call.attempt[t]
               /\ rows'[t].lease_until > now]_wvars

\* A slot is never held for good, whatever the handler does: max_run_ms ends
\* the attempt and the store answers every write.
Fairness ==
  \A c \in Call :
    /\ WF_wvars(TimesOut(c))
    /\ WF_wvars(\E o \in sent : /\ o.call = c /\ o.by = "worker"
                                /\ Land(o) \/ Faults(o))
    /\ WF_wvars(\E r \in replies : r.call = c /\ r.by = "worker" /\ Hear(r))

FairWorkersSpec == WorkersSpec /\ Fairness

SlotsComeBack ==
  \A c \in Call : calls[c].runner = "running" ~> calls[c].runner \in {"over", "free"}
=============================================================================
