----------------------------- MODULE ClaimPlanner -----------------------------
(***************************************************************************)
(* How a worker decides what to claim (cairnq/worker.py: _ClaimPlanner and *)
(* the run loop around it): one poll opens a claim session and draws from  *)
(* each source in turn, sizing each draw by the calls still free and by    *)
(* the resource the source spends.                                         *)
(*                                                                         *)
(* Calls finish while a session waits for the store and while the loop     *)
(* sleeps; a task is only counted, by its name.                            *)
(***************************************************************************)
EXTENDS Integers, Sequences, FiniteSets, Functions

CONSTANTS
  Handlers,      \* the registrations, in order: [name, batch, resource]
  NoBatch,       \* the null of batch
  NoResource,    \* the null of resource
  Capacity,      \* the ceiling of each declared resource
  Concurrency,   \* calls the worker may have in flight
  MaxBacklog     \* bound: tasks queued under these names

Registered == {Handlers[i] : i \in DOMAIN Handlers}
Name == {reg.name : reg \in Registered}
Resource == DOMAIN Capacity

ASSUME PlannerInputs ==
  /\ Handlers \in Seq(Registered) /\ Handlers # <<>>
  /\ Cardinality(Name) = Len(Handlers)
  /\ \A reg \in Registered : /\ reg.batch = NoBatch \/ reg.batch \in Nat \ {0}
                             /\ reg.resource \in Resource \cup {NoResource}
  /\ NoResource \notin Resource
  /\ Capacity \in [Resource -> Nat \ {0}]
  /\ Concurrency \in Nat \ {0}

VARIABLES
  backlog,    \* claimable tasks of each name
  running,    \* calls of each name in flight
  in_flight,  \* _in_flight: units of each resource charged
  cursor,     \* _cursor: the source served first at the next poll, from 0
  freed,      \* the _freed event
  loop,       \* where the run loop stands
  plan,       \* the open session's plan
  late        \* history: names with an arrival since the poll last looked

vars == <<backlog, running, in_flight, cursor, freed, loop, plan, late>>

-----------------------------------------------------------------------------
(* Sources: rebuild.                                                       *)

\* A name that limits itself draws alone.
Alone(reg) == reg.batch # NoBatch \/ reg.resource # NoResource

SourceOf(reg) == [names |-> {reg.name}, resource |-> reg.resource,
                  batch |-> IF reg.batch = NoBatch THEN 1 ELSE reg.batch]

Shared == {reg.name : reg \in {r \in Registered : ~Alone(r)}}

\* The sources of the first i registrations that limit themselves.
Own[i \in 0..Len(Handlers)] ==
  IF i = 0 THEN <<>>
  ELSE IF Alone(Handlers[i]) THEN Append(Own[i - 1], SourceOf(Handlers[i]))
  ELSE Own[i - 1]

Sources ==
  Own[Len(Handlers)] \o
    IF Shared = {} THEN <<>>
    ELSE <<[names |-> Shared, resource |-> NoResource, batch |-> 1]>>

ResourceOf(n) == (CHOOSE reg \in Registered : reg.name = n).resource
Spenders(r) == {n \in Name : ResourceOf(n) = r}

Count(f) == SumFunction(f)
CountOf(f, names) == SumFunctionOnSet(f, names)

Zero(S) == [x \in S |-> 0]
Plus(f, g) == [x \in DOMAIN f |-> f[x] + g[x]]
Smaller(a, b) == IF a < b THEN a ELSE b

-----------------------------------------------------------------------------
(* One poll.                                                               *)

NoPlan == [order |-> <<>>, left |-> 0, taken |-> Zero(Resource),
           calls |-> Zero(Name), rows |-> Zero(Name)]

Free == Concurrency - Count(running)

Rotated_Fixed(k) == Sources
Rotated(k) == SubSeq(Sources, k + 1, Len(Sources)) \o SubSeq(Sources, 1, k)

\* A poll is to fill the slots that are free now; the probe begins.
PollStarts ==
  /\ loop = "top" /\ Free > 0
  /\ freed' = FALSE
  /\ loop' = "opening"
  /\ plan' = [NoPlan EXCEPT !.left = Free]
  /\ UNCHANGED <<backlog, running, in_flight, cursor, late>>

ProbeIsEmpty ==
  /\ loop = "opening"
  /\ Count(backlog) = 0
  /\ loop' = "idle"
  /\ plan' = NoPlan
  /\ late' = {}
  /\ UNCHANGED <<backlog, running, in_flight, cursor, freed>>

\* Work was queued under these names, or a lease has expired, of whatever name;
\* the transaction is open and its recovery done, and plan() takes over: only
\* now does the rotation move on.
PlanStarts ==
  /\ loop = "opening"
  /\ loop' = "session"
  /\ plan' = [plan EXCEPT !.order = Rotated(cursor)]
  /\ cursor' = (cursor + 1) % Len(Sources)
  /\ UNCHANGED <<backlog, running, in_flight, freed, late>>

Headroom_NoTally(src) == Capacity[src.resource] - in_flight[src.resource]
Headroom(src) == Capacity[src.resource] - in_flight[src.resource]
                                        - plan.taken[src.resource]

Quota(src) == IF src.resource = NoResource THEN plan.left
              ELSE Smaller(Headroom(src), plan.left)

\* What a draw of up to `limit` rows may return.
Drawn(names, limit) ==
  LET due == CountOf(backlog, names)
      Some(rows) == \A n \in Name : rows[n] <= IF n \in names THEN backlog[n]
                                               ELSE 0
  IN {rows \in [Name -> 0..limit] :
        Some(rows) /\ Count(rows) = Smaller(limit, due)}

\* _deliveries: the rows of each name in chunks of its batch size.
Chunks(rows, batch) == [n \in Name |-> (rows[n] + batch - 1) \div batch]

\* The next source draws what its quota allows, or is passed over.
Draw ==
  /\ loop = "session" /\ plan.order # <<>> /\ plan.left > 0
  /\ LET src == Head(plan.order)
         quota == Quota(src)
     IN \E rows \in IF quota <= 0 THEN {Zero(Name)}
                    ELSE Drawn(src.names, src.batch * quota) :
          LET calls == Chunks(rows, src.batch)
          IN /\ backlog' = [n \in Name |-> backlog[n] - rows[n]]
             /\ plan' = [plan EXCEPT
                  !.order = Tail(@),
                  !.left = @ - Count(calls),
                  !.taken = [r \in Resource |->
                               IF r = src.resource THEN @[r] + Count(calls)
                                                   ELSE @[r]],
                  !.calls = Plus(@, calls),
                  !.rows = Plus(@, rows)]
             /\ late' = late \ src.names
  /\ UNCHANGED <<running, in_flight, cursor, freed, loop>>

PlanIsDone == loop = "session" /\ (plan.order = <<>> \/ plan.left <= 0)

Dispatch_Uncharged ==
  /\ PlanIsDone
  /\ running' = Plus(running, plan.calls)
  /\ loop' = IF Count(plan.calls) = 0 THEN "idle" ELSE "top"
  /\ plan' = NoPlan
  /\ UNCHANGED <<backlog, in_flight, cursor, freed, late>>
Dispatch_ClearsFreed ==
  /\ PlanIsDone
  /\ running' = Plus(running, plan.calls)
  /\ in_flight' = Plus(in_flight, plan.taken)
  /\ loop' = IF Count(plan.calls) = 0 THEN "idle" ELSE "top"
  /\ plan' = NoPlan /\ freed' = FALSE
  /\ UNCHANGED <<backlog, cursor, late>>

\* The session committed: every call is charged to its resource and started,
\* or the loop goes to sleep.
Dispatch ==
  /\ PlanIsDone
  /\ running' = Plus(running, plan.calls)
  /\ in_flight' = Plus(in_flight, plan.taken)
  /\ loop' = IF Count(plan.calls) = 0 THEN "idle" ELSE "top"
  /\ plan' = NoPlan
  /\ UNCHANGED <<backlog, cursor, freed, late>>

\* The probe, BEGIN, the recovery or a draw failed, and what was drawn is
\* rolled back; the loop backs off.
ClaimFails ==
  /\ loop \in {"opening", "session"}
  /\ backlog' = Plus(backlog, plan.rows)
  /\ plan' = NoPlan
  /\ loop' = "backoff"
  /\ UNCHANGED <<running, in_flight, cursor, freed, late>>

-----------------------------------------------------------------------------
Finish_UnitKept(n) ==
  /\ running[n] > 0
  /\ running' = [running EXCEPT ![n] = @ - 1]
  /\ freed' = TRUE
  /\ UNCHANGED <<backlog, in_flight, cursor, loop, plan, late>>

\* A call ends and gives its slot and its unit back.
Finish(n) ==
  /\ running[n] > 0
  /\ running' = [running EXCEPT ![n] = @ - 1]
  /\ IF ResourceOf(n) = NoResource THEN UNCHANGED <<in_flight, freed>>
     ELSE /\ in_flight' = [in_flight EXCEPT ![ResourceOf(n)] = @ - 1]
          /\ freed' = TRUE
  /\ UNCHANGED <<backlog, cursor, loop, plan, late>>

\* The sleep ends early: a unit was released while or before it slept.
WakeOnRelease == /\ loop = "idle" /\ freed
                 /\ loop' = "top"
                 /\ UNCHANGED <<backlog, running, in_flight, cursor, freed, plan,
                                late>>

\* The poll interval, a push from the store, or the backoff is over.
WakeOnTime == /\ loop \in {"idle", "backoff"}
              /\ loop' = "top"
              /\ UNCHANGED <<backlog, running, in_flight, cursor, freed, plan,
                             late>>

\* A client submits, or a retry falls due.
Arrive(n) == /\ Count(backlog) + Count(plan.rows) < MaxBacklog   \* bound
             /\ backlog' = [backlog EXCEPT ![n] = @ + 1]
             /\ late' = late \cup {n}
             /\ UNCHANGED <<running, in_flight, cursor, freed, loop, plan>>

Init == /\ backlog = Zero(Name) /\ running = Zero(Name)
        /\ in_flight = Zero(Resource)
        /\ cursor = 0 /\ freed = FALSE /\ loop = "top" /\ plan = NoPlan
        /\ late = {}

Next == \/ PollStarts \/ ProbeIsEmpty \/ PlanStarts \/ Draw \/ Dispatch
        \/ ClaimFails \/ WakeOnRelease \/ WakeOnTime
        \/ \E n \in Name : Finish(n) \/ Arrive(n)

Spec == Init /\ [][Next]_vars

\* The loop goes on and handlers return, in any order and after any time.
FairSpec == /\ Spec
            /\ WF_vars(PollStarts) /\ WF_vars(ProbeIsEmpty \/ PlanStarts)
            /\ WF_vars(Draw) /\ WF_vars(Dispatch)
            /\ WF_vars(WakeOnRelease) /\ WF_vars(WakeOnTime)
            /\ \A n \in Name : WF_vars(Finish(n))
-----------------------------------------------------------------------------
(* Properties.                                                             *)

TypeOK == /\ backlog \in [Name -> Nat] /\ running \in [Name -> Nat]
          /\ in_flight \in [Resource -> Nat]
          /\ cursor \in 0..(Len(Sources) - 1)
          /\ freed \in BOOLEAN
          /\ loop \in {"top", "opening", "session", "idle", "backoff"}
          /\ plan.left \in Int /\ plan.calls \in [Name -> Nat]
          /\ late \subseteq Name

\* Calls in flight and calls about to start never exceed the concurrency, and
\* those that spend a resource never exceed its ceiling, however many names
\* share it and however their draws and their completions interleave.
WithinBudget ==
  /\ Count(running) + Count(plan.calls) <= Concurrency
  /\ \A r \in Resource :
       CountOf(Plus(running, plan.calls), Spenders(r)) <= Capacity[r]

\* Every charge is given back, and once: a unit that leaked would close the
\* resource to every name that shares it for the life of the worker.
ChargesMatchCalls ==
  \A r \in Resource : in_flight[r] = CountOf(running, Spenders(r))

\* The loop never sleeps on work it has room for, unless that work arrived
\* after the poll had looked: a release that lands during the claim is not
\* lost, it ends the sleep that follows.
NoMissedRelease ==
  loop = "idle" /\ ~freed =>
    \A i \in DOMAIN Sources :
      LET src == Sources[i]
      IN src.resource = NoResource
           \/ in_flight[src.resource] < Capacity[src.resource]
         => \A n \in src.names : backlog[n] > 0 => n \in late

\* While no claim fails, a source with work queued is drawn from sooner or later.
Served(i) == (\E n \in Sources[i].names : backlog[n] > 0)
                ~> \/ \E n \in Sources[i].names : plan.rows[n] > 0
                   \/ loop = "backoff"

\* "A name with a deep backlog cannot starve the others": the rotation serves
\* every source, whatever the others are busy with.
NoStarvation == \A i \in DOMAIN Sources : Served(i)

Unrivaled(i) ==
  Sources[i].resource = NoResource
    \/ \A j \in DOMAIN Sources \ {i} : Sources[j].resource # Sources[i].resource
\* The rotation does serve every source that shares its resource with no other,
\* however deep the backlogs of those that do.
RotationServes == \A i \in DOMAIN Sources : Unrivaled(i) => Served(i)
=============================================================================
