---------------------------- MODULE TaskLifecycle ----------------------------
(***************************************************************************)
(* What the task table promises about one task, whatever the callers do:   *)
(* the states it can be in, how often it is delivered, and that a cancel   *)
(* requested while it runs is the last word on it.  Tasks are independent, *)
(* and one transaction may move several, so a step moves every task by one *)
(* of the moves below or leaves it alone.                                  *)
(***************************************************************************)
EXTENDS Naturals

CONSTANT Task

VARIABLE life   \* per task: status, deliveries so far, budget, cancelling

Settled == {"succeeded", "failed", "canceled"}

Init == \A t \in Task : life[t].status = "unused"

\* The life l with another status, count and flag; a budget never changes.
Turned(l, status, attempt, cancelling) ==
  [status |-> status, attempt |-> attempt, budget |-> l.budget,
   cancelling |-> cancelling]

\* A task is created with nothing delivered.
Created(l, m) == /\ l.status = "unused"
                 /\ m.status = "queued"
                 /\ m.attempt = 0
                 /\ ~m.cancelling

\* The queue hands it out.
Delivered(l, m) == /\ l.status = "queued"
                   /\ m = Turned(l, "running", l.attempt + 1, l.cancelling)

\* A run ended without an outcome: back to the queue, or straight to the next
\* worker, unless a cancel is pending or the budget is spent.
Redelivered(l, m) == /\ l.status = "running"
                     /\ ~l.cancelling
                     /\ l.attempt < l.budget
                     /\ \/ m = Turned(l, "queued", l.attempt, l.cancelling)
                        \/ m = Turned(l, "running", l.attempt + 1, l.cancelling)

\* A run ended for good.  Nothing fails or goes back to the queue under a
\* pending cancel; "succeeded" then comes only of the raw succeed statement.
Finished(l, m) == /\ l.status = "running"
                  /\ m.status \in IF l.cancelling THEN {"succeeded", "canceled"}
                                                  ELSE {"succeeded", "failed"}
                  /\ m = Turned(l, m.status, l.attempt, l.cancelling)

\* A cancel takes a waiting task at once and asks a running one to stop.
Cancelled(l, m) ==
  \/ l.status = "queued" /\ m = Turned(l, "canceled", l.attempt, l.cancelling)
  \/ l.status = "running" /\ m = Turned(l, "running", l.attempt, TRUE)

\* A manual retry is the only way out of a settled status other than deletion.
Restarted(l, m) == /\ l.status \in {"failed", "canceled"}
                   /\ \E kept \in {0, l.attempt} :
                        m = Turned(l, "queued", kept, FALSE)

Deleted(l, m) == l.status \in Settled /\ m.status = "purged"

Move(l, m) == \/ Created(l, m) \/ Delivered(l, m) \/ Redelivered(l, m)
              \/ Finished(l, m) \/ Cancelled(l, m) \/ Restarted(l, m)
              \/ Deleted(l, m)

Next == \A t \in Task : life'[t] = life[t] \/ Move(life[t], life'[t])

Spec == Init /\ [][Next]_life
=============================================================================
