--------------------------- MODULE RetentionSweeper ---------------------------
(***************************************************************************)
(* RetentionSweeper (cairnq/retention.py): a loop that sleeps, purges in   *)
(* batches and sleeps again, started by the store's connect and stopped by *)
(* CairnQ.close.                                                           *)
(*                                                                         *)
(* A loop is a task of the event loop: created "new", it runs only later.  *)
(***************************************************************************)
CONSTANTS
  Loop,     \* bound: the tasks that run _run
  NoLoop    \* the null of _task

ASSUME NullIsNoLoop == NoLoop \notin Loop

VARIABLES
  on_record,   \* _task
  loop,        \* where each loop stands; "none": not begun, or over
  stop         \* the event _stop

sweepVars == <<on_record, loop, stop>>

SweepInit == /\ on_record = NoLoop
             /\ loop = [l \in Loop |-> "none"]
             /\ stop = FALSE

Alive(l) == loop[l] \in {"new", "asleep", "purging"}

\* start, from connect: a no-op while a loop is on record, alive or not.
Start ==
  IF on_record # NoLoop THEN UNCHANGED sweepVars
  ELSE \E l \in Loop : /\ ~Alive(l)   \* bound
                       /\ loop' = [loop EXCEPT ![l] = "new"]
                       /\ on_record' = l
                       /\ UNCHANGED stop

\* The first check of _run, then the sleep that comes before any sweep.
LoopBegins(l) ==
  /\ loop[l] = "new"
  /\ loop' = [loop EXCEPT ![l] = IF stop THEN "none" ELSE "asleep"]
  /\ UNCHANGED <<on_record, stop>>

\* The interval is over, or stop() cut it short.
LoopWakes(l) ==
  /\ loop[l] = "asleep"
  /\ loop' = [loop EXCEPT ![l] = IF stop THEN "none" ELSE "purging"]
  /\ UNCHANGED <<on_record, stop>>

\* A purge returns or raises: the sweep goes on with the next batch or rule,
\* or is done; once stopped, it ends and so does the loop.
BatchEnds(l) ==
  /\ loop[l] = "purging"
  /\ \E next \in IF stop THEN {"none"} ELSE {"purging", "asleep"} :
       loop' = [loop EXCEPT ![l] = next]
  /\ UNCHANGED <<on_record, stop>>

\* stop, up to its await: the loop goes off the record.  The caller then waits
\* for that loop.
StopBegins == /\ on_record # NoLoop
              /\ stop' = TRUE
              /\ on_record' = NoLoop
              /\ UNCHANGED loop

StopReturns_StillSet == /\ \A l \in Loop : ~Alive(l)
                        /\ UNCHANGED sweepVars

\* The awaited loop is gone, and there is no other: a later start or sweep is
\* not cut short.
StopReturns == /\ \A l \in Loop : ~Alive(l)
               /\ stop' = FALSE
               /\ UNCHANGED <<on_record, loop>>

LoopNext == \E l \in Loop : LoopBegins(l) \/ LoopWakes(l) \/ BatchEnds(l)

SweepTypeOK == /\ on_record \in Loop \cup {NoLoop}
               /\ loop \in [Loop -> {"none", "new", "asleep", "purging"}]
               /\ stop \in BOOLEAN
=============================================================================
