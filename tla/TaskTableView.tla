---------------------------- MODULE TaskTableView ----------------------------
(***************************************************************************)
(* The task table as the waiting clients of TaskView see it.  A history    *)
(* variable remembers the rows a keyed submit took the key from, which the *)
(* rows themselves do not; it restricts no step of the table.              *)
(***************************************************************************)
EXTENDS TaskTable

VARIABLE replaced   \* history: rows a keyed submit took the key from and canceled

\* How much of a row's status get_status tells a wait apart.
Seen(status) == IF status \in Live THEN "live"
                ELSE IF status \in Terminal THEN "settled"
                ELSE status

Shown == [t \in Task |-> Seen(rows[t].status)]

View == INSTANCE TaskView WITH state <- Shown, current <- keys

\* The queued rows that a step cancels as it repoints their key.
Ousted == {t \in Task : /\ rows[t].status = "queued"
                        /\ rows'[t].status = "canceled"
                        /\ \E k \in Key : keys[k] = t /\ keys'[k] # t}

Remembers == replaced' = {t \in replaced \cup Ousted : rows'[t].status # "purged"}

History == replaced = {} /\ [][Remembers]_<<vars, replaced>>
-----------------------------------------------------------------------------
\* What a wait is modelled on is what the table does: every statement, retry,
\* recovery of many leases and purge of many rows is one move of TaskView or
\* none a client can see.  In particular a key moves to a fresh task in the one
\* step that cancels the task it pointed at, and never points at a purged row.
TableIsViewed == View!ViewSpec
=============================================================================
