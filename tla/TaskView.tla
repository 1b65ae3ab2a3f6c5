------------------------------- MODULE TaskView -------------------------------
(***************************************************************************)
(* The task table as a waiting client sees it: whether each task has come  *)
(* to an end, and where each key points.  TaskTable without its columns,   *)
(* moved by any process on the deployment.                                 *)
(***************************************************************************)
CONSTANTS
  Task,     \* task ids
  Key,      \* business keys
  NoTask    \* the null of a key pointer

ASSUME ViewNames == /\ NoTask \notin Task
                    /\ Task \cap Key = {}

VARIABLES
  state,    \* "unused", "live", "settled" or "purged"
  current,  \* cairnq_task_keys: the task each key points at
  replaced  \* history: rows a keyed submit took the key from and canceled

view == <<state, current, replaced>>

ViewInit == /\ state = [t \in Task |-> "unused"]
            /\ current = [k \in Key |-> NoTask]
            /\ replaced = {}

\* get_status_by_key, get_by_key: the row a key or an id stands for, if any.
Resolve(subject) ==
  LET t == IF subject \in Key THEN current[subject] ELSE subject
  IN IF t # NoTask /\ state[t] \in {"live", "settled"} THEN t ELSE NoTask

Submitted(t) == /\ state[t] = "unused"
                /\ state' = [state EXCEPT ![t] = "live"]
                /\ UNCHANGED <<current, replaced>>

\* A keyed submit that inserts.  The task the key pointed at is canceled if it
\* was queued; a running one is only asked to stop.
SubmittedUnder(t, k) ==
  /\ state[t] = "unused"
  /\ \/ /\ state' = [state EXCEPT ![t] = "live"]
        /\ UNCHANGED replaced
     \/ /\ current[k] # NoTask /\ state[current[k]] = "live"
        /\ state' = [state EXCEPT ![t] = "live", ![current[k]] = "settled"]
        /\ replaced' = replaced \cup {current[k]}
  /\ current' = [current EXCEPT ![k] = t]

\* complete, fail and cancel end a task; recovery, every one it gives up.
Settles(S) == /\ S # {} /\ \A t \in S : state[t] = "live"
             /\ state' = [t \in Task |-> IF t \in S THEN "settled" ELSE state[t]]
             /\ UNCHANGED <<current, replaced>>

\* A manual retry.
Revives(t) == /\ state[t] = "settled"
              /\ state' = [state EXCEPT ![t] = "live"]
              /\ UNCHANGED <<current, replaced>>

\* purge, with the keys that point at the rows.
Purged(S) == /\ S # {} /\ \A t \in S : state[t] = "settled"
             /\ state' = [t \in Task |-> IF t \in S THEN "purged" ELSE state[t]]
             /\ current' = [k \in Key |-> IF current[k] \in S THEN NoTask
                                                              ELSE current[k]]
             /\ replaced' = replaced \ S

\* A failure with attempts left and a recovery requeue the task; here it stays
\* as it was.
Requeued(t) == state[t] = "live" /\ UNCHANGED view

ViewNext ==
  \/ \E t \in Task : \/ Submitted(t) \/ Revives(t) \/ Requeued(t)
                     \/ \E k \in Key : SubmittedUnder(t, k)
  \/ \E S \in SUBSET Task : Settles(S) \/ Purged(S)

ViewSpec == ViewInit /\ [][ViewNext]_view
===============================================================================
