----------------------------- MODULE MCTaskTable -----------------------------
(* TaskTable on a small instance: task and worker ids are interchangeable.  *)
EXTENDS TaskTable, TLC

Ids == Permutations(Task) \cup Permutations(Worker)
=============================================================================
