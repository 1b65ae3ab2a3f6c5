--------------------------- MODULE MCPostgresHandle ---------------------------
(* PostgresHandle on a small instance: task and loop ids are interchangeable. *)
EXTENDS PostgresHandle, TLC

Ids == Permutations(Task) \cup Permutations(Loop)
=============================================================================
