--------------------------- MODULE MCWorkerAttempts ---------------------------
(* WorkerAttempts on small instances: calls, workers and tasks are          *)
(* interchangeable.                                                        *)
EXTENDS WorkerAttempts, TLC

Ids == Permutations(Task) \cup Permutations(Worker) \cup Permutations(Call)
=============================================================================
