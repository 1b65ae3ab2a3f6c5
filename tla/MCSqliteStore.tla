----------------------------- MODULE MCSqliteStore -----------------------------
(* SqliteStore on small instances; writes are interchangeable.             *)
EXTENDS SqliteStore

Ids == Permutations(Write)
=============================================================================
