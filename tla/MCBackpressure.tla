---------------------------- MODULE MCBackpressure ----------------------------
(* Two callers on one handle and one on another.                           *)
EXTENDS Backpressure, TLC

CONSTANTS p, q, c1, c2, c3

TwoAndOne == (c1 :> p) @@ (c2 :> p) @@ (c3 :> q)
=============================================================================
