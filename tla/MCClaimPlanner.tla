---------------------------- MODULE MCClaimPlanner ----------------------------
(* ClaimPlanner for two sets of registrations.                             *)
EXTENDS ClaimPlanner

CONSTANTS a, b, c, d, e, gpu

Reg(n, batch, resource) == [name |-> n, batch |-> batch, resource |-> resource]

\* Two names on one GPU, one of them batched; another batch; and two names that
\* share a draw.
Mixed == <<Reg(a, 2, gpu), Reg(b, NoBatch, gpu), Reg(c, 2, NoResource),
           Reg(d, NoBatch, NoResource), Reg(e, NoBatch, NoResource)>>
\* The README's example: two names share one GPU.
Together == <<Reg(a, NoBatch, gpu), Reg(b, NoBatch, gpu)>>

One == [r \in {gpu} |-> 1]
=============================================================================
