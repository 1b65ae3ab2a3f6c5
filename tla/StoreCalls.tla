------------------------------ MODULE StoreCalls ------------------------------
(***************************************************************************)
(* What a store promises about one call that writes, however calls share   *)
(* its connection: the call takes effect once or not at all, no later than *)
(* it is answered and as the answer says; an answer is never taken back.   *)
(* A caller that is canceled learns nothing: what it asked for may have    *)
(* happened, may still happen, once, or not at all.  A commit or a close   *)
(* may concern many calls, so a step moves every call by one of the moves  *)
(* below or leaves it alone.                                               *)
(***************************************************************************)
EXTENDS Naturals

CONSTANT Op

VARIABLE call   \* per call: its answer, how often it took effect, whether it may yet

Init == call = [o \in Op |-> [answer |-> "none", landed |-> 0, open |-> TRUE]]

Takes(c, d) == c.open /\ d.landed = c.landed + 1 /\ ~d.open
Drops(c, d) == c.open /\ d.landed = c.landed /\ ~d.open

Made(c, d) == /\ c.answer = "none" /\ d.answer = "waiting"
              /\ d.landed = c.landed /\ d.open = c.open

Granted(c, d) == c.answer = "waiting" /\ d.answer = "ok" /\ Takes(c, d)

\* Refused at once, or raised later.
Failed(c, d) == c.answer \in {"none", "waiting"} /\ d.answer = "failed" /\ Drops(c, d)

Abandoned(c, d) == /\ c.answer = "waiting" /\ d.answer = "canceled"
                   /\ \/ Takes(c, d) \/ Drops(c, d)
                      \/ d.landed = c.landed /\ d.open = c.open

\* What became of the write of a caller that is gone.
Decided(c, d) == /\ c.answer = "canceled" /\ d.answer = "canceled"
                 /\ Takes(c, d) \/ Drops(c, d)

Move(c, d) == Made(c, d) \/ Granted(c, d) \/ Failed(c, d) \/ Abandoned(c, d)
                \/ Decided(c, d)

Next == \A o \in Op : call'[o] = call[o] \/ Move(call[o], call'[o])

Spec == Init /\ [][Next]_call
===============================================================================
