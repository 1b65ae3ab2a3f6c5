----------------------------- MODULE Backpressure -----------------------------
(***************************************************************************)
(* QueueDepthGate (cairnq/backpressure.py) of several handles in front of  *)
(* one queue: submit takes a unit of headroom, and when there is none      *)
(* waits for a probe of the queue's depth that all callers of the handle   *)
(* share.                                                                  *)
(*                                                                         *)
(* A store call takes effect at one instant and is answered at a later     *)
(* one; between the two, callers go on.  A caller in "insert" has left the *)
(* gate with its unit and its write has yet to take effect.                *)
(***************************************************************************)
EXTENDS Integers, FiniteSets

CONSTANTS
  Handle,      \* CairnQ handles, each with its gate, in any processes
  Caller,      \* concurrent callers of submit
  HandleOf,    \* the handle a caller submits through
  Limit,       \* max_queue_depth, the same for all
  MaxGrant,    \* MAX_GRANT
  MaxNaps,     \* bound: naps that fit in max_queue_wait_ms
  MaxOthers    \* bound: queued tasks that did not come through a gate

ASSUME GateInputs == /\ HandleOf \in [Caller -> Handle]
                     /\ Limit \in Nat \ {0}
                     /\ MaxGrant \in Nat \ {0}
                     /\ MaxNaps \in Nat
                     /\ MaxOthers \in Nat
                     /\ IsFiniteSet(Handle) /\ Handle # {}
                     /\ IsFiniteSet(Caller)

VARIABLES
  fresh,      \* queued tasks that submit put there and nobody has claimed
  others,     \* queued tasks that are there for another reason
  headroom,   \* _headroom of each handle
  probe,      \* _probing of each handle, and what the read returned
  gate,       \* where each caller's acquire stands
  naps        \* naps it has taken in this acquire

queue == <<fresh, others>>
vars == <<fresh, others, headroom, probe, gate, naps>>

NoProbe == [phase |-> "none", room |-> 0]

Depth == fresh + others
Least(a, b) == IF a < b THEN a ELSE b

Init == /\ fresh = 0 /\ others = 0
        /\ headroom = [h \in Handle |-> 0]
        /\ probe = [h \in Handle |-> NoProbe]
        /\ gate = [c \in Caller |-> "out"]
        /\ naps = [c \in Caller |-> 0]

-----------------------------------------------------------------------------
(* acquire.                                                                *)

Takes_WithoutCount(c) ==
  LET h == HandleOf[c]
  IN /\ headroom[h] > 0
     /\ gate' = [gate EXCEPT ![c] = "insert"]
     /\ UNCHANGED <<headroom, probe>>

\* There is headroom: take a unit and leave the gate, without a suspension.
Takes(c) ==
  LET h == HandleOf[c]
  IN /\ headroom[h] > 0
     /\ headroom' = [headroom EXCEPT ![h] = @ - 1]
     /\ gate' = [gate EXCEPT ![c] = "insert"]
     /\ UNCHANGED probe

Joins_Anyway(c) ==
  LET h == HandleOf[c]
  IN /\ IF probe[h].phase = "none"
        THEN probe' = [probe EXCEPT ![h].phase = "asked"]
        ELSE UNCHANGED probe
     /\ gate' = [gate EXCEPT ![c] = "joined"]
     /\ UNCHANGED headroom

\* There is none: await the probe in flight, or start one.  One that is over
\* but still on record answers at once, with the headroom as it stands.
Joins(c) ==
  LET h == HandleOf[c]
  IN /\ headroom[h] = 0
     /\ IF probe[h].phase = "none"
        THEN probe' = [probe EXCEPT ![h].phase = "asked"]
        ELSE UNCHANGED probe
     /\ gate' = [gate EXCEPT ![c] = CASE probe[h].phase = "done" -> "told"
                                      [] probe[h].phase = "broken" -> "out"
                                      [] OTHER -> "joined"]
     /\ UNCHANGED headroom

\* submit is called.
Acquire(c) == /\ gate[c] = "out"
              /\ Takes(c) \/ Joins(c)
              /\ naps' = [naps EXCEPT ![c] = 0]
              /\ UNCHANGED queue

Wake(c) == /\ gate[c] = "asleep"
           /\ Takes(c) \/ Joins(c)
           /\ UNCHANGED <<queue, naps>>

\* The awaited probe is over: take what it found, unless others took it first;
\* then nap, or raise QueueFull once the time is up.
TakesAfterProbe(c) == /\ gate[c] = "told"
                      /\ Takes(c)
                      /\ UNCHANGED <<queue, naps>>

Naps(c) == /\ gate[c] = "told" /\ headroom[HandleOf[c]] = 0
           /\ naps[c] < MaxNaps   \* bound
           /\ naps' = [naps EXCEPT ![c] = @ + 1]
           /\ gate' = [gate EXCEPT ![c] = "asleep"]
           /\ UNCHANGED <<queue, headroom, probe>>

RaisesQueueFull(c) ==
  /\ gate[c] = "told" /\ headroom[HandleOf[c]] = 0
  /\ gate' = [gate EXCEPT ![c] = "out"]
  /\ UNCHANGED <<queue, headroom, probe, naps>>

Quits_WithTheProbe(c) ==
  /\ gate[c] \in {"joined", "told", "asleep"}
  /\ gate' = [gate EXCEPT ![c] = "out"]
  /\ probe' = IF gate[c] = "joined" THEN [probe EXCEPT ![HandleOf[c]] = NoProbe]
                                    ELSE probe
  /\ UNCHANGED <<queue, headroom, naps>>

\* The caller is canceled; the probe is shielded and goes on for the others.
Quits(c) == /\ gate[c] \in {"joined", "told", "asleep"}
            /\ gate' = [gate EXCEPT ![c] = "out"]
            /\ UNCHANGED <<queue, headroom, probe, naps>>

-----------------------------------------------------------------------------
(* _refresh: the shared read.                                              *)

\* queue_depth counts what is queued at this instant.
ProbeReads(h) ==
  /\ probe[h].phase = "asked"
  /\ probe' = [probe EXCEPT ![h] =
                 [phase |-> "answered",
                  room |-> IF Depth < Limit THEN Limit - Depth ELSE 0]]
  /\ UNCHANGED <<queue, headroom, gate, naps>>

ProbeFails(h) ==
  /\ probe[h].phase = "asked"
  /\ probe' = [probe EXCEPT ![h] = [phase |-> "broken", room |-> 0]]
  /\ UNCHANGED <<queue, headroom, gate, naps>>

Granted_Whole(room) == room
Granted(room) == Least(room, MaxGrant)

\* The answer replaces the grant.
ProbeGrants(h) ==
  /\ probe[h].phase = "answered"
  /\ headroom' = [headroom EXCEPT ![h] = Granted(probe[h].room)]
  /\ probe' = [probe EXCEPT ![h] = [phase |-> "done", room |-> 0]]
  /\ UNCHANGED <<queue, gate, naps>>

\* The callbacks of the finished read run: it leaves the record, and whoever
\* awaited it goes on, or gets its exception.
ProbeEnds(h) ==
  /\ probe[h].phase \in {"done", "broken"}
  /\ probe' = [probe EXCEPT ![h] = NoProbe]
  /\ gate' = [c \in Caller |->
                IF HandleOf[c] = h /\ gate[c] = "joined"
                THEN IF probe[h].phase = "done" THEN "told" ELSE "out"
                ELSE gate[c]]
  /\ UNCHANGED <<queue, headroom, naps>>

-----------------------------------------------------------------------------
(* The rest of submit, and the queue.                                      *)

Submits(c) == /\ gate[c] = "insert"
              /\ gate' = [gate EXCEPT ![c] = "out"]
              /\ fresh' = fresh + 1
              /\ UNCHANGED <<others, headroom, probe, naps>>

\* A key that is reused or rejected, a canceled or a failed write: the unit is
\* spent and nothing was inserted.
SubmitsNothing(c) ==
  /\ gate[c] = "insert"
  /\ gate' = [gate EXCEPT ![c] = "out"]
  /\ UNCHANGED <<queue, headroom, probe, naps>>

\* Workers claim and clients cancel.
Drains == /\ \/ fresh > 0 /\ fresh' = fresh - 1 /\ UNCHANGED others
             \/ others > 0 /\ others' = others - 1 /\ UNCHANGED fresh
          /\ UNCHANGED <<headroom, probe, gate, naps>>

\* Failures, expired leases, manual retries and producers without a limit fill
\* the queue past the gates.
FillsPastTheGate == /\ others < MaxOthers   \* bound
                    /\ others' = others + 1
                    /\ UNCHANGED <<fresh, headroom, probe, gate, naps>>

GateNext(c) == \/ Acquire(c) \/ Wake(c) \/ TakesAfterProbe(c) \/ Naps(c)
               \/ RaisesQueueFull(c) \/ Quits(c)
               \/ Submits(c) \/ SubmitsNothing(c)

ProbeNext(h) == \/ ProbeReads(h) \/ ProbeFails(h) \/ ProbeGrants(h)
                \/ ProbeEnds(h)

Next == \/ \E c \in Caller : GateNext(c)
        \/ \E h \in Handle : ProbeNext(h)
        \/ Drains \/ FillsPastTheGate

Spec == Init /\ [][Next]_vars

\* The event loop runs what is ready, a nap is over sooner or later, and the
\* store answers a probe or fails it.
GateFairness ==
  /\ \A c \in Caller : /\ WF_vars(Wake(c))
                       /\ WF_vars(TakesAfterProbe(c) \/ Naps(c) \/ RaisesQueueFull(c))
  /\ \A h \in Handle : WF_vars(ProbeNext(h))

FairSpec == Spec /\ GateFairness
-----------------------------------------------------------------------------
(* Properties.                                                             *)

TypeOK == /\ fresh \in Nat /\ others \in Nat
          /\ headroom \in [Handle -> 0..MaxGrant]
          /\ probe \in [Handle -> [phase : {"none", "asked", "answered", "done",
                                            "broken"},
                                   room : 0..Limit]]
          /\ gate \in [Caller -> {"out", "joined", "told", "asleep", "insert"}]
          /\ naps \in [Caller -> 0..MaxNaps]

\* A probe's answer replaces the grant, which is sound because nothing is left
\* of it by then: no caller's headroom is ever thrown away or counted twice.
GrantsAreNotOverwritten ==
  \A h \in Handle : probe[h].phase \in {"asked", "answered"} => headroom[h] = 0

Overshoot == (Cardinality(Handle) - 1) * MaxGrant
               + Cardinality(Caller) - Cardinality(Handle)

\* However probes, inserts and completions interleave, the tasks submitted and
\* never yet claimed exceed the limit by at most a grant for each further
\* handle, and by a write in flight for each further caller of a handle.
OvershootIsBounded == fresh <= Limit + Overshoot

\* Every acquire ends: with a unit, with QueueFull, or with the probe's error,
\* even if nobody ever drains the queue and whoever started the probe is gone.
EveryAcquireEnds ==
  \A c \in Caller : gate[c] \in {"joined", "told", "asleep"}
                      ~> gate[c] \in {"insert", "out"}
=============================================================================
