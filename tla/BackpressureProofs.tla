--------------------------- MODULE BackpressureProofs ---------------------------
(***************************************************************************)
(* The gate, for any handles, producers, limit and grant: what a grant is,  *)
(* and how far past the limit all of them together can go.                 *)
(***************************************************************************)
EXTENDS Backpressure, FiniteSums, TLAPS

GateInv == TypeOK /\ GrantsAreNotOverwritten

LEMMA InitGate == Init => GateInv
  BY GateInputs DEF Init, NoProbe, GateInv, TypeOK, GrantsAreNotOverwritten

\* Taking a unit needs one, so no probe is under way; joining a probe needs
\* there to be none.
LEMMA GateKeeps ==
  ASSUME GateInv, NEW c \in Caller, GateNext(c) PROVE GateInv'
<1> USE GateInputs DEF GateInv, TypeOK, GrantsAreNotOverwritten, queue
<1> DEFINE h == HandleOf[c]
<1>h. h \in Handle
  OBVIOUS
<1>1. ASSUME Takes(c), naps' \in [Caller -> 0..MaxNaps], UNCHANGED queue
      PROVE  GateInv'
  BY <1>h, <1>1 DEF Takes
<1>2. ASSUME Joins(c), naps' \in [Caller -> 0..MaxNaps], UNCHANGED queue
      PROVE  GateInv'
  <2>1. gate' \in [Caller -> {"out", "joined", "told", "asleep", "insert"}]
    BY <1>h, <1>2 DEF Joins
  <2>2. headroom[h] = 0 /\ UNCHANGED headroom
    BY <1>2 DEF Joins
  <2>3. CASE probe[h].phase = "none"
    <3>1. probe' = [probe EXCEPT ![h].phase = "asked"]
      BY <1>2, <2>3 DEF Joins
    <3> QED
      BY <1>h, <1>2, <2>1, <2>2, <3>1
  <2>4. CASE probe[h].phase # "none"
    <3>1. UNCHANGED probe
      BY <1>2, <2>4 DEF Joins
    <3> QED
      BY <1>2, <2>1, <2>2, <3>1
  <2> QED
    BY <2>3, <2>4
<1>3. CASE Acquire(c)
  <2>1. naps' \in [Caller -> 0..MaxNaps]
    BY <1>3 DEF Acquire
  <2> QED
    BY <1>1, <1>2, <1>3, <2>1 DEF Acquire
<1>4. CASE Wake(c)
  BY <1>1, <1>2, <1>4 DEF Wake
<1>5. CASE TakesAfterProbe(c)
  BY <1>1, <1>5 DEF TakesAfterProbe
<1>6. CASE Naps(c)
  BY <1>6 DEF Naps
<1>7. CASE RaisesQueueFull(c) \/ Quits(c)
  BY <1>7 DEF RaisesQueueFull, Quits
<1>8. CASE Submits(c) \/ SubmitsNothing(c)
  BY <1>8 DEF Submits, SubmitsNothing
<1> QED
  BY <1>3, <1>4, <1>5, <1>6, <1>7, <1>8 DEF GateNext

\* A probe grants at most MAX_GRANT, and is over by then.
LEMMA ProbeKeeps ==
  ASSUME GateInv, NEW h \in Handle, ProbeNext(h) PROVE GateInv'
<1> USE GateInputs DEF GateInv, TypeOK, GrantsAreNotOverwritten, queue, NoProbe
<1>1. CASE ProbeReads(h)
  BY <1>1 DEF ProbeReads, Depth
<1>2. CASE ProbeFails(h)
  BY <1>2 DEF ProbeFails
<1>3. CASE ProbeGrants(h)
  BY <1>3 DEF ProbeGrants, Granted, Least
<1>4. CASE ProbeEnds(h)
  BY <1>4 DEF ProbeEnds
<1> QED
  BY <1>1, <1>2, <1>3, <1>4 DEF ProbeNext

LEMMA QueueKeeps ==
  ASSUME GateInv, Drains \/ FillsPastTheGate PROVE GateInv'
  BY DEF Drains, FillsPastTheGate, GateInv, TypeOK, GrantsAreNotOverwritten

LEMMA NextGate == GateInv /\ [Next]_vars => GateInv'
<1> SUFFICES ASSUME GateInv, [Next]_vars PROVE GateInv'
  OBVIOUS
<1>1. CASE Next
  BY <1>1, GateKeeps, ProbeKeeps, QueueKeeps DEF Next
<1>2. CASE UNCHANGED vars
  BY <1>2 DEF vars, GateInv, TypeOK, GrantsAreNotOverwritten
<1> QED
  BY <1>1, <1>2

\* The gate's state has its type: no unit is taken that was not granted, and no
\* grant is over MAX_GRANT.
THEOREM GateTypeCorrect == Spec => []TypeOK
<1>1. GateInv => TypeOK
  BY DEF GateInv
<1> QED
  BY <1>1, InitGate, NextGate, PTL DEF Spec

\* A probe finds nothing left of the grant it replaces, whoever else awaits it.
THEOREM GrantsStand == Spec => []GrantsAreNotOverwritten
<1>1. GateInv => GrantsAreNotOverwritten
  BY DEF GateInv
<1> QED
  BY <1>1, InitGate, NextGate, PTL DEF Spec
-----------------------------------------------------------------------------
(* How far the queue may be overshot.                                      *)

Of(h) == {c \in Caller : HandleOf[c] = h}
WritingOf(h) == {c \in Of(h) : gate[c] = "insert"}

\* What a probe that was answered is about to grant.
Answered(h) ==
  IF probe[h].phase = "answered" THEN Granted(probe[h].room) ELSE 0

\* The units of a handle that may still become tasks: granted, taken by writes
\* in flight, or on their way from the store.
Held == [h \in Handle |-> headroom[h] + Cardinality(WritingOf(h)) + Answered(h)]

\* A full grant, and a write in flight of each caller but one.
Share == [h \in Handle |-> MaxGrant + Cardinality(Of(h)) - 1]

\* Whoever awaits a probe has no write in flight, so a handle holds no more
\* than its share; and what is queued and held stays below the limit and the
\* shares of all, less the grant of the one that read last.
OvershootInv ==
  /\ \A h \in Handle :
       /\ probe[h].phase \in {"asked", "answered"} => WritingOf(h) # Of(h)
       /\ Held[h] <= Share[h]
  /\ fresh + Sum(Held, Handle) <= Limit + Sum(Share, Handle) - MaxGrant

\* The numbers involved are natural.
LEMMA HeldIs ==
  ASSUME TypeOK, NEW h \in Handle
  PROVE  /\ IsFiniteSet(WritingOf(h)) /\ IsFiniteSet(Of(h))
         /\ Cardinality(WritingOf(h)) \in Nat /\ Cardinality(Of(h)) \in Nat
         /\ WritingOf(h) # Of(h) =>
              Cardinality(WritingOf(h)) <= Cardinality(Of(h)) - 1
         /\ Answered(h) \in Nat /\ Answered(h) <= MaxGrant
         /\ Answered(h) <= probe[h].room
         /\ Held[h] = headroom[h] + Cardinality(WritingOf(h)) + Answered(h)
         /\ Held[h] \in Nat /\ headroom[h] \in Nat
         /\ Share[h] = MaxGrant + Cardinality(Of(h)) - 1 /\ Share[h] \in Nat
<1>1. IsFiniteSet(Of(h)) /\ WritingOf(h) \subseteq Of(h)
  BY FS_Subset, GateInputs DEF Of, WritingOf
<1>2. IsFiniteSet(WritingOf(h))
  BY <1>1, FS_Subset
<1>3. Cardinality(WritingOf(h)) \in Nat /\ Cardinality(Of(h)) \in Nat
  BY <1>1, <1>2, FS_CardinalityType
<1>4. /\ Cardinality(WritingOf(h)) <= Cardinality(Of(h))
      /\ Cardinality(Of(h)) = Cardinality(WritingOf(h)) => Of(h) = WritingOf(h)
  BY <1>1, FS_Subset
<1>5. /\ Answered(h) \in Nat /\ Answered(h) <= MaxGrant
      /\ Answered(h) <= probe[h].room
  <2>1. probe[h].room \in Nat /\ MaxGrant \in Nat
    BY GateInputs DEF TypeOK
  <2> QED
    BY <2>1 DEF Answered, Granted, Least
<1>6. headroom[h] \in Nat /\ MaxGrant \in Nat \ {0}
  BY GateInputs DEF TypeOK
<1> QED
  BY <1>1, <1>2, <1>3, <1>4, <1>5, <1>6 DEF Held, Share

\* A caller begins its write,
LEMMA WriteBegins ==
  ASSUME TypeOK, NEW c \in Caller, gate[c] # "insert",
         gate' = [gate EXCEPT ![c] = "insert"]
  PROVE  /\ Cardinality(WritingOf(HandleOf[c]))' =
              Cardinality(WritingOf(HandleOf[c])) + 1
         /\ \A g \in Handle \ {HandleOf[c]} : WritingOf(g)' = WritingOf(g)
<1> DEFINE h == HandleOf[c]
<1>1. h \in Handle
  BY GateInputs
<1>2. WritingOf(h)' = WritingOf(h) \cup {c} /\ c \notin WritingOf(h)
  BY DEF TypeOK, WritingOf, Of
<1>3. IsFiniteSet(WritingOf(h))
  BY <1>1, HeldIs
<1>4. \A g \in Handle \ {h} : WritingOf(g)' = WritingOf(g)
  BY DEF TypeOK, WritingOf, Of
<1>5. Cardinality(WritingOf(h) \cup {c}) = Cardinality(WritingOf(h)) + 1
  BY <1>2, <1>3, FS_AddElement
<1> QED
  BY <1>2, <1>4, <1>5

\* ends it,
LEMMA WriteEnds ==
  ASSUME TypeOK, NEW c \in Caller, gate[c] = "insert",
         gate' = [gate EXCEPT ![c] = "out"]
  PROVE  /\ Cardinality(WritingOf(HandleOf[c]))' =
              Cardinality(WritingOf(HandleOf[c])) - 1
         /\ WritingOf(HandleOf[c])' # Of(HandleOf[c])
         /\ \A g \in Handle \ {HandleOf[c]} : WritingOf(g)' = WritingOf(g)
<1> DEFINE h == HandleOf[c]
<1>1. h \in Handle
  BY GateInputs
<1>2. WritingOf(h)' = WritingOf(h) \ {c} /\ c \in WritingOf(h)
  BY DEF TypeOK, WritingOf, Of
<1>3. IsFiniteSet(WritingOf(h))
  BY <1>1, HeldIs
<1>4. \A g \in Handle \ {h} : WritingOf(g)' = WritingOf(g)
  BY DEF TypeOK, WritingOf, Of
<1>5. WritingOf(h)' # Of(h)
  BY <1>2 DEF WritingOf, Of
<1> QED
  BY <1>2, <1>3, <1>4, <1>5, FS_RemoveElement

\* or has none before and after.
LEMMA WritesStay ==
  ASSUME NEW c \in Caller, gate[c] # "insert", gate'[c] # "insert",
         \A d \in Caller : d # c => gate'[d] = gate[d]
  PROVE  /\ \A g \in Handle : WritingOf(g)' = WritingOf(g)
         /\ WritingOf(HandleOf[c]) # Of(HandleOf[c])
  BY DEF WritingOf, Of

\* One handle moves.  Either what is queued and what it holds do not grow
\* together, or it has just read how much room there is.
LEMMA HandleMoves ==
  ASSUME TypeOK, TypeOK', OvershootInv, NEW h \in Handle,
         \A g \in Handle \ {h} : /\ headroom'[g] = headroom[g]
                                 /\ probe'[g] = probe[g]
                                 /\ WritingOf(g)' = WritingOf(g),
         probe'[h].phase \in {"asked", "answered"} => WritingOf(h)' # Of(h),
         Held'[h] <= Share[h],
         \/ fresh' + Held'[h] <= fresh + Held[h]
         \/ fresh' + Held'[h] <= Limit + Share[h] - MaxGrant
  PROVE  OvershootInv'
<1>1. /\ fresh \in Nat /\ fresh' \in Nat /\ Limit \in Nat /\ MaxGrant \in Nat
      /\ IsFiniteSet(Handle)
  BY GateInputs DEF TypeOK
<1>2. \A g \in Handle : Held[g] \in Nat /\ Held'[g] \in Nat /\ Share[g] \in Nat
  <2> SUFFICES ASSUME NEW g \in Handle
               PROVE  Held[g] \in Nat /\ Held'[g] \in Nat /\ Share[g] \in Nat
    OBVIOUS
  <2>1. Held[g] \in Nat /\ Share[g] \in Nat
    BY HeldIs
  <2>2. Held'[g] = headroom'[g] + Cardinality(WritingOf(g)') + Answered(g)'
    BY DEF Held
  <2>3. headroom'[g] \in Nat
    BY GateInputs DEF TypeOK
  <2>4. Cardinality(WritingOf(g)') \in Nat
    BY GateInputs, FS_Subset, FS_CardinalityType DEF WritingOf, Of
  <2>5. Answered(g)' \in Nat
    BY GateInputs DEF TypeOK, Answered, Granted, Least
  <2> QED
    BY <2>1, <2>2, <2>3, <2>4, <2>5
<1>3. \A g \in Handle \ {h} : Held'[g] = Held[g]
  BY DEF Held, Answered
<1>4. fresh' + Sum(Held', Handle) <= Limit + Sum(Share, Handle) - MaxGrant
  <2>1. /\ Sum(Held, Handle) \in Int /\ Sum(Held', Handle) \in Int
        /\ Sum(Share, Handle) \in Int
    BY <1>1, <1>2, SumOfIntegers
  <2>2. CASE fresh' + Held'[h] <= fresh + Held[h]
    <3>1. Sum(Held', Handle) = Sum(Held, Handle) + (Held'[h] - Held[h])
      BY <1>1, <1>2, <1>3, SumChanged
    <3>2. fresh + Sum(Held, Handle) <= Limit + Sum(Share, Handle) - MaxGrant
      BY DEF OvershootInv
    <3> QED
      BY <1>1, <1>2, <2>1, <2>2, <3>1, <3>2
  <2>3. CASE fresh' + Held'[h] <= Limit + Share[h] - MaxGrant
    <3> DEFINE Rest == Handle \ {h}
    <3>1. IsFiniteSet(Rest)
      BY <1>1, FS_Subset
    <3>2. Sum(Held', Handle) = Held'[h] + Sum(Held', Rest)
      BY <1>1, <1>2, SumWithout
    <3>3. Sum(Share, Handle) = Share[h] + Sum(Share, Rest)
      BY <1>1, <1>2, SumWithout
    <3>4. Sum(Held', Rest) <= Sum(Share, Rest)
      <4>1. \A g \in Rest : Held'[g] \in Int /\ Share[g] \in Int /\ Held'[g] <= Share[g]
        BY <1>2, <1>3 DEF OvershootInv
      <4> QED
        BY <3>1, <4>1, SumAtMost
    <3>5. Sum(Held', Rest) \in Int /\ Sum(Share, Rest) \in Int
      BY <1>2, <3>1, SumOfIntegers
    <3> QED
      BY <1>1, <1>2, <2>1, <2>3, <3>2, <3>3, <3>4, <3>5
  <2> QED
    BY <2>2, <2>3
<1>5. \A g \in Handle :
        /\ probe'[g].phase \in {"asked", "answered"} => WritingOf(g)' # Of(g)
        /\ Held'[g] <= Share[g]
  BY <1>3 DEF OvershootInv
<1>6. Share' = Share /\ \A g \in Handle : Of(g)' = Of(g)
  BY DEF Share, Of
<1> QED
  BY <1>4, <1>5, <1>6 DEF OvershootInv

\* A caller at the gate spends a unit that was granted, or joins the probe
\* without a write in flight; a write that ends turns into a task or nothing.
LEMMA GateOvershoot ==
  ASSUME GateInv, TypeOK', OvershootInv, NEW c \in Caller, GateNext(c)
  PROVE  OvershootInv'
<1> DEFINE h == HandleOf[c]
<1>t. /\ h \in Handle /\ TypeOK /\ GrantsAreNotOverwritten
      /\ fresh \in Nat /\ fresh' \in Nat
  BY GateInputs DEF GateInv, TypeOK
<1>h. /\ Cardinality(WritingOf(h)) \in Nat /\ Answered(h) \in Nat
      /\ Held[h] = headroom[h] + Cardinality(WritingOf(h)) + Answered(h)
      /\ Held[h] \in Nat /\ headroom[h] \in Nat
      /\ Share[h] \in Nat /\ Held[h] <= Share[h]
  BY <1>t, HeldIs DEF OvershootInv
<1>n. Held'[h] = headroom'[h] + Cardinality(WritingOf(h)') + Answered(h)'
  BY <1>t DEF Held
<1> HIDE DEF h
<1>1. ASSUME Takes(c), gate[c] # "insert", UNCHANGED queue
      PROVE  OvershootInv'
  <2>1. /\ headroom'[h] = headroom[h] - 1 /\ headroom[h] > 0
        /\ \A g \in Handle \ {h} : headroom'[g] = headroom[g]
        /\ UNCHANGED <<probe, fresh>> /\ gate' = [gate EXCEPT ![c] = "insert"]
    BY <1>1, <1>t DEF Takes, TypeOK, queue, h
  <2>2. /\ Cardinality(WritingOf(h)') = Cardinality(WritingOf(h)) + 1
        /\ \A g \in Handle \ {h} : WritingOf(g)' = WritingOf(g)
    BY <1>1, <1>t, <2>1, WriteBegins DEF h
  <2>3. probe[h].phase \notin {"asked", "answered"} /\ Answered(h)' = Answered(h)
    BY <1>t, <2>1 DEF GrantsAreNotOverwritten, Answered
  <2>4. Held'[h] = Held[h]
    BY <1>h, <1>n, <2>1, <2>2, <2>3
  <2> QED
    BY <1>t, <1>h, <2>1, <2>2, <2>3, <2>4, HandleMoves
<1>2. ASSUME gate[c] # "insert", gate'[c] # "insert",
             \A d \in Caller : d # c => gate'[d] = gate[d],
             UNCHANGED <<fresh, headroom>>,
             \A g \in Handle \ {h} : probe'[g] = probe[g],
             Answered(h)' = Answered(h)
      PROVE  OvershootInv'
  <2>1. /\ \A g \in Handle : WritingOf(g)' = WritingOf(g)
        /\ WritingOf(h) # Of(h)
    BY <1>2, WritesStay DEF h
  <2>2. Held'[h] = Held[h]
    BY <1>t, <1>h, <1>n, <1>2, <2>1
  <2> QED
    BY <1>t, <1>h, <1>2, <2>1, <2>2, HandleMoves
<1>3. ASSUME Joins(c), gate[c] # "insert", UNCHANGED queue
      PROVE  OvershootInv'
  <2>1. /\ gate'[c] # "insert"
        /\ \A d \in Caller : d # c => gate'[d] = gate[d]
        /\ UNCHANGED <<fresh, headroom>>
    BY <1>3, <1>t DEF Joins, TypeOK, queue
  <2>2. CASE probe[h].phase = "none"
    <3>1. probe' = [probe EXCEPT ![h].phase = "asked"]
      BY <1>3, <2>2 DEF Joins, h
    <3>2. /\ \A g \in Handle \ {h} : probe'[g] = probe[g]
          /\ Answered(h)' = Answered(h)
      BY <1>t, <2>2, <3>1 DEF TypeOK, Answered
    <3> QED
      BY <1>2, <1>3, <2>1, <3>2
  <2>3. CASE probe[h].phase # "none"
    <3>1. UNCHANGED probe
      BY <1>3, <2>3 DEF Joins, h
    <3>2. Answered(h)' = Answered(h)
      BY <3>1 DEF Answered
    <3> QED
      BY <1>2, <1>3, <2>1, <3>1, <3>2
  <2> QED
    BY <2>2, <2>3
<1>4. CASE Acquire(c)
  BY <1>1, <1>3, <1>4 DEF Acquire
<1>5. CASE Wake(c)
  BY <1>1, <1>3, <1>5 DEF Wake
<1>6. CASE TakesAfterProbe(c)
  BY <1>1, <1>6 DEF TakesAfterProbe
<1>7. CASE Naps(c) \/ RaisesQueueFull(c) \/ Quits(c)
  <2>1. /\ gate[c] # "insert" /\ gate'[c] # "insert"
        /\ \A d \in Caller : d # c => gate'[d] = gate[d]
        /\ UNCHANGED <<fresh, headroom, probe>>
    BY <1>7, <1>t DEF Naps, RaisesQueueFull, Quits, TypeOK, queue
  <2>2. Answered(h)' = Answered(h)
    BY <2>1 DEF Answered
  <2> QED
    BY <1>2, <2>1, <2>2
<1>8. CASE Submits(c) \/ SubmitsNothing(c)
  <2>1. /\ gate[c] = "insert" /\ gate' = [gate EXCEPT ![c] = "out"]
        /\ UNCHANGED <<headroom, probe>> /\ fresh' \in {fresh, fresh + 1}
    BY <1>8 DEF Submits, SubmitsNothing, queue
  <2>2. /\ Cardinality(WritingOf(h)') = Cardinality(WritingOf(h)) - 1
        /\ WritingOf(h)' # Of(h)
        /\ \A g \in Handle \ {h} : WritingOf(g)' = WritingOf(g)
    BY <1>t, <2>1, WriteEnds DEF h
  <2>3. Answered(h)' = Answered(h)
    BY <2>1 DEF Answered
  <2>4. Held'[h] = Held[h] - 1
    BY <1>h, <1>n, <2>1, <2>2, <2>3
  <2>5. Held'[h] <= Share[h] /\ fresh' + Held'[h] <= fresh + Held[h]
    BY <1>t, <1>h, <2>1, <2>4
  <2> QED
    BY <1>t, <2>1, <2>2, <2>5, HandleMoves
<1> QED
  BY <1>4, <1>5, <1>6, <1>7, <1>8 DEF GateNext

\* A probe counts what is queued, and neither the writes in flight at that
\* instant nor what other handles hold.
LEMMA ProbeOvershoot ==
  ASSUME GateInv, TypeOK', OvershootInv, NEW h \in Handle, ProbeNext(h)
  PROVE  OvershootInv'
<1>t. /\ TypeOK /\ fresh \in Nat /\ others \in Nat
      /\ probe[h].phase \in {"asked", "answered"} => headroom[h] = 0
      /\ probe[h].room \in Nat /\ Limit \in Nat /\ MaxGrant \in Nat
  BY GateInputs DEF GateInv, TypeOK, GrantsAreNotOverwritten
<1>h. /\ Cardinality(WritingOf(h)) \in Nat /\ Cardinality(Of(h)) \in Nat
      /\ WritingOf(h) # Of(h) => Cardinality(WritingOf(h)) <= Cardinality(Of(h)) - 1
      /\ Answered(h) \in Nat
      /\ Held[h] = headroom[h] + Cardinality(WritingOf(h)) + Answered(h)
      /\ Held[h] \in Nat /\ headroom[h] \in Nat
      /\ Share[h] = MaxGrant + Cardinality(Of(h)) - 1
      /\ Share[h] \in Nat /\ Held[h] <= Share[h]
      /\ probe[h].phase \in {"asked", "answered"} => WritingOf(h) # Of(h)
  BY <1>t, HeldIs DEF OvershootInv
<1>n. Held'[h] = headroom'[h] + Cardinality(WritingOf(h)') + Answered(h)'
  BY DEF Held
<1>w. /\ \A g \in Handle : WritingOf(g)' = WritingOf(g)
      /\ \A g \in Handle \ {h} : headroom'[g] = headroom[g] /\ probe'[g] = probe[g]
      /\ fresh' = fresh
  <2>1. \A c \in Caller : gate'[c] = "insert" <=> gate[c] = "insert"
    BY <1>t DEF ProbeNext, ProbeReads, ProbeFails, ProbeGrants, ProbeEnds, TypeOK
  <2>2. \A g \in Handle : WritingOf(g)' = WritingOf(g)
    BY <2>1 DEF WritingOf, Of
  <2>3. \A g \in Handle \ {h} : headroom'[g] = headroom[g] /\ probe'[g] = probe[g]
    BY <1>t DEF ProbeNext, ProbeReads, ProbeFails, ProbeGrants, ProbeEnds, TypeOK
  <2>4. fresh' = fresh
    BY DEF ProbeNext, ProbeReads, ProbeFails, ProbeGrants, ProbeEnds, queue
  <2> QED
    BY <2>2, <2>3, <2>4
<1>1. CASE ProbeReads(h)
  <2> DEFINE room == IF Depth < Limit THEN Limit - Depth ELSE 0
  <2>1. /\ probe[h].phase = "asked" /\ headroom'[h] = headroom[h]
        /\ probe'[h] = [phase |-> "answered", room |-> room]
    BY <1>1, <1>t DEF ProbeReads, TypeOK
  <2>2. room \in Nat /\ (room = 0 \/ fresh + room <= Limit)
    BY <1>t DEF Depth
  <2> HIDE DEF room
  <2>3. Answered(h)' = Granted(room) /\ Answered(h) = 0
    BY <2>1 DEF Answered, Granted, Least
  <2>4. /\ Granted(room) \in Nat /\ Granted(room) <= room
        /\ Granted(room) <= MaxGrant
    BY <1>t, <2>2 DEF Granted, Least
  <2>5. /\ Held'[h] = Cardinality(WritingOf(h)) + Granted(room)
        /\ Held[h] = Cardinality(WritingOf(h))
        /\ Cardinality(WritingOf(h)) <= Cardinality(Of(h)) - 1
        /\ WritingOf(h)' # Of(h)
    BY <1>t, <1>h, <1>n, <1>w, <2>1, <2>3, <2>4
  <2>6. Held'[h] <= Share[h]
    BY <1>t, <1>h, <2>4, <2>5
  <2>7. \/ fresh' + Held'[h] <= fresh + Held[h]
        \/ fresh' + Held'[h] <= Limit + Share[h] - MaxGrant
    BY <1>t, <1>h, <1>w, <2>2, <2>4, <2>5
  <2> QED
    BY <1>t, <1>w, <2>5, <2>6, <2>7, HandleMoves
<1>2. CASE ProbeFails(h)
  <2>1. /\ probe[h].phase = "asked" /\ headroom'[h] = headroom[h]
        /\ probe'[h].phase = "broken"
    BY <1>2, <1>t DEF ProbeFails, TypeOK
  <2>2. Held'[h] = Held[h]
    BY <1>h, <1>n, <1>w, <2>1 DEF Answered
  <2> QED
    BY <1>t, <1>h, <1>w, <2>1, <2>2, HandleMoves
<1>3. CASE ProbeGrants(h)
  <2>1. /\ probe[h].phase = "answered" /\ headroom[h] = 0
        /\ headroom'[h] = Granted(probe[h].room)
        /\ probe'[h].phase = "done"
    BY <1>3, <1>t DEF ProbeGrants, TypeOK
  <2>2. Held'[h] = Held[h]
    BY <1>h, <1>n, <1>w, <2>1 DEF Answered
  <2> QED
    BY <1>t, <1>h, <1>w, <2>1, <2>2, HandleMoves
<1>4. CASE ProbeEnds(h)
  <2>1. /\ probe[h].phase \in {"done", "broken"} /\ headroom'[h] = headroom[h]
        /\ probe'[h].phase = "none"
    BY <1>4, <1>t DEF ProbeEnds, TypeOK, NoProbe
  <2>2. Held'[h] = Held[h]
    BY <1>h, <1>n, <1>w, <2>1 DEF Answered
  <2> QED
    BY <1>t, <1>h, <1>w, <2>1, <2>2, HandleMoves
<1> QED
  BY <1>1, <1>2, <1>3, <1>4 DEF ProbeNext

\* Nothing else gives a handle a unit or a queue a task that submit put there.
LEMMA NextOvershoot ==
  ASSUME GateInv, OvershootInv, [Next]_vars
  PROVE  OvershootInv'
<1>t. TypeOK'
  BY NextGate DEF GateInv
<1>1. CASE \E c \in Caller : GateNext(c)
  BY <1>t, <1>1, GateOvershoot
<1>2. CASE \E h \in Handle : ProbeNext(h)
  BY <1>t, <1>2, ProbeOvershoot
<1>3. CASE Drains \/ FillsPastTheGate \/ UNCHANGED vars
  <2>1. PICK h \in Handle : TRUE
    BY GateInputs
  <2>2. /\ UNCHANGED <<headroom, probe, gate>> /\ TypeOK
        /\ fresh \in Nat /\ fresh' \in {fresh, fresh - 1}
    BY <1>3 DEF Drains, FillsPastTheGate, vars, GateInv, TypeOK
  <2>3. /\ \A g \in Handle : WritingOf(g)' = WritingOf(g) /\ Held'[g] = Held[g]
    BY <2>2 DEF WritingOf, Of, Held, Answered
  <2>4. Held[h] \in Nat
    BY <2>2, HeldIs
  <2>5. fresh' + Held'[h] <= fresh + Held[h] /\ Held'[h] <= Share[h]
    BY <2>2, <2>3, <2>4 DEF OvershootInv
  <2>6. probe'[h].phase \in {"asked", "answered"} => WritingOf(h)' # Of(h)
    BY <2>2, <2>3 DEF OvershootInv
  <2> QED
    BY <1>t, <2>2, <2>3, <2>5, <2>6, HandleMoves
<1> QED
  BY <1>1, <1>2, <1>3 DEF Next

\* Every caller has one handle, so the shares add up.
LEMMA SharesAddUp ==
  /\ Cardinality(Handle) \in Nat \ {0} /\ Cardinality(Caller) \in Nat
  /\ Sum(Share, Handle) = Cardinality(Handle) * (MaxGrant - 1) + Cardinality(Caller)
<1> DEFINE each == [h \in Handle |-> MaxGrant - 1]
           callers == [h \in Handle |-> Cardinality({c \in Caller : HandleOf[c] = h})]
<1>1. /\ IsFiniteSet(Handle) /\ Handle # {} /\ IsFiniteSet(Caller)
      /\ HandleOf \in [Caller -> Handle] /\ MaxGrant \in Nat
  BY GateInputs
<1>2. /\ Cardinality(Handle) \in Nat /\ Cardinality(Handle) # 0
      /\ Cardinality(Caller) \in Nat
  BY <1>1, FS_CardinalityType, FS_EmptySet
<1>3. \A h \in Handle : callers[h] \in Nat
  BY <1>1, FS_Subset, FS_CardinalityType
<1>4. \A h \in Handle : /\ each[h] \in Int /\ callers[h] \in Int
                        /\ Share[h] = each[h] + callers[h]
  BY <1>1, <1>3 DEF Share, Of
<1>5. Sum(callers, Handle) = Cardinality(Caller)
  BY <1>1, FibersAddUp
<1>6. Sum(each, Handle) = Cardinality(Handle) * (MaxGrant - 1)
  <2>1. \A h \in Handle : each[h] = MaxGrant - 1
    OBVIOUS
  <2> HIDE DEF each
  <2> QED
    BY <1>1, <2>1, SumOfConstants
<1>7. Sum(Share, Handle) = Sum(each, Handle) + Sum(callers, Handle)
  <2> HIDE DEF each, callers
  <2> QED
    BY <1>1, <1>4, SumOfSums
<1> QED
  BY <1>2, <1>5, <1>6, <1>7

\* Nothing is queued or held when it starts.
LEMMA InitOvershoot == Init => OvershootInv
<1> SUFFICES ASSUME Init PROVE OvershootInv
  OBVIOUS
<1>1. TypeOK
  BY InitGate DEF GateInv
<1>2. \A h \in Handle : /\ WritingOf(h) = {} /\ headroom[h] = 0
                        /\ probe[h].phase = "none"
  BY DEF Init, NoProbe, WritingOf, Of
<1>3. \A h \in Handle : Held[h] = 0 /\ Held[h] <= Share[h]
  <2> SUFFICES ASSUME NEW h \in Handle PROVE Held[h] = 0 /\ Held[h] <= Share[h]
    OBVIOUS
  <2>1. Answered(h) = 0 /\ Cardinality(WritingOf(h)) = 0
    BY <1>2, FS_EmptySet DEF Answered
  <2> QED
    BY <1>1, <1>2, <2>1, HeldIs
<1>4. Sum(Held, Handle) = 0
  BY <1>3, GateInputs, SumOfZeros
<1>5. Sum(Share, Handle) >= MaxGrant - 1
  <2> DEFINE n == Cardinality(Handle)
  <2>1. n \in Nat \ {0} /\ Cardinality(Caller) \in Nat /\ MaxGrant \in Nat \ {0}
    BY SharesAddUp, GateInputs
  <2>2. n * (MaxGrant - 1) = (n - 1) * (MaxGrant - 1) + (MaxGrant - 1)
    BY <2>1
  <2>3. (n - 1) * (MaxGrant - 1) \in Nat
    BY <2>1
  <2>4. Sum(Share, Handle) = n * (MaxGrant - 1) + Cardinality(Caller)
    BY SharesAddUp
  <2> HIDE DEF n
  <2> QED
    BY <2>1, <2>2, <2>3, <2>4
<1>6. fresh = 0 /\ Limit \in Nat \ {0} /\ MaxGrant \in Nat \ {0}
  BY GateInputs DEF Init
<1>7. Sum(Share, Handle) \in Int
  BY <1>1, HeldIs, GateInputs, SumOfIntegers
<1> QED
  BY <1>2, <1>3, <1>4, <1>5, <1>6, <1>7 DEF OvershootInv

\* However many handles and callers feed a queue and however their probes and
\* writes interleave, the tasks submitted and never yet claimed exceed its
\* limit by at most a grant for each further handle and a write in flight for
\* each further caller of a handle.
THEOREM OvershootHasABound == Spec => []OvershootIsBounded
<1>1. GateInv /\ OvershootInv => OvershootIsBounded
  <2> SUFFICES ASSUME GateInv, OvershootInv PROVE OvershootIsBounded
    OBVIOUS
  <2> DEFINE n == Cardinality(Handle)
             m == Cardinality(Caller)
  <2>1. /\ n \in Nat /\ m \in Nat
        /\ Sum(Share, Handle) = n * (MaxGrant - 1) + m
    BY SharesAddUp
  <2>2. Sum(Held, Handle) \in Nat
    BY HeldIs, GateInputs, SumOfNaturals DEF GateInv
  <2>3. fresh \in Nat /\ Limit \in Nat /\ MaxGrant \in Nat
    BY GateInputs DEF GateInv, TypeOK
  <2>4. fresh + Sum(Held, Handle) <= Limit + Sum(Share, Handle) - MaxGrant
    BY DEF OvershootInv
  <2>5. n * (MaxGrant - 1) - MaxGrant = (n - 1) * MaxGrant - n
    BY <2>1, <2>3
  <2>6. n * (MaxGrant - 1) \in Int /\ (n - 1) * MaxGrant \in Int
    BY <2>1, <2>3
  <2>7. Overshoot = (n - 1) * MaxGrant + m - n
    BY DEF Overshoot
  <2> HIDE DEF n, m
  <2>8. fresh <= Limit + ((n - 1) * MaxGrant + m - n)
    BY <2>1, <2>2, <2>3, <2>4, <2>5, <2>6
  <2> QED
    BY <2>7, <2>8 DEF OvershootIsBounded
<1> QED
  BY <1>1, InitGate, NextGate, InitOvershoot, NextOvershoot, PTL DEF Spec
=============================================================================
