-------------------------- MODULE ClaimPlannerProofs --------------------------
(***************************************************************************)
(* Proofs about ClaimPlanner for any registrations, ceilings and           *)
(* concurrency: no poll overspends, every charge is given back, and the    *)
(* loop does not sleep on a release.                                       *)
(***************************************************************************)
EXTENDS ClaimPlanner, FiniteSums, SequenceTheorems, TLAPS

-----------------------------------------------------------------------------
(* The inductive invariant.                                                *)

SharedSource == [names |-> Shared, resource |-> NoResource, batch |-> 1]
SourceSet == {SourceOf(reg) : reg \in {r \in Registered : Alone(r)}} \cup {SharedSource}

Shapes ==
  /\ backlog \in [Name -> Nat] /\ running \in [Name -> Nat]
  /\ in_flight \in [Resource -> Nat]
  /\ cursor \in 0..(Len(Sources) - 1)
  /\ freed \in BOOLEAN
  /\ loop \in {"top", "opening", "session", "idle", "backoff"}
  /\ plan \in [order : Seq(SourceSet), left : Nat, taken : [Resource -> Nat],
               calls : [Name -> Nat], rows : [Name -> Nat]]
  /\ late \subseteq Name

\* What runs, what the plan has drawn and what it may still draw share one
\* budget; each resource's charges and the plan's tally are calls that spend it.
BudgetInv ==
  /\ loop = "opening" => plan.left > 0 /\ plan = [NoPlan EXCEPT !.left = plan.left]
  /\ loop \notin {"opening", "session"} => plan = NoPlan
  /\ Count(running) + Count(plan.calls) + plan.left <= Concurrency
  /\ \A r \in Resource :
       /\ in_flight[r] = CountOf(running, Spenders(r))
       /\ plan.taken[r] = CountOf(plan.calls, Spenders(r))
       /\ in_flight[r] + plan.taken[r] <= Capacity[r]

\* Nothing is left in a source there is room for but what arrived meanwhile.
LookedAt(src) ==
  src.resource = NoResource \/ in_flight[src.resource] < Capacity[src.resource]
    => \A n \in src.names : backlog[n] > 0 => n \in late

\* A poll that has drawn nothing has budget left and, unless something was
\* released, has looked at every source it is past; one that ended so, at all.
MissInv ==
  /\ loop = "session" /\ Count(plan.calls) = 0 =>
       /\ plan.left > 0
       /\ ~freed => \A src \in Range(Sources) \ Range(plan.order) : LookedAt(src)
  /\ loop = "idle" /\ ~freed => \A src \in Range(Sources) : LookedAt(src)

PlannerInv == Shapes /\ BudgetInv /\ MissInv

-----------------------------------------------------------------------------
(* The sources.                                                            *)

\* Registrations are finitely many, and a name is registered once.
LEMMA HandlerFacts ==
  /\ Handlers \in Seq(Registered) /\ Len(Handlers) \in Nat \ {0}
  /\ DOMAIN Handlers = 1..Len(Handlers)
  /\ IsFiniteSet(Name)
  /\ \A q, r \in Registered : q.name = r.name => q = r
  <1>1. /\ Handlers \in Seq(Registered) /\ Handlers # <<>>
        /\ Cardinality(Name) = Len(Handlers)
    BY PlannerInputs
  <1>2. /\ Len(Handlers) \in Nat \ {0} /\ DOMAIN Handlers = 1..Len(Handlers)
    BY <1>1, LenProperties, EmptySeq
  <1> DEFINE I == 1..Len(Handlers)
             f == [i \in I |-> Handlers[i].name]
  <1>3. f \in Surjection(I, Name)
    BY <1>2 DEF Name, Registered, Surjection
  <1>4. IsFiniteSet(I) /\ Cardinality(I) = Len(Handlers)
    BY <1>2, FS_Interval
  <1>5. IsFiniteSet(Name)
    <2> HIDE DEF f, I
    <2> QED
      BY <1>3, <1>4, FS_Surjection
  <1>6. f \in Injection(I, Name)
    <2> HIDE DEF f, I
    <2> QED
      BY <1>1, <1>3, <1>4, FS_Surjection
  <1>7. ASSUME NEW q \in Registered, NEW r \in Registered, q.name = r.name
        PROVE  q = r
    <2>1. PICK i \in I : Handlers[i] = q
      BY <1>2 DEF Registered
    <2>2. PICK j \in I : Handlers[j] = r
      BY <1>2 DEF Registered
    <2>3. f[i] = f[j]
      BY <1>7, <2>1, <2>2
    <2>4. i = j
      BY <1>6, <2>3 DEF Injection, IsInjective
    <2> QED
      BY <2>1, <2>2, <2>4
  <1> QED
    BY <1>1, <1>2, <1>5, <1>7

\* Own is what its definition says: the recursion ends.
OwnStep(g, i) ==
  IF i = 0 THEN <<>>
  ELSE IF Alone(Handlers[i]) THEN Append(g[i - 1], SourceOf(Handlers[i]))
  ELSE g[i - 1]

\* The equation that defines Own has a solution,
LEMMA OwnExists ==
  ASSUME NEW n \in Nat
  PROVE  \E g : g = [i \in 0..n |-> OwnStep(g, i)]
  <1> DEFINE G == {m \in Nat : \E g : g = [i \in 0..m |-> OwnStep(g, i)]}
  <1>1. 0 \in G
    <2> DEFINE g == [i \in 0..0 |-> <<>>]
    <2>1. \A i \in 0..0 : g[i] = OwnStep(g, i)
      BY DEF OwnStep
    <2>2. g = [i \in 0..0 |-> OwnStep(g, i)]
      BY <2>1
    <2> HIDE DEF g
    <2> QED
      BY <2>2
  <1>2. ASSUME NEW m \in Nat, m \in G
        PROVE  m + 1 \in G
    <2> PICK g : g = [i \in 0..m |-> OwnStep(g, i)]
      BY <1>2
    <2>1. \A i \in 0..m : g[i] = OwnStep(g, i)
      <3> DEFINE k == [i \in 0..m |-> OwnStep(g, i)]
      <3>1. \A i \in 0..m : k[i] = OwnStep(g, i)
        OBVIOUS
      <3>2. g = k
        OBVIOUS
      <3> HIDE DEF k
      <3> QED
        BY <3>1, <3>2
    <2> DEFINE h == [i \in 0..(m + 1) |-> IF i = m + 1 THEN OwnStep(g, i) ELSE g[i]]
    <2>2. ASSUME NEW i \in 0..(m + 1)
          PROVE  h[i] = OwnStep(h, i)
      <3>1. h[i] = OwnStep(g, i)
        <4>1. CASE i = m + 1
          BY <4>1
        <4>2. CASE i # m + 1
          <5>1. i \in 0..m
            BY <4>2
          <5> QED
            BY <2>1, <4>2, <5>1
        <4> QED
          BY <4>1, <4>2
      <3>2. i # 0 => h[i - 1] = g[i - 1]
        OBVIOUS
      <3> HIDE DEF h
      <3> QED
        BY <3>1, <3>2 DEF OwnStep
    <2>3. h = [i \in 0..(m + 1) |-> OwnStep(h, i)]
      <3> DEFINE k == [i \in 0..(m + 1) |-> OwnStep(h, i)]
      <3>1. \A i \in 0..(m + 1) : h[i] = k[i]
        BY <2>2
      <3>2. DOMAIN h = DOMAIN k
        OBVIOUS
      <3> QED
        BY <3>1, <3>2
    <2> HIDE DEF h
    <2> QED
      BY <2>3
  <1>3. \A m \in Nat : m \in G
    <2> HIDE DEF G
    <2> QED
      BY <1>1, <1>2, NumberInduction
  <1> QED
    BY <1>3

\* and Own satisfies it.
LEMMA OwnAt ==
  ASSUME NEW i \in 0..Len(Handlers)
  PROVE  Own[i] = OwnStep(Own, i)
  <1>1. \E g : g = [j \in 0..Len(Handlers) |-> OwnStep(g, j)]
    BY HandlerFacts, OwnExists
  <1>2. Own = CHOOSE g : g = [j \in 0..Len(Handlers) |-> OwnStep(g, j)]
    BY DEF Own, OwnStep
  <1>3. Own = [j \in 0..Len(Handlers) |-> OwnStep(Own, j)]
    BY <1>1, <1>2
  <1> DEFINE k == [j \in 0..Len(Handlers) |-> OwnStep(Own, j)]
  <1>4. Own = k
    BY <1>3
  <1>5. k[i] = OwnStep(Own, i)
    OBVIOUS
  <1> QED
    BY <1>4, <1>5

\* So the sources are a sequence, and there is at least one.
LEMMA SourcesFacts ==
  /\ Sources \in Seq(SourceSet) /\ Len(Sources) \in Nat \ {0}
  /\ DOMAIN Sources = 1..Len(Sources)
  <1> DEFINE N == Len(Handlers)
             Good(i) == /\ Own[i] \in Seq(SourceSet)
                        /\ Own[i] = <<>> => \A j \in 1..i : ~Alone(Handlers[j])
             G == {i \in Nat : i <= N => Good(i)}
  <1>0. N \in Nat \ {0} /\ DOMAIN Handlers = 1..N
    BY HandlerFacts
  <1>1. 0 \in G
    <2>1. Own[0] = <<>>
      BY <1>0, OwnAt DEF OwnStep
    <2>2. <<>> \in Seq(SourceSet) /\ \A j \in 1..0 : ~Alone(Handlers[j])
      BY EmptySeq
    <2>3. Good(0)
      BY <2>1, <2>2
    <2> QED
      BY <2>3
  <1>2. ASSUME NEW i \in Nat, i \in G
        PROVE  i + 1 \in G
    <2> SUFFICES ASSUME i + 1 <= N
                 PROVE  Good(i + 1)
      OBVIOUS
    <2> HIDE DEF N
    <2>1. i <= N /\ i \in 0..N /\ i + 1 \in 0..N /\ i + 1 \in 1..N /\ (i + 1) - 1 = i
          /\ i + 1 # 0
      BY <1>0
    <2>2. Good(i)
      BY <1>2, <2>1
    <2>3. Own[i + 1] = IF Alone(Handlers[i + 1])
                       THEN Append(Own[i], SourceOf(Handlers[i + 1])) ELSE Own[i]
      BY <2>1, OwnAt DEF OwnStep, N
    <2>4. CASE Alone(Handlers[i + 1])
      <3>1. Handlers[i + 1] \in Registered
        BY <1>0, <2>1 DEF Registered
      <3>2. SourceOf(Handlers[i + 1]) \in SourceSet
        BY <2>4, <3>1 DEF SourceSet
      <3>3. /\ Append(Own[i], SourceOf(Handlers[i + 1])) \in Seq(SourceSet)
            /\ Append(Own[i], SourceOf(Handlers[i + 1])) # <<>>
        BY <2>2, <3>2, AppendProperties
      <3> QED
        BY <2>3, <2>4, <3>3
    <2>5. CASE ~Alone(Handlers[i + 1])
      <3>1. \A j \in 1..(i + 1) : j \in 1..i \/ j = i + 1
        BY <2>1
      <3> QED
        BY <2>2, <2>3, <2>5, <3>1
    <2> QED
      BY <2>4, <2>5
  <1>3. Good(N)
    <2>1. \A i \in Nat : i \in G
      <3> HIDE DEF G
      <3> QED
        BY <1>1, <1>2, NumberInduction
    <2> QED
      BY <1>0, <2>1
  <1> DEFINE last == IF Shared = {} THEN <<>> ELSE <<SharedSource>>
  <1>4. last \in Seq(SourceSet)
    <2>1. SharedSource \in SourceSet
      BY DEF SourceSet
    <2>2. <<>> \in Seq(SourceSet)
      BY EmptySeq
    <2>3. <<SharedSource>> \in Seq(SourceSet)
      BY <2>1
    <2> HIDE DEF SharedSource
    <2> QED
      BY <2>2, <2>3
  <1>5. Own[N] = <<>> => last # <<>>
    <2> SUFFICES ASSUME Own[N] = <<>>
                 PROVE  Shared # {}
      OBVIOUS
    <2>1. ~Alone(Handlers[1]) /\ Handlers[1] \in Registered
      BY <1>0, <1>3 DEF Registered
    <2> QED
      BY <2>1 DEF Shared
  <1>6. Sources = Own[N] \o last
    BY DEF Sources, SharedSource
  <1> HIDE DEF last, N
  <1>7. Sources \in Seq(SourceSet) /\ Sources # <<>>
    BY <1>3, <1>4, <1>5, <1>6, ConcatProperties, ConcatEqualIffEmpty
  <1> QED
    BY <1>7, LenProperties, EmptySeq

\* What a source is: its names are registered and spend what it spends, and
\* those that batch are by themselves.
LEMMA SourceIs ==
  ASSUME NEW src \in SourceSet
  PROVE  /\ src.names \subseteq Name /\ src.batch \in Nat \ {0}
         /\ src.resource \in Resource \cup {NoResource}
         /\ \A n \in src.names : ResourceOf(n) = src.resource
         /\ src.batch # 1 => \E n \in Name : src.names = {n}
  <1>1. ASSUME NEW reg \in Registered
        PROVE  reg.name \in Name /\ ResourceOf(reg.name) = reg.resource
    <2>1. reg.name \in Name
      BY DEF Name
    <2>2. (CHOOSE r \in Registered : r.name = reg.name) = reg
      BY HandlerFacts
    <2> QED
      BY <2>1, <2>2 DEF ResourceOf
  <1>2. CASE \E reg \in Registered : Alone(reg) /\ src = SourceOf(reg)
    <2> PICK reg \in Registered : Alone(reg) /\ src = SourceOf(reg)
      BY <1>2
    <2>1. /\ src.names = {reg.name} /\ src.resource = reg.resource
          /\ src.batch = IF reg.batch = NoBatch THEN 1 ELSE reg.batch
      BY DEF SourceOf
    <2>2. /\ reg.batch = NoBatch \/ reg.batch \in Nat \ {0}
          /\ reg.resource \in Resource \cup {NoResource}
      BY PlannerInputs
    <2> QED
      BY <1>1, <2>1, <2>2
  <1>3. CASE src = SharedSource
    <2>1. src.names = Shared /\ src.resource = NoResource /\ src.batch = 1
      BY <1>3 DEF SharedSource
    <2>2. ASSUME NEW n \in Shared
          PROVE  n \in Name /\ ResourceOf(n) = NoResource
      <3>1. PICK reg \in Registered : ~Alone(reg) /\ n = reg.name
        BY DEF Shared
      <3> QED
        BY <1>1, <3>1 DEF Alone
    <2> QED
      BY <2>1, <2>2
  <1> QED
    BY <1>2, <1>3 DEF SourceSet

\* A name is drawn by one source.
LEMMA SourceOfName ==
  ASSUME NEW src \in SourceSet, NEW tgt \in SourceSet, NEW n,
         n \in src.names, n \in tgt.names
  PROVE  src = tgt
  <1>1. ASSUME NEW s \in SourceSet, n \in s.names
        PROVE  \E reg \in Registered :
                 /\ n = reg.name
                 /\ s = IF Alone(reg) THEN SourceOf(reg) ELSE SharedSource
    BY <1>1 DEF SourceSet, SourceOf, SharedSource, Shared
  <1>2. PICK q \in Registered :
          n = q.name /\ src = IF Alone(q) THEN SourceOf(q) ELSE SharedSource
    BY <1>1
  <1>3. PICK r \in Registered :
          n = r.name /\ tgt = IF Alone(r) THEN SourceOf(r) ELSE SharedSource
    BY <1>1
  <1>4. q = r
    BY <1>2, <1>3, HandlerFacts
  <1> QED
    BY <1>2, <1>3, <1>4

\* The rotation leaves none out.
LEMMA RotatedServesAll ==
  ASSUME NEW k \in 0..(Len(Sources) - 1)
  PROVE  Rotated(k) \in Seq(SourceSet) /\ Range(Sources) \subseteq Range(Rotated(k))
  <1> DEFINE N == Len(Sources)
             a == SubSeq(Sources, k + 1, N)
             b == SubSeq(Sources, 1, k)
  <1>1. Sources \in Seq(SourceSet) /\ N \in Nat \ {0} /\ DOMAIN Sources = 1..N
    BY SourcesFacts
  <1>2. \A i \in 1..N : Sources[i] \in SourceSet
    BY <1>1
  <1>3. /\ a \in Seq(SourceSet) /\ Len(a) = IF k + 1 <= N THEN N - (k + 1) + 1 ELSE 0
        /\ \A i \in 1..(N - (k + 1) + 1) : a[i] = Sources[k + 1 + i - 1]
    <2>1. k + 1 \in Int /\ N \in Int /\ \A i \in (k + 1)..N : Sources[i] \in SourceSet
      BY <1>1, <1>2
    <2> HIDE DEF N
    <2> QED
      BY <2>1, SubSeqProperties
  <1>4. /\ b \in Seq(SourceSet) /\ Len(b) = IF 1 <= k THEN k - 1 + 1 ELSE 0
        /\ \A i \in 1..(k - 1 + 1) : b[i] = Sources[1 + i - 1]
    <2>1. 1 \in Int /\ k \in Int /\ \A i \in 1..k : Sources[i] \in SourceSet
      BY <1>1, <1>2
    <2> QED
      BY <2>1, SubSeqProperties
  <1>5. Rotated(k) = a \o b
    BY DEF Rotated
  <1> HIDE DEF N, a, b
  <1>6. k \in 0..(N - 1)
    BY DEF N
  <1>7. DOMAIN a = 1..Len(a) /\ DOMAIN b = 1..Len(b)
    BY <1>3, <1>4, LenProperties
  <1>8. ASSUME NEW i \in 1..N
        PROVE  Sources[i] \in Range(a) \cup Range(b)
    <2>1. CASE i > k
      <3>1. i - k \in 1..Len(a) /\ i - k \in 1..(N - (k + 1) + 1) /\ k + 1 + (i - k) - 1 = i
        BY <1>1, <1>3, <1>6, <2>1
      <3>2. a[i - k] = Sources[i]
        BY <1>3, <3>1
      <3> QED
        BY <1>7, <3>1, <3>2 DEF Range
    <2>2. CASE i <= k
      <3>1. i \in 1..Len(b) /\ i \in 1..(k - 1 + 1) /\ 1 + i - 1 = i
        BY <1>1, <1>4, <1>6, <2>2
      <3>2. b[i] = Sources[i]
        BY <1>4, <3>1
      <3> QED
        BY <1>7, <3>1, <3>2 DEF Range
    <2> QED
      BY <1>1, <1>6, <2>1, <2>2
  <1>9. Range(a \o b) = Range(a) \cup Range(b)
    BY <1>3, <1>4, RangeConcatenation
  <1>10. a \o b \in Seq(SourceSet)
    BY <1>3, <1>4, ConcatProperties
  <1> QED
    BY <1>1, <1>5, <1>8, <1>9, <1>10 DEF Range

-----------------------------------------------------------------------------
(* Counting.                                                               *)

\* A tally of calls adds up to a natural.
LEMMA Counts ==
  ASSUME NEW f \in [Name -> Nat]
  PROVE  /\ Count(f) = Sum(f, Name) /\ Count(f) \in Nat
         /\ \A S \in SUBSET Name : CountOf(f, S) = Sum(f, S) /\ CountOf(f, S) \in Nat
  <1>1. IsFiniteSet(Name)
    BY HandlerFacts
  <1>2. Count(f) = Sum(f, Name)
    BY DEF Count, SumFunction, Sum
  <1>3. \A S \in SUBSET Name : IsFiniteSet(S) /\ CountOf(f, S) = Sum(f, S)
    BY <1>1, FS_Subset DEF CountOf, Sum
  <1> QED
    BY <1>1, <1>2, <1>3, SumOfNaturals

\* The empty tally to zero.
LEMMA ZeroCounts ==
  /\ Zero(Name) \in [Name -> Nat] /\ Count(Zero(Name)) = 0
  /\ \A S \in SUBSET Name : CountOf(Zero(Name), S) = 0
  <1>1. Zero(Name) \in [Name -> Nat] /\ \A n \in Name : Zero(Name)[n] = 0
    BY DEF Zero
  <1>2. \A S \in SUBSET Name : IsFiniteSet(S)
    BY HandlerFacts, FS_Subset
  <1>3. \A S \in SUBSET Name : Sum(Zero(Name), S) = 0
    BY <1>1, <1>2, SumOfZeros
  <1> QED
    BY <1>1, <1>3, Counts

\* Two tallies together to both.
LEMMA PlusCounts ==
  ASSUME NEW f \in [Name -> Nat], NEW g \in [Name -> Nat]
  PROVE  /\ Plus(f, g) \in [Name -> Nat]
         /\ Count(Plus(f, g)) = Count(f) + Count(g)
         /\ \A S \in SUBSET Name :
              CountOf(Plus(f, g), S) = CountOf(f, S) + CountOf(g, S)
  <1> DEFINE h == Plus(f, g)
  <1>1. h \in [Name -> Nat] /\ \A n \in Name : h[n] = f[n] + g[n]
    BY DEF Plus
  <1> HIDE DEF h
  <1>2. \A S \in SUBSET Name : IsFiniteSet(S)
    BY HandlerFacts, FS_Subset
  <1>3. ASSUME NEW S \in SUBSET Name
        PROVE  Sum(h, S) = Sum(f, S) + Sum(g, S)
    <2>1. \A n \in S : f[n] \in Int /\ g[n] \in Int /\ h[n] = f[n] + g[n]
      BY <1>1
    <2> QED
      BY <1>2, <2>1, SumOfSums
  <1>4. Count(h) = Count(f) + Count(g)
    BY <1>1, <1>3, Counts
  <1>5. \A S \in SUBSET Name : CountOf(h, S) = CountOf(f, S) + CountOf(g, S)
    BY <1>1, <1>3, Counts
  <1> QED
    BY <1>1, <1>4, <1>5 DEF h

\* A call ends.
LEMMA MinusOneCounts ==
  ASSUME NEW f \in [Name -> Nat], NEW n \in Name, f[n] > 0,
         NEW g \in [Name -> Nat], g[n] = f[n] - 1,
         \A m \in Name \ {n} : g[m] = f[m]
  PROVE  /\ Count(g) = Count(f) - 1
         /\ \A S \in SUBSET Name :
              CountOf(g, S) = CountOf(f, S) - (IF n \in S THEN 1 ELSE 0)
  <1>2. \A S \in SUBSET Name : IsFiniteSet(S)
    BY HandlerFacts, FS_Subset
  <1>3. ASSUME NEW S \in SUBSET Name
        PROVE  Sum(g, S) = Sum(f, S) - (IF n \in S THEN 1 ELSE 0)
    <2>1. Sum(f, S) \in Int
      BY Counts
    <2>2. \A m \in S : f[m] \in Int /\ g[m] \in Int
      OBVIOUS
    <2>3. CASE n \in S
      <3>1. Sum(g, S) = Sum(f, S) + (g[n] - f[n])
        <4>1. IsFiniteSet(S) /\ \A m \in S \ {n} : g[m] = f[m]
          BY <1>2
        <4> QED
          BY <2>2, <2>3, <4>1, SumChanged
      <3>2. g[n] - f[n] = 0 - 1
        OBVIOUS
      <3> QED
        BY <2>1, <2>3, <3>1, <3>2
    <2>4. CASE n \notin S
      <3>1. \A m \in S : f[m] = g[m]
        BY <2>4
      <3>2. Sum(f, S) = Sum(g, S)
        BY <1>2, <3>1, SumOfEquals
      <3> QED
        BY <2>1, <2>4, <3>2
    <2> QED
      BY <2>3, <2>4
  <1>4. Count(g) = Count(f) - 1
    BY <1>3, Counts
  <1>5. \A S \in SUBSET Name : CountOf(g, S) = CountOf(f, S) - (IF n \in S THEN 1 ELSE 0)
    BY <1>3, Counts
  <1> QED
    BY <1>4, <1>5

\* Rows, in chunks of a batch.
LEMMA Chunked ==
  ASSUME NEW rows \in Nat, NEW batch \in Nat \ {0}
  PROVE  LET calls == (rows + batch - 1) \div batch
         IN /\ calls \in Nat /\ (calls = 0 <=> rows = 0)
            /\ batch = 1 => calls = rows
            /\ \A quota \in Nat : rows <= batch * quota => calls <= quota
  <1> DEFINE a == rows + batch - 1
             q == a \div batch
  <1>1. a \in Nat
    OBVIOUS
  <1>2. q \in Nat /\ batch * q <= a /\ a < batch * q + batch
    <2> HIDE DEF a
    <2> QED
      BY <1>1
  <1> HIDE DEF q
  <1>3. q = 0 <=> rows = 0
    <2>1. CASE q = 0
      BY <1>2, <2>1
    <2>2. CASE q # 0
      <3>1. batch * q >= batch
        BY <1>2, <2>2
      <3>2. rows # 0
        BY <1>2, <3>1
      <3> QED
        BY <2>2, <3>2
    <2> QED
      BY <2>1, <2>2
  <1>4. batch = 1 => q = rows
    BY <1>2
  <1>5. ASSUME NEW quota \in Nat, rows <= batch * quota
        PROVE  q <= quota
    <2>1. SUFFICES ASSUME q >= quota + 1
                   PROVE  FALSE
      BY <1>2
    <2>2. batch * q >= batch * (quota + 1)
      BY <1>2, <2>1
    <2>3. batch * (quota + 1) = batch * quota + batch
      OBVIOUS
    <2>4. batch * q \in Nat /\ batch * quota \in Nat
      BY <1>2
    <2> QED
      BY <1>2, <1>5, <2>2, <2>3, <2>4
  <1> QED
    BY <1>2, <1>3, <1>4, <1>5 DEF q

\* No calls in all: none of any name.
LEMMA NothingCounted ==
  ASSUME NEW f \in [Name -> Nat]
  PROVE  /\ Count(f) = 0 <=> \A n \in Name : f[n] = 0
         /\ Count(f) = 0 => \A S \in SUBSET Name : CountOf(f, S) = 0
  <1>1. IsFiniteSet(Name) /\ \A S \in SUBSET Name : IsFiniteSet(S)
    BY HandlerFacts, FS_Subset
  <1>2. \A n \in Name : f[n] \in Nat
    OBVIOUS
  <1>3. ASSUME Count(f) = 0, NEW n \in Name
        PROVE  f[n] = 0
    <2>1. f[n] <= Sum(f, Name)
      BY <1>1, <1>2, SumOverElement
    <2> QED
      BY <1>2, <1>3, <2>1, Counts
  <1>4. ASSUME \A n \in Name : f[n] = 0
        PROVE  Count(f) = 0 /\ \A S \in SUBSET Name : CountOf(f, S) = 0
    <2>1. \A S \in SUBSET Name : Sum(f, S) = 0
      BY <1>1, <1>4, SumOfZeros
    <2> QED
      BY <2>1, Counts
  <1> QED
    BY <1>3, <1>4

-----------------------------------------------------------------------------
(* What a draw returns.                                                    *)

\* What may be drawn is within the budget and the room of the resource.
LEMMA QuotaIs ==
  ASSUME Shapes, NEW src \in SourceSet
  PROVE  /\ Quota(src) \in Int /\ Quota(src) <= plan.left
         /\ src.resource # NoResource =>
              /\ src.resource \in Resource
              /\ Quota(src) <= Capacity[src.resource] - in_flight[src.resource]
                                 - plan.taken[src.resource]
         /\ Quota(src) <= 0 /\ plan.left > 0 =>
              /\ src.resource # NoResource
              /\ Capacity[src.resource] <= in_flight[src.resource]
                                             + plan.taken[src.resource]
  <1>1. plan.left \in Nat
    BY DEF Shapes
  <1>2. CASE src.resource = NoResource
    BY <1>1, <1>2 DEF Quota
  <1>3. CASE src.resource # NoResource
    <2>1. src.resource \in Resource
      BY <1>3, SourceIs
    <2>2. /\ Capacity[src.resource] \in Nat /\ in_flight[src.resource] \in Nat
          /\ plan.taken[src.resource] \in Nat
      BY <2>1, PlannerInputs DEF Shapes
    <2>3. Quota(src) = Smaller(Headroom(src), plan.left)
      BY <1>3 DEF Quota
    <2> QED
      BY <1>1, <1>3, <2>1, <2>2, <2>3 DEF Smaller, Headroom
  <1> QED
    BY <1>2, <1>3

\* What a draw of some quota returns: rows that are there, in calls of its own
\* names that fit the quota; and nothing only if nothing is due or allowed.
LEMMA DrawIs ==
  ASSUME Shapes, NEW src \in SourceSet, NEW rows, NEW calls,
         calls = Chunks(rows, src.batch),
         rows \in IF Quota(src) <= 0 THEN {Zero(Name)}
                  ELSE Drawn(src.names, src.batch * Quota(src))
  PROVE  /\ rows \in [Name -> Nat] /\ \A n \in Name : rows[n] <= backlog[n]
         /\ calls \in [Name -> Nat] /\ \A n \in Name \ src.names : calls[n] = 0
         /\ Count(calls) = 0 \/ Count(calls) <= Quota(src)
         /\ Count(calls) = 0 =>
              Quota(src) <= 0 \/ \A n \in src.names : backlog[n] = 0
  <1>0. /\ backlog \in [Name -> Nat] /\ src.names \in SUBSET Name
        /\ src.batch \in Nat \ {0} /\ Quota(src) \in Int
        /\ IsFiniteSet(Name) /\ \A S \in SUBSET Name : IsFiniteSet(S)
    BY SourceIs, QuotaIs, HandlerFacts, FS_Subset DEF Shapes
  <1>1. ASSUME rows \in [Name -> Nat]
        PROVE  /\ calls \in [Name -> Nat]
               /\ \A n \in Name : /\ calls[n] = 0 <=> rows[n] = 0
                                  /\ src.batch = 1 => calls[n] = rows[n]
                                  /\ \A quota \in Nat :
                                       rows[n] <= src.batch * quota => calls[n] <= quota
    <2>1. \A n \in Name : calls[n] = (rows[n] + src.batch - 1) \div src.batch
      BY DEF Chunks
    <2>2. \A n \in Name : rows[n] \in Nat
      BY <1>1
    <2>3. calls = [n \in Name |-> (rows[n] + src.batch - 1) \div src.batch]
      BY DEF Chunks
    <2>4. ASSUME NEW n \in Name
          PROVE  /\ calls[n] \in Nat /\ (calls[n] = 0 <=> rows[n] = 0)
                 /\ src.batch = 1 => calls[n] = rows[n]
                 /\ \A quota \in Nat : rows[n] <= src.batch * quota => calls[n] <= quota
      <3> DEFINE k == rows[n]
                 b == src.batch
      <3>1. k \in Nat /\ b \in Nat \ {0}
        BY <1>0, <2>2
      <3> HIDE DEF k, b
      <3>2. LET c == (k + b - 1) \div b
            IN /\ c \in Nat /\ (c = 0 <=> k = 0)
               /\ b = 1 => c = k
               /\ \A quota \in Nat : k <= b * quota => c <= quota
        BY <3>1, Chunked
      <3>3. calls[n] = (k + b - 1) \div b
        BY <2>1 DEF k, b
      <3>4. /\ calls[n] \in Nat /\ (calls[n] = 0 <=> k = 0)
            /\ b = 1 => calls[n] = k
            /\ \A quota \in Nat : k <= b * quota => calls[n] <= quota
        BY <3>2, <3>3
      <3> QED
        BY <3>4 DEF k, b
    <2>5. calls \in [Name -> Nat]
      BY <2>3, <2>4
    <2> QED
      BY <2>4, <2>5
  <1>2. CASE Quota(src) <= 0
    <2>1. rows = Zero(Name)
      BY <1>2
    <2>2. rows \in [Name -> Nat] /\ \A n \in Name : rows[n] = 0
      BY <2>1 DEF Zero
    <2>3. calls \in [Name -> Nat] /\ \A n \in Name : calls[n] = 0
      BY <1>1, <2>2
    <2>4. Count(calls) = 0
      BY <2>3, NothingCounted
    <2> QED
      BY <1>0, <1>2, <2>2, <2>3, <2>4
  <1>3. CASE Quota(src) > 0
    <2> DEFINE quota == Quota(src)
               limit == src.batch * quota
               due == CountOf(backlog, src.names)
    <2>1. rows \in Drawn(src.names, limit)
      BY <1>0, <1>3
    <2>2. /\ rows \in [Name -> 0..limit]
          /\ \A n \in Name : rows[n] <= IF n \in src.names THEN backlog[n] ELSE 0
          /\ Count(rows) = Smaller(limit, due)
      BY <2>1 DEF Drawn
    <2>3. quota \in Nat /\ quota > 0 /\ limit \in Nat /\ limit > 0
      BY <1>0, <1>3
    <2>4. due \in Nat /\ due = Sum(backlog, src.names)
      BY <1>0, Counts
    <2> HIDE DEF quota, limit, due
    <2>5. rows \in [Name -> Nat] /\ \A n \in Name : rows[n] <= limit
      BY <2>2, <2>3
    <2>6. \A n \in Name : rows[n] <= backlog[n] /\ (n \notin src.names => rows[n] = 0)
      <3> TAKE n \in Name
      <3>1. rows[n] \in Nat /\ backlog[n] \in Nat
        BY <1>0, <2>5
      <3>2. rows[n] <= IF n \in src.names THEN backlog[n] ELSE 0
        BY <2>2
      <3> QED
        BY <3>1, <3>2
    <2>7. /\ calls \in [Name -> Nat]
          /\ \A n \in Name : /\ calls[n] = 0 <=> rows[n] = 0
                             /\ src.batch = 1 => calls[n] = rows[n]
                             /\ rows[n] <= limit => calls[n] <= quota
      BY <1>1, <2>3, <2>5 DEF limit
    <2>8. Count(calls) <= quota
      <3>1. CASE src.batch = 1
        <4>1. Sum(calls, Name) = Sum(rows, Name)
          BY <1>0, <2>7, <3>1, SumOfEquals
        <4>2. Count(calls) = Count(rows)
          BY <2>5, <2>7, <4>1, Counts
        <4>3. limit = quota
          BY <2>3, <3>1 DEF limit
        <4> QED
          BY <2>2, <2>3, <2>4, <4>2, <4>3 DEF Smaller
      <3>2. CASE src.batch # 1
        <4>1. PICK n \in Name : src.names = {n}
          BY <3>2, SourceIs
        <4>2. calls[n] \in Int /\ \A m \in Name \ {n} : calls[m] = 0
          BY <2>6, <2>7, <4>1
        <4>3. \A m \in {n} : calls[m] \in Int
          BY <4>2
        <4>4. {n} \in SUBSET Name
          OBVIOUS
        <4>5. Sum(calls, Name) = Sum(calls, {n})
          BY <1>0, <4>2, <4>3, <4>4, SumOnSupport
        <4>6. Count(calls) = calls[n]
          BY <2>7, <4>2, <4>5, Counts, SumOfOne
        <4> QED
          BY <2>5, <2>7, <4>6
      <3> QED
        BY <3>1, <3>2
    <2>9. ASSUME Count(calls) = 0, NEW n \in src.names
          PROVE  backlog[n] = 0
      <3>1. \A m \in Name : rows[m] = 0
        BY <2>7, <2>9, NothingCounted
      <3>2. Count(rows) = 0
        BY <2>5, <3>1, NothingCounted
      <3>3. due = 0
        BY <2>2, <2>3, <2>4, <3>2 DEF Smaller
      <3>4. IsFiniteSet(src.names) /\ \A m \in src.names : backlog[m] \in Nat
        BY <1>0
      <3>5. backlog[n] <= Sum(backlog, src.names)
        BY <3>4, SumOverElement
      <3> QED
        BY <2>4, <3>3, <3>4, <3>5
    <2> QED
      BY <2>5, <2>6, <2>7, <2>8, <2>9 DEF quota
  <1> QED
    BY <1>0, <1>2, <1>3

\* Calls that spend one resource are charged to that one.
LEMMA CallsAreCharged ==
  ASSUME NEW src \in SourceSet, NEW calls \in [Name -> Nat],
         \A n \in Name \ src.names : calls[n] = 0, NEW r \in Resource
  PROVE  CountOf(calls, Spenders(r)) = IF r = src.resource THEN Count(calls) ELSE 0
  <1>1. /\ Spenders(r) \in SUBSET Name /\ IsFiniteSet(Name) /\ IsFiniteSet(Spenders(r))
        /\ \A n \in src.names : ResourceOf(n) = src.resource
        /\ \A n \in Name : calls[n] \in Int
    BY HandlerFacts, SourceIs, FS_Subset DEF Spenders
  <1>2. CASE r = src.resource
    <2>1. \A n \in Name \ Spenders(r) : calls[n] = 0
      BY <1>1, <1>2 DEF Spenders
    <2>2. \A n \in Spenders(r) : calls[n] \in Int
      BY <1>1
    <2>3. Sum(calls, Name) = Sum(calls, Spenders(r))
      BY <1>1, <2>1, <2>2, SumOnSupport
    <2> QED
      BY <1>1, <1>2, <2>3, Counts
  <1>3. CASE r # src.resource
    <2>1. \A n \in Spenders(r) : calls[n] = 0
      BY <1>1, <1>3 DEF Spenders
    <2>2. Sum(calls, Spenders(r)) = 0
      BY <1>1, <2>1, SumOfZeros
    <2> QED
      BY <1>1, <1>3, <2>2, Counts
  <1> QED
    BY <1>2, <1>3

\* A sequence is its first element and the rest.
LEMMA FirstAndRest ==
  ASSUME NEW S, NEW s \in Seq(S), s # <<>>
  PROVE  /\ Head(s) \in S /\ Tail(s) \in Seq(S)
         /\ Range(s) \subseteq {Head(s)} \cup Range(Tail(s))
  <1> DEFINE t == Tail(s)
  <1>1. /\ Head(s) \in S /\ t \in Seq(S) /\ Len(t) = Len(s) - 1
        /\ \A i \in 1..Len(t) : t[i] = s[i + 1]
    BY HeadTailProperties
  <1>2. /\ DOMAIN s = 1..Len(s) /\ DOMAIN t = 1..Len(t) /\ Len(s) \in Nat
    BY <1>1, LenProperties
  <1>3. Head(s) = s[1]
    OBVIOUS
  <1> HIDE DEF t
  <1>4. ASSUME NEW x \in Range(s), x # s[1]
        PROVE  x \in Range(t)
    <2>1. PICK i \in 1..Len(s) : s[i] = x
      BY <1>2 DEF Range
    <2>2. i - 1 \in 1..Len(t) /\ t[i - 1] = x
      BY <1>1, <1>2, <1>4, <2>1
    <2> QED
      BY <1>2, <2>2 DEF Range
  <1> QED
    BY <1>1, <1>3, <1>4 DEF t

-----------------------------------------------------------------------------
(* The steps preserve the invariant.                                       *)

Plan == [order : Seq(SourceSet), left : Nat, taken : [Resource -> Nat],
         calls : [Name -> Nat], rows : [Name -> Nat]]

\* A worker without a plan has drawn nothing.
LEMMA NoPlanFacts ==
  /\ NoPlan \in Plan /\ NoPlan.order = <<>> /\ NoPlan.left = 0
  /\ NoPlan.calls = Zero(Name) /\ NoPlan.rows = Zero(Name)
  /\ NoPlan.taken = Zero(Resource) /\ \A r \in Resource : NoPlan.taken[r] = 0
  /\ Count(NoPlan.calls) = 0
  /\ \A r \in Resource : CountOf(NoPlan.calls, Spenders(r)) = 0
  <1>1. <<>> \in Seq(SourceSet) /\ Zero(Name) \in [Name -> Nat]
        /\ Zero(Resource) \in [Resource -> Nat]
    BY EmptySeq DEF Zero
  <1>2. NoPlan \in Plan
    BY <1>1 DEF NoPlan, Plan
  <1>3. \A r \in Resource : Spenders(r) \in SUBSET Name
    BY DEF Spenders
  <1>4. /\ NoPlan.calls = Zero(Name) /\ NoPlan.rows = Zero(Name)
        /\ NoPlan.taken = Zero(Resource) /\ NoPlan.order = <<>> /\ NoPlan.left = 0
    BY DEF NoPlan
  <1> QED
    BY <1>2, <1>3, <1>4, ZeroCounts DEF Zero

\* A worker that starts.
LEMMA InitPlanner == Init => PlannerInv
  <1> SUFFICES ASSUME Init
               PROVE  PlannerInv
    OBVIOUS
  <1>1. /\ backlog = Zero(Name) /\ running = Zero(Name) /\ in_flight = Zero(Resource)
        /\ cursor = 0 /\ freed = FALSE /\ loop = "top" /\ plan = NoPlan /\ late = {}
    BY DEF Init
  <1>2. Shapes
    <2>1. 0 \in 0..(Len(Sources) - 1)
      BY SourcesFacts
    <2>2. Zero(Resource) \in [Resource -> Nat]
      BY DEF Zero
    <2> QED
      BY <1>1, <2>1, <2>2, ZeroCounts, NoPlanFacts DEF Shapes, Plan
  <1>3. BudgetInv
    <2>1. Concurrency \in Nat \ {0} /\ \A r \in Resource : Capacity[r] \in Nat \ {0}
      BY PlannerInputs
    <2>2. Count(running) + Count(plan.calls) + plan.left <= Concurrency
      BY <1>1, <2>1, ZeroCounts, NoPlanFacts
    <2>3. \A r \in Resource : /\ Spenders(r) \in SUBSET Name
                              /\ in_flight[r] = 0 /\ plan.taken[r] = 0
      BY <1>1, NoPlanFacts DEF Spenders, Zero
    <2>4. \A r \in Resource :
            CountOf(running, Spenders(r)) = 0 /\ CountOf(plan.calls, Spenders(r)) = 0
      BY <1>1, <2>3, ZeroCounts, NoPlanFacts
    <2> QED
      BY <1>1, <2>1, <2>2, <2>3, <2>4 DEF BudgetInv
  <1>4. MissInv
    BY <1>1 DEF MissInv
  <1> QED
    BY <1>2, <1>3, <1>4 DEF PlannerInv

\* Dropping a plan frees what it had drawn.
LEMMA NoPlanIsInBudget ==
  ASSUME Shapes, BudgetInv, plan' = NoPlan, loop' # "opening",
         UNCHANGED <<running, in_flight>>
  PROVE  BudgetInv'
  <1>1. Count(running) \in Nat /\ Count(plan.calls) \in Nat /\ plan.left \in Nat
    BY Counts DEF Shapes
  <1>2. Count(running') + Count(plan'.calls) + plan'.left <= Concurrency
    BY <1>1, NoPlanFacts, PlannerInputs DEF BudgetInv
  <1>3. ASSUME NEW r \in Resource
        PROVE  /\ in_flight'[r] = CountOf(running', Spenders(r))
               /\ plan'.taken[r] = CountOf(plan'.calls, Spenders(r))
               /\ in_flight'[r] + plan'.taken[r] <= Capacity[r]
    <2>1. /\ in_flight[r] = CountOf(running, Spenders(r))
          /\ in_flight[r] + plan.taken[r] <= Capacity[r]
          /\ in_flight[r] \in Nat /\ plan.taken[r] \in Nat /\ Capacity[r] \in Nat
      BY PlannerInputs DEF BudgetInv, Shapes
    <2> QED
      BY <2>1, NoPlanFacts
  <1> QED
    BY <1>2, <1>3 DEF BudgetInv

\* A poll is to fill all the slots that are free.
LEMMA PollStep ==
  ASSUME PlannerInv, PollStarts
  PROVE  PlannerInv'
  <1>1. /\ Shapes /\ BudgetInv /\ plan = NoPlan /\ Free > 0
        /\ UNCHANGED <<backlog, running, in_flight, cursor, late>>
        /\ freed' = FALSE /\ loop' = "opening"
        /\ plan' = [NoPlan EXCEPT !.left = Free]
    BY DEF PollStarts, PlannerInv, BudgetInv
  <1>2. Free \in Nat /\ Free = Concurrency - Count(running) /\ Count(running) \in Nat
    <2>1. Count(running) \in Nat
      BY <1>1, Counts DEF Shapes
    <2>2. Concurrency \in Nat
      BY PlannerInputs
    <2> QED
      BY <1>1, <2>1, <2>2 DEF Free
  <1>3. /\ plan'.left = Free /\ plan' = [NoPlan EXCEPT !.left = plan'.left]
        /\ plan'.order = NoPlan.order /\ plan'.taken = NoPlan.taken
        /\ plan'.calls = NoPlan.calls /\ plan'.rows = NoPlan.rows
        /\ plan' \in Plan
    BY <1>1, <1>2, NoPlanFacts DEF Plan
  <1>4. Shapes'
    BY <1>1, <1>3 DEF Shapes, Plan
  <1>5. BudgetInv'
    <2>1. /\ Count(running') = Count(running) /\ Count(plan'.calls) = 0
          /\ Concurrency \in Nat
      BY <1>1, <1>3, NoPlanFacts, PlannerInputs
    <2>2. Count(running') + Count(plan'.calls) + plan'.left <= Concurrency
      BY <1>2, <1>3, <2>1
    <2> QED
      BY <1>1, <1>3, <2>2 DEF BudgetInv
  <1>6. MissInv'
    BY <1>1 DEF MissInv
  <1> QED
    BY <1>4, <1>5, <1>6 DEF PlannerInv

\* A probe that finds nothing ends it.
LEMMA ProbeStep ==
  ASSUME PlannerInv, ProbeIsEmpty
  PROVE  PlannerInv'
  <1>1. /\ Shapes /\ BudgetInv /\ Count(backlog) = 0
        /\ UNCHANGED <<backlog, running, in_flight, cursor, freed>>
        /\ plan' = NoPlan /\ loop' = "idle" /\ late' = {}
    BY DEF ProbeIsEmpty, PlannerInv
  <1>2. Shapes'
    BY <1>1, NoPlanFacts DEF Shapes, Plan
  <1>3. BudgetInv'
    BY <1>1, NoPlanIsInBudget
  <1>4. \A n \in Name : backlog[n] = 0
    BY <1>1, NothingCounted DEF Shapes
  <1>5. \A src \in Range(Sources) : src.names \subseteq Name
    BY SourcesFacts, RangeOfSeq, SourceIs
  <1>6. MissInv'
    BY <1>1, <1>4, <1>5 DEF MissInv, LookedAt
  <1> QED
    BY <1>2, <1>3, <1>6 DEF PlannerInv

\* The plan is to look at every source, and has looked at none.
LEMMA PlanStep ==
  ASSUME PlannerInv, PlanStarts
  PROVE  PlannerInv'
  <1>1. /\ Shapes /\ BudgetInv
        /\ UNCHANGED <<backlog, running, in_flight, freed, late>>
        /\ loop = "opening" /\ loop' = "session"
        /\ plan' = [plan EXCEPT !.order = Rotated(cursor)]
        /\ cursor' = (cursor + 1) % Len(Sources)
    BY DEF PlanStarts, PlannerInv
  <1>2. /\ Rotated(cursor) \in Seq(SourceSet)
        /\ Range(Sources) \subseteq Range(Rotated(cursor))
    BY <1>1, RotatedServesAll DEF Shapes
  <1>3. /\ plan'.order = Rotated(cursor) /\ plan'.left = plan.left
        /\ plan'.taken = plan.taken /\ plan'.calls = plan.calls
        /\ plan \in Plan /\ plan' \in Plan
    BY <1>1, <1>2 DEF Plan, Shapes
  <1>4. Shapes'
    <2>1. cursor' \in 0..(Len(Sources) - 1)
      BY <1>1, SourcesFacts DEF Shapes
    <2> QED
      BY <1>1, <1>3, <2>1 DEF Shapes, Plan
  <1>5. BudgetInv'
    BY <1>1, <1>3 DEF BudgetInv
  <1>6. MissInv'
    BY <1>1, <1>2, <1>3 DEF MissInv, BudgetInv
  <1> QED
    BY <1>4, <1>5, <1>6 DEF PlannerInv

\* A draw takes from the budget what it adds to the plan.
LEMMA DrawStep ==
  ASSUME PlannerInv, Draw
  PROVE  PlannerInv'
  <1> DEFINE src == Head(plan.order)
  <1>0. /\ Shapes /\ BudgetInv /\ plan.order # <<>> /\ plan.left > 0 /\ loop = "session"
        /\ plan \in Plan
    BY DEF Draw, PlannerInv, Shapes, Plan
  <1>1. /\ src \in SourceSet /\ Tail(plan.order) \in Seq(SourceSet)
        /\ Range(plan.order) \subseteq {src} \cup Range(Tail(plan.order))
    BY <1>0, FirstAndRest DEF Plan
  <1>2. PICK rows \in IF Quota(src) <= 0 THEN {Zero(Name)}
                      ELSE Drawn(src.names, src.batch * Quota(src)) :
          /\ backlog' = [n \in Name |-> backlog[n] - rows[n]]
          /\ plan' = [plan EXCEPT
               !.order = Tail(@),
               !.left = @ - Count(Chunks(rows, src.batch)),
               !.taken = [r \in Resource |->
                            IF r = src.resource
                            THEN @[r] + Count(Chunks(rows, src.batch)) ELSE @[r]],
               !.calls = Plus(@, Chunks(rows, src.batch)),
               !.rows = Plus(@, rows)]
          /\ late' = late \ src.names
    BY DEF Draw
  <1>3. UNCHANGED <<running, in_flight, cursor, freed, loop>>
    BY DEF Draw
  <1> DEFINE calls == Chunks(rows, src.batch)
             k == Count(calls)
  <1>4. /\ plan'.order = Tail(plan.order) /\ plan'.left = plan.left - k
        /\ plan'.taken = [r \in Resource |-> IF r = src.resource THEN plan.taken[r] + k
                                                               ELSE plan.taken[r]]
        /\ plan'.calls = Plus(plan.calls, calls) /\ plan'.rows = Plus(plan.rows, rows)
        /\ plan' = [order |-> plan'.order, left |-> plan'.left, taken |-> plan'.taken,
                    calls |-> plan'.calls, rows |-> plan'.rows]
    BY <1>0, <1>2 DEF Plan
  <1>5. /\ backlog' = [n \in Name |-> backlog[n] - rows[n]] /\ late' = late \ src.names
        /\ rows \in IF Quota(src) <= 0 THEN {Zero(Name)}
                    ELSE Drawn(src.names, src.batch * Quota(src))
    BY <1>2
  <1> HIDE <1>2
  <1>6. calls = Chunks(rows, src.batch)
    OBVIOUS
  <1> HIDE DEF src, calls
  <1>7. /\ rows \in [Name -> Nat] /\ \A n \in Name : rows[n] <= backlog[n]
        /\ calls \in [Name -> Nat] /\ \A n \in Name \ src.names : calls[n] = 0
        /\ Count(calls) = 0 \/ Count(calls) <= Quota(src)
        /\ Count(calls) = 0 => Quota(src) <= 0 \/ \A n \in src.names : backlog[n] = 0
    BY <1>0, <1>1, <1>5, <1>6, DrawIs
  <1>8. /\ Quota(src) \in Int /\ Quota(src) <= plan.left
        /\ src.resource # NoResource =>
             /\ src.resource \in Resource
             /\ Quota(src) <= Capacity[src.resource] - in_flight[src.resource]
                                - plan.taken[src.resource]
        /\ Quota(src) <= 0 =>
             /\ src.resource # NoResource
             /\ Capacity[src.resource] <= in_flight[src.resource]
                                            + plan.taken[src.resource]
    BY <1>0, <1>1, QuotaIs
  <1>9. /\ plan.left \in Nat /\ plan.calls \in [Name -> Nat] /\ plan.rows \in [Name -> Nat]
        /\ plan.taken \in [Resource -> Nat] /\ backlog \in [Name -> Nat]
        /\ running \in [Name -> Nat] /\ in_flight \in [Resource -> Nat]
    BY <1>0 DEF Shapes
  <1>10. k \in Nat /\ Count(plan.calls) \in Nat /\ Count(running) \in Nat
    BY <1>7, <1>9, Counts
  <1> HIDE DEF k
  <1>11. /\ plan'.left \in Nat /\ plan'.taken \in [Resource -> Nat]
         /\ plan'.calls \in [Name -> Nat] /\ plan'.rows \in [Name -> Nat]
         /\ Count(plan'.calls) = Count(plan.calls) + k
    <2>1. plan.left - k \in Nat
      BY <1>0, <1>7, <1>8, <1>9, <1>10 DEF k
    <2>2. plan'.taken \in [Resource -> Nat]
      BY <1>4, <1>9, <1>10
    <2>3. /\ Plus(plan.calls, calls) \in [Name -> Nat]
          /\ Plus(plan.rows, rows) \in [Name -> Nat]
          /\ Count(Plus(plan.calls, calls)) = Count(plan.calls) + Count(calls)
      <3>1. plan.calls \in [Name -> Nat] /\ calls \in [Name -> Nat]
        BY <1>7, <1>9
      <3>2. plan.rows \in [Name -> Nat] /\ rows \in [Name -> Nat]
        BY <1>7, <1>9
      <3>3. /\ Plus(plan.calls, calls) \in [Name -> Nat]
            /\ Count(Plus(plan.calls, calls)) = Count(plan.calls) + Count(calls)
        BY ONLY <3>1, PlusCounts
      <3>4. Plus(plan.rows, rows) \in [Name -> Nat]
        BY ONLY <3>2, PlusCounts
      <3> QED
        BY <3>3, <3>4
    <2> QED
      BY <1>4, <2>1, <2>2, <2>3 DEF k
  <1>12. plan' \in Plan
    BY <1>1, <1>4, <1>11 DEF Plan
  <1>13. \A n \in Name : backlog'[n] \in Nat /\ backlog'[n] <= backlog[n]
    <2> TAKE n \in Name
    <2>1. backlog'[n] = backlog[n] - rows[n] /\ rows[n] <= backlog[n]
          /\ backlog[n] \in Nat /\ rows[n] \in Nat
      BY <1>5, <1>7, <1>9
    <2> QED
      BY <2>1
  <1>14. Shapes'
    <2>1. backlog' \in [Name -> Nat]
      BY <1>5, <1>13
    <2>2. late' \subseteq Name
      BY <1>0, <1>5 DEF Shapes
    <2> QED
      BY <1>0, <1>3, <1>12, <2>1, <2>2 DEF Shapes, Plan
  <1>15. BudgetInv'
    <2>1. Count(running') + Count(plan'.calls) + plan'.left <= Concurrency
      <3>1. /\ Count(running) + Count(plan.calls) + plan.left <= Concurrency
            /\ Concurrency \in Nat
        BY <1>0, PlannerInputs DEF BudgetInv
      <3> QED
        BY <1>3, <1>4, <1>9, <1>10, <1>11, <3>1
    <2>2. ASSUME NEW r \in Resource
          PROVE  /\ in_flight'[r] = CountOf(running', Spenders(r))
                 /\ plan'.taken[r] = CountOf(plan'.calls, Spenders(r))
                 /\ in_flight'[r] + plan'.taken[r] <= Capacity[r]
      <3>1. /\ in_flight[r] = CountOf(running, Spenders(r))
            /\ plan.taken[r] = CountOf(plan.calls, Spenders(r))
            /\ in_flight[r] + plan.taken[r] <= Capacity[r]
            /\ in_flight[r] \in Nat /\ plan.taken[r] \in Nat /\ Capacity[r] \in Nat
        BY <1>0, <1>9, PlannerInputs DEF BudgetInv
      <3>2. CountOf(calls, Spenders(r)) = IF r = src.resource THEN k ELSE 0
        BY <1>1, <1>7, CallsAreCharged DEF k
      <3>3. Spenders(r) \in SUBSET Name
        BY DEF Spenders
      <3>4. CountOf(plan'.calls, Spenders(r))
              = CountOf(plan.calls, Spenders(r)) + CountOf(calls, Spenders(r))
        <4>1. plan.calls \in [Name -> Nat] /\ calls \in [Name -> Nat]
          BY <1>7, <1>9
        <4>2. CountOf(Plus(plan.calls, calls), Spenders(r))
                = CountOf(plan.calls, Spenders(r)) + CountOf(calls, Spenders(r))
          BY ONLY <3>3, <4>1, PlusCounts
        <4> QED
          BY <1>4, <4>2
      <3>5. plan'.taken[r] = IF r = src.resource THEN plan.taken[r] + k ELSE plan.taken[r]
        BY <1>4
      <3>6. plan'.taken[r] = CountOf(plan'.calls, Spenders(r))
        BY <1>10, <3>1, <3>2, <3>4, <3>5
      <3>7. in_flight[r] + plan'.taken[r] <= Capacity[r]
        <4>1. CASE r = src.resource
          <5>1. src.resource # NoResource
            BY <4>1, PlannerInputs
          <5>2. k = 0 \/ k <= Capacity[r] - in_flight[r] - plan.taken[r]
            BY <1>7, <1>8, <1>10, <3>1, <4>1, <5>1 DEF k
          <5> QED
            BY <1>10, <3>1, <3>5, <4>1, <5>2
        <4>2. CASE r # src.resource
          BY <3>1, <3>5, <4>2
        <4> QED
          BY <4>1, <4>2
      <3> QED
        BY <1>3, <3>1, <3>6, <3>7
    <2> QED
      BY <1>0, <1>3, <2>1, <2>2 DEF BudgetInv
  <1>16. MissInv'
    <2> SUFFICES ASSUME Count(plan'.calls) = 0
                 PROVE  /\ plan'.left > 0
                        /\ ~freed => \A s \in Range(Sources) \ Range(plan'.order) : LookedAt(s)'
      BY <1>0, <1>3 DEF MissInv
    <2>1. k = 0 /\ Count(plan.calls) = 0
      BY <1>10, <1>11
    <2>2. plan'.left > 0
      BY <1>0, <1>4, <1>9, <2>1
    <2> SUFFICES ASSUME ~freed, NEW s \in Range(Sources), s \notin Range(plan'.order)
                 PROVE  LookedAt(s)'
      BY <2>2
    <2>3. s \in SourceSet /\ s.names \subseteq Name
      BY SourcesFacts, RangeOfSeq, SourceIs
    <2>4. CASE s = src
      <3>1. CASE Quota(src) <= 0
        <4>1. src.resource \in Resource /\ src.resource # NoResource
          BY <1>8, <3>1
        <4>2. Spenders(src.resource) \in SUBSET Name
          BY DEF Spenders
        <4>3. plan.taken[src.resource] = 0
          BY <1>0, <1>9, <2>1, <4>1, <4>2, NothingCounted DEF BudgetInv
        <4>4. Capacity[src.resource] \in Nat /\ in_flight[src.resource] \in Nat
          BY <1>9, <4>1, PlannerInputs
        <4>5. ~(in_flight[src.resource] < Capacity[src.resource])
          BY <1>8, <3>1, <4>3, <4>4
        <4> QED
          BY <1>3, <2>4, <4>1, <4>5 DEF LookedAt
      <3>2. CASE \A n \in src.names : backlog[n] = 0
        <4>1. \A n \in s.names : ~(backlog'[n] > 0)
          BY <1>13, <2>3, <2>4, <3>2
        <4> QED
          BY <4>1 DEF LookedAt
      <3> QED
        BY <1>7, <2>1, <3>1, <3>2 DEF k
    <2>5. CASE s # src
      <3>1. s \notin Range(plan.order)
        BY <1>1, <1>4, <2>5
      <3>2. LookedAt(s)
        BY <1>0, <2>1, <3>1 DEF PlannerInv, MissInv
      <3>3. \A n \in s.names : n \notin src.names
        BY <1>1, <2>3, <2>5, SourceOfName
      <3>4. \A n \in s.names : backlog'[n] > 0 => backlog[n] > 0
        BY <1>9, <1>13, <2>3
      <3> QED
        BY <1>3, <1>5, <3>2, <3>3, <3>4 DEF LookedAt
    <2> QED
      BY <2>4, <2>5
  <1> QED
    BY <1>14, <1>15, <1>16 DEF PlannerInv

\* Dispatching charges what was drawn.
LEMMA DispatchStep ==
  ASSUME PlannerInv, Dispatch
  PROVE  PlannerInv'
  <1>1. /\ Shapes /\ BudgetInv /\ MissInv /\ PlanIsDone /\ loop = "session"
        /\ plan.order = <<>> \/ plan.left <= 0
        /\ running' = Plus(running, plan.calls)
        /\ in_flight' = Plus(in_flight, plan.taken)
        /\ loop' = IF Count(plan.calls) = 0 THEN "idle" ELSE "top"
        /\ plan' = NoPlan /\ UNCHANGED <<backlog, cursor, freed, late>>
    BY DEF Dispatch, PlanIsDone, PlannerInv
  <1>2. /\ plan.left \in Nat /\ plan.calls \in [Name -> Nat]
        /\ plan.taken \in [Resource -> Nat] /\ running \in [Name -> Nat]
        /\ in_flight \in [Resource -> Nat]
    BY <1>1 DEF Shapes
  <1>3. Count(plan.calls) \in Nat /\ Count(running) \in Nat
    BY <1>2, Counts
  <1>4. /\ Plus(running, plan.calls) \in [Name -> Nat]
        /\ Count(Plus(running, plan.calls)) = Count(running) + Count(plan.calls)
        /\ \A S \in SUBSET Name :
             CountOf(Plus(running, plan.calls), S)
               = CountOf(running, S) + CountOf(plan.calls, S)
    <2>1. running \in [Name -> Nat] /\ plan.calls \in [Name -> Nat]
      BY <1>2
    <2> QED
      BY ONLY <2>1, PlusCounts
  <1>5. /\ in_flight' \in [Resource -> Nat]
        /\ \A r \in Resource : in_flight'[r] = in_flight[r] + plan.taken[r]
    BY <1>1, <1>2 DEF Plus
  <1>6. Shapes'
    BY <1>1, <1>4, <1>5, NoPlanFacts DEF Shapes, Plan
  <1>7. BudgetInv'
    <2>1. Count(running') + Count(plan'.calls) + plan'.left <= Concurrency
      <3>1. Count(running) + Count(plan.calls) + plan.left <= Concurrency
            /\ Concurrency \in Nat
        BY <1>1, PlannerInputs DEF BudgetInv
      <3>2. Count(running') = Count(running) + Count(plan.calls)
            /\ Count(plan'.calls) = 0 /\ plan'.left = 0
        BY <1>1, <1>4, NoPlanFacts
      <3> QED
        BY <1>2, <1>3, <3>1, <3>2
    <2>2. ASSUME NEW r \in Resource
          PROVE  /\ in_flight'[r] = CountOf(running', Spenders(r))
                 /\ plan'.taken[r] = CountOf(plan'.calls, Spenders(r))
                 /\ in_flight'[r] + plan'.taken[r] <= Capacity[r]
      <3>1. /\ in_flight[r] = CountOf(running, Spenders(r))
            /\ plan.taken[r] = CountOf(plan.calls, Spenders(r))
            /\ in_flight[r] + plan.taken[r] <= Capacity[r]
            /\ in_flight[r] \in Nat /\ plan.taken[r] \in Nat
        BY <1>1, <1>2 DEF BudgetInv
      <3>2. Spenders(r) \in SUBSET Name
        BY DEF Spenders
      <3>3. CountOf(running', Spenders(r)) = in_flight'[r]
        BY <1>1, <1>4, <1>5, <3>1, <3>2
      <3>4. plan'.taken[r] = 0 /\ CountOf(plan'.calls, Spenders(r)) = 0
        BY <1>1, NoPlanFacts
      <3> QED
        BY <1>5, <3>1, <3>3, <3>4
    <2>3. plan' = NoPlan /\ loop' # "opening"
      BY <1>1
    <2> QED
      BY <2>1, <2>2, <2>3 DEF BudgetInv
  <1>8. MissInv'
    <2> SUFFICES ASSUME loop' = "idle", ~freed, NEW src \in Range(Sources)
                 PROVE  LookedAt(src)'
      BY <1>1 DEF MissInv
    <2>1. Count(plan.calls) = 0
      BY <1>1
    <2>2. plan.order = <<>>
      BY <1>1, <1>2, <2>1 DEF MissInv
    <2>3. src \notin Range(plan.order)
      BY <2>2 DEF Range
    <2>4. LookedAt(src)
      BY <1>1, <2>1, <2>3 DEF MissInv
    <2>5. src \in SourceSet /\ src.resource \in Resource \cup {NoResource}
      BY SourcesFacts, RangeOfSeq, SourceIs
    <2>6. ASSUME src.resource \in Resource
          PROVE  in_flight'[src.resource] = in_flight[src.resource]
      <3>1. Spenders(src.resource) \in SUBSET Name
        BY DEF Spenders
      <3>2. CountOf(plan.calls, Spenders(src.resource)) = 0
        BY <1>2, <2>1, <3>1, NothingCounted
      <3>3. plan.taken[src.resource] = 0 /\ in_flight[src.resource] \in Nat
        BY <1>1, <1>2, <2>6, <3>2 DEF BudgetInv
      <3> QED
        BY <1>5, <2>6, <3>3
    <2> QED
      BY <1>1, <2>4, <2>5, <2>6 DEF LookedAt
  <1> QED
    BY <1>6, <1>7, <1>8 DEF PlannerInv

\* A claim that raises drops it.
LEMMA ClaimFailsStep ==
  ASSUME PlannerInv, ClaimFails
  PROVE  PlannerInv'
  <1>1. /\ Shapes /\ BudgetInv /\ backlog' = Plus(backlog, plan.rows)
        /\ plan' = NoPlan /\ loop' = "backoff"
        /\ UNCHANGED <<running, in_flight, cursor, freed, late>>
    BY DEF ClaimFails, PlannerInv
  <1>2. Shapes'
    <2>1. backlog \in [Name -> Nat] /\ plan.rows \in [Name -> Nat]
      BY <1>1 DEF Shapes
    <2>2. Plus(backlog, plan.rows) \in [Name -> Nat]
      BY ONLY <2>1, PlusCounts
    <2> QED
      BY <1>1, <2>2, NoPlanFacts DEF Shapes, Plan
  <1>3. BudgetInv'
    BY <1>1, NoPlanIsInBudget
  <1>4. MissInv'
    BY <1>1 DEF MissInv
  <1> QED
    BY <1>2, <1>3, <1>4 DEF PlannerInv

\* A call that ends gives back its slot and its unit.
LEMMA FinishStep ==
  ASSUME PlannerInv, NEW n \in Name, Finish(n)
  PROVE  PlannerInv'
  <1>1. /\ Shapes /\ BudgetInv /\ MissInv /\ running[n] > 0
        /\ running' = [running EXCEPT ![n] = @ - 1]
        /\ IF ResourceOf(n) = NoResource THEN UNCHANGED <<in_flight, freed>>
           ELSE /\ in_flight' = [in_flight EXCEPT ![ResourceOf(n)] = @ - 1]
                /\ freed' = TRUE
        /\ UNCHANGED <<backlog, cursor, loop, plan, late>>
    BY DEF Finish, PlannerInv
  <1>2. running \in [Name -> Nat] /\ in_flight \in [Resource -> Nat]
        /\ freed \in BOOLEAN
    BY <1>1 DEF Shapes
  <1>3. /\ running' \in [Name -> Nat]
        /\ Count(running') = Count(running) - 1
        /\ \A S \in SUBSET Name :
             CountOf(running', S) = CountOf(running, S) - (IF n \in S THEN 1 ELSE 0)
    <2>1. /\ running \in [Name -> Nat] /\ running[n] > 0 /\ running' \in [Name -> Nat]
          /\ running'[n] = running[n] - 1
          /\ \A m \in Name \ {n} : running'[m] = running[m]
      BY <1>1, <1>2
    <2>2. n \in Name
      OBVIOUS
    <2> QED
      BY ONLY <2>1, <2>2, MinusOneCounts
  <1>4. \A r \in Resource : /\ Spenders(r) \in SUBSET Name
                            /\ n \in Spenders(r) <=> r = ResourceOf(n)
    BY DEF Spenders
  <1>5. \A r \in Resource : /\ in_flight[r] = CountOf(running, Spenders(r))
                            /\ in_flight'[r] = IF r = ResourceOf(n) THEN in_flight[r] - 1
                                                                   ELSE in_flight[r]
                            /\ in_flight'[r] = CountOf(running', Spenders(r))
    <2> TAKE r \in Resource
    <2>1. in_flight[r] = CountOf(running, Spenders(r))
      BY <1>1 DEF BudgetInv
    <2>2. in_flight'[r] = IF r = ResourceOf(n) THEN in_flight[r] - 1 ELSE in_flight[r]
      <3>1. r # NoResource
        BY PlannerInputs
      <3> QED
        BY <1>1, <1>2, <3>1
    <2>3. CountOf(running', Spenders(r))
            = CountOf(running, Spenders(r)) - (IF r = ResourceOf(n) THEN 1 ELSE 0)
      BY <1>3, <1>4
    <2>4. in_flight[r] \in Nat
      BY <1>2
    <2> QED
      BY <2>1, <2>2, <2>3, <2>4
  <1>6. Shapes'
    <2>1. running' \in [Name -> Nat]
      BY <1>1, <1>3
    <2>2. \A r \in Resource : in_flight'[r] \in Nat
      BY <1>4, <1>5, <2>1, Counts
    <2>3. DOMAIN in_flight' = Resource /\ in_flight' = [r \in Resource |-> in_flight'[r]]
      BY <1>1, <1>2
    <2>4. in_flight' \in [Resource -> Nat]
      BY <2>2, <2>3
    <2>5. freed' \in BOOLEAN
      BY <1>1, <1>2
    <2> QED
      BY <1>1, <2>1, <2>4, <2>5 DEF Shapes
  <1>7. BudgetInv'
    <2>1. Count(running') + Count(plan'.calls) + plan'.left <= Concurrency
      <3>1. /\ Count(running) + Count(plan.calls) + plan.left <= Concurrency
            /\ Concurrency \in Nat
        BY <1>1, PlannerInputs DEF BudgetInv
      <3>2. Count(running) \in Nat /\ Count(plan.calls) \in Nat /\ plan.left \in Nat
        BY <1>1, Counts DEF Shapes
      <3>3. Count(running') = Count(running) - 1 /\ plan' = plan
        BY <1>1, <1>3
      <3> QED
        BY <3>1, <3>2, <3>3
    <2>2. ASSUME NEW r \in Resource
          PROVE  in_flight'[r] + plan'.taken[r] <= Capacity[r]
      <3>1. /\ in_flight[r] + plan.taken[r] <= Capacity[r]
            /\ in_flight[r] \in Nat /\ plan.taken[r] \in Nat /\ Capacity[r] \in Nat
        BY <1>1, <1>2, PlannerInputs DEF BudgetInv, Shapes
      <3> QED
        BY <1>1, <1>5, <3>1
    <2> QED
      BY <1>1, <1>5, <2>1, <2>2 DEF BudgetInv
  <1>8. MissInv'
    <2>1. freed' \/ UNCHANGED <<in_flight, freed>>
      BY <1>1
    <2> QED
      BY <1>1, <2>1 DEF MissInv, LookedAt
  <1> QED
    BY <1>6, <1>7, <1>8 DEF PlannerInv

\* The sleep ends.
LEMMA WakeStep ==
  ASSUME PlannerInv, WakeOnRelease \/ WakeOnTime
  PROVE  PlannerInv'
  <1>1. /\ Shapes /\ BudgetInv /\ loop' = "top" /\ plan = NoPlan
        /\ UNCHANGED <<backlog, running, in_flight, cursor, freed, plan, late>>
    BY DEF WakeOnRelease, WakeOnTime, PlannerInv, BudgetInv
  <1>2. Shapes' /\ MissInv'
    BY <1>1 DEF Shapes, MissInv
  <1>3. BudgetInv'
    BY <1>1 DEF BudgetInv
  <1> QED
    BY <1>2, <1>3 DEF PlannerInv

\* Rows come due.
LEMMA ArriveStep ==
  ASSUME PlannerInv, NEW n \in Name, Arrive(n)
  PROVE  PlannerInv'
  <1>1. /\ Shapes /\ BudgetInv /\ MissInv
        /\ backlog' = [backlog EXCEPT ![n] = @ + 1] /\ late' = late \cup {n}
        /\ UNCHANGED <<running, in_flight, cursor, freed, loop, plan>>
    BY DEF Arrive, PlannerInv
  <1>2. \A m \in Name : m = n \/ backlog'[m] = backlog[m]
    BY <1>1 DEF Shapes
  <1>3. Shapes'
    <2>1. backlog' \in [Name -> Nat] /\ late' \subseteq Name
      BY <1>1 DEF Shapes
    <2> QED
      BY <1>1, <2>1 DEF Shapes
  <1>4. BudgetInv'
    BY <1>1 DEF BudgetInv
  <1>5. MissInv'
    <2>1. \A src \in Range(Sources) : src.names \subseteq Name
      BY SourcesFacts, RangeOfSeq, SourceIs
    <2>2. \A src \in Range(Sources) : LookedAt(src) => LookedAt(src)'
      BY <1>1, <1>2, <2>1 DEF LookedAt
    <2> QED
      BY <1>1, <2>2 DEF MissInv
  <1> QED
    BY <1>3, <1>4, <1>5 DEF PlannerInv

\* Every step keeps the invariant.
LEMMA NextPlanner == PlannerInv /\ [Next]_vars => PlannerInv'
  <1> SUFFICES ASSUME PlannerInv, [Next]_vars
               PROVE  PlannerInv'
    OBVIOUS
  <1>1. CASE PollStarts
    BY <1>1, PollStep
  <1>2. CASE ProbeIsEmpty
    BY <1>2, ProbeStep
  <1>3. CASE Draw
    BY <1>3, DrawStep
  <1>4. CASE Dispatch
    BY <1>4, DispatchStep
  <1>5. CASE ClaimFails
    BY <1>5, ClaimFailsStep
  <1>6. CASE WakeOnRelease \/ WakeOnTime
    BY <1>6, WakeStep
  <1>7. ASSUME NEW n \in Name, Finish(n)
        PROVE  PlannerInv'
    BY <1>7, FinishStep
  <1>8. ASSUME NEW n \in Name, Arrive(n)
        PROVE  PlannerInv'
    BY <1>8, ArriveStep
  <1>9. CASE PlanStarts
    BY <1>9, PlanStep
  <1>10. CASE UNCHANGED vars
    BY <1>10 DEF vars, PlannerInv, Shapes, BudgetInv, MissInv, LookedAt
  <1> QED
    BY <1>1, <1>2, <1>3, <1>4, <1>5, <1>6, <1>7, <1>8, <1>9, <1>10 DEF Next

-----------------------------------------------------------------------------
(* What holds of every behaviour.                                          *)

\* The invariant the others follow from: the slots and units that are running,
\* drawn, or still the poll's to draw never exceed what there is.
THEOREM PlannerInvariant == Spec => []PlannerInv
  BY InitPlanner, NextPlanner, PTL DEF Spec

\* A worker's counters never go below zero and its cursor always names a source.
THEOREM CountersAreSound == Spec => []TypeOK
  <1>1. PlannerInv => TypeOK
    BY DEF PlannerInv, Shapes, TypeOK
  <1> QED
    BY <1>1, PlannerInvariant, PTL

\* Whatever is registered, and however completions interleave with a claim, a
\* worker exceeds neither its concurrency nor a resource's ceiling
\* (_ClaimPlanner.plan, Worker._deliveries).
THEOREM NoOverspending == Spec => []WithinBudget
  <1>1. PlannerInv => WithinBudget
    <2> SUFFICES ASSUME PlannerInv
                 PROVE  WithinBudget
      OBVIOUS
    <2>1. /\ Shapes /\ BudgetInv /\ running \in [Name -> Nat]
          /\ plan.calls \in [Name -> Nat] /\ plan.left \in Nat
      BY DEF PlannerInv, Shapes
    <2>2. Count(running) + Count(plan.calls) <= Concurrency
      <3>1. Count(running) \in Nat /\ Count(plan.calls) \in Nat /\ Concurrency \in Nat
        BY <2>1, Counts, PlannerInputs
      <3> QED
        BY <2>1, <3>1 DEF BudgetInv
    <2>3. ASSUME NEW r \in Resource
          PROVE  CountOf(Plus(running, plan.calls), Spenders(r)) <= Capacity[r]
      <3>1. Spenders(r) \in SUBSET Name
        BY DEF Spenders
      <3>2. running \in [Name -> Nat] /\ plan.calls \in [Name -> Nat]
        BY <2>1
      <3>3. CountOf(Plus(running, plan.calls), Spenders(r))
              = CountOf(running, Spenders(r)) + CountOf(plan.calls, Spenders(r))
        BY ONLY <3>1, <3>2, PlusCounts
      <3> QED
        BY <2>1, <3>3 DEF BudgetInv
    <2> QED
      BY <2>2, <2>3 DEF WithinBudget
  <1> QED
    BY <1>1, PlannerInvariant, PTL

\* Every unit charged belongs to a call in flight (acquire, release): none
\* leaks, none is returned twice.
THEOREM ChargesAreReturned == Spec => []ChargesMatchCalls
  <1>1. PlannerInv => ChargesMatchCalls
    BY DEF PlannerInv, BudgetInv, ChargesMatchCalls
  <1> QED
    BY <1>1, PlannerInvariant, PTL

\* A unit released while the poll was claiming ends the sleep that follows, so
\* the loop never sleeps on work it has room for (_freed, Worker._idle).
THEOREM ReleasesAreSeen == Spec => []NoMissedRelease
  <1>1. PlannerInv => NoMissedRelease
    <2> SUFFICES ASSUME PlannerInv, loop = "idle", ~freed, NEW i \in DOMAIN Sources
                 PROVE  LookedAt(Sources[i])
      BY DEF NoMissedRelease, LookedAt
    <2>1. Sources[i] \in Range(Sources)
      BY DEF Range
    <2> QED
      BY <2>1 DEF PlannerInv, MissInv
  <1> QED
    BY <1>1, PlannerInvariant, PTL
===============================================================================
