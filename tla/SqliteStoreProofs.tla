--------------------------- MODULE SqliteStoreProofs ---------------------------
(***************************************************************************)
(* Proofs about SqliteStore for any number of operations, calls of close() *)
(* and retries: writes apply once and in order, a transaction has an owner, *)
(* acknowledgements hold, and close() leaves no write it owes behind.      *)
(***************************************************************************)
EXTENDS SqliteStore, SequenceTheorems, TLAPS

-----------------------------------------------------------------------------
(* Lines.                                                                  *)

Line(s, S) == s \in Seq(S) /\ IsInjective(s)

\* Lines: sequences that name nobody twice.
LEMMA EmptyLine == \A S : Line(<<>>, S) /\ ToSet(<<>>) = {}
  <1> TAKE S
  <1>1. <<>> \in Seq(S) /\ Len(<<>>) = 0
    BY EmptySeq
  <1>2. DOMAIN <<>> = {}
    BY <1>1, LenProperties
  <1> QED
    BY <1>1, <1>2 DEF Line, IsInjective, ToSet

\* A line without anybody is empty.
LEMMA NobodyInLine ==
  ASSUME NEW S, NEW s, Line(s, S), ToSet(s) = {}
  PROVE  s = <<>>
  <1>1. s \in Seq(S) /\ DOMAIN s = 1..Len(s) /\ Len(s) \in Nat
    BY LenProperties DEF Line
  <1>2. 1 \notin DOMAIN s
    BY DEF ToSet
  <1> QED
    BY <1>1, <1>2, EmptySeq

\* A newcomer joins at the back; the front is whoever it was.
LEMMA AppendLine ==
  ASSUME NEW S, NEW s, Line(s, S), NEW e \in S, e \notin ToSet(s)
  PROVE  /\ Line(Append(s, e), S)
         /\ ToSet(Append(s, e)) = ToSet(s) \cup {e}
         /\ Append(s, e) # <<>>
         /\ Head(Append(s, e)) = IF s = <<>> THEN e ELSE Head(s)
  <1> DEFINE t == Append(s, e)
  <1>0. s \in Seq(S)
    BY DEF Line
  <1>1. /\ t \in Seq(S) /\ t # <<>> /\ Len(t) = Len(s) + 1
        /\ \A i \in 1..Len(s) : t[i] = s[i]
        /\ t[Len(s) + 1] = e
    BY <1>0, AppendProperties
  <1>2. /\ DOMAIN s = 1..Len(s) /\ DOMAIN t = 1..Len(t)
        /\ Len(s) \in Nat
    BY <1>0, <1>1, LenProperties
  <1>3. Head(t) = IF s = <<>> THEN e ELSE Head(s)
    BY <1>0, HeadTailAppend
  <1> HIDE DEF t
  <1>4. \A i \in DOMAIN s : s[i] # e
    BY DEF ToSet
  <1>5. IsInjective(t)
    BY <1>1, <1>2, <1>4 DEF IsInjective, Line
  <1>6. ToSet(t) = ToSet(s) \cup {e}
    BY <1>1, <1>2 DEF ToSet
  <1> QED
    BY <1>1, <1>3, <1>5, <1>6 DEF Line, t

\* The front leaves.
LEMMA TailLine ==
  ASSUME NEW S, NEW s, Line(s, S), s # <<>>
  PROVE  /\ Line(Tail(s), S)
         /\ ToSet(Tail(s)) = ToSet(s) \ {Head(s)}
         /\ Head(s) \in ToSet(s) /\ Head(s) \in S
  <1> DEFINE t == Tail(s)
  <1>0. s \in Seq(S)
    BY DEF Line
  <1>1. /\ t \in Seq(S) /\ Len(t) = Len(s) - 1
        /\ \A i \in 1..Len(t) : t[i] = s[i + 1]
        /\ Head(s) \in S
    BY <1>0, HeadTailProperties
  <1>2. /\ DOMAIN s = 1..Len(s) /\ DOMAIN t = 1..Len(t)
        /\ Len(s) \in Nat /\ Len(s) # 0
    BY <1>0, <1>1, LenProperties, EmptySeq
  <1>3. Head(s) = s[1]
    OBVIOUS
  <1> HIDE DEF t
  <1>4. IsInjective(t)
    <2>1. \A i, j \in 1..Len(s) : s[i] = s[j] => i = j
      BY <1>2 DEF IsInjective, Line
    <2>2. ASSUME NEW i \in 1..Len(t), NEW j \in 1..Len(t), t[i] = t[j]
          PROVE  i = j
      <3>1. i + 1 \in 1..Len(s) /\ j + 1 \in 1..Len(s)
        BY <1>1, <1>2
      <3>2. s[i + 1] = s[j + 1]
        BY <1>1, <2>2
      <3> QED
        BY <2>1, <3>1, <3>2
    <2> QED
      BY <1>2, <2>2 DEF IsInjective
  <1>5. ToSet(t) = ToSet(s) \ {s[1]}
    <2>1. ASSUME NEW x \in ToSet(s), x # s[1]
          PROVE  x \in ToSet(t)
      <3>1. PICK i \in 1..Len(s) : s[i] = x
        BY <1>2 DEF ToSet
      <3>2. i - 1 \in 1..Len(t) /\ t[i - 1] = x
        BY <1>1, <1>2, <2>1, <3>1
      <3> QED
        BY <1>2, <3>2 DEF ToSet
    <2>2. ASSUME NEW x \in ToSet(t)
          PROVE  x \in ToSet(s) /\ x # s[1]
      <3>1. PICK i \in 1..Len(t) : t[i] = x
        BY <1>2 DEF ToSet
      <3>2. i + 1 \in 1..Len(s) /\ s[i + 1] = x /\ i + 1 # 1 /\ 1 \in 1..Len(s)
        BY <1>1, <1>2, <3>1
      <3> QED
        BY <1>2, <3>2 DEF ToSet, IsInjective, Line
    <2> QED
      BY <2>1, <2>2
  <1> QED
    BY <1>1, <1>2, <1>3, <1>4, <1>5 DEF Line, ToSet, t

\* Somebody leaves, and the others keep their places.
LEMMA RemoveLine ==
  ASSUME NEW S, NEW s, Line(s, S), NEW p
  PROVE  /\ Line(RemoveFirst(s, p), S)
         /\ ToSet(RemoveFirst(s, p)) = ToSet(s) \ {p}
         /\ s # <<>> /\ Head(s) # p =>
              RemoveFirst(s, p) # <<>> /\ Head(RemoveFirst(s, p)) = Head(s)
  <1>0. s \in Seq(S)
    BY DEF Line
  <1>1. DOMAIN s = 1..Len(s) /\ Len(s) \in Nat /\ \A i \in 1..Len(s) : s[i] \in S
    BY <1>0, LenProperties
  <1>2. CASE ~ \E i \in 1..Len(s) : s[i] = p
    <2>1. RemoveFirst(s, p) = s
      BY <1>2 DEF RemoveFirst
    <2>2. p \notin ToSet(s)
      BY <1>1, <1>2 DEF ToSet
    <2> QED
      BY <2>1, <2>2
  <1>3. CASE \E i \in 1..Len(s) : s[i] = p
    <2> PICK k \in 1..Len(s) : s[k] = p
      BY <1>3
    <2> DEFINE I == {i \in 1..Len(s) : s[i] = p}
               a == SubSeq(s, 1, k - 1)
               b == SubSeq(s, k + 1, Len(s))
               t == a \o b
    <2>1. I = {k}
      BY <1>1 DEF IsInjective, Line
    <2>2. Min(I) = k
      BY <2>1 DEF Min
    <2>3. SelectInSeq(s, LAMBDA v : v = p) = k
      BY <2>1, <2>2 DEF SelectInSeq
    <2>4. RemoveFirst(s, p) = t
      BY <1>3, <2>3 DEF RemoveFirst, RemoveAt
    <2>5. /\ a \in Seq(S) /\ Len(a) = k - 1
          /\ \A i \in 1..(k - 1) : a[i] = s[i]
      BY <1>1, SubSeqProperties
    <2>6. /\ b \in Seq(S) /\ Len(b) = Len(s) - k
          /\ \A i \in 1..(Len(s) - k) : b[i] = s[k + i]
      <3>1. \A i \in (k + 1)..Len(s) : s[i] \in S
        BY <1>1
      <3>2. /\ b \in Seq(S)
            /\ Len(b) = IF k + 1 <= Len(s) THEN Len(s) - (k + 1) + 1 ELSE 0
            /\ \A i \in 1..(Len(s) - (k + 1) + 1) : b[i] = s[k + 1 + i - 1]
        BY <1>1, <3>1, SubSeqProperties
      <3> HIDE DEF b
      <3>3. \A i \in 1..(Len(s) - k) :
              i \in 1..(Len(s) - (k + 1) + 1) /\ k + 1 + i - 1 = k + i
        BY <1>1
      <3>4. Len(b) = Len(s) - k
        <4>1. Len(b) = IF k + 1 <= Len(s) THEN Len(s) - (k + 1) + 1 ELSE 0
          BY <3>2
        <4>2. k \in 1..Len(s) /\ Len(s) \in Nat
          BY <1>1
        <4> QED
          BY <4>1, <4>2, SMT
      <3> QED
        BY <3>2, <3>3, <3>4
    <2>7. /\ t \in Seq(S) /\ Len(t) = Len(a) + Len(b)
          /\ \A i \in 1..(Len(a) + Len(b)) :
               t[i] = IF i <= Len(a) THEN a[i] ELSE b[i - Len(a)]
      BY <2>5, <2>6, ConcatProperties
    <2> HIDE DEF a, b, t
    <2>8. /\ Len(t) = Len(s) - 1
          /\ \A i \in 1..Len(t) : t[i] = IF i < k THEN s[i] ELSE s[i + 1]
      BY <1>1, <2>5, <2>6, <2>7
    <2>9. DOMAIN t = 1..Len(t)
      BY <2>7, LenProperties
    <2>10. IsInjective(t)
      <3> SUFFICES ASSUME NEW i \in 1..Len(t), NEW j \in 1..Len(t), t[i] = t[j]
                   PROVE  i = j
        BY <2>9 DEF IsInjective
      <3>1. \A m, n \in 1..Len(s) : s[m] = s[n] => m = n
        BY <1>1 DEF IsInjective, Line
      <3> QED
        BY <1>1, <2>8, <3>1
    <2>11. ToSet(t) = ToSet(s) \ {p}
      <3>1. ASSUME NEW x \in ToSet(s), x # p
            PROVE  x \in ToSet(t)
        <4>1. PICK i \in 1..Len(s) : s[i] = x
          BY <1>1 DEF ToSet
        <4>2. CASE i < k
          BY <1>1, <2>8, <2>9, <4>1, <4>2 DEF ToSet
        <4>3. CASE i > k
          <5>1. i - 1 \in 1..Len(t) /\ t[i - 1] = x
            BY <1>1, <2>8, <4>1, <4>3
          <5> QED
            BY <2>9, <5>1 DEF ToSet
        <4> QED
          BY <1>1, <3>1, <4>1, <4>2, <4>3
      <3>2. ASSUME NEW x \in ToSet(t)
            PROVE  x \in ToSet(s) /\ x # p
        <4>1. PICK i \in 1..Len(t) : t[i] = x
          BY <2>9 DEF ToSet
        <4>2. \E j \in 1..Len(s) : j # k /\ s[j] = x
          BY <1>1, <2>8, <4>1
        <4> QED
          BY <1>1, <4>2 DEF ToSet, IsInjective, Line
      <3> QED
        BY <3>1, <3>2
    <2>12. s # <<>> /\ Head(s) # p => t # <<>> /\ Head(t) = Head(s)
      <3> HAVE s # <<>> /\ Head(s) # p
      <3>1. Head(s) = s[1]
        OBVIOUS
      <3>2. k > 1 /\ 1 \in 1..Len(t) /\ t[1] = s[1]
        BY <1>1, <2>8, <3>1
      <3>3. t # <<>>
        BY <2>9, <3>2, EmptySeq
      <3> QED
        BY <3>1, <3>2, <3>3
    <2> QED
      BY <2>4, <2>7, <2>10, <2>11, <2>12 DEF Line
  <1> QED
    BY <1>2, <1>3

\* Two lines without a common name make one.
LEMMA JoinedLines ==
  ASSUME NEW S, NEW s, Line(s, S), NEW t, Line(t, S), ToSet(s) \cap ToSet(t) = {}
  PROVE  Line(s \o t, S) /\ ToSet(s \o t) = ToSet(s) \cup ToSet(t)
  <1> DEFINE u == s \o t
  <1>0. s \in Seq(S) /\ t \in Seq(S)
    BY DEF Line
  <1>1. /\ u \in Seq(S) /\ Len(u) = Len(s) + Len(t)
        /\ \A i \in 1..(Len(s) + Len(t)) :
             u[i] = IF i <= Len(s) THEN s[i] ELSE t[i - Len(s)]
    BY <1>0, ConcatProperties
  <1>2. /\ DOMAIN s = 1..Len(s) /\ DOMAIN t = 1..Len(t) /\ DOMAIN u = 1..Len(u)
        /\ Len(s) \in Nat /\ Len(t) \in Nat
    BY <1>0, <1>1, LenProperties
  <1> HIDE DEF u
  <1>3. \A i \in 1..Len(s), j \in 1..Len(t) : s[i] # t[j]
    BY <1>2 DEF ToSet
  <1>4. IsInjective(u)
    <2> SUFFICES ASSUME NEW i \in 1..Len(u), NEW j \in 1..Len(u), u[i] = u[j]
                 PROVE  i = j
      BY <1>2 DEF IsInjective
    <2>1. CASE i <= Len(s) /\ j <= Len(s)
      BY <1>1, <1>2, <2>1 DEF IsInjective, Line
    <2>2. CASE i > Len(s) /\ j > Len(s)
      <3>1. /\ i - Len(s) \in 1..Len(t) /\ j - Len(s) \in 1..Len(t)
            /\ t[i - Len(s)] = t[j - Len(s)]
        BY <1>1, <1>2, <2>2
      <3>2. i - Len(s) = j - Len(s)
        BY <1>2, <3>1 DEF IsInjective, Line
      <3> QED
        BY <1>2, <3>2
    <2>3. CASE ~(i <= Len(s) <=> j <= Len(s))
      BY <1>1, <1>2, <1>3, <2>3
    <2> QED
      BY <1>2, <2>1, <2>2, <2>3
  <1>5. ToSet(u) = ToSet(s) \cup ToSet(t)
    <2>1. Range(u) = Range(s) \cup Range(t)
      BY <1>0, RangeConcatenation DEF u
    <2> QED
      BY <2>1 DEF Range, ToSet
  <1> QED
    BY <1>1, <1>4, <1>5 DEF Line, u
-----------------------------------------------------------------------------
(* The inductive invariant.                                                *)

\* Where an operation can stand.
Place == Ended \cup {"idle", "connecting", "opening", "version", "stats",
                     "queued", "turn", "backoff", "body"}

Shapes ==
  /\ pc \in [Op -> Place]
  /\ tries \in [Process -> 0..MaxBusy]
  /\ landed \in [Op -> Nat]
  /\ txn \subseteq Op
  /\ flusher \in {"off", "away", "in line", "flushing"}
  /\ conn \in {"none", "open"} /\ in_txn \in BOOLEAN /\ closing \in BOOLEAN
  /\ shutdown \in {"none", "scheduled", "draining", "drained", "in line", "done"}

\* Those that want the store lock, and those that work under it.
Waits(p) ==
  \/ p \in Op /\ pc[p] \in {"version", "stats", "turn", "body"}
  \/ p = "flusher" /\ flusher \in {"in line", "flushing"}
  \/ p = "shutdown" /\ shutdown = "in line"
Busy(p) ==
  \/ p \in Op /\ pc[p] = "body"
  \/ p = "flusher" /\ flusher = "flushing"

\* Exactly those stand in line, once, and who is at work has it.
LockInv ==
  /\ Line(lock, Process)
  /\ \A p \in Process : (p \in ToSet(lock) <=> Waits(p)) /\ (Busy(p) => Holds(p))

\* The same of the init lock, which connect() keeps while it reads the version.
Connects(o) == pc[o] \in {"connecting", "opening", "version"}
OpenInv ==
  /\ Line(opening, Op)
  /\ \A o \in Op : /\ o \in ToSet(opening) <=> Connects(o)
                   /\ pc[o] \in {"opening", "version"} => Head(opening) = o

\* A queued write is in the queue or in the batch, once; what is in them waits
\* or was given up by its caller.
QueueInv ==
  /\ Line(pending, Write) /\ Line(batch, Write)
  /\ ToSet(pending) \cap ToSet(batch) = {}
  /\ \A o \in Op :
       /\ pc[o] = "queued" => o \in ToSet(pending) \cup ToSet(batch)
       /\ o \in ToSet(pending) \cup ToSet(batch) => pc[o] \in {"queued", "canceled"}
  /\ failing \subseteq ToSet(batch)
  /\ flusher # "flushing" => batch = <<>>
  /\ flusher = "off" => pending = <<>>

\* What is in the open transaction, and what was committed.
DbInv ==
  /\ ~in_txn => txn = {}
  /\ flusher = "flushing" => in_txn /\ txn = ToSet(batch) \ failing
  /\ \A o \in Op :
       /\ pc[o] \in {"turn", "backoff", "body"} => o \in Txn
       /\ pc[o] = "body" => in_txn /\ txn = {}
       /\ landed[o] \in {0, 1}
       /\ landed[o] = 1 => /\ pc[o] \in {"ok", "canceled"}
                           /\ o \notin txn \cup ToSet(pending) \cup ToSet(batch)

SqliteInv == Shapes /\ LockInv /\ OpenInv /\ QueueInv /\ DbInv

-----------------------------------------------------------------------------
(* What the steps do to the store lock.                                    *)

\* The three kinds of process are told apart by name.
LEMMA Names == /\ "flusher" \notin Op /\ "shutdown" \notin Op /\ Op \subseteq Process
               /\ "flusher" \in Process /\ "shutdown" \in Process
               /\ Op = Write \cup Txn /\ Write \cap Txn = {} /\ MaxBusy \in Nat
  BY StoreInputs DEF Process, Op

\* Nobody starts or stops wanting the store lock.
LEMMA LineStays ==
  ASSUME LockInv, lock' = lock,
         \A p \in Process : /\ Waits(p)' <=> Waits(p)
                            /\ Busy(p)' => Busy(p) \/ Holds(p)
  PROVE  LockInv'
  BY DEF LockInv, Holds

\* Somebody joins the line for it,
LEMMA LineJoined ==
  ASSUME LockInv, NEW o \in Process, ~Waits(o), lock' = Append(lock, o),
         Waits(o)', ~Busy(o)',
         \A p \in Process \ {o} : /\ Waits(p)' <=> Waits(p)
                                  /\ Busy(p)' => Busy(p)
  PROVE  LockInv'
  <1>1. o \notin ToSet(lock) /\ Line(lock, Process)
    BY DEF LockInv
  <1>2. /\ Line(lock', Process) /\ ToSet(lock') = ToSet(lock) \cup {o}
        /\ lock' # <<>> /\ Head(lock') = IF lock = <<>> THEN o ELSE Head(lock)
    BY <1>1, AppendLine
  <1> QED
    BY <1>2 DEF LockInv, Holds

\* the front leaves it,
LEMMA LineLeft ==
  ASSUME LockInv, NEW o \in Process, Holds(o), lock' = Tail(lock),
         ~Waits(o)', ~Busy(o)',
         \A p \in Process \ {o} : /\ Waits(p)' <=> Waits(p)
                                  /\ Busy(p)' => Busy(p)
  PROVE  LockInv'
  <1>1. Line(lock, Process) /\ lock # <<>> /\ Head(lock) = o
    BY DEF LockInv, Holds
  <1>2. Line(lock', Process) /\ ToSet(lock') = ToSet(lock) \ {o}
    BY <1>1, TailLine
  <1>3. \A p \in Process : ~Busy(p)'
    BY DEF LockInv, Holds
  <1> QED
    BY <1>2, <1>3 DEF LockInv

\* goes to its back,
LEMMA LineRejoined ==
  ASSUME LockInv, NEW o \in Process, Holds(o), lock' = Append(Tail(lock), o),
         Waits(o)', ~Busy(o)',
         \A p \in Process \ {o} : /\ Waits(p)' <=> Waits(p)
                                  /\ Busy(p)' => Busy(p)
  PROVE  LockInv'
  <1>1. Line(lock, Process) /\ lock # <<>> /\ Head(lock) = o
    BY DEF LockInv, Holds
  <1>2. /\ Line(Tail(lock), Process) /\ ToSet(Tail(lock)) = ToSet(lock) \ {o}
        /\ o \in ToSet(lock)
    BY <1>1, TailLine
  <1>3. Line(lock', Process) /\ ToSet(lock') = ToSet(Tail(lock)) \cup {o}
    BY <1>2, AppendLine
  <1>4. \A p \in Process : ~Busy(p)'
    BY DEF LockInv, Holds
  <1> QED
    BY <1>2, <1>3, <1>4 DEF LockInv

\* or somebody who waited gives up.
LEMMA LineQuit ==
  ASSUME LockInv, NEW o \in Process, ~Busy(o), lock' = RemoveFirst(lock, o),
         ~Waits(o)', ~Busy(o)',
         \A p \in Process \ {o} : /\ Waits(p)' <=> Waits(p)
                                  /\ Busy(p)' => Busy(p)
  PROVE  LockInv'
  <1>1. Line(lock, Process)
    BY DEF LockInv
  <1>2. /\ Line(lock', Process) /\ ToSet(lock') = ToSet(lock) \ {o}
        /\ lock # <<>> /\ Head(lock) # o => lock' # <<>> /\ Head(lock') = Head(lock)
    BY <1>1, RemoveLine
  <1>3. \A p \in Process : Busy(p)' => Holds(p)'
    BY <1>2 DEF LockInv, Holds
  <1> QED
    BY <1>2, <1>3 DEF LockInv

\* Only one at a time works under the lock.
LEMMA OneHolder ==
  ASSUME LockInv, NEW p \in Process, Holds(p), NEW q \in Process, q # p
  PROVE  ~Busy(q) /\ Waits(p)
  <1>1. p \in ToSet(lock)
    BY TailLine DEF LockInv, Holds
  <1> QED
    BY <1>1 DEF LockInv, Holds

-----------------------------------------------------------------------------
(* What an operation that gets in, and one that is told, do.               *)

\* A write joins the flush queue; the others join the line.
LEMMA EntersFacts ==
  ASSUME Shapes, NEW o \in Op, NEW queue, Enters(o, queue) \/ Ensured(o, queue)
  PROVE  /\ pc' = [pc EXCEPT ![o] = pc'[o]]
         /\ \/ /\ pc'[o] = "queued" /\ o \in Write /\ lock' = queue
               /\ pending' = Append(pending, o)
               /\ flusher' = IF flusher = "off" THEN "away" ELSE flusher
            \/ /\ pc'[o] = "stats" \/ (pc'[o] = "turn" /\ o \in Txn)
               /\ lock' = Append(queue, o)
               /\ pending' = pending /\ flusher' = flusher
  <1>1. ASSUME NEW x, pc' = [pc EXCEPT ![o] = x]
        PROVE  pc'[o] = x /\ pc' = [pc EXCEPT ![o] = pc'[o]]
    BY <1>1 DEF Shapes
  <1>2. CASE Enters(o, queue)
    <2>1. CASE o \in Write
      BY <1>1, <1>2, <2>1 DEF Enters
    <2>2. CASE o \notin Write
      BY <1>1, <1>2, <2>2, Names DEF Enters
    <2> QED
      BY <2>1, <2>2
  <1>3. CASE /\ pc' = [pc EXCEPT ![o] = "stats"] /\ lock' = Append(queue, o)
             /\ UNCHANGED <<pending, flusher>>
    <2>1. pc'[o] = "stats" /\ pc' = [pc EXCEPT ![o] = pc'[o]]
      BY <1>1, <1>3
    <2> QED
      BY <1>3, <2>1
  <1> QED
    BY <1>2, <1>3 DEF Ensured

\* Nothing happens to the operations but that queued ones hear.
OnlyAnswers ==
  /\ pc' \in [Op -> Place]
  /\ \A o \in Op : pc'[o] = pc[o] \/ (pc[o] = "queued" /\ pc'[o] \in Ended)

\* However a turn of the flush loop ends, it leaves `left` in the queue, and is
\* off, out of line or at its end.
FlushEnds(left) ==
  /\ pending' = left /\ batch' = <<>> /\ failing' = {}
  /\ tries' \in [Process -> 0..MaxBusy]
  /\ \/ flusher' = "off" /\ left = <<>> /\ lock' = Tail(lock)
     \/ flusher' = "away" /\ lock' = Tail(lock)
     \/ flusher' = "in line" /\ lock' = Append(Tail(lock), "flusher")
  /\ \/ shutdown' = shutdown
     \/ shutdown = "draining" /\ shutdown' = "drained" /\ flusher' = "off"

\* The loop looks for more work, or exits.
LEMMA TurnOverEnds ==
  ASSUME Shapes, NEW left, TurnOver(left)
  PROVE  FlushEnds(left)
  <1>1. tries' \in [Process -> 0..MaxBusy]
    <2>1. tries' = [tries EXCEPT !["flusher"] = 0]
      BY DEF TurnOver
    <2>2. tries \in [Process -> 0..MaxBusy]
      BY DEF Shapes
    <2>3. MaxBusy \in Nat
      BY Names
    <2>4. 0 \in 0..MaxBusy
      BY <2>3
    <2> QED
      BY <2>1, <2>2, <2>4
  <1>2. CASE left = <<>>
    BY <1>1, <1>2 DEF TurnOver, LoopEnds, FlushEnds
  <1>3. CASE left # <<>>
    BY <1>1, <1>3 DEF TurnOver, FlushEnds
  <1> QED
    BY <1>2, <1>3

\* Being told moves queued operations to how they ended, and no other.
LEMMA ToldAnswers ==
  ASSUME Shapes, NEW good, NEW bad, NEW outcome \in {"raised", "cut", "ok"},
         pc' = Told(good, bad, outcome)
  PROVE  /\ OnlyAnswers
         /\ \A o \in Op :
              \/ pc'[o] = pc[o] /\ (pc[o] = "queued" => o \notin good \cup bad)
              \/ pc[o] = "queued" /\ o \in good /\ pc'[o] = "ok"
              \/ pc[o] = "queued" /\ o \in bad \ good /\ pc'[o] = outcome
  BY DEF Told, Shapes, Ended, OnlyAnswers, Place

\* A turn on a connection that is gone ends all it had.
LEMMA StrandedEnds ==
  ASSUME Shapes, NEW left, NEW outcome \in {"raised", "cut"}, Stranded(left, outcome)
  PROVE  /\ FlushEnds(<<>>) /\ OnlyAnswers
         /\ \A o \in Op :
              \/ pc'[o] = pc[o] /\ (pc[o] = "queued" => o \notin ToSet(left))
              \/ pc[o] = "queued" /\ o \in ToSet(left) /\ pc'[o] = outcome
  <1>1. TurnOver(<<>>) /\ pc' = Told({}, ToSet(left), outcome)
    BY DEF Stranded
  <1> QED
    BY <1>1, TurnOverEnds, ToldAnswers

\* A lost write lock is a retry, or the end of the batch.
LEMMA BusyEnds ==
  ASSUME Shapes, NEW left, FlushIsBusy(left)
  PROVE  /\ OnlyAnswers
         /\ \/ FlushEnds(left) /\ pc' = pc
            \/ /\ FlushEnds(<<>>)
               /\ \A o \in Op :
                    \/ pc'[o] = pc[o] /\ (pc[o] = "queued" => o \notin ToSet(left))
                    \/ pc[o] = "queued" /\ o \in ToSet(left) /\ pc'[o] = "raised"
  <1>1. CASE Stranded(left, "raised")
    BY <1>1, StrandedEnds
  <1>2. CASE ~Stranded(left, "raised")
    <2>1. /\ tries["flusher"] < MaxBusy
          /\ tries' = [tries EXCEPT !["flusher"] = @ + 1]
          /\ flusher' = "away" /\ lock' = Tail(lock)
          /\ pending' = left /\ batch' = <<>> /\ failing' = {}
          /\ pc' = pc /\ shutdown' = shutdown
      BY <1>2 DEF FlushIsBusy
    <2>2. tries' \in [Process -> 0..MaxBusy]
      <3>1. tries \in [Process -> 0..MaxBusy] /\ "flusher" \in Process /\ MaxBusy \in Nat
        BY Names DEF Shapes
      <3>2. tries["flusher"] + 1 \in 0..MaxBusy
        BY <2>1, <3>1
      <3> QED
        BY <2>1, <3>1, <3>2
    <2> QED
      BY <2>1, <2>2 DEF FlushEnds, OnlyAnswers, Shapes, Place
  <1> QED
    BY <1>1, <1>2

\* At the end of its turn the loop stands where it wants the lock.
LEMMA FlushEndsLine ==
  ASSUME LockInv, Holds("flusher"), NEW left, FlushEnds(left), OnlyAnswers
  PROVE  LockInv'
  <1>1. \A p \in Process \ {"flusher"} :
          (Waits(p)' <=> Waits(p)) /\ (Busy(p)' => Busy(p))
    BY Names DEF FlushEnds, OnlyAnswers, Waits, Busy, Ended
  <1>2. CASE flusher' \in {"off", "away"} /\ lock' = Tail(lock)
    <2>1. ~Waits("flusher")' /\ ~Busy("flusher")'
      BY <1>2, Names DEF Waits, Busy
    <2> QED
      BY <1>1, <1>2, <2>1, Names, LineLeft
  <1>3. CASE flusher' = "in line" /\ lock' = Append(Tail(lock), "flusher")
    <2>1. Waits("flusher")' /\ ~Busy("flusher")'
      BY <1>3, Names DEF Waits, Busy
    <2> QED
      BY <1>1, <1>3, <2>1, Names, LineRejoined
  <1> QED
    BY <1>2, <1>3 DEF FlushEnds

\* Of those that were queued, whoever is not left in the queue has heard.
LEMMA FlushEndsQueue ==
  ASSUME QueueInv, NEW left, FlushEnds(left), OnlyAnswers, Line(left, Write),
         ToSet(left) \subseteq ToSet(pending) \cup ToSet(batch),
         \A o \in Op : IF o \in ToSet(left) THEN pc'[o] = pc[o]
                       ELSE o \in ToSet(pending) \cup ToSet(batch) => pc'[o] # "queued"
  PROVE  QueueInv'
  <1>1. /\ pending' = left /\ batch' = <<>> /\ failing' = {}
        /\ flusher' = "off" => left = <<>>
    BY DEF FlushEnds
  <1>2. Line(batch', Write) /\ ToSet(batch') = {}
    BY <1>1, EmptyLine
  <1>3. ASSUME NEW o \in Op
        PROVE  /\ pc'[o] = "queued" => o \in ToSet(left)
               /\ o \in ToSet(left) => pc'[o] \in {"queued", "canceled"}
    BY DEF QueueInv, OnlyAnswers, Ended
  <1> QED
    BY <1>1, <1>2, <1>3 DEF QueueInv

\* What a turn of the loop leaves was there, and whoever it does not leave hears.
Leaves(left) ==
  /\ Line(left, Write) /\ ToSet(left) \subseteq ToSet(pending) \cup ToSet(batch)
  /\ \A o \in Op :
       IF o \in ToSet(left) THEN pc'[o] = pc[o]
       ELSE o \in ToSet(pending) \cup ToSet(batch) => pc'[o] # "queued"

\* A batch of one is known by its front.
LEMMA SingleLine ==
  ASSUME NEW S, NEW s, Line(s, S), Len(s) = 1
  PROVE  Head(s) \in S /\ ToSet(s) = {Head(s)}
  <1>1. s \in Seq(S)
    BY DEF Line
  <1>2. DOMAIN s = {1} /\ s # <<>>
    <2>1. DOMAIN s = 1..1
      BY <1>1, LenProperties
    <2> QED
      BY <2>1, EmptySeq
  <1>3. Head(s) = s[1]
    OBVIOUS
  <1> QED
    BY <1>1, <1>2, <1>3, HeadTailProperties DEF ToSet

\* All who were queued are told.
LEMMA AllHear ==
  ASSUME QueueInv,
         \A o \in Op : pc[o] = "queued" => pc'[o] # "queued"
                                           \/ o \notin ToSet(pending) \cup ToSet(batch),
         \A o \in Op : pc'[o] = pc[o] \/ pc[o] = "queued"
  PROVE  Leaves(<<>>)
  <1>1. Line(<<>>, Write) /\ ToSet(<<>>) = {}
    BY EmptyLine
  <1> QED
    BY <1>1 DEF Leaves, QueueInv

\* A lost write lock leaves all that was queued waiting, or all of it told.
LEMMA FlushBusyLeaves ==
  ASSUME Shapes, QueueInv, NEW left, FlushIsBusy(left), Line(left, Write),
         ToSet(left) = ToSet(pending) \cup ToSet(batch)
  PROVE  OnlyAnswers /\ \E l : FlushEnds(l) /\ Leaves(l)
  <1>1. OnlyAnswers
    BY BusyEnds
  <1>2. CASE FlushEnds(left) /\ pc' = pc
    BY <1>1, <1>2 DEF Leaves
  <1>3. CASE /\ FlushEnds(<<>>)
             /\ \A o \in Op :
                  \/ pc'[o] = pc[o] /\ (pc[o] = "queued" => o \notin ToSet(left))
                  \/ pc[o] = "queued" /\ o \in ToSet(left) /\ pc'[o] = "raised"
    <2>1. Leaves(<<>>)
      BY <1>3, AllHear
    <2> QED
      BY <1>1, <1>3, <2>1
  <1> QED
    BY <1>2, <1>3, BusyEnds

\* What any step of the flush loop leaves behind.
LEMMA FlushTurn ==
  ASSUME SqliteInv, FlushOne \/ FlushBeginFails \/ FlushCommit \/ FlushRollback
  PROVE  /\ Holds("flusher") /\ opening' = opening /\ closing' = closing
         /\ OnlyAnswers
         /\ \E left : FlushEnds(left) /\ Leaves(left)
  <1> USE DEF SqliteInv
  <1>0. opening' = opening /\ closing' = closing
    BY DEF FlushOne, FlushBeginFails, FlushCommit, FlushRollback
  <1>1. Holds("flusher")
    BY Names DEF FlushOne, FlushBeginFails, FlushCommit, FlushRollback, LockInv, Busy
  <1>2. Line(pending, Write) /\ ToSet(pending) \cap ToSet(batch) = {} /\ Line(batch, Write)
    BY DEF QueueInv
  <1>3. flusher # "flushing" => ToSet(batch) = {}
    BY EmptyLine DEF QueueInv
  <1>4. CASE FlushOne
    <2>1. flusher = "in line" /\ Len(pending) = 1
      BY <1>4 DEF FlushOne
    <2> DEFINE o == Head(pending)
    <2>2. o \in Write /\ ToSet(pending) = {o}
      BY <1>2, <2>1, SingleLine
    <2> HIDE DEF o
    <2>3. \/ TurnOver(<<>>) /\ pc' = Told({o}, {}, "ok")
          \/ TurnOver(<<>>) /\ pc' = Told({}, {o}, "raised")
          \/ TurnOver(<<>>) /\ pc' = Told({}, {o}, "cut")
          \/ FlushIsBusy(pending)
      BY <1>4 DEF FlushOne, o
    <2>4. ASSUME NEW good, NEW bad, NEW outcome \in {"raised", "cut", "ok"},
                 good \cup bad = {o}, TurnOver(<<>>), pc' = Told(good, bad, outcome)
          PROVE  OnlyAnswers /\ \E left : FlushEnds(left) /\ Leaves(left)
      <3>1. FlushEnds(<<>>)
        BY <2>4, TurnOverEnds
      <3>2. /\ OnlyAnswers
            /\ \A p \in Op :
                 \/ pc'[p] = pc[p] /\ (pc[p] = "queued" => p \notin good \cup bad)
                 \/ pc[p] = "queued" /\ p \in good /\ pc'[p] = "ok"
                 \/ pc[p] = "queued" /\ p \in bad \ good /\ pc'[p] = outcome
        BY <2>4, ToldAnswers
      <3>3. Leaves(<<>>)
        BY <1>3, <2>1, <2>2, <2>4, <3>2, AllHear
      <3> QED
        BY <3>1, <3>2, <3>3
    <2>5. CASE FlushIsBusy(pending)
      BY <1>2, <1>3, <2>1, <2>5, FlushBusyLeaves, <1>0, <1>1
    <2>6. CASE TurnOver(<<>>) /\ pc' = Told({o}, {}, "ok")
      BY <2>4, <2>6, <1>0, <1>1
    <2>7. CASE TurnOver(<<>>) /\ pc' = Told({}, {o}, "raised")
      BY <2>4, <2>7, <1>0, <1>1
    <2>8. CASE TurnOver(<<>>) /\ pc' = Told({}, {o}, "cut")
      BY <2>4, <2>8, <1>0, <1>1
    <2> QED
      BY <2>3, <2>5, <2>6, <2>7, <2>8
  <1>5. CASE FlushBeginFails
    <2>1. flusher = "in line"
      BY <1>5 DEF FlushBeginFails
    <2>2. \/ FlushIsBusy(pending)
          \/ Stranded(pending, "raised")
          \/ Stranded(pending, "cut")
      BY <1>5 DEF FlushBeginFails, Stranded
    <2>3. ASSUME NEW outcome \in {"raised", "cut"}, Stranded(pending, outcome)
          PROVE  OnlyAnswers /\ \E left : FlushEnds(left) /\ Leaves(left)
      <3>1. /\ FlushEnds(<<>>) /\ OnlyAnswers
            /\ \A o \in Op :
                 \/ pc'[o] = pc[o] /\ (pc[o] = "queued" => o \notin ToSet(pending))
                 \/ pc[o] = "queued" /\ o \in ToSet(pending) /\ pc'[o] = outcome
        BY <2>3, StrandedEnds
      <3>2. Leaves(<<>>)
        BY <1>3, <2>1, <3>1, AllHear
      <3> QED
        BY <3>1, <3>2
    <2>4. CASE FlushIsBusy(pending)
      BY <1>2, <1>3, <2>1, <2>4, FlushBusyLeaves, <1>0, <1>1
    <2> QED
      BY <2>2, <2>3, <2>4, <1>0, <1>1
  <1>6. ASSUME NEW good, NEW bad, good \cup bad = ToSet(batch), TurnOver(pending),
               pc' = Told(good, bad, "raised")
        PROVE  OnlyAnswers /\ \E left : FlushEnds(left) /\ Leaves(left)
    <2>1. FlushEnds(pending)
      BY <1>6, TurnOverEnds
    <2>2. /\ OnlyAnswers
          /\ \A o \in Op :
               \/ pc'[o] = pc[o] /\ (pc[o] = "queued" => o \notin good \cup bad)
               \/ pc[o] = "queued" /\ o \in good /\ pc'[o] = "ok"
               \/ pc[o] = "queued" /\ o \in bad \ good /\ pc'[o] = "raised"
      BY <1>6, ToldAnswers
    <2>3. Leaves(pending)
      BY <1>2, <1>6, <2>2 DEF Leaves, QueueInv
    <2> QED
      BY <2>1, <2>2, <2>3
  <1>7. CASE FlushCommit
    <2>1. failing \subseteq ToSet(batch)
      BY DEF QueueInv
    <2>2. (ToSet(batch) \ failing) \cup failing = ToSet(batch)
      BY <2>1
    <2>3. TurnOver(pending) /\ pc' = Told(ToSet(batch) \ failing, failing, "raised")
      BY <1>7 DEF FlushCommit
    <2> QED
      BY <1>0, <1>1, <1>6, <2>2, <2>3
  <1>8. CASE FlushRollback
    <2>1. \/ FlushIsBusy(batch \o pending)
          \/ TurnOver(pending) /\ pc' = Told({}, ToSet(batch), "raised")
      BY <1>8 DEF FlushRollback
    <2>2. CASE FlushIsBusy(batch \o pending)
      <3>1. /\ Line(batch \o pending, Write)
            /\ ToSet(batch \o pending) = ToSet(batch) \cup ToSet(pending)
        BY <1>2, JoinedLines
      <3> QED
        BY <2>2, <3>1, FlushBusyLeaves, <1>0, <1>1
    <2>3. CASE TurnOver(pending) /\ pc' = Told({}, ToSet(batch), "raised")
      <3>1. {} \cup ToSet(batch) = ToSet(batch)
        OBVIOUS
      <3> QED
        BY <1>0, <1>1, <1>6, <2>3, <3>1
    <2> QED
      BY <2>1, <2>2, <2>3
  <1> QED
    BY <1>4, <1>5, <1>7, <1>8

\* Every step keeps the line.
LEMMA NextLock ==
  ASSUME SqliteInv, [Next]_vars
  PROVE  LockInv'
  <1> USE DEF SqliteInv
  <1>0. pc \in [Op -> Place] /\ LockInv
    BY DEF Shapes
  <1>1. ASSUME NEW o \in Op, NEW x, pc' = [pc EXCEPT ![o] = x],
               flusher' = flusher, shutdown' = shutdown
        PROVE  /\ pc'[o] = x /\ \A p \in Op \ {o} : pc'[p] = pc[p]
               /\ \A p \in Process \ {o} : /\ Waits(p)' <=> Waits(p)
                                           /\ Busy(p)' <=> Busy(p)
    BY <1>0, <1>1, Names DEF Waits, Busy
  <1>2. ASSUME NEW o \in Op, NEW x, pc' = [pc EXCEPT ![o] = x],
               flusher' = flusher, shutdown' = shutdown, lock' = lock, ~Waits(o),
               x \notin {"version", "stats", "turn", "body"}
        PROVE  LockInv'
    <2>0. pc'[o] = x /\ o # "flusher" /\ o # "shutdown"
      BY <1>1, <1>2, Names
    <2>1. ~Waits(o)' /\ ~Busy(o)'
      BY <1>2, <2>0 DEF Waits, Busy
    <2> QED
      BY <1>0, <1>1, <1>2, <2>1, LineStays
  <1>3. ASSUME NEW o \in Op, NEW x, pc' = [pc EXCEPT ![o] = x],
               flusher' = flusher, shutdown' = shutdown, lock' = Tail(lock), Holds(o),
               x \notin {"version", "stats", "turn", "body"}
        PROVE  LockInv'
    <2>0. pc'[o] = x /\ o # "flusher" /\ o # "shutdown"
      BY <1>1, <1>3, Names
    <2>1. ~Waits(o)' /\ ~Busy(o)'
      BY <1>3, <2>0 DEF Waits, Busy
    <2> QED
      BY <1>0, <1>1, <1>3, <2>1, Names, LineLeft
  <1>4. ASSUME NEW o \in Op, NEW x, pc' = [pc EXCEPT ![o] = x],
               flusher' = flusher, shutdown' = shutdown, lock' = Append(lock, o),
               ~Waits(o), x \in {"version", "stats", "turn"}
        PROVE  LockInv'
    <2>0. pc'[o] = x /\ o # "flusher" /\ o # "shutdown"
      BY <1>1, <1>4, Names
    <2>1. Waits(o)' /\ ~Busy(o)'
      BY <1>4, <2>0 DEF Waits, Busy
    <2> QED
      BY <1>0, <1>1, <1>4, <2>1, Names, LineJoined
  <1>5. ASSUME NEW o \in Op, NEW queue, Enters(o, queue) \/ Ensured(o, queue),
               shutdown' = shutdown
        PROVE  /\ pc'[o] = "queued" => /\ ~Waits(o)' /\ ~Busy(o)' /\ lock' = queue
               /\ pc'[o] # "queued" => /\ Waits(o)' /\ ~Busy(o)'
                                       /\ lock' = Append(queue, o)
               /\ \A p \in Process \ {o} : /\ Waits(p)' <=> Waits(p)
                                           /\ Busy(p)' <=> Busy(p)
    <2>1. /\ pc' = [pc EXCEPT ![o] = pc'[o]]
          /\ \/ /\ pc'[o] = "queued" /\ lock' = queue
                /\ flusher' = IF flusher = "off" THEN "away" ELSE flusher
             \/ /\ pc'[o] \in {"stats", "turn"} /\ lock' = Append(queue, o)
                /\ flusher' = flusher
      BY <1>5, EntersFacts
    <2>2. o # "flusher" /\ o # "shutdown"
      BY Names
    <2>3. \A p \in Op \ {o} : pc'[p] = pc[p]
      BY <1>0, <2>1
    <2>4. /\ pc'[o] = "queued" => /\ ~Waits(o)' /\ ~Busy(o)' /\ lock' = queue
          /\ pc'[o] # "queued" => /\ Waits(o)' /\ ~Busy(o)'
                                  /\ lock' = Append(queue, o)
      BY <2>1, <2>2 DEF Waits, Busy
    <2>5. flusher' \in {"in line", "flushing"} <=> flusher \in {"in line", "flushing"}
      BY <2>1
    <2>6. flusher' = "flushing" <=> flusher = "flushing"
      BY <2>1
    <2>7. \A p \in Process \ {o} : /\ Waits(p)' <=> Waits(p)
                                   /\ Busy(p)' <=> Busy(p)
      BY <1>5, <2>3, <2>5, <2>6, Names DEF Waits, Busy
    <2> QED
      BY <2>4, <2>7
  <1>6. ASSUME NEW o \in Op, Enters(o, lock) \/ Ensured(o, lock),
               shutdown' = shutdown, ~Waits(o)
        PROVE  LockInv'
    BY <1>0, <1>5, <1>6, Names, LineStays, LineJoined
  <1>7. ASSUME NEW o \in Op, Enters(o, Tail(lock)) \/ Ensured(o, Tail(lock)),
               shutdown' = shutdown, Holds(o)
        PROVE  LockInv'
    BY <1>0, <1>5, <1>7, Names, LineLeft, LineRejoined
  <1>8. ASSUME NEW o \in Op, Issue(o)
        PROVE  LockInv'
    <2>1. ~Waits(o) /\ shutdown' = shutdown
      BY <1>8, Names DEF Issue, Waits, closeVars
    <2>2. \/ pc' = [pc EXCEPT ![o] = "refused"] /\ lock' = lock /\ flusher' = flusher
          \/ Ensured(o, lock)
          \/ pc' = [pc EXCEPT ![o] = "connecting"] /\ lock' = lock /\ flusher' = flusher
      BY <1>8 DEF Issue
    <2> QED
      BY <1>2, <1>6, <2>1, <2>2
  <1>9. ASSUME NEW o \in Op, OpenStarts(o)
        PROVE  LockInv'
    <2>1. ~Waits(o) /\ shutdown' = shutdown
      BY <1>9, Names DEF OpenStarts, Waits, closeVars
    <2>2. \/ pc' = [pc EXCEPT ![o] = "opening"] /\ lock' = lock /\ flusher' = flusher
          \/ Ensured(o, lock)
      BY <1>9 DEF OpenStarts
    <2> QED
      BY <1>2, <1>6, <2>1, <2>2
  <1>10. ASSUME NEW o \in Op, OpenFails(o)
         PROVE  LockInv'
    <2>1. ~Waits(o) /\ shutdown' = shutdown /\ lock' = lock /\ flusher' = flusher
      BY <1>10, Names DEF OpenFails, Waits, closeVars, flushVars
    <2>2. \/ pc' = [pc EXCEPT ![o] = "raised"]
          \/ pc' = [pc EXCEPT ![o] = "refused"]
      BY <1>10 DEF OpenFails
    <2> QED
      BY <1>2, <2>1, <2>2
  <1>11. ASSUME NEW o \in Op, Publish(o)
         PROVE  LockInv'
    BY <1>4, <1>11, Names DEF Publish, Waits, closeVars, flushVars
  <1>12. ASSUME NEW o \in Op, ReadVersion(o) \/ RefreshStatistics(o)
         PROVE  LockInv'
    <2>1. Holds(o) /\ shutdown' = shutdown
      BY <1>12 DEF ReadVersion, RefreshStatistics, closeVars
    <2>2. \/ /\ \/ pc' = [pc EXCEPT ![o] = "cut"]
                \/ pc' = [pc EXCEPT ![o] = "raised"]
             /\ lock' = Tail(lock) /\ flusher' = flusher
          \/ Enters(o, Tail(lock))
          \/ Ensured(o, Tail(lock))
      BY <1>12 DEF ReadVersion, RefreshStatistics, GivesUp
    <2> QED
      BY <1>3, <1>7, <2>1, <2>2
  <1>13. ASSUME NEW o \in Op, NEW outcome, TxnEnds(o, outcome), Holds(o),
                outcome \notin {"version", "stats", "turn", "body"}
         PROVE  LockInv'
    BY <1>3, <1>13 DEF TxnEnds, flushVars, closeVars
  <1>14. ASSUME NEW o \in Op, TxnBegin(o)
         PROVE  LockInv'
    <2>1. /\ pc' = [pc EXCEPT ![o] = "body"] /\ pc[o] = "turn" /\ Holds(o)
          /\ lock' = lock /\ flusher' = flusher /\ shutdown' = shutdown
      BY <1>14 DEF TxnBegin, flushVars, closeVars
    <2>2. Waits(o) /\ Waits(o)'
      BY <1>1, <2>1 DEF Waits
    <2> QED
      BY <1>0, <1>1, <2>1, <2>2, LineStays
  <1>15. ASSUME NEW o \in Op, TxnBeginFails(o)
         PROVE  LockInv'
    <2>1. \/ TxnEnds(o, "cut")
          \/ TxnEnds(o, "raised")
          \/ /\ pc' = [pc EXCEPT ![o] = "backoff"] /\ lock' = Tail(lock)
             /\ flusher' = flusher /\ shutdown' = shutdown
      BY <1>15 DEF TxnBeginFails, flushVars, closeVars
    <2>2. Holds(o)
      BY <1>15 DEF TxnBeginFails
    <2> QED
      BY <1>3, <1>13, <2>1, <2>2
  <1>16. ASSUME NEW o \in Op, TxnComesBack(o)
         PROVE  LockInv'
    BY <1>4, <1>16, Names DEF TxnComesBack, Waits, closeVars, flushVars
  <1>17. ASSUME NEW o \in Op, TxnCommit(o) \/ TxnRollback(o) \/ CancelCommit(o)
         PROVE  LockInv'
    <2>1. pc[o] = "body" /\ Holds(o)
      BY <1>17, Names DEF TxnCommit, TxnRollback, CancelCommit, LockInv, Busy
    <2> QED
      BY <1>13, <1>17, <2>1 DEF TxnCommit, TxnRollback, CancelCommit
  <1>18. ASSUME NEW o \in Op, CancelBegin(o)
         PROVE  LockInv'
    BY <1>13, <1>18 DEF CancelBegin
  <1>19. ASSUME NEW o \in Op, CancelQueued(o)
         PROVE  LockInv'
    BY <1>2, <1>19, Names DEF CancelQueued, Waits, closeVars, flushVars
  <1>20. ASSUME NEW o \in Op, CancelWaiting(o)
         PROVE  LockInv'
    <2>1. /\ pc' = [pc EXCEPT ![o] = "canceled"] /\ lock' = RemoveFirst(lock, o)
          /\ flusher' = flusher /\ shutdown' = shutdown /\ ~Busy(o)
      BY <1>20, Names DEF CancelWaiting, Busy, flushVars, closeVars
    <2>2. pc'[o] = "canceled" /\ o # "flusher" /\ o # "shutdown"
      BY <1>1, <2>1, Names
    <2>3. ~Waits(o)' /\ ~Busy(o)'
      BY <2>2 DEF Waits, Busy
    <2> QED
      BY <1>0, <1>1, <2>1, <2>3, Names, LineQuit
  <1>21. CASE FlusherArrives
    <2>1. /\ flusher = "away" /\ flusher' = "in line" /\ lock' = Append(lock, "flusher")
          /\ pc' = pc /\ shutdown' = shutdown
      BY <1>21 DEF FlusherArrives, closeVars
    <2>2. /\ ~Waits("flusher") /\ Waits("flusher")' /\ ~Busy("flusher")'
          /\ \A p \in Process \ {"flusher"} : (Waits(p)' <=> Waits(p)) /\ (Busy(p)' => Busy(p))
      BY <2>1, Names DEF Waits, Busy
    <2> QED
      BY <1>0, <2>1, <2>2, Names, LineJoined
  <1>22. CASE FlushBegin
    <2>1. /\ flusher = "in line" /\ flusher' = "flushing" /\ lock' = lock
          /\ pc' = pc /\ shutdown' = shutdown /\ Holds("flusher")
      BY <1>22 DEF FlushBegin, closeVars, asyncVars
    <2>2. \A p \in Process : /\ Waits(p)' <=> Waits(p)
                             /\ Busy(p)' => Busy(p) \/ Holds(p)
      BY <2>1, Names DEF Waits, Busy
    <2> QED
      BY <1>0, <2>1, <2>2, LineStays
  <1>23. CASE FlushOne \/ FlushBeginFails \/ FlushCommit \/ FlushRollback
    BY <1>0, <1>23, FlushTurn, FlushEndsLine
  <1>24. ASSUME pc' = pc, flusher' = flusher, lock' = lock,
                shutdown # "in line", shutdown' # "in line"
         PROVE  LockInv'
    <2>1. \A p \in Process : (Waits(p)' <=> Waits(p)) /\ (Busy(p)' => Busy(p))
      BY <1>24, Names DEF Waits, Busy
    <2> QED
      BY <1>0, <1>24, <2>1, LineStays
  <1>25. ASSUME pc' = pc, flusher' = flusher, shutdown # "in line", ShutdownLocks
         PROVE  LockInv'
    <2>1. CASE shutdown' = "in line" /\ lock' = Append(lock, "shutdown")
      <3>1. /\ ~Waits("shutdown") /\ Waits("shutdown")' /\ ~Busy("shutdown")'
            /\ \A p \in Process \ {"shutdown"} :
                 (Waits(p)' <=> Waits(p)) /\ (Busy(p)' => Busy(p))
        BY <1>25, <2>1, Names DEF Waits, Busy
      <3> QED
        BY <1>0, <2>1, <3>1, Names, LineJoined
    <2>2. CASE ~(shutdown' = "in line" /\ lock' = Append(lock, "shutdown"))
      BY <1>24, <1>25, <2>2 DEF ShutdownLocks, ShutdownEnds
    <2> QED
      BY <2>1, <2>2
  <1>26. CASE ShutdownStarts
    BY <1>24, <1>25, <1>26 DEF ShutdownStarts, flushVars
  <1>27. CASE ShutdownDrained
    BY <1>25, <1>27 DEF ShutdownDrained, flushVars
  <1>28. CASE ShutdownCloses
    <2>1. /\ Holds("shutdown") /\ lock' = Tail(lock) /\ shutdown' = "done"
          /\ pc' = pc /\ flusher' = flusher
      BY <1>28 DEF ShutdownCloses, ShutdownEnds, flushVars
    <2>2. /\ ~Waits("shutdown")' /\ ~Busy("shutdown")'
          /\ \A p \in Process \ {"shutdown"} :
               (Waits(p)' <=> Waits(p)) /\ (Busy(p)' => Busy(p))
      BY <2>1, Names DEF Waits, Busy
    <2> QED
      BY <1>0, <2>1, <2>2, Names, LineLeft
  <1>29. ASSUME pc' = pc, flusher' = flusher, lock' = lock,
                shutdown' = "in line" <=> shutdown = "in line"
         PROVE  LockInv'
    <2>1. \A p \in Process : (Waits(p)' <=> Waits(p)) /\ (Busy(p)' => Busy(p))
      BY <1>29, Names DEF Waits, Busy
    <2> QED
      BY <1>0, <1>29, <2>1, LineStays
  <1>30. ASSUME NEW c \in Closer, Close(c) \/ CloseReturns(c) \/ CancelClose(c)
         PROVE  LockInv'
    BY <1>29, <1>30 DEF Close, CloseReturns, CancelClose, asyncVars, flushVars
  <1>31. CASE UNCHANGED vars
    BY <1>29, <1>31 DEF vars
  <1> QED
    BY <1>8, <1>9, <1>10, <1>11, <1>12, <1>14, <1>15, <1>16, <1>17, <1>18, <1>19,
       <1>20, <1>21, <1>22, <1>23, <1>26, <1>27, <1>28, <1>30, <1>31
       DEF Next, Advance, Cancel, Flush, Shutdown

-----------------------------------------------------------------------------
(* What they do to the init lock.                                          *)

\* Nobody starts or stops connecting.
LEMMA OpenStays ==
  ASSUME OpenInv, opening' = opening,
         \A o \in Op : /\ Connects(o)' <=> Connects(o)
                       /\ pc'[o] \in {"opening", "version"} =>
                            pc[o] \in {"opening", "version"} \/ Head(opening) = o
  PROVE  OpenInv'
  BY DEF OpenInv

\* The front leaves the line for the init lock,
LEMMA OpenLeft ==
  ASSUME OpenInv, NEW o \in Op, Connects(o), Head(opening) = o,
         opening' = Tail(opening), ~Connects(o)',
         \A p \in Op \ {o} : pc'[p] = pc[p]
  PROVE  OpenInv'
  <1>1. Line(opening, Op) /\ opening # <<>>
    BY EmptyLine DEF OpenInv
  <1>2. Line(opening', Op) /\ ToSet(opening') = ToSet(opening) \ {o}
    BY <1>1, TailLine
  <1>3. \A p \in Op \ {o} : pc'[p] \notin {"opening", "version"}
    BY DEF OpenInv
  <1> QED
    BY <1>2, <1>3 DEF OpenInv, Connects

\* somebody joins it,
LEMMA OpenJoined ==
  ASSUME OpenInv, NEW o \in Op, ~Connects(o), opening' = Append(opening, o),
         pc'[o] = "connecting",
         \A p \in Op \ {o} : pc'[p] = pc[p]
  PROVE  OpenInv'
  <1>1. Line(opening, Op) /\ o \notin ToSet(opening)
    BY DEF OpenInv
  <1>2. /\ Line(opening', Op) /\ ToSet(opening') = ToSet(opening) \cup {o}
        /\ Head(opening') = IF opening = <<>> THEN o ELSE Head(opening)
    BY <1>1, AppendLine
  <1>3. \A p \in Op \ {o} : Connects(p) => opening # <<>>
    BY EmptyLine DEF OpenInv
  <1> QED
    BY <1>2, <1>3 DEF OpenInv, Connects

\* or gives up.
LEMMA OpenQuit ==
  ASSUME OpenInv, NEW o \in Op, opening' = RemoveFirst(opening, o), ~Connects(o)',
         \A p \in Op \ {o} : pc'[p] = pc[p]
  PROVE  OpenInv'
  <1>1. Line(opening, Op)
    BY DEF OpenInv
  <1>2. /\ Line(opening', Op) /\ ToSet(opening') = ToSet(opening) \ {o}
        /\ opening # <<>> /\ Head(opening) # o => Head(opening') = Head(opening)
    BY <1>1, RemoveLine
  <1>3. \A p \in Op \ {o} : Connects(p) => opening # <<>>
    BY EmptyLine DEF OpenInv
  <1> QED
    BY <1>2, <1>3 DEF OpenInv, Connects

\* Every step keeps the line.
LEMMA NextOpen ==
  ASSUME SqliteInv, [Next]_vars
  PROVE  OpenInv'
  <1>0. pc \in [Op -> Place] /\ OpenInv
    BY DEF SqliteInv, Shapes
  <1>1. ASSUME NEW o \in Op, NEW x, pc' = [pc EXCEPT ![o] = x]
        PROVE  pc'[o] = x /\ \A p \in Op \ {o} : pc'[p] = pc[p]
    BY <1>0, <1>1
  <1>2. ASSUME NEW o \in Op, NEW x, pc' = [pc EXCEPT ![o] = x], opening' = opening,
               ~Connects(o), x \notin {"connecting", "opening", "version"}
        PROVE  OpenInv'
    BY <1>0, <1>1, <1>2, OpenStays DEF Connects
  <1>3. ASSUME NEW o \in Op, NEW queue, Enters(o, queue) \/ Ensured(o, queue)
        PROVE  ~Connects(o)' /\ \A p \in Op \ {o} : pc'[p] = pc[p]
    <2>1. /\ pc' = [pc EXCEPT ![o] = pc'[o]]
          /\ pc'[o] \in {"queued", "stats", "turn"}
      BY <1>3, EntersFacts DEF SqliteInv
    <2> QED
      BY <1>1, <2>1 DEF Connects
  <1>4. ASSUME NEW o \in Op, Issue(o)
        PROVE  OpenInv'
    <2>1. ~Connects(o)
      BY <1>4 DEF Issue, Connects
    <2>2. \/ pc' = [pc EXCEPT ![o] = "refused"] /\ opening' = opening
          \/ Ensured(o, lock) /\ opening' = opening
          \/ pc' = [pc EXCEPT ![o] = "connecting"] /\ opening' = Append(opening, o)
      BY <1>4 DEF Issue
    <2>3. CASE Ensured(o, lock) /\ opening' = opening
      BY <1>0, <1>3, <2>1, <2>3, OpenStays DEF Connects
    <2>4. CASE pc' = [pc EXCEPT ![o] = "connecting"] /\ opening' = Append(opening, o)
      BY <1>0, <1>1, <2>1, <2>4, OpenJoined
    <2> QED
      BY <1>2, <2>1, <2>2, <2>3, <2>4
  <1>5. ASSUME NEW o \in Op, OpenStarts(o)
        PROVE  OpenInv'
    <2>1. Connects(o) /\ pc[o] = "connecting" /\ Head(opening) = o
      BY <1>5 DEF OpenStarts, Connects
    <2>2. \/ Ensured(o, lock) /\ opening' = Tail(opening)
          \/ pc' = [pc EXCEPT ![o] = "opening"] /\ opening' = opening
      BY <1>5 DEF OpenStarts
    <2>3. CASE Ensured(o, lock) /\ opening' = Tail(opening)
      BY <1>0, <1>3, <2>1, <2>3, OpenLeft
    <2>4. CASE pc' = [pc EXCEPT ![o] = "opening"] /\ opening' = opening
      BY <1>0, <1>1, <2>1, <2>4, OpenStays DEF Connects
    <2> QED
      BY <2>2, <2>3, <2>4
  <1>6. ASSUME NEW o \in Op, OpenFails(o)
        PROVE  OpenInv'
    <2>1. Connects(o) /\ Head(opening) = o /\ opening' = Tail(opening)
      BY <1>0, <1>6 DEF OpenFails, Connects, OpenInv
    <2>2. \/ pc' = [pc EXCEPT ![o] = "raised"]
          \/ pc' = [pc EXCEPT ![o] = "refused"]
      BY <1>6 DEF OpenFails
    <2>3. ~Connects(o)' /\ \A p \in Op \ {o} : pc'[p] = pc[p]
      BY <1>1, <2>2 DEF Connects
    <2> QED
      BY <1>0, <2>1, <2>3, OpenLeft
  <1>7. ASSUME NEW o \in Op, Publish(o)
        PROVE  OpenInv'
    <2>1. /\ pc[o] = "opening" /\ pc' = [pc EXCEPT ![o] = "version"]
          /\ opening' = opening
      BY <1>7 DEF Publish
    <2> QED
      BY <1>0, <1>1, <2>1, OpenStays DEF Connects
  <1>8. ASSUME NEW o \in Op, ReadVersion(o)
        PROVE  OpenInv'
    <2>1. Connects(o) /\ Head(opening) = o /\ opening' = Tail(opening)
      BY <1>0, <1>8 DEF ReadVersion, Connects, OpenInv
    <2>2. \/ pc' = [pc EXCEPT ![o] = "cut"]
          \/ pc' = [pc EXCEPT ![o] = "raised"]
          \/ Ensured(o, Tail(lock))
      BY <1>8 DEF ReadVersion, GivesUp
    <2>3. ~Connects(o)' /\ \A p \in Op \ {o} : pc'[p] = pc[p]
      BY <1>1, <1>3, <2>2 DEF Connects
    <2> QED
      BY <1>0, <2>1, <2>3, OpenLeft
  <1>9. ASSUME NEW o \in Op, RefreshStatistics(o)
        PROVE  OpenInv'
    <2>1. ~Connects(o) /\ opening' = opening
      BY <1>9 DEF RefreshStatistics, Connects
    <2>2. pc' = [pc EXCEPT ![o] = "cut"] \/ Enters(o, Tail(lock))
      BY <1>9 DEF RefreshStatistics, GivesUp
    <2>3. ~Connects(o)' /\ \A p \in Op \ {o} : pc'[p] = pc[p]
      BY <1>1, <1>3, <2>2 DEF Connects
    <2> QED
      BY <1>0, <2>1, <2>3, OpenStays DEF Connects
  <1>10. ASSUME NEW o \in Op, TxnBegin(o)
         PROVE  OpenInv'
    BY <1>2, <1>10 DEF TxnBegin, Connects
  <1>11. ASSUME NEW o \in Op, TxnBeginFails(o)
         PROVE  OpenInv'
    <2>1. /\ ~Connects(o) /\ opening' = opening
          /\ \/ pc' = [pc EXCEPT ![o] = "cut"]
             \/ pc' = [pc EXCEPT ![o] = "raised"]
             \/ pc' = [pc EXCEPT ![o] = "backoff"]
      BY <1>11 DEF TxnBeginFails, TxnEnds, Connects
    <2> QED
      BY <1>2, <2>1
  <1>12. ASSUME NEW o \in Op, TxnComesBack(o)
         PROVE  OpenInv'
    BY <1>2, <1>12 DEF TxnComesBack, Connects
  <1>13. ASSUME NEW o \in Op, TxnCommit(o) \/ TxnRollback(o) \/ CancelCommit(o)
         PROVE  OpenInv'
    <2>1. /\ ~Connects(o) /\ opening' = opening
          /\ \/ pc' = [pc EXCEPT ![o] = "ok"]
             \/ pc' = [pc EXCEPT ![o] = "raised"]
             \/ pc' = [pc EXCEPT ![o] = "canceled"]
      BY <1>13 DEF TxnCommit, TxnRollback, CancelCommit, TxnEnds, Connects
    <2> QED
      BY <1>2, <2>1
  <1>14. ASSUME NEW o \in Op, CancelBegin(o) \/ CancelQueued(o)
         PROVE  OpenInv'
    <2>1. /\ ~Connects(o) /\ opening' = opening
          /\ pc' = [pc EXCEPT ![o] = "canceled"]
      BY <1>14 DEF CancelBegin, CancelQueued, TxnEnds, Connects
    <2> QED
      BY <1>2, <2>1
  <1>15. ASSUME NEW o \in Op, CancelWaiting(o)
         PROVE  OpenInv'
    <2>1. pc' = [pc EXCEPT ![o] = "canceled"] /\ opening' = RemoveFirst(opening, o)
      BY <1>15 DEF CancelWaiting
    <2>2. pc'[o] = "canceled" /\ \A p \in Op \ {o} : pc'[p] = pc[p]
      BY <1>1, <2>1
    <2>3. ~Connects(o)'
      BY <2>2 DEF Connects
    <2> QED
      BY <1>0, <2>1, <2>2, <2>3, OpenQuit
  <1>16. CASE FlushOne \/ FlushBeginFails \/ FlushCommit \/ FlushRollback
    BY <1>0, <1>16, FlushTurn, OpenStays DEF OnlyAnswers, Connects, Ended
  <1>17. ASSUME pc' = pc, opening' = opening
         PROVE  OpenInv'
    BY <1>0, <1>17, OpenStays DEF Connects
  <1>18. CASE FlusherArrives \/ FlushBegin \/ Shutdown
    BY <1>17, <1>18 DEF FlusherArrives, FlushBegin, Shutdown, ShutdownStarts,
       ShutdownDrained, ShutdownCloses, asyncVars
  <1>19. ASSUME NEW c \in Closer, Close(c) \/ CloseReturns(c) \/ CancelClose(c)
         PROVE  OpenInv'
    BY <1>17, <1>19 DEF Close, CloseReturns, CancelClose, asyncVars
  <1>20. CASE UNCHANGED vars
    BY <1>17, <1>20 DEF vars
  <1> QED
    BY <1>4, <1>5, <1>6, <1>7, <1>8, <1>9, <1>10, <1>11, <1>12, <1>13, <1>14, <1>15,
       <1>16, <1>18, <1>19, <1>20 DEF Next, Advance, Cancel, Flush

-----------------------------------------------------------------------------
(* What they do to the flush queue.                                        *)

\* Nothing is queued and nothing taken from the queue.
LEMMA QueueStays ==
  ASSUME QueueInv, UNCHANGED <<pending, batch, failing, flusher>>,
         \A o \in Op : /\ pc'[o] = "queued" => pc[o] = "queued"
                       /\ pc[o] \in {"queued", "canceled"} => pc'[o] \in {"queued", "canceled"}
  PROVE  QueueInv'
  BY DEF QueueInv

\* A write is queued.
LEMMA QueueJoined ==
  ASSUME QueueInv, NEW o \in Write, pc[o] \notin {"queued", "canceled"},
         pc'[o] = "queued", \A p \in Op \ {o} : pc'[p] = pc[p],
         pending' = Append(pending, o), UNCHANGED <<batch, failing>>,
         flusher' = IF flusher = "off" THEN "away" ELSE flusher
  PROVE  QueueInv'
  <1>1. o \in Op /\ Line(pending, Write)
    BY Names DEF QueueInv
  <1>2. o \notin ToSet(pending) \cup ToSet(batch)
    BY <1>1 DEF QueueInv
  <1>3. Line(pending', Write) /\ ToSet(pending') = ToSet(pending) \cup {o}
    BY <1>1, <1>2, AppendLine
  <1> QED
    BY <1>1, <1>2, <1>3 DEF QueueInv

\* Every step keeps the queue and the batch.
LEMMA NextQueue ==
  ASSUME SqliteInv, [Next]_vars
  PROVE  QueueInv'
  <1>0. pc \in [Op -> Place] /\ QueueInv
    BY DEF SqliteInv, Shapes
  <1>1. ASSUME NEW o \in Op, NEW x, pc' = [pc EXCEPT ![o] = x],
               UNCHANGED <<pending, batch, failing, flusher>>,
               pc[o] \notin {"queued", "canceled"}, x # "queued"
        PROVE  QueueInv'
    <2>1. pc'[o] = x /\ \A p \in Op \ {o} : pc'[p] = pc[p]
      BY <1>0, <1>1
    <2> QED
      BY <1>0, <1>1, <2>1, QueueStays
  <1>2. ASSUME NEW o \in Op, NEW queue, Enters(o, queue) \/ Ensured(o, queue),
               UNCHANGED <<batch, failing>>, pc[o] \notin {"queued", "canceled"}
        PROVE  QueueInv'
    <2>1. /\ pc' = [pc EXCEPT ![o] = pc'[o]]
          /\ \/ /\ pc'[o] = "queued" /\ o \in Write
                /\ pending' = Append(pending, o)
                /\ flusher' = IF flusher = "off" THEN "away" ELSE flusher
             \/ /\ pc'[o] \in {"stats", "turn"}
                /\ pending' = pending /\ flusher' = flusher
      BY <1>2, EntersFacts DEF SqliteInv
    <2>2. \A p \in Op \ {o} : pc'[p] = pc[p]
      BY <1>0, <2>1
    <2>3. CASE /\ pc'[o] = "queued" /\ o \in Write
               /\ pending' = Append(pending, o)
               /\ flusher' = IF flusher = "off" THEN "away" ELSE flusher
      BY <1>0, <1>2, <2>2, <2>3, QueueJoined
    <2>4. CASE /\ pc'[o] \in {"stats", "turn"}
               /\ pending' = pending /\ flusher' = flusher
      BY <1>0, <1>2, <2>2, <2>4, QueueStays
    <2> QED
      BY <2>1, <2>3, <2>4
  <1>3. ASSUME NEW o \in Op, Issue(o)
        PROVE  QueueInv'
    <2>1. pc[o] \notin {"queued", "canceled"} /\ UNCHANGED <<batch, failing>>
      BY <1>3 DEF Issue
    <2>2. \/ pc' = [pc EXCEPT ![o] = "refused"] /\ UNCHANGED <<pending, flusher>>
          \/ Ensured(o, lock)
          \/ pc' = [pc EXCEPT ![o] = "connecting"] /\ UNCHANGED <<pending, flusher>>
      BY <1>3 DEF Issue
    <2> QED
      BY <1>1, <1>2, <2>1, <2>2
  <1>4. ASSUME NEW o \in Op, OpenStarts(o)
        PROVE  QueueInv'
    <2>1. pc[o] \notin {"queued", "canceled"} /\ UNCHANGED <<batch, failing>>
      BY <1>4 DEF OpenStarts
    <2>2. \/ Ensured(o, lock)
          \/ pc' = [pc EXCEPT ![o] = "opening"] /\ UNCHANGED <<pending, flusher>>
      BY <1>4 DEF OpenStarts
    <2> QED
      BY <1>1, <1>2, <2>1, <2>2
  <1>5. ASSUME NEW o \in Op, OpenFails(o) \/ Publish(o)
        PROVE  QueueInv'
    <2>1. /\ pc[o] \notin {"queued", "canceled"}
          /\ UNCHANGED <<pending, batch, failing, flusher>>
      BY <1>5 DEF OpenFails, Publish, flushVars
    <2>2. \/ pc' = [pc EXCEPT ![o] = "raised"]
          \/ pc' = [pc EXCEPT ![o] = "refused"]
          \/ pc' = [pc EXCEPT ![o] = "version"]
      BY <1>5 DEF OpenFails, Publish
    <2> QED
      BY <1>1, <2>1, <2>2
  <1>6. ASSUME NEW o \in Op, ReadVersion(o) \/ RefreshStatistics(o)
        PROVE  QueueInv'
    <2>1. pc[o] \notin {"queued", "canceled"} /\ UNCHANGED <<batch, failing>>
      BY <1>6 DEF ReadVersion, RefreshStatistics
    <2>2. \/ pc' = [pc EXCEPT ![o] = "cut"] /\ UNCHANGED <<pending, flusher>>
          \/ pc' = [pc EXCEPT ![o] = "raised"] /\ UNCHANGED <<pending, flusher>>
          \/ Enters(o, Tail(lock))
          \/ Ensured(o, Tail(lock))
      BY <1>6 DEF ReadVersion, RefreshStatistics, GivesUp
    <2> QED
      BY <1>1, <1>2, <2>1, <2>2
  <1>7. ASSUME NEW o \in Op, TxnBegin(o) \/ TxnComesBack(o)
        PROVE  QueueInv'
    <2>1. /\ pc[o] \notin {"queued", "canceled"}
          /\ UNCHANGED <<pending, batch, failing, flusher>>
          /\ pc' = [pc EXCEPT ![o] = "body"] \/ pc' = [pc EXCEPT ![o] = "turn"]
      BY <1>7 DEF TxnBegin, TxnComesBack, flushVars
    <2> QED
      BY <1>1, <2>1
  <1>8. ASSUME NEW o \in Op, TxnBeginFails(o)
        PROVE  QueueInv'
    <2>1. /\ pc[o] \notin {"queued", "canceled"}
          /\ UNCHANGED <<pending, batch, failing, flusher>>
          /\ \/ pc' = [pc EXCEPT ![o] = "cut"]
             \/ pc' = [pc EXCEPT ![o] = "raised"]
             \/ pc' = [pc EXCEPT ![o] = "backoff"]
      BY <1>8 DEF TxnBeginFails, TxnEnds, flushVars
    <2> QED
      BY <1>1, <2>1
  <1>9. ASSUME NEW o \in Op,
               TxnCommit(o) \/ TxnRollback(o) \/ CancelCommit(o) \/ CancelBegin(o)
        PROVE  QueueInv'
    <2>1. /\ pc[o] \notin {"queued", "canceled"}
          /\ UNCHANGED <<pending, batch, failing, flusher>>
          /\ \/ pc' = [pc EXCEPT ![o] = "ok"]
             \/ pc' = [pc EXCEPT ![o] = "raised"]
             \/ pc' = [pc EXCEPT ![o] = "canceled"]
      BY <1>9 DEF TxnCommit, TxnRollback, CancelCommit, CancelBegin, TxnEnds, flushVars
    <2> QED
      BY <1>1, <2>1
  <1>10. ASSUME NEW o \in Op, CancelWaiting(o)
         PROVE  QueueInv'
    <2>1. /\ pc[o] \notin {"queued", "canceled"}
          /\ UNCHANGED <<pending, batch, failing, flusher>>
          /\ pc' = [pc EXCEPT ![o] = "canceled"]
      BY <1>10 DEF CancelWaiting, flushVars
    <2> QED
      BY <1>1, <2>1
  <1>11. ASSUME NEW o \in Op, CancelQueued(o)
         PROVE  QueueInv'
    <2>1. /\ UNCHANGED <<pending, batch, failing, flusher>>
          /\ pc' = [pc EXCEPT ![o] = "canceled"]
      BY <1>11 DEF CancelQueued, flushVars
    <2> QED
      BY <1>0, <2>1, QueueStays
  <1>12. CASE FlushOne \/ FlushBeginFails \/ FlushCommit \/ FlushRollback
    <2>1. PICK left : FlushEnds(left) /\ Leaves(left) /\ OnlyAnswers
      BY <1>12, FlushTurn
    <2> QED
      BY <1>0, <2>1, FlushEndsQueue DEF Leaves
  <1>13. CASE FlusherArrives
    BY <1>0, <1>13 DEF FlusherArrives, QueueInv
  <1>14. CASE FlushBegin
    <2>1. /\ flusher = "in line" /\ flusher' = "flushing" /\ pc' = pc
          /\ batch' = pending /\ pending' = <<>> /\ failing' \in SUBSET ToSet(pending)
      BY <1>14 DEF FlushBegin, asyncVars
    <2>2. Line(<<>>, Write) /\ ToSet(<<>>) = {} /\ batch = <<>>
      BY <1>0, <2>1, EmptyLine DEF QueueInv
    <2> QED
      BY <1>0, <2>1, <2>2 DEF QueueInv
  <1>15. ASSUME pc' = pc, UNCHANGED flushVars
         PROVE  QueueInv'
    BY <1>0, <1>15, QueueStays DEF flushVars
  <1>16. CASE Shutdown
    BY <1>15, <1>16 DEF Shutdown, ShutdownStarts, ShutdownDrained, ShutdownCloses
  <1>17. ASSUME NEW c \in Closer, Close(c) \/ CloseReturns(c) \/ CancelClose(c)
         PROVE  QueueInv'
    BY <1>15, <1>17 DEF Close, CloseReturns, CancelClose, asyncVars
  <1>18. CASE UNCHANGED vars
    BY <1>15, <1>18 DEF vars, flushVars
  <1> QED
    BY <1>3, <1>4, <1>5, <1>6, <1>7, <1>8, <1>9, <1>10, <1>11, <1>12, <1>13, <1>14,
       <1>16, <1>17, <1>18 DEF Next, Advance, Cancel, Flush

-----------------------------------------------------------------------------
(* What they do to the transaction and to what was committed.              *)

\* Whoever stands in line is one of those who may.
LEMMA LineSet == ASSUME NEW S, NEW s, Line(s, S) PROVE ToSet(s) \subseteq S
  BY LenProperties DEF Line, ToSet

\* Nothing begins, commits or is rolled back.
LEMMA DbStays ==
  ASSUME DbInv, UNCHANGED <<txn, in_txn, landed>>,
         flusher' = "flushing" => UNCHANGED <<flusher, batch, failing>>,
         \A o \in Op :
           /\ pc'[o] = "body" => pc[o] = "body"
           /\ pc'[o] \in {"turn", "backoff"} => pc[o] \in {"turn", "backoff"} \/ o \in Txn
           /\ pc[o] \in {"ok", "canceled"} =>
                /\ pc'[o] = pc[o]
                /\ o \in (ToSet(pending) \cup ToSet(batch))' =>
                     o \in ToSet(pending) \cup ToSet(batch)
  PROVE  DbInv'
  BY DEF DbInv

\* Every step keeps the transaction what the loop or a body made it.
LEMMA NextDb ==
  ASSUME SqliteInv, [Next]_vars
  PROVE  DbInv'
  <1>0. pc \in [Op -> Place] /\ landed \in [Op -> Nat] /\ DbInv /\ LockInv /\ QueueInv
    BY DEF SqliteInv, Shapes
  <1>1. ASSUME NEW o \in Op, NEW x, pc' = [pc EXCEPT ![o] = x]
        PROVE  pc'[o] = x /\ \A p \in Op \ {o} : pc'[p] = pc[p]
    BY <1>0, <1>1
  <1>2. ASSUME NEW o \in Op, NEW x, pc' = [pc EXCEPT ![o] = x],
               UNCHANGED <<txn, in_txn, landed, pending, batch, failing, flusher>>,
               pc[o] \notin {"ok", "canceled"}, x # "body",
               x \in {"turn", "backoff"} => pc[o] \in {"turn", "backoff"}
        PROVE  DbInv'
    BY <1>0, <1>1, <1>2, DbStays
  <1>3. ASSUME NEW o \in Op, NEW queue, Enters(o, queue) \/ Ensured(o, queue),
               UNCHANGED <<txn, in_txn, landed, batch, failing>>,
               pc[o] \notin {"ok", "canceled"}
        PROVE  DbInv'
    <2>1. /\ pc' = [pc EXCEPT ![o] = pc'[o]]
          /\ \/ /\ pc'[o] = "queued" /\ o \in Write
                /\ pending' = Append(pending, o)
                /\ flusher' = IF flusher = "off" THEN "away" ELSE flusher
             \/ /\ pc'[o] = "stats" \/ (pc'[o] = "turn" /\ o \in Txn)
                /\ pending' = pending /\ flusher' = flusher
      BY <1>3, EntersFacts DEF SqliteInv
    <2>2. \A p \in Op \ {o} : pc'[p] = pc[p]
      BY <1>0, <2>1
    <2>3. ToSet(pending') \subseteq ToSet(pending) \cup {o}
      <3>1. CASE o \in Write /\ pending' = Append(pending, o) /\ pc'[o] = "queued"
        <4>1. Line(pending, Write)
          BY <1>0 DEF QueueInv
        <4>2. CASE o \in ToSet(pending)
          <5>1. pc[o] \in {"queued", "canceled"}
            BY <1>0, <4>2 DEF QueueInv
          <5>2. Append(pending, o) \in Seq(Write) /\ pending \in Seq(Write)
            BY <3>1, <4>1, AppendProperties DEF Line
          <5>3. /\ Len(pending') = Len(pending) + 1 /\ Len(pending) \in Nat
                /\ DOMAIN pending = 1..Len(pending)
                /\ \A i \in 1..Len(pending) : pending'[i] = pending[i]
                /\ pending'[Len(pending) + 1] = o
                /\ DOMAIN pending' = 1..Len(pending')
            BY <3>1, <5>2, AppendProperties, LenProperties
          <5> QED
            BY <5>3 DEF ToSet
        <4>3. CASE o \notin ToSet(pending)
          BY <3>1, <4>1, <4>3, AppendLine
        <4> QED
          BY <4>2, <4>3
      <3> QED
        BY <2>1, <3>1
    <2>4. flusher' = "flushing" => flusher = "flushing"
      BY <2>1
    <2> QED
      BY <1>0, <1>3, <2>1, <2>2, <2>3, <2>4, DbStays
  <1>4. ASSUME NEW o \in Op, Issue(o)
        PROVE  DbInv'
    <2>1. pc[o] = "idle" /\ UNCHANGED <<txn, in_txn, landed, batch, failing>>
      BY <1>4 DEF Issue, dbVars
    <2>2. \/ pc' = [pc EXCEPT ![o] = "refused"] /\ UNCHANGED <<pending, flusher>>
          \/ Ensured(o, lock)
          \/ pc' = [pc EXCEPT ![o] = "connecting"] /\ UNCHANGED <<pending, flusher>>
      BY <1>4 DEF Issue
    <2> QED
      BY <1>2, <1>3, <2>1, <2>2
  <1>5. ASSUME NEW o \in Op, OpenStarts(o)
        PROVE  DbInv'
    <2>1. pc[o] = "connecting" /\ UNCHANGED <<txn, in_txn, landed, batch, failing>>
      BY <1>5 DEF OpenStarts, dbVars
    <2>2. \/ Ensured(o, lock)
          \/ pc' = [pc EXCEPT ![o] = "opening"] /\ UNCHANGED <<pending, flusher>>
      BY <1>5 DEF OpenStarts
    <2> QED
      BY <1>2, <1>3, <2>1, <2>2
  <1>6. ASSUME NEW o \in Op, OpenFails(o) \/ Publish(o)
        PROVE  DbInv'
    <2>1. /\ pc[o] = "opening"
          /\ UNCHANGED <<txn, in_txn, landed, pending, batch, failing, flusher>>
      BY <1>6 DEF OpenFails, Publish, flushVars
    <2>2. \/ pc' = [pc EXCEPT ![o] = "raised"]
          \/ pc' = [pc EXCEPT ![o] = "refused"]
          \/ pc' = [pc EXCEPT ![o] = "version"]
      BY <1>6 DEF OpenFails, Publish
    <2> QED
      BY <1>2, <2>1, <2>2
  <1>7. ASSUME NEW o \in Op, ReadVersion(o) \/ RefreshStatistics(o)
        PROVE  DbInv'
    <2>1. /\ pc[o] \in {"version", "stats"}
          /\ UNCHANGED <<txn, in_txn, landed, batch, failing>>
      BY <1>7 DEF ReadVersion, RefreshStatistics, dbVars
    <2>2. \/ pc' = [pc EXCEPT ![o] = "cut"] /\ UNCHANGED <<pending, flusher>>
          \/ pc' = [pc EXCEPT ![o] = "raised"] /\ UNCHANGED <<pending, flusher>>
          \/ Enters(o, Tail(lock))
          \/ Ensured(o, Tail(lock))
      BY <1>7 DEF ReadVersion, RefreshStatistics, GivesUp
    <2> QED
      BY <1>2, <1>3, <2>1, <2>2
  <1>8. ASSUME NEW p \in Process, Holds(p), p # "flusher"
        PROVE  /\ flusher # "flushing"
               /\ \A o \in Op \ {p} : pc[o] # "body"
    BY <1>0, <1>8, OneHolder, Names DEF Busy
  <1>9. Holds("flusher") => \A o \in Op : pc[o] # "body"
    BY <1>0, OneHolder, Names DEF Busy
  <1>10. \A o \in Op : pc[o] = "body" => Holds(o)
    BY <1>0, Names DEF LockInv, Busy
  <1>11. ASSUME NEW o \in Op, TxnBegin(o)
         PROVE  DbInv'
    <2>1. /\ pc[o] = "turn" /\ Holds(o) /\ ~in_txn /\ in_txn' = TRUE
          /\ pc' = [pc EXCEPT ![o] = "body"]
          /\ UNCHANGED <<txn, landed, pending, batch, failing, flusher>>
      BY <1>11 DEF TxnBegin, flushVars
    <2>2. o \in Txn /\ txn = {} /\ flusher # "flushing"
      BY <1>0, <1>8, <2>1, Names DEF DbInv
    <2> QED
      BY <1>0, <1>1, <2>1, <2>2 DEF DbInv
  <1>12. ASSUME NEW o \in Op, TxnBeginFails(o)
         PROVE  DbInv'
    <2>1. /\ pc[o] = "turn"
          /\ UNCHANGED <<txn, in_txn, landed, pending, batch, failing, flusher>>
          /\ \/ pc' = [pc EXCEPT ![o] = "cut"]
             \/ pc' = [pc EXCEPT ![o] = "raised"]
             \/ pc' = [pc EXCEPT ![o] = "backoff"]
      BY <1>12 DEF TxnBeginFails, TxnEnds, flushVars
    <2> QED
      BY <1>2, <2>1
  <1>13. ASSUME NEW o \in Op, TxnComesBack(o)
         PROVE  DbInv'
    <2>1. /\ pc[o] = "backoff"
          /\ UNCHANGED <<txn, in_txn, landed, pending, batch, failing, flusher>>
          /\ pc' = [pc EXCEPT ![o] = "turn"]
      BY <1>13 DEF TxnComesBack, flushVars, dbVars
    <2> QED
      BY <1>2, <2>1
  <1>14. ASSUME NEW o \in Op, TxnCommit(o) \/ CancelCommit(o)
         PROVE  DbInv'
    <2>1. /\ pc[o] = "body" /\ UNCHANGED <<pending, batch, failing, flusher>>
          /\ pc' = [pc EXCEPT ![o] = "ok"] \/ pc' = [pc EXCEPT ![o] = "canceled"]
          /\ landed' = [p \in Op |-> landed[p] + IF p \in txn \cup {o} THEN 1 ELSE 0]
          /\ txn' = {} /\ in_txn' = FALSE
      BY <1>14 DEF TxnCommit, CancelCommit, TxnEnds, flushVars
    <2>2. /\ o \notin ToSet(pending) \cup ToSet(batch) /\ txn = {}
          /\ landed[o] = 0 /\ flusher # "flushing"
          /\ \A p \in Op \ {o} : pc[p] # "body"
      BY <1>0, <1>8, <1>10, <2>1, Names DEF DbInv, QueueInv
    <2>3. landed'[o] = 1 /\ \A p \in Op \ {o} : landed'[p] = landed[p]
      BY <1>0, <2>1, <2>2
    <2>4. pc'[o] \in {"ok", "canceled"} /\ \A p \in Op \ {o} : pc'[p] = pc[p]
      BY <1>1, <2>1
    <2> QED
      BY <1>0, <2>1, <2>2, <2>3, <2>4 DEF DbInv
  <1>15. ASSUME NEW o \in Op, TxnRollback(o)
         PROVE  DbInv'
    <2>1. /\ pc[o] = "body" /\ UNCHANGED <<pending, batch, failing, flusher, landed>>
          /\ pc' = [pc EXCEPT ![o] = "raised"]
          /\ txn' = {} /\ in_txn' = FALSE
      BY <1>15 DEF TxnRollback, TxnEnds, flushVars
    <2>2. /\ flusher # "flushing"
          /\ \A p \in Op \ {o} : pc[p] # "body"
      BY <1>8, <1>10, <2>1, Names
    <2> QED
      BY <1>0, <1>1, <2>1, <2>2 DEF DbInv
  <1>16. ASSUME NEW o \in Op, CancelBegin(o)
         PROVE  DbInv'
    <2>1. /\ pc[o] = "turn" /\ Holds(o) /\ ~in_txn /\ in_txn' = TRUE
          /\ pc' = [pc EXCEPT ![o] = "canceled"]
          /\ UNCHANGED <<txn, landed, pending, batch, failing, flusher>>
      BY <1>16 DEF CancelBegin, TxnEnds, flushVars
    <2>2. /\ flusher # "flushing"
          /\ \A p \in Op \ {o} : pc[p] # "body"
      BY <1>8, <2>1, Names
    <2> QED
      BY <1>0, <1>1, <2>1, <2>2 DEF DbInv
  <1>17. ASSUME NEW o \in Op, CancelWaiting(o) \/ CancelQueued(o)
         PROVE  DbInv'
    <2>1. /\ pc[o] \notin {"ok", "canceled"}
          /\ UNCHANGED <<txn, in_txn, landed, pending, batch, failing, flusher>>
          /\ pc' = [pc EXCEPT ![o] = "canceled"]
      BY <1>17 DEF CancelWaiting, CancelQueued, flushVars, dbVars
    <2> QED
      BY <1>2, <2>1
  <1>18. CASE FlusherArrives
    <2>1. /\ pc' = pc /\ flusher' = "in line"
          /\ UNCHANGED <<txn, in_txn, landed, pending, batch, failing>>
      BY <1>18 DEF FlusherArrives, dbVars
    <2> QED
      BY <1>0, <2>1, DbStays
  <1>19. CASE FlushOne \/ FlushBeginFails \/ FlushCommit \/ FlushRollback
    <2>1. PICK left : FlushEnds(left) /\ Leaves(left) /\ OnlyAnswers
      BY <1>19, FlushTurn
    <2>2. Holds("flusher")
      BY <1>19, FlushTurn
    <2>3. /\ flusher' # "flushing" /\ ToSet(batch') = {}
          /\ ToSet(pending') \subseteq ToSet(pending) \cup ToSet(batch)
      BY <2>1, EmptyLine DEF FlushEnds, Leaves
    <2>4. \A o \in Op : /\ pc[o] # "body" /\ pc'[o] # "body"
                        /\ pc'[o] \in {"turn", "backoff"} => pc[o] \in {"turn", "backoff"}
                        /\ pc[o] \in {"ok", "canceled"} => pc'[o] = pc[o]
      BY <1>9, <2>1, <2>2 DEF OnlyAnswers, Ended
    <2>5. CASE UNCHANGED <<txn, in_txn, landed>>
      BY <1>0, <2>3, <2>4, <2>5, DbStays
    <2>6. CASE txn' = {} /\ in_txn' = FALSE /\ landed' = landed
      BY <1>0, <2>3, <2>4, <2>6 DEF DbInv
    <2>7. CASE FlushOne
      <3>1. flusher = "in line" /\ Len(pending) = 1 /\ in_txn' = in_txn
        BY <2>7 DEF FlushOne
      <3> DEFINE o == Head(pending)
      <3>2. o \in Write /\ ToSet(pending) = {o}
        BY <1>0, <3>1, SingleLine DEF QueueInv
      <3> HIDE DEF o
      <3>3. \/ UNCHANGED <<txn, landed>>
            \/ Executes(o) /\ pc' = Told({o}, {}, "ok") /\ TurnOver(<<>>)
        BY <2>7 DEF FlushOne, FlushIsBusy, o
      <3>4. CASE Executes(o) /\ pc' = Told({o}, {}, "ok") /\ TurnOver(<<>>)
        <4>1. ToSet(pending') = {}
          BY <3>4, EmptyLine DEF TurnOver
        <4>2. o \in Op /\ landed[o] = 0 /\ pc[o] \in {"queued", "canceled"}
          BY <1>0, <3>2, Names DEF DbInv, QueueInv
        <4>3. pc'[o] \in {"ok", "canceled"}
          BY <3>4, <4>2 DEF Told
        <4>4. CASE in_txn
          <5>1. txn' = txn \cup {o} /\ landed' = landed
            BY <3>4, <4>4 DEF Executes
          <5>2. in_txn'
            BY <3>1, <4>4, Zenon
          <5>3. \A p \in Op : landed[p] = 1 => p \notin txn'
            BY <1>0, <4>2, <5>1 DEF DbInv
          <5> QED
            BY <1>0, <2>3, <2>4, <4>1, <5>1, <5>2, <5>3 DEF DbInv
        <4>5. CASE ~in_txn
          <5>1. txn' = txn /\ landed' = [landed EXCEPT ![o] = @ + 1] /\ txn = {}
            BY <1>0, <3>4, <4>5 DEF Executes, DbInv
          <5>2. landed'[o] = 1 /\ \A p \in Op \ {o} : landed'[p] = landed[p]
            BY <1>0, <4>2, <5>1
          <5> QED
            BY <1>0, <2>3, <2>4, <3>1, <4>1, <4>2, <4>3, <4>5, <5>1, <5>2 DEF DbInv
        <4> QED
          BY <4>4, <4>5
      <3> QED
        BY <2>5, <3>1, <3>3, <3>4
    <2>8. CASE FlushBeginFails
      BY <2>5, <2>6, <2>8 DEF FlushBeginFails
    <2>9. CASE FlushCommit
      <3>1. /\ flusher = "flushing" /\ txn' = {} /\ in_txn' = FALSE
            /\ landed' = [o \in Op |-> landed[o] + IF o \in txn THEN 1 ELSE 0]
            /\ pc' = Told(ToSet(batch) \ failing, failing, "raised")
            /\ pending' = pending
        BY <2>9 DEF FlushCommit, TurnOver
      <3>2. txn = ToSet(batch) \ failing
        BY <1>0, <3>1 DEF DbInv
      <3>3. \A o \in Op : o \in txn => /\ landed[o] = 0 /\ o \notin ToSet(pending)
                                       /\ pc[o] \in {"queued", "canceled"}
        BY <1>0, <3>2 DEF DbInv, QueueInv
      <3>4. \A o \in Op : o \in txn => pc'[o] \in {"ok", "canceled"} /\ landed'[o] = 1
        BY <1>0, <3>1, <3>2, <3>3 DEF Told
      <3>5. \A o \in Op : o \notin txn => landed'[o] = landed[o]
        BY <1>0, <3>1
      <3> QED
        BY <1>0, <2>3, <2>4, <3>1, <3>3, <3>4, <3>5 DEF DbInv
    <2>10. CASE FlushRollback
      BY <2>6, <2>10 DEF FlushRollback
    <2> QED
      BY <1>19, <2>7, <2>8, <2>9, <2>10
  <1>20. CASE FlushBegin
    <2>1. /\ Holds("flusher") /\ flusher' = "flushing" /\ pc' = pc /\ landed' = landed
          /\ batch' = pending /\ pending' = <<>> /\ failing' \in SUBSET ToSet(pending)
          /\ in_txn' = TRUE /\ txn' = ToSet(pending) \ failing'
      BY <1>20 DEF FlushBegin, asyncVars
    <2>2. ToSet(pending') = {}
      BY <2>1, EmptyLine
    <2> QED
      BY <1>0, <1>9, <2>1, <2>2 DEF DbInv
  <1>21. CASE ShutdownCloses
    <2>1. /\ Holds("shutdown") /\ txn' = {} /\ in_txn' = FALSE
          /\ pc' = pc /\ landed' = landed
          /\ UNCHANGED <<pending, batch, failing, flusher>>
      BY <1>21 DEF ShutdownCloses, flushVars
    <2>2. flusher # "flushing" /\ \A o \in Op : pc[o] # "body"
      BY <1>8, <2>1, Names
    <2> QED
      BY <1>0, <2>1, <2>2 DEF DbInv
  <1>22. ASSUME pc' = pc, UNCHANGED flushVars, UNCHANGED <<txn, in_txn, landed>>
         PROVE  DbInv'
    BY <1>0, <1>22, DbStays DEF flushVars
  <1>23. CASE ShutdownStarts \/ ShutdownDrained
    BY <1>22, <1>23 DEF ShutdownStarts, ShutdownDrained, dbVars
  <1>24. ASSUME NEW c \in Closer, Close(c) \/ CloseReturns(c) \/ CancelClose(c)
         PROVE  DbInv'
    BY <1>22, <1>24 DEF Close, CloseReturns, CancelClose, asyncVars, dbVars
  <1>25. CASE UNCHANGED vars
    BY <1>22, <1>25 DEF vars, flushVars
  <1> QED
    BY <1>4, <1>5, <1>6, <1>7, <1>11, <1>12, <1>13, <1>14, <1>15, <1>16, <1>17, <1>18,
       <1>19, <1>20, <1>21, <1>23, <1>24, <1>25
       DEF Next, Advance, Cancel, Flush, Shutdown

-----------------------------------------------------------------------------
(* Types.                                                                  *)

\* Every step keeps the types.
LEMMA NextShapes ==
  ASSUME SqliteInv, [Next]_vars
  PROVE  Shapes'
  <1>0. Shapes /\ pc \in [Op -> Place] /\ QueueInv
    BY DEF SqliteInv, Shapes
  <1>1. ASSUME NEW o \in Op, NEW x \in Place, pc' = [pc EXCEPT ![o] = x]
        PROVE  pc' \in [Op -> Place]
    BY <1>0, <1>1
  <1>2. ASSUME NEW o \in Op, NEW queue, Enters(o, queue) \/ Ensured(o, queue)
        PROVE  /\ pc' \in [Op -> Place]
               /\ flusher' \in {"off", "away", "in line", "flushing"}
    <2>1. /\ pc' = [pc EXCEPT ![o] = pc'[o]]
          /\ pc'[o] \in {"queued", "stats", "turn"}
          /\ flusher' = flusher \/ flusher' = "away"
      BY <1>0, <1>2, EntersFacts
    <2> QED
      BY <1>0, <1>1, <2>1 DEF Place, Shapes
  <1>4. ASSUME NEW o \in Op, Issue(o)
        PROVE  Shapes'
    <2>1. /\ pc' \in [Op -> Place]
          /\ flusher' \in {"off", "away", "in line", "flushing"}
      <3>1. \/ pc' = [pc EXCEPT ![o] = "refused"] /\ flusher' = flusher
            \/ Ensured(o, lock)
            \/ pc' = [pc EXCEPT ![o] = "connecting"] /\ flusher' = flusher
        BY <1>4 DEF Issue
      <3> QED
        BY <1>0, <1>1, <1>2, <3>1 DEF Place, Ended, Shapes
    <2>2. UNCHANGED <<tries, landed, txn, conn, in_txn, closing, shutdown>>
      BY <1>4 DEF Issue, dbVars, closeVars
    <2> QED
      BY <1>0, <2>1, <2>2 DEF Shapes
  <1>5. ASSUME NEW o \in Op, OpenStarts(o)
        PROVE  Shapes'
    <2>1. /\ pc' \in [Op -> Place]
          /\ flusher' \in {"off", "away", "in line", "flushing"}
      <3>1. \/ Ensured(o, lock)
            \/ pc' = [pc EXCEPT ![o] = "opening"] /\ flusher' = flusher
        BY <1>5 DEF OpenStarts
      <3> QED
        BY <1>0, <1>1, <1>2, <3>1 DEF Place, Shapes
    <2>2. UNCHANGED <<tries, landed, txn, conn, in_txn, closing, shutdown>>
      BY <1>5 DEF OpenStarts, dbVars, closeVars
    <2> QED
      BY <1>0, <2>1, <2>2 DEF Shapes
  <1>6. ASSUME NEW o \in Op, OpenFails(o) \/ Publish(o)
        PROVE  Shapes'
    <2>1. pc' \in [Op -> Place]
      <3>1. \/ pc' = [pc EXCEPT ![o] = "raised"]
            \/ pc' = [pc EXCEPT ![o] = "refused"]
            \/ pc' = [pc EXCEPT ![o] = "version"]
        BY <1>6 DEF OpenFails, Publish
      <3> QED
        BY <1>1, <3>1 DEF Place, Ended
    <2>2. /\ UNCHANGED <<tries, landed, txn, in_txn, closing, shutdown, flusher>>
          /\ conn' = conn \/ conn' = "open"
      BY <1>6 DEF OpenFails, Publish, flushVars, closeVars
    <2> QED
      BY <1>0, <2>1, <2>2 DEF Shapes
  <1>7. ASSUME NEW o \in Op, ReadVersion(o) \/ RefreshStatistics(o)
        PROVE  Shapes'
    <2>1. /\ pc' \in [Op -> Place]
          /\ flusher' \in {"off", "away", "in line", "flushing"}
      <3>1. \/ pc' = [pc EXCEPT ![o] = "cut"] /\ flusher' = flusher
            \/ pc' = [pc EXCEPT ![o] = "raised"] /\ flusher' = flusher
            \/ Enters(o, Tail(lock))
            \/ Ensured(o, Tail(lock))
        BY <1>7 DEF ReadVersion, RefreshStatistics, GivesUp
      <3> QED
        BY <1>0, <1>1, <1>2, <3>1 DEF Place, Ended, Shapes
    <2>2. UNCHANGED <<tries, landed, txn, conn, in_txn, closing, shutdown>>
      BY <1>7 DEF ReadVersion, RefreshStatistics, dbVars, closeVars
    <2> QED
      BY <1>0, <2>1, <2>2 DEF Shapes
  <1>8. ASSUME NEW o \in Op, TxnBegin(o) \/ TxnComesBack(o)
        PROVE  Shapes'
    <2>1. pc' \in [Op -> Place]
      <3>1. pc' = [pc EXCEPT ![o] = "body"] \/ pc' = [pc EXCEPT ![o] = "turn"]
        BY <1>8 DEF TxnBegin, TxnComesBack
      <3> QED
        BY <1>1, <3>1 DEF Place
    <2>2. /\ UNCHANGED <<tries, landed, txn, conn, closing, shutdown, flusher>>
          /\ in_txn' = in_txn \/ in_txn' = TRUE
      BY <1>8 DEF TxnBegin, TxnComesBack, flushVars, closeVars, dbVars
    <2> QED
      BY <1>0, <2>1, <2>2 DEF Shapes
  <1>9. ASSUME NEW o \in Op, TxnBeginFails(o)
        PROVE  Shapes'
    <2>1. pc' \in [Op -> Place]
      <3>1. \/ pc' = [pc EXCEPT ![o] = "cut"]
            \/ pc' = [pc EXCEPT ![o] = "raised"]
            \/ pc' = [pc EXCEPT ![o] = "backoff"]
        BY <1>9 DEF TxnBeginFails, TxnEnds
      <3> QED
        BY <1>1, <3>1 DEF Place, Ended
    <2>2. UNCHANGED <<landed, txn, conn, in_txn, closing, shutdown, flusher>>
      BY <1>9 DEF TxnBeginFails, TxnEnds, flushVars, closeVars
    <2>3. tries' \in [Process -> 0..MaxBusy]
      <3>1. \/ tries' = tries
            \/ tries[o] < MaxBusy /\ tries' = [tries EXCEPT ![o] = @ + 1]
        BY <1>9 DEF TxnBeginFails, TxnEnds
      <3>2. CASE tries[o] < MaxBusy /\ tries' = [tries EXCEPT ![o] = @ + 1]
        <4>1. tries \in [Process -> 0..MaxBusy] /\ o \in Process /\ MaxBusy \in Nat
          BY <1>0, Names DEF Shapes
        <4>2. tries[o] + 1 \in 0..MaxBusy
          BY <3>2, <4>1
        <4> QED
          BY <3>2, <4>1, <4>2
      <3> QED
        BY <1>0, <3>1, <3>2 DEF Shapes
    <2> QED
      BY <1>0, <2>1, <2>2, <2>3 DEF Shapes
  <1>10. ASSUME NEW o \in Op,
                TxnCommit(o) \/ TxnRollback(o) \/ CancelCommit(o) \/ CancelBegin(o)
         PROVE  Shapes'
    <2>1. pc' \in [Op -> Place]
      <3>1. \/ pc' = [pc EXCEPT ![o] = "ok"]
            \/ pc' = [pc EXCEPT ![o] = "raised"]
            \/ pc' = [pc EXCEPT ![o] = "canceled"]
        BY <1>10 DEF TxnCommit, TxnRollback, CancelCommit, CancelBegin, TxnEnds
      <3> QED
        BY <1>1, <3>1 DEF Place, Ended
    <2>2. /\ UNCHANGED <<tries, conn, closing, shutdown, flusher>>
          /\ in_txn' \in BOOLEAN /\ (txn' = txn \/ txn' = {})
      BY <1>10 DEF TxnCommit, TxnRollback, CancelCommit, CancelBegin, TxnEnds,
                   flushVars, closeVars
    <2>3. landed' \in [Op -> Nat]
      <3>1. \/ landed' = landed
            \/ landed' = [p \in Op |-> landed[p] + IF p \in txn \cup {o} THEN 1 ELSE 0]
        BY <1>10 DEF TxnCommit, TxnRollback, CancelCommit, CancelBegin
      <3>2. landed \in [Op -> Nat]
        BY <1>0 DEF Shapes
      <3> QED
        BY <3>1, <3>2
    <2> QED
      BY <1>0, <2>1, <2>2, <2>3 DEF Shapes
  <1>11. ASSUME NEW o \in Op, CancelWaiting(o) \/ CancelQueued(o)
         PROVE  Shapes'
    <2>1. pc' = [pc EXCEPT ![o] = "canceled"]
      BY <1>11 DEF CancelWaiting, CancelQueued
    <2>2. pc' \in [Op -> Place]
      BY <1>1, <2>1 DEF Place, Ended
    <2>3. UNCHANGED <<tries, landed, txn, conn, in_txn, closing, shutdown, flusher>>
      BY <1>11 DEF CancelWaiting, CancelQueued, flushVars, closeVars, dbVars
    <2> QED
      BY <1>0, <2>2, <2>3 DEF Shapes
  <1>12. CASE FlusherArrives
    BY <1>0, <1>12 DEF FlusherArrives, dbVars, closeVars, Shapes
  <1>13. CASE FlushOne \/ FlushBeginFails \/ FlushCommit \/ FlushRollback
    <2>1. PICK left : FlushEnds(left) /\ Leaves(left) /\ OnlyAnswers
      BY <1>13, FlushTurn
    <2>2. closing' = closing
      BY <1>13, FlushTurn
    <2>3. /\ tries' \in [Process -> 0..MaxBusy] /\ pc' \in [Op -> Place]
          /\ flusher' \in {"off", "away", "in line"}
          /\ shutdown' = shutdown \/ shutdown' = "drained"
      BY <2>1 DEF FlushEnds, OnlyAnswers
    <2>4. conn' = conn /\ (in_txn' = in_txn \/ in_txn' = FALSE)
      BY <1>13 DEF FlushOne, FlushBeginFails, FlushCommit, FlushRollback
    <2>5. landed \in [Op -> Nat] /\ txn \subseteq Op
      BY <1>0 DEF Shapes
    <2>6. landed' \in [Op -> Nat] /\ txn' \subseteq Op
      <3>1. CASE FlushOne
        <4> DEFINE o == Head(pending)
        <4>1. o \in Op
          BY <1>0, <3>1, SingleLine, Names DEF FlushOne, QueueInv
        <4>2. UNCHANGED <<txn, landed>> \/ Executes(o)
          BY <3>1 DEF FlushOne
        <4> HIDE DEF o
        <4> QED
          BY <2>5, <4>1, <4>2 DEF Executes
      <3>2. CASE FlushBeginFails
        BY <2>5, <3>2 DEF FlushBeginFails
      <3>3. CASE FlushCommit
        BY <2>5, <3>3 DEF FlushCommit
      <3>4. CASE FlushRollback
        BY <2>5, <3>4 DEF FlushRollback
      <3> QED
        BY <1>13, <3>1, <3>2, <3>3, <3>4
    <2> QED
      BY <1>0, <2>2, <2>3, <2>4, <2>6 DEF Shapes
  <1>14. CASE FlushBegin
    <2>1. /\ flusher' = "flushing" /\ in_txn' = TRUE
          /\ txn' \subseteq ToSet(pending)
          /\ UNCHANGED <<pc, tries, landed, conn, closing, shutdown>>
      BY <1>14 DEF FlushBegin, asyncVars, closeVars
    <2>2. ToSet(pending) \subseteq Op
      BY <1>0, LineSet, Names DEF QueueInv
    <2> QED
      BY <1>0, <2>1, <2>2 DEF Shapes
  <1>15. CASE Shutdown
    <2>1. UNCHANGED <<pc, tries, landed, flusher>>
      BY <1>15 DEF Shutdown, ShutdownStarts, ShutdownDrained, ShutdownCloses,
                   flushVars, dbVars
    <2>2. /\ closing' \in {closing, FALSE} /\ txn' \in {txn, {}}
          /\ in_txn' \in {in_txn, FALSE} /\ conn' \in {conn, "none"}
          /\ shutdown' \in {"draining", "in line", "done"}
      BY <1>15 DEF Shutdown, ShutdownStarts, ShutdownDrained, ShutdownCloses,
                   ShutdownLocks, ShutdownEnds, dbVars
    <2> QED
      BY <1>0, <2>1, <2>2 DEF Shapes
  <1>16. ASSUME NEW c \in Closer, Close(c) \/ CloseReturns(c) \/ CancelClose(c)
         PROVE  Shapes'
    <2>1. UNCHANGED <<pc, tries, landed, txn, conn, in_txn, flusher>>
      BY <1>16 DEF Close, CloseReturns, CancelClose, asyncVars, flushVars, dbVars
    <2>2. /\ closing' \in {closing, TRUE}
          /\ shutdown' \in {shutdown, "none", "scheduled"}
      BY <1>16 DEF Close, CloseReturns, CancelClose
    <2> QED
      BY <1>0, <2>1, <2>2 DEF Shapes
  <1>17. CASE UNCHANGED vars
    BY <1>0, <1>17 DEF vars, Shapes
  <1> QED
    BY <1>4, <1>5, <1>6, <1>7, <1>8, <1>9, <1>10, <1>11, <1>12, <1>13, <1>14, <1>15,
       <1>16, <1>17 DEF Next, Advance, Cancel, Flush

-----------------------------------------------------------------------------
(* The theorems.                                                           *)

\* The store before anybody used it.
LEMMA InitSqlite == Init => SqliteInv
  <1> SUFFICES ASSUME Init PROVE SqliteInv
    OBVIOUS
  <1>1. \A S : Line(<<>>, S) /\ ToSet(<<>>) = {}
    BY EmptyLine
  <1>2. Shapes
    <2>1. MaxBusy \in Nat
      BY Names
    <2>2. 0 \in 0..MaxBusy
      BY <2>1
    <2> QED
      BY <2>2 DEF Init, Shapes, Place
  <1>3. LockInv
    BY <1>1, Names DEF Init, LockInv, Waits, Busy
  <1>4. OpenInv
    BY <1>1 DEF Init, OpenInv, Connects
  <1>5. QueueInv
    BY <1>1 DEF Init, QueueInv
  <1>6. DbInv
    BY <1>1 DEF Init, DbInv
  <1> QED
    BY <1>2, <1>3, <1>4, <1>5, <1>6 DEF SqliteInv

\* The invariant the others rest on: the lines for the two locks and the flush
\* queue hold whoever wants them, once, and an open transaction has exactly the
\* writes of the batch that did not fail.
THEOREM SqliteInvariant == Spec => []SqliteInv
  <1>1. SqliteInv /\ [Next]_vars => SqliteInv'
    BY NextShapes, NextLock, NextOpen, NextQueue, NextDb DEF SqliteInv
  <1> QED
    BY InitSqlite, <1>1, PTL DEF Spec

\* The store's variables hold what they should.
THEOREM TypeCorrect == Spec => []TypeOK
  <1>1. SqliteInv => TypeOK
    BY DEF SqliteInv, TypeOK, Shapes, Place, LockInv, OpenInv, QueueInv, Line
  <1> QED
    BY SqliteInvariant, <1>1, PTL

\* No write is committed twice, whatever retries of a group commit, lost write
\* locks and cancelations it went through (_flush_loop, _flush_batch).
THEOREM WritesApplyOnce == Spec => []AppliedOnce
  <1>1. SqliteInv => AppliedOnce
    BY DEF SqliteInv, DbInv, AppliedOnce
  <1> QED
    BY SqliteInvariant, <1>1, PTL

-----------------------------------------------------------------------------
(* Who owns an open transaction, and what acknowledgements are worth.      *)

\* A step of an operation that neither begins nor ends a transaction.
Passes(o) ==
  /\ pc' = [pc EXCEPT ![o] = pc'[o]]
  /\ pc[o] \notin Ended \cup {"body"} /\ pc'[o] \notin {"ok", "body"}
  /\ pc[o] = "queued" => pc'[o] = "canceled"
  /\ pc'[o] # "idle" /\ (pc[o] = "idle" => pc'[o] # "canceled")
  /\ UNCHANGED <<txn, in_txn, landed, batch, failing, closeVars>>
  /\ flusher' = "flushing" <=> flusher = "flushing"
  /\ conn' \in {conn, "open"}
  /\ \/ pending' = pending
     \/ conn = "open" /\ pending' = Append(pending, o) /\ pc'[o] = "queued" /\ o \in Write

\* Most steps of an operation neither begin nor end a transaction.
LEMMA Passing ==
  ASSUME SqliteInv, NEW o \in Op,
         \/ Issue(o) \/ OpenStarts(o) \/ OpenFails(o) \/ Publish(o) \/ ReadVersion(o)
         \/ RefreshStatistics(o) \/ TxnBeginFails(o) \/ TxnComesBack(o)
         \/ CancelWaiting(o) \/ CancelQueued(o)
  PROVE  Passes(o)
  <1>0. pc \in [Op -> Place] /\ Shapes
    BY DEF SqliteInv, Shapes
  <1>1. ASSUME NEW x, pc' = [pc EXCEPT ![o] = x]
        PROVE  pc'[o] = x /\ pc' = [pc EXCEPT ![o] = pc'[o]]
    BY <1>0, <1>1
  <1>2. ASSUME NEW x, pc' = [pc EXCEPT ![o] = x], x \notin {"ok", "body", "idle"},
               pc[o] \notin Ended \cup {"body"}, pc[o] = "queued" => x = "canceled",
               pc[o] = "idle" => x # "canceled",
               UNCHANGED <<txn, in_txn, landed, flushVars, closeVars>>,
               conn' = conn \/ conn' = "open"
        PROVE  Passes(o)
    BY <1>1, <1>2 DEF Passes, flushVars
  <1>3. ASSUME NEW queue, Enters(o, queue) \/ Ensured(o, queue), conn = "open",
               pc[o] \notin Ended \cup {"body", "queued"},
               UNCHANGED <<batch, failing, dbVars, closeVars>>
        PROVE  Passes(o)
    <2>1. /\ pc' = [pc EXCEPT ![o] = pc'[o]]
          /\ \/ /\ pc'[o] = "queued" /\ o \in Write
                /\ pending' = Append(pending, o)
                /\ flusher' = IF flusher = "off" THEN "away" ELSE flusher
             \/ /\ pc'[o] \in {"stats", "turn"}
                /\ pending' = pending /\ flusher' = flusher
      BY <1>0, <1>3, EntersFacts
    <2> QED
      BY <1>3, <2>1 DEF Passes, dbVars
  <1>4. CASE Issue(o)
    <2>1. /\ pc[o] \notin Ended \cup {"body", "queued"}
          /\ UNCHANGED <<batch, failing, dbVars, closeVars>>
      BY <1>4 DEF Issue, Ended
    <2>2. \/ pc' = [pc EXCEPT ![o] = "refused"] /\ UNCHANGED <<pending, flusher>>
          \/ Ensured(o, lock) /\ conn = "open"
          \/ pc' = [pc EXCEPT ![o] = "connecting"] /\ UNCHANGED <<pending, flusher>>
      BY <1>4 DEF Issue
    <2> QED
      BY <1>2, <1>3, <2>1, <2>2 DEF dbVars, flushVars
  <1>5. CASE OpenStarts(o)
    <2>1. /\ pc[o] \notin Ended \cup {"body", "queued"}
          /\ UNCHANGED <<batch, failing, dbVars, closeVars>>
      BY <1>5 DEF OpenStarts, Ended
    <2>2. \/ Ensured(o, lock) /\ conn = "open"
          \/ pc' = [pc EXCEPT ![o] = "opening"] /\ UNCHANGED <<pending, flusher>>
      BY <1>5 DEF OpenStarts
    <2> QED
      BY <1>2, <1>3, <2>1, <2>2 DEF dbVars, flushVars
  <1>6. CASE OpenFails(o) \/ Publish(o)
    <2>1. /\ pc[o] \notin Ended \cup {"body", "queued"}
          /\ UNCHANGED <<txn, in_txn, landed, flushVars, closeVars>>
          /\ conn' = conn \/ conn' = "open"
      BY <1>6 DEF OpenFails, Publish, Ended
    <2>2. \/ pc' = [pc EXCEPT ![o] = "raised"]
          \/ pc' = [pc EXCEPT ![o] = "refused"]
          \/ pc' = [pc EXCEPT ![o] = "version"]
      BY <1>6 DEF OpenFails, Publish
    <2> QED
      BY <1>2, <2>1, <2>2
  <1>7. CASE ReadVersion(o) \/ RefreshStatistics(o)
    <2>1. /\ pc[o] \notin Ended \cup {"body", "queued"}
          /\ UNCHANGED <<batch, failing, dbVars, closeVars>>
      BY <1>7 DEF ReadVersion, RefreshStatistics, Ended
    <2>2. \/ pc' = [pc EXCEPT ![o] = "cut"] /\ UNCHANGED <<pending, flusher>>
          \/ pc' = [pc EXCEPT ![o] = "raised"] /\ UNCHANGED <<pending, flusher>>
          \/ Enters(o, Tail(lock)) /\ conn # "none"
          \/ Ensured(o, Tail(lock)) /\ conn # "none"
      BY <1>7 DEF ReadVersion, RefreshStatistics, GivesUp
    <2>3. conn # "none" => conn = "open"
      BY <1>0 DEF Shapes
    <2> QED
      BY <1>2, <1>3, <2>1, <2>2, <2>3 DEF dbVars, flushVars
  <1>8. CASE TxnBeginFails(o) \/ TxnComesBack(o)
    <2>1. /\ pc[o] \notin Ended \cup {"body", "queued"}
          /\ UNCHANGED <<txn, in_txn, landed, flushVars, closeVars>>
          /\ conn' = conn
      BY <1>8 DEF TxnBeginFails, TxnEnds, TxnComesBack, dbVars, Ended
    <2>2. \/ pc' = [pc EXCEPT ![o] = "cut"]
          \/ pc' = [pc EXCEPT ![o] = "raised"]
          \/ pc' = [pc EXCEPT ![o] = "backoff"]
          \/ pc' = [pc EXCEPT ![o] = "turn"]
      BY <1>8 DEF TxnBeginFails, TxnEnds, TxnComesBack
    <2> QED
      BY <1>2, <2>1, <2>2
  <1>9. CASE CancelWaiting(o) \/ CancelQueued(o)
    <2>1. /\ pc[o] \notin Ended \cup {"body", "idle"}
          /\ UNCHANGED <<txn, in_txn, landed, flushVars, closeVars>>
          /\ conn' = conn
      BY <1>9 DEF CancelWaiting, CancelQueued, dbVars, Ended
    <2>2. pc' = [pc EXCEPT ![o] = "canceled"]
      BY <1>9 DEF CancelWaiting, CancelQueued
    <2>3. "canceled" \notin {"ok", "body", "idle"} /\ (conn' = conn \/ conn' = "open")
      BY <2>1
    <2> QED
      BY <1>2, <2>1, <2>2, <2>3
  <1> QED
    BY <1>4, <1>5, <1>6, <1>7, <1>8, <1>9

\* An open transaction is a group commit or somebody's, and who heard "ok" has
\* a committed write.
OwnerInv ==
  /\ in_txn => flusher = "flushing" \/ \E o \in Op : pc[o] = "body"
  /\ \A o \in Op : pc[o] = "ok" => landed[o] = 1

\* While no BEGIN is canceled, every step leaves a transaction with an owner.
LEMMA NextOwner ==
  ASSUME SqliteInv, OwnerInv, [Next]_vars, "BEGIN" \notin CancelAt
  PROVE  OwnerInv'
  <1>0. /\ pc \in [Op -> Place] /\ landed \in [Op -> Nat] /\ in_txn \in BOOLEAN
        /\ DbInv /\ LockInv /\ QueueInv /\ Shapes
    BY DEF SqliteInv, Shapes
  <1>1. ASSUME NEW o \in Op, NEW x, pc' = [pc EXCEPT ![o] = x]
        PROVE  pc'[o] = x /\ \A p \in Op \ {o} : pc'[p] = pc[p]
    BY <1>0, <1>1
  <1>2. ASSUME NEW o \in Op, Passes(o)
        PROVE  OwnerInv'
    <2>1. \A p \in Op \ {o} : pc'[p] = pc[p]
      BY <1>1, <1>2 DEF Passes
    <2>2. in_txn' => flusher' = "flushing" \/ \E p \in Op : pc'[p] = "body"
      BY <1>2, <2>1 DEF Passes, OwnerInv
    <2>3. \A p \in Op : pc'[p] = "ok" => landed'[p] = 1
      BY <1>2, <2>1 DEF Passes, OwnerInv
    <2> QED
      BY <2>2, <2>3 DEF OwnerInv
  <1>3. ASSUME NEW o \in Op, TxnBegin(o)
        PROVE  OwnerInv'
    <2>1. pc' = [pc EXCEPT ![o] = "body"] /\ landed' = landed
      BY <1>3 DEF TxnBegin
    <2> QED
      BY <1>1, <2>1 DEF OwnerInv
  <1>4. ASSUME NEW o \in Op, TxnCommit(o) \/ CancelCommit(o)
        PROVE  OwnerInv'
    <2>1. /\ pc[o] = "body" /\ in_txn' = FALSE
          /\ pc' = [pc EXCEPT ![o] = "ok"] \/ pc' = [pc EXCEPT ![o] = "canceled"]
          /\ landed' = [p \in Op |-> landed[p] + IF p \in txn \cup {o} THEN 1 ELSE 0]
      BY <1>4 DEF TxnCommit, CancelCommit, TxnEnds
    <2>2. txn = {} /\ landed[o] = 0
      BY <1>0, <2>1 DEF DbInv
    <2>3. landed'[o] = 1 /\ \A p \in Op \ {o} : landed'[p] = landed[p]
      BY <1>0, <2>1, <2>2
    <2>4. \A p \in Op \ {o} : pc'[p] = pc[p]
      BY <1>1, <2>1
    <2> QED
      BY <2>1, <2>3, <2>4 DEF OwnerInv
  <1>5. ASSUME NEW o \in Op, TxnRollback(o)
        PROVE  OwnerInv'
    <2>1. pc' = [pc EXCEPT ![o] = "raised"] /\ in_txn' = FALSE /\ landed' = landed
      BY <1>5 DEF TxnRollback, TxnEnds
    <2> QED
      BY <1>1, <2>1 DEF OwnerInv
  <1>6. \A o \in Op : ~CancelBegin(o)
    BY DEF CancelBegin
  <1>7. CASE FlushOne \/ FlushBeginFails \/ FlushCommit \/ FlushRollback
    <2>1. Holds("flusher") /\ OnlyAnswers
      BY <1>7, FlushTurn
    <2>2. \A o \in Op : pc[o] # "body"
      BY <1>0, <2>1, OneHolder, Names DEF Busy
    <2>3. in_txn => flusher = "flushing"
      BY <2>2 DEF OwnerInv
    <2>4. CASE FlushOne
      <3>1. ~in_txn /\ in_txn' = in_txn
        BY <2>3, <2>4 DEF FlushOne
      <3> DEFINE o == Head(pending)
      <3>2. o \in Op /\ ToSet(pending) = {o}
        BY <1>0, <2>4, SingleLine, Names DEF QueueInv, FlushOne
      <3>3. landed[o] = 0 /\ pc[o] # "ok"
        BY <1>0, <3>2 DEF DbInv, QueueInv
      <3>4. \/ Executes(o) /\ pc' = Told({o}, {}, "ok")
            \/ landed' = landed /\ pc' = Told({}, {o}, "raised")
            \/ landed' = landed /\ pc' = Told({}, {o}, "cut")
            \/ landed' = landed /\ FlushIsBusy(pending)
        BY <2>4 DEF FlushOne
      <3> HIDE DEF o
      <3>5. CASE Executes(o) /\ pc' = Told({o}, {}, "ok")
        <4>1. landed' = [landed EXCEPT ![o] = @ + 1]
          BY <3>1, <3>5 DEF Executes
        <4>2. landed'[o] = 1 /\ \A p \in Op \ {o} : landed'[p] = landed[p]
          BY <1>0, <3>2, <3>3, <4>1
        <4>3. \A p \in Op \ {o} : pc'[p] = pc[p]
          BY <3>5 DEF Told
        <4> QED
          BY <3>1, <4>2, <4>3 DEF OwnerInv
      <3>6. CASE landed' = landed /\ \A p \in Op : pc'[p] = "ok" => pc[p] = "ok"
        BY <3>1, <3>6 DEF OwnerInv
      <3>7. CASE landed' = landed /\ pc' = Told({}, {o}, "raised")
        BY <3>6, <3>7 DEF Told
      <3>8. CASE landed' = landed /\ pc' = Told({}, {o}, "cut")
        BY <3>6, <3>8 DEF Told
      <3>9. CASE landed' = landed /\ FlushIsBusy(pending)
        BY <1>0, <3>6, <3>9, BusyEnds
      <3> QED
        BY <3>4, <3>5, <3>7, <3>8, <3>9
    <2>5. ASSUME ~in_txn', landed' = landed, \A p \in Op : pc'[p] = "ok" => pc[p] = "ok"
          PROVE  OwnerInv'
      BY <2>5 DEF OwnerInv
    <2>6. CASE FlushBeginFails
      <3>0. ~in_txn
        BY <2>3, <2>6 DEF FlushBeginFails
      <3>1a. \/ FlushIsBusy(pending) /\ in_txn' = in_txn
             \/ Stranded(pending, "cut") /\ in_txn' = in_txn
        BY <2>6, <3>0, Zenon DEF FlushBeginFails
      <3>1b. landed' = landed
        BY <2>6 DEF FlushBeginFails
      <3>1. /\ ~in_txn' /\ landed' = landed
            /\ \/ FlushIsBusy(pending)
               \/ Stranded(pending, "cut")
        BY <3>0, <3>1a, <3>1b
      <3>2. \A p \in Op : pc'[p] = "ok" => pc[p] = "ok"
        BY <1>0, <3>1, BusyEnds DEF Told, Stranded
      <3> QED
        BY <2>5, <3>1, <3>2
    <2>7. CASE FlushRollback
      <3>1. /\ ~in_txn' /\ landed' = landed
            /\ \/ FlushIsBusy(batch \o pending)
               \/ pc' = Told({}, ToSet(batch), "raised")
        BY <2>7 DEF FlushRollback
      <3>2. \A p \in Op : pc'[p] = "ok" => pc[p] = "ok"
        BY <1>0, <3>1, BusyEnds DEF Told
      <3> QED
        BY <2>5, <3>1, <3>2
    <2>8. CASE FlushCommit
      <3>1. /\ flusher = "flushing" /\ in_txn' = FALSE
            /\ landed' = [o \in Op |-> landed[o] + IF o \in txn THEN 1 ELSE 0]
            /\ pc' = Told(ToSet(batch) \ failing, failing, "raised")
        BY <2>8 DEF FlushCommit
      <3>2. txn = ToSet(batch) \ failing
        BY <1>0, <3>1 DEF DbInv
      <3>3. \A o \in Op : /\ o \in txn => landed[o] = 0 /\ landed'[o] = 1
                          /\ o \notin txn => landed'[o] = landed[o]
        BY <1>0, <3>1 DEF DbInv
      <3>4. \A o \in Op : pc'[o] = "ok" => pc[o] = "ok" \/ o \in txn
        BY <3>1, <3>2 DEF Told
      <3> QED
        BY <3>1, <3>3, <3>4 DEF OwnerInv
    <2> QED
      BY <1>7, <2>4, <2>6, <2>7, <2>8
  <1>8. CASE FlushBegin
    BY <1>8 DEF FlushBegin, asyncVars, OwnerInv
  <1>9. ASSUME pc' = pc, UNCHANGED <<landed, in_txn>>,
               flusher' = "flushing" <=> flusher = "flushing"
        PROVE  OwnerInv'
    BY <1>9 DEF OwnerInv
  <1>10. CASE FlusherArrives \/ ShutdownStarts \/ ShutdownDrained
    BY <1>9, <1>10 DEF FlusherArrives, ShutdownStarts, ShutdownDrained, dbVars, flushVars
  <1>11. CASE ShutdownCloses
    BY <1>11 DEF ShutdownCloses, OwnerInv
  <1>12. ASSUME NEW c \in Closer, Close(c) \/ CloseReturns(c) \/ CancelClose(c)
         PROVE  OwnerInv'
    BY <1>9, <1>12 DEF Close, CloseReturns, CancelClose, asyncVars, dbVars, flushVars
  <1>13. CASE UNCHANGED vars
    BY <1>9, <1>13 DEF vars
  <1> QED
    BY <1>2, <1>3, <1>4, <1>5, <1>6, <1>7, <1>8, <1>10, <1>11, <1>12, <1>13, Passing
       DEF Next, Advance, Cancel, Flush, Shutdown

\* So both invariants hold together.
LEMMA OwnerInvariant ==
  ASSUME "BEGIN" \notin CancelAt
  PROVE  Spec => [](SqliteInv /\ OwnerInv)
  <1>1. Init => OwnerInv
    BY DEF Init, OwnerInv
  <1>2. SqliteInv /\ OwnerInv /\ [Next]_vars => OwnerInv'
    BY NextOwner
  <1> QED
    BY SqliteInvariant, <1>1, <1>2, PTL DEF Spec

\* As long as no cancelation lands in a BEGIN, a transaction on the shared
\* connection is a group commit of the batch or the body of one that holds the
\* store lock: none is left open for the next user (_transaction).  The run
\* `begin` shows that the hypothesis is needed.
THEOREM TransactionsAreOwned ==
  ASSUME "BEGIN" \notin CancelAt
  PROVE  Spec => []TransactionHasOwner
  <1>1. SqliteInv /\ OwnerInv => TransactionHasOwner
    <2> SUFFICES ASSUME SqliteInv, OwnerInv, in_txn
                 PROVE  \/ flusher = "flushing" /\ Holds("flusher") /\ txn \subseteq ToSet(batch)
                        \/ \E o \in Txn : pc[o] = "body" /\ Holds(o) /\ txn = {}
      BY DEF TransactionHasOwner
    <2>1. CASE flusher = "flushing"
      BY <2>1, Names DEF SqliteInv, LockInv, Busy, DbInv
    <2>2. CASE \E o \in Op : pc[o] = "body"
      BY <2>2, Names DEF SqliteInv, LockInv, Busy, DbInv
    <2> QED
      BY <2>1, <2>2 DEF OwnerInv
  <1> QED
    BY OwnerInvariant, <1>1, PTL

\* Under the same hypothesis what a caller was told is so: a write it heard
\* "ok" of is committed, one it heard an error of never will be.
THEOREM AcknowledgementsHold ==
  ASSUME "BEGIN" \notin CancelAt
  PROVE  Spec => []AcknowledgedIsDurable
  <1>1. SqliteInv /\ OwnerInv => AcknowledgedIsDurable
    <2> SUFFICES ASSUME SqliteInv, OwnerInv, NEW o \in Op,
                        pc[o] \in {"refused", "raised", "cut"}
                 PROVE  landed[o] = 0 /\ o \notin txn \cup ToSet(pending \o batch)
      BY DEF AcknowledgedIsDurable, OwnerInv
    <2>1. landed[o] = 0 /\ o \notin ToSet(pending) \cup ToSet(batch)
      BY DEF SqliteInv, DbInv, QueueInv
    <2>2. ToSet(pending \o batch) = ToSet(pending) \cup ToSet(batch)
      BY JoinedLines DEF SqliteInv, QueueInv
    <2>3. o \notin txn
      BY <2>1 DEF SqliteInv, DbInv, OwnerInv
    <2> QED
      BY <2>1, <2>2, <2>3
  <1> QED
    BY OwnerInvariant, <1>1, PTL

-----------------------------------------------------------------------------
(* What a call is promised.                                                *)

\* The writes that are queued or in a batch.
Underway == ToSet(pending) \cup ToSet(batch)

\* All a step may do with a call: nothing, or decide the write of one that was
\* canceled, or take one further that had no answer yet.
Advances(o) ==
  \/ pc'[o] = pc[o] /\ landed'[o] = landed[o] /\ (o \in Underway' => o \in Underway)
  \/ pc'[o] = pc[o] /\ pc[o] = "canceled" /\ o \in Underway
  \/ /\ pc[o] \notin Ended /\ pc'[o] # "idle"
     /\ pc[o] = "idle" => pc'[o] \notin {"ok", "canceled"}

\* Each of these is a move StoreCalls allows, because what was committed has an
\* answer that says so and is queued nowhere.
LEMMA AdvancesIsMove ==
  ASSUME SqliteInv, OwnerInv, SqliteInv', OwnerInv', NEW o \in Op, Advances(o)
  PROVE  CallOf(o)' = CallOf(o) \/ Calls!Move(CallOf(o), CallOf(o)')
  <1>0. /\ pc[o] \in Place /\ pc'[o] \in Place
        /\ landed[o] \in {0, 1} /\ landed'[o] \in {0, 1}
        /\ landed[o] = 1 => pc[o] \in {"ok", "canceled"} /\ o \notin Underway
        /\ landed'[o] = 1 => pc'[o] \in {"ok", "canceled"} /\ o \notin Underway'
        /\ pc'[o] = "ok" => landed'[o] = 1
    BY DEF SqliteInv, Shapes, DbInv, OwnerInv, Underway
  <1> DEFINE c == CallOf(o)
             d == CallOf(o)'
  <1>1. /\ c.answer = Answer(o) /\ c.landed = landed[o] /\ c.open = MayLand(o)
        /\ d.answer = Answer(o)' /\ d.landed = landed'[o] /\ d.open = MayLand(o)'
    BY DEF CallOf
  <1>2. /\ MayLand(o) <=> pc[o] \notin Ended \/ (pc[o] = "canceled" /\ o \in Underway)
        /\ MayLand(o)' <=> pc'[o] \notin Ended \/ (pc'[o] = "canceled" /\ o \in Underway')
        /\ MayLand(o) \in BOOLEAN /\ MayLand(o)' \in BOOLEAN
    BY DEF MayLand, Underway
  <1> HIDE DEF c, d
  <1>3. CASE pc'[o] = pc[o]
    <2>1. Answer(o)' = Answer(o)
      BY <1>3 DEF Answer
    <2>2. CASE MayLand(o)' = MayLand(o) /\ landed'[o] = landed[o]
      BY <2>1, <2>2 DEF CallOf
    <2>3. CASE ~(MayLand(o)' = MayLand(o) /\ landed'[o] = landed[o])
      <3>1. /\ pc[o] = "canceled" /\ o \in Underway /\ landed[o] = 0
            /\ MayLand(o) /\ ~MayLand(o)'
        BY <1>0, <1>2, <1>3, <2>3 DEF Advances, Ended
      <3>2. Answer(o) = "canceled"
        BY <3>1 DEF Answer
      <3>3. Calls!Takes(c, d) \/ Calls!Drops(c, d)
        BY <1>0, <1>1, <3>1 DEF Calls!Takes, Calls!Drops
      <3>4. Calls!Decided(c, d)
        BY <1>1, <2>1, <3>2, <3>3 DEF Calls!Decided
      <3> QED
        BY <3>4 DEF Calls!Move, c, d
    <2> QED
      BY <2>2, <2>3
  <1>4. CASE pc'[o] # pc[o]
    <2>1. /\ pc[o] \notin Ended /\ pc'[o] # "idle" /\ landed[o] = 0 /\ MayLand(o)
          /\ pc[o] = "idle" => pc'[o] \notin {"ok", "canceled"}
      BY <1>0, <1>2, <1>4 DEF Advances, Ended
    <2>2. Answer(o) = IF pc[o] = "idle" THEN "none" ELSE "waiting"
      BY <1>0, <2>1 DEF Answer, Ended
    <2>3. CASE pc'[o] \notin Ended
      <3>1. Answer(o)' = "waiting" /\ MayLand(o)' /\ landed'[o] = 0
        BY <1>0, <1>2, <2>1, <2>3 DEF Answer, Ended
      <3>2. CASE pc[o] = "idle"
        <4>1. Calls!Made(c, d)
          BY <1>1, <1>2, <2>1, <2>2, <3>1, <3>2 DEF Calls!Made
        <4> QED
          BY <4>1 DEF Calls!Move, c, d
      <3>3. CASE pc[o] # "idle"
        BY <1>2, <2>1, <2>2, <3>1, <3>3 DEF CallOf
      <3> QED
        BY <3>2, <3>3
    <2>4. CASE pc'[o] \in {"refused", "raised", "cut"}
      <3>1. Answer(o)' = "failed" /\ ~MayLand(o)' /\ landed'[o] = 0
        BY <1>0, <1>2, <2>4 DEF Answer, Ended
      <3>2. Calls!Failed(c, d)
        BY <1>1, <2>1, <2>2, <3>1 DEF Calls!Failed, Calls!Drops
      <3> QED
        BY <3>2 DEF Calls!Move, c, d
    <2>5. CASE pc'[o] = "ok"
      <3>1. Answer(o)' = "ok" /\ ~MayLand(o)' /\ landed'[o] = 1 /\ Answer(o) = "waiting"
        BY <1>0, <1>2, <2>1, <2>2, <2>5 DEF Answer, Ended
      <3>2. Calls!Granted(c, d)
        BY <1>1, <2>1, <3>1 DEF Calls!Granted, Calls!Takes
      <3> QED
        BY <3>2 DEF Calls!Move, c, d
    <2>6. CASE pc'[o] = "canceled"
      <3>1. Answer(o)' = "canceled" /\ Answer(o) = "waiting"
        BY <2>1, <2>2, <2>6 DEF Answer
      <3>2. landed'[o] = 1 => ~MayLand(o)'
        BY <1>0, <1>2, <2>6 DEF Ended
      <3>3. CASE landed'[o] = 1
        <4>1. Calls!Takes(c, d)
          BY <1>1, <2>1, <3>2, <3>3 DEF Calls!Takes
        <4> QED
          BY <1>1, <3>1, <4>1 DEF Calls!Abandoned, Calls!Move, c, d
      <3>4. CASE landed'[o] = 0
        <4>1. d.landed = c.landed /\ (Calls!Drops(c, d) \/ d.open = c.open)
          BY <1>1, <1>2, <2>1, <3>4 DEF Calls!Drops
        <4> QED
          BY <1>1, <3>1, <4>1 DEF Calls!Abandoned, Calls!Move, c, d
      <3> QED
        BY <1>0, <3>3, <3>4
    <2> QED
      BY <2>3, <2>4, <2>5, <2>6 DEF Ended
  <1> QED
    BY <1>3, <1>4

\* A turn of the flush loop answers and decides those that were underway alone.
LEMMA FlushAdvances ==
  ASSUME SqliteInv, OwnerInv, FlushOne \/ FlushBeginFails \/ FlushCommit \/ FlushRollback
  PROVE  \A o \in Op : Advances(o)
  <1>0. /\ DbInv /\ QueueInv /\ landed \in [Op -> Nat] /\ OnlyAnswers
    BY FlushTurn DEF SqliteInv, Shapes
  <1>1. \A o \in Op \ Underway : landed'[o] = landed[o]
    <2>1. CASE FlushOne
      <3>1. Head(pending) \in Underway
        <4>1. Line(pending, Write) /\ Len(pending) = 1
          BY <1>0, <2>1 DEF FlushOne, QueueInv
        <4>2. ToSet(pending) = {Head(pending)}
          BY <4>1, SingleLine
        <4> QED
          BY <4>2 DEF Underway
      <3>2. landed' = landed \/ landed' = [landed EXCEPT ![Head(pending)] = @ + 1]
        BY <2>1 DEF FlushOne, Executes
      <3> QED
        BY <1>0, <3>1, <3>2
    <2>2. CASE FlushCommit
      <3>1. txn \subseteq Underway
        BY <1>0, <2>2 DEF FlushCommit, DbInv, Underway
      <3>2. landed' = [o \in Op |-> landed[o] + IF o \in txn THEN 1 ELSE 0]
        BY <2>2 DEF FlushCommit
      <3> QED
        BY <1>0, <3>1, <3>2
    <2>3. CASE FlushBeginFails \/ FlushRollback
      <3>1. landed' = landed
        BY <2>3 DEF FlushBeginFails, FlushRollback
      <3> QED
        BY <3>1
    <2> QED
      BY <2>1, <2>2, <2>3
  <1>2. Underway' \subseteq Underway
    <2>1. PICK left : FlushEnds(left) /\ Leaves(left)
      BY FlushTurn
    <2>2. pending' = left /\ batch' = <<>> /\ ToSet(left) \subseteq Underway
      BY <2>1 DEF FlushEnds, Leaves, Underway
    <2> QED
      BY <2>2, EmptyLine DEF Underway
  <1> SUFFICES ASSUME NEW o \in Op
               PROVE  Advances(o)
    OBVIOUS
  <1>3. CASE o \notin Underway
    <2>1. pc[o] # "queued" /\ pc'[o] = pc[o]
      BY <1>0, <1>3 DEF QueueInv, OnlyAnswers, Underway
    <2> QED
      BY <1>1, <1>2, <1>3, <2>1 DEF Advances
  <1>4. CASE o \in Underway
    <2>1. pc[o] \in {"queued", "canceled"}
      BY <1>0, <1>4 DEF QueueInv, Underway
    <2>2. pc[o] = "queued" => pc'[o] # "idle"
      BY <1>0 DEF OnlyAnswers, Ended
    <2>3. pc[o] = "canceled" => pc'[o] = pc[o]
      BY <1>0 DEF OnlyAnswers
    <2> QED
      BY <1>4, <2>1, <2>2, <2>3 DEF Advances, Ended
  <1> QED
    BY <1>3, <1>4

\* While no BEGIN is canceled every step advances every call or leaves it.
LEMMA StepAdvances ==
  ASSUME SqliteInv, OwnerInv, [Next]_vars, "BEGIN" \notin CancelAt
  PROVE  \A o \in Op : Advances(o)
  <1>0. /\ pc \in [Op -> Place] /\ landed \in [Op -> Nat] /\ DbInv /\ QueueInv
    BY DEF SqliteInv, Shapes
  <1>1. ASSUME NEW o \in Op, NEW x, pc' = [pc EXCEPT ![o] = x]
        PROVE  pc'[o] = x /\ \A p \in Op \ {o} : pc'[p] = pc[p]
    BY <1>0, <1>1
  <1>2. ASSUME NEW o \in Op, Passes(o)
        PROVE  \A p \in Op : Advances(p)
    <2>1. \A p \in Op \ {o} : pc'[p] = pc[p]
      BY <1>1, <1>2 DEF Passes
    <2>2. Underway' \subseteq Underway \cup {o}
      <3>1. batch' = batch
        BY <1>2 DEF Passes
      <3>2. CASE pending' = pending
        BY <3>1, <3>2 DEF Underway
      <3>3. CASE pending' = Append(pending, o) /\ pc'[o] = "queued" /\ o \in Write
        <4>1. pc[o] \notin {"queued", "canceled"}
          BY <1>2, <3>3 DEF Passes, Ended
        <4>2. o \notin ToSet(pending) /\ Line(pending, Write)
          BY <1>0, <4>1 DEF QueueInv
        <4>3. ToSet(pending') = ToSet(pending) \cup {o}
          BY <3>3, <4>2, AppendLine
        <4> QED
          BY <3>1, <4>3 DEF Underway
      <3> QED
        BY <1>2, <3>2, <3>3 DEF Passes
    <2>3. landed' = landed
      BY <1>2 DEF Passes
    <2>4. Advances(o)
      BY <1>2 DEF Passes, Advances
    <2>5. \A p \in Op \ {o} : Advances(p)
      BY <2>1, <2>2, <2>3 DEF Advances
    <2> QED
      BY <2>4, <2>5
  <1>3. ASSUME NEW o \in Op,
               TxnBegin(o) \/ TxnCommit(o) \/ TxnRollback(o) \/ CancelCommit(o)
        PROVE  \A p \in Op : Advances(p)
    <2>1. /\ pc[o] \in {"turn", "body"} /\ UNCHANGED <<pending, batch>>
          /\ \/ pc' = [pc EXCEPT ![o] = "body"] \/ pc' = [pc EXCEPT ![o] = "ok"]
             \/ pc' = [pc EXCEPT ![o] = "raised"] \/ pc' = [pc EXCEPT ![o] = "canceled"]
      BY <1>3 DEF TxnBegin, TxnCommit, TxnRollback, CancelCommit, TxnEnds, flushVars
    <2>2. \A p \in Op \ {o} : landed'[p] = landed[p]
      <3>1. CASE TxnBegin(o) \/ TxnRollback(o)
        BY <3>1 DEF TxnBegin, TxnRollback
      <3>2. CASE TxnCommit(o) \/ CancelCommit(o)
        <4>1. /\ pc[o] = "body"
              /\ landed' = [p \in Op |-> landed[p] + IF p \in txn \cup {o} THEN 1 ELSE 0]
          BY <3>2 DEF TxnCommit, CancelCommit
        <4>2. txn = {}
          BY <1>0, <4>1 DEF DbInv
        <4> QED
          BY <1>0, <4>1, <4>2
      <3> QED
        BY <1>3, <3>1, <3>2
    <2>3. pc'[o] # "idle" /\ \A p \in Op \ {o} : pc'[p] = pc[p]
      BY <1>1, <2>1
    <2>4. Advances(o)
      BY <2>1, <2>3 DEF Advances, Ended
    <2>5. \A p \in Op \ {o} : Advances(p)
      BY <2>1, <2>2, <2>3 DEF Advances, Underway
    <2> QED
      BY <2>4, <2>5
  <1>4. \A o \in Op : ~CancelBegin(o)
    BY DEF CancelBegin
  <1>5. CASE FlushOne \/ FlushBeginFails \/ FlushCommit \/ FlushRollback
    BY <1>5, FlushAdvances
  <1>6. CASE FlushBegin
    <2>1. pc' = pc /\ landed' = landed /\ batch' = pending /\ pending' = <<>>
      BY <1>6 DEF FlushBegin, asyncVars
    <2> QED
      BY <2>1, EmptyLine DEF Advances, Underway
  <1>7. CASE UNCHANGED <<pc, landed, pending, batch>>
    BY <1>7 DEF Advances, Underway
  <1>8. CASE FlusherArrives \/ Shutdown
    BY <1>7, <1>8 DEF FlusherArrives, Shutdown, ShutdownStarts, ShutdownDrained,
                      ShutdownCloses, dbVars, flushVars
  <1>9. ASSUME NEW c \in Closer, Close(c) \/ CloseReturns(c) \/ CancelClose(c)
        PROVE  \A o \in Op : Advances(o)
    BY <1>7, <1>9 DEF Close, CloseReturns, CancelClose, asyncVars, dbVars, flushVars
  <1>10. CASE UNCHANGED vars
    BY <1>7, <1>10 DEF vars
  <1> QED
    BY <1>2, <1>3, <1>4, <1>5, <1>6, <1>8, <1>9, <1>10, Passing
       DEF Next, Advance, Cancel, Flush

\* As long as no cancelation lands in a BEGIN, every call that shares the
\* connection ends as if it were alone on it: applied once before it hears "ok",
\* never after it heard an error (_flush_batch, _transaction, close).
THEOREM StoreRefinesCalls ==
  ASSUME "BEGIN" \notin CancelAt
  PROVE  Spec => RefinesCalls
  <1>1. Init => Calls!Init
    BY DEF Init, Calls!Init, CallsSeen, CallOf, Answer, MayLand, Ended
  <1>2. /\ SqliteInv /\ OwnerInv /\ SqliteInv' /\ OwnerInv' /\ [Next]_vars
        => Calls!Next
    <2> SUFFICES ASSUME SqliteInv, OwnerInv, SqliteInv', OwnerInv', [Next]_vars,
                        NEW o \in Op
                 PROVE  CallOf(o)' = CallOf(o) \/ Calls!Move(CallOf(o), CallOf(o)')
      BY DEF Calls!Next, CallsSeen
    <2> QED
      BY StepAdvances, AdvancesIsMove
  <1> QED
    BY OwnerInvariant, <1>1, <1>2, PTL DEF Spec, RefinesCalls, Calls!Spec

-----------------------------------------------------------------------------
(* One call of close().                                                    *)

\* While a shutdown is on its way the barrier is up; as long as a write it owes
\* is queued it has the connection open and waits for the flush loop.
CloseInv ==
  /\ closer \in [Closer -> {"idle", "waiting", "woken", "returned", "canceled"}]
  /\ owed \subseteq Write
  /\ \A c \in Closer : closer[c] = "idle" =>
       /\ shutdown = "none" /\ ~closing /\ owed = {}
       /\ conn = "open" \/ (pending = <<>> /\ batch = <<>>)
  /\ closing => shutdown \in {"scheduled", "draining", "drained", "in line"}
  /\ \A o \in owed :
       /\ pc[o] \in {"queued"} \cup (Ended \ {"cut"})
       /\ pc[o] = "queued" => conn = "open" /\ shutdown \in {"scheduled", "draining"}

\* A turn of the flush loop answers "cut" only when the connection is gone, and
\* of close() it touches nothing but what waits for the loop.
LEMMA FlushMeetsClose ==
  ASSUME SqliteInv, FlushOne \/ FlushBeginFails \/ FlushCommit \/ FlushRollback
  PROVE  /\ UNCHANGED <<conn, closing, closer, owed>>
         /\ conn = "open" => \A o \in Op : pc'[o] = "cut" => pc[o] = "cut"
  <1>0. Shapes
    BY DEF SqliteInv
  <1>1. ASSUME NEW good, NEW bad, NEW outcome \in {"raised", "ok"},
               pc' = Told(good, bad, outcome)
        PROVE  \A o \in Op : pc'[o] = "cut" => pc[o] = "cut"
    BY <1>1 DEF Told
  <1>2. ASSUME NEW left, FlushIsBusy(left)
        PROVE  \A o \in Op : pc'[o] = "cut" => pc[o] = "cut"
    BY <1>0, <1>2, BusyEnds
  <1>3. CASE FlushOne
    <2>1. UNCHANGED <<conn, closing, closer, owed>>
      BY <1>3 DEF FlushOne
    <2>2. conn = "open" => \/ pc' = Told({Head(pending)}, {}, "ok")
                           \/ pc' = Told({}, {Head(pending)}, "raised")
                           \/ FlushIsBusy(pending)
      BY <1>3 DEF FlushOne
    <2> QED
      BY <1>1, <1>2, <2>1, <2>2
  <1>4. CASE FlushBeginFails
    <2>1. UNCHANGED <<conn, closing, closer, owed>>
      BY <1>4 DEF FlushBeginFails
    <2>2. conn = "open" => \/ FlushIsBusy(pending)
                           \/ pc' = Told({}, ToSet(pending), "raised")
      BY <1>4 DEF FlushBeginFails
    <2> QED
      BY <1>1, <1>2, <2>1, <2>2
  <1>5. CASE FlushCommit
    <2>1. /\ UNCHANGED <<conn, closing, closer, owed>>
          /\ pc' = Told(ToSet(batch) \ failing, failing, "raised")
      BY <1>5 DEF FlushCommit
    <2> QED
      BY <1>1, <2>1
  <1>6. CASE FlushRollback
    <2>1. /\ UNCHANGED <<conn, closing, closer, owed>>
          /\ FlushIsBusy(batch \o pending) \/ pc' = Told({}, ToSet(batch), "raised")
      BY <1>6 DEF FlushRollback
    <2> QED
      BY <1>1, <1>2, <2>1
  <1> QED
    BY <1>3, <1>4, <1>5, <1>6

\* Every step keeps it while close() is called once.
LEMMA NextClose ==
  ASSUME \A c, d \in Closer : c = d, SqliteInv, CloseInv, [Next]_vars
  PROVE  CloseInv'
  <1>0. /\ pc \in [Op -> Place] /\ Shapes /\ QueueInv /\ Write \subseteq Op
        /\ owed \subseteq Write
    BY Names DEF SqliteInv, Shapes, CloseInv
  <1>1. QueueInv'
    BY NextQueue
  <1>2. ASSUME NEW o \in Op, NEW x, pc' = [pc EXCEPT ![o] = x]
        PROVE  pc'[o] = x /\ \A p \in Op \ {o} : pc'[p] = pc[p]
    BY <1>0, <1>2
  <1>3. ASSUME UNCHANGED <<closeVars, conn, pending, batch>>,
               \A o \in Op : pc'[o] = pc[o] \/ pc[o] \notin {"queued"} \cup (Ended \ {"cut"})
        PROVE  CloseInv'
    BY <1>0, <1>3 DEF CloseInv, closeVars
  <1>4. ASSUME NEW o \in Op, Passes(o)
        PROVE  CloseInv'
    <2>1. \A p \in Op \ {o} : pc'[p] = pc[p]
      BY <1>2, <1>4 DEF Passes
    <2>2. UNCHANGED <<closing, shutdown, closer, owed, batch>>
      BY <1>4 DEF Passes, closeVars
    <2>3. \A c \in Closer : closer[c] = "idle" =>
            conn' = "open" \/ (pending' = <<>> /\ batch' = <<>>)
      BY <1>4, <2>2 DEF Passes, CloseInv
    <2>4. \A p \in owed :
            /\ pc'[p] \in {"queued"} \cup (Ended \ {"cut"})
            /\ pc'[p] = "queued" => conn' = "open" /\ shutdown \in {"scheduled", "draining"}
      <3> SUFFICES ASSUME NEW p \in owed
                   PROVE  /\ pc'[p] \in {"queued"} \cup (Ended \ {"cut"})
                          /\ pc'[p] = "queued" =>
                               conn' = "open" /\ shutdown \in {"scheduled", "draining"}
        OBVIOUS
      <3>1. CASE p = o
        <4>1. pc[o] = "queued"
          BY <1>4, <3>1 DEF Passes, CloseInv
        <4>2. pc'[o] = "canceled"
          BY <1>4, <4>1 DEF Passes
        <4> QED
          BY <3>1, <4>2 DEF Ended
      <3>2. CASE p # o
        BY <1>0, <1>4, <2>1, <3>2 DEF CloseInv, Passes
      <3> QED
        BY <3>1, <3>2
    <2> QED
      BY <2>2, <2>3, <2>4 DEF CloseInv
  <1>5. ASSUME NEW o \in Op,
               TxnBegin(o) \/ TxnCommit(o) \/ TxnRollback(o) \/ CancelBegin(o) \/ CancelCommit(o)
        PROVE  CloseInv'
    <2>1. UNCHANGED <<closeVars, conn, pending, batch>> /\ pc[o] \in {"turn", "body"}
      BY <1>5 DEF TxnBegin, TxnCommit, TxnRollback, CancelBegin, CancelCommit, TxnEnds, flushVars
    <2>2. \E x : pc' = [pc EXCEPT ![o] = x]
      BY <1>5 DEF TxnBegin, TxnCommit, TxnRollback, CancelBegin, CancelCommit, TxnEnds
    <2>3. \A p \in Op \ {o} : pc'[p] = pc[p]
      BY <1>2, <2>2
    <2> QED
      BY <1>3, <2>1, <2>3 DEF Ended
  <1>6. CASE FlushOne \/ FlushBeginFails \/ FlushCommit \/ FlushRollback
    <2>1. PICK left : FlushEnds(left) /\ Leaves(left) /\ OnlyAnswers
      BY <1>6, FlushTurn
    <2>2. /\ UNCHANGED <<conn, closing, closer, owed>>
          /\ conn = "open" => \A o \in Op : pc'[o] = "cut" => pc[o] = "cut"
      BY <1>6, FlushMeetsClose
    <2>3. /\ closing' => shutdown' \in {"scheduled", "draining", "drained", "in line"}
          /\ \A c \in Closer : closer'[c] = "idle" =>
               shutdown' = "none" /\ ~closing' /\ owed' = {}
      BY <2>1, <2>2 DEF CloseInv, FlushEnds
    <2>4. \A c \in Closer : closer'[c] = "idle" =>
            conn' = "open" \/ (pending' = <<>> /\ batch' = <<>>)
      <3>1. ASSUME pending = <<>>, batch = <<>>
            PROVE  pending' = <<>> /\ batch' = <<>>
        <4>1. Line(left, Write) /\ ToSet(left) = {}
          BY <2>1, <3>1, EmptyLine DEF Leaves
        <4> QED
          BY <2>1, <4>1, NobodyInLine DEF FlushEnds
      <3> QED
        BY <2>2, <3>1 DEF CloseInv
    <2>5. ASSUME NEW o \in owed
          PROVE  /\ pc'[o] \in {"queued"} \cup (Ended \ {"cut"})
                 /\ pc'[o] = "queued" => conn' = "open" /\ shutdown' \in {"scheduled", "draining"}
      <3>1. /\ o \in Op /\ pc[o] \in {"queued"} \cup (Ended \ {"cut"})
            /\ pc[o] = "queued" => conn = "open" /\ shutdown \in {"scheduled", "draining"}
        BY <1>0 DEF CloseInv
      <3>2. pc'[o] \in {"queued"} \cup (Ended \ {"cut"})
        BY <2>1, <2>2, <3>1 DEF OnlyAnswers, Ended
      <3>3. ASSUME pc'[o] = "queued"
            PROVE  conn' = "open" /\ shutdown' \in {"scheduled", "draining"}
        <4>1. pc[o] = "queued"
          BY <2>1, <3>1, <3>3 DEF OnlyAnswers, Ended
        <4>2. flusher' # "off"
          <5>1. o \in ToSet(pending') \cup ToSet(batch')
            BY <1>1, <3>1, <3>3 DEF QueueInv
          <5> QED
            BY <1>1, <2>1, <5>1, EmptyLine DEF QueueInv, FlushEnds
        <4> QED
          BY <2>1, <2>2, <3>1, <4>1, <4>2 DEF FlushEnds
      <3> QED
        BY <3>2, <3>3
    <2> QED
      BY <2>2, <2>3, <2>4, <2>5 DEF CloseInv
  <1>7. CASE FlushBegin
    <2>1. UNCHANGED <<closeVars, conn, pc>> /\ conn = "open"
      BY <1>7 DEF FlushBegin, asyncVars
    <2> QED
      BY <2>1 DEF CloseInv, closeVars
  <1>8. CASE FlusherArrives
    BY <1>3, <1>8 DEF FlusherArrives, dbVars
  \* Nobody owed is queued any more once the loop is off.
  <1>9. ASSUME NEW o \in owed, pc[o] = "queued"
        PROVE  flusher # "off" /\ conn = "open" /\ shutdown \in {"scheduled", "draining"}
    <2>1. o \in ToSet(pending) \cup ToSet(batch)
      BY <1>0, <1>9 DEF QueueInv
    <2> QED
      BY <1>0, <1>9, <2>1, EmptyLine DEF QueueInv, CloseInv
  <1>10. ASSUME \A c \in Closer : closer[c] # "idle",
                UNCHANGED <<pc, owed>>, \A o \in owed : pc[o] # "queued",
                \/ ShutdownEnds
                \/ shutdown' = "in line" /\ UNCHANGED <<closing, closer>>
         PROVE  CloseInv'
    <2>1. CASE ShutdownEnds
      BY <1>10, <2>1 DEF ShutdownEnds, CloseInv
    <2>2. CASE shutdown' = "in line" /\ UNCHANGED <<closing, closer>>
      BY <1>10, <2>2 DEF CloseInv
    <2> QED
      BY <1>10, <2>1, <2>2
  <1>11. CASE ShutdownStarts
    <2>1. /\ \A c \in Closer : closer[c] # "idle"
          /\ UNCHANGED <<pc, owed, conn>> /\ shutdown = "scheduled"
      BY <1>11 DEF ShutdownStarts, CloseInv, dbVars
    <2>2. CASE flusher = "off"
      BY <1>9, <1>10, <1>11, <2>1, <2>2 DEF ShutdownStarts, ShutdownLocks
    <2>3. CASE flusher # "off"
      <3>1. shutdown' = "draining" /\ UNCHANGED <<closing, closer>>
        BY <1>11, <2>3 DEF ShutdownStarts
      <3> QED
        BY <2>1, <3>1 DEF CloseInv
    <2> QED
      BY <2>2, <2>3
  <1>12. CASE ShutdownDrained \/ ShutdownCloses
    <2>1. /\ shutdown \in {"drained", "in line"} /\ UNCHANGED <<pc, owed>>
          /\ ShutdownLocks \/ ShutdownEnds
      BY <1>12 DEF ShutdownDrained, ShutdownCloses
    <2>2. \A c \in Closer : closer[c] # "idle"
      BY <2>1 DEF CloseInv
    <2> QED
      BY <1>9, <1>10, <2>1, <2>2 DEF ShutdownLocks
  <1>13. ASSUME NEW c \in Closer, Close(c)
         PROVE  CloseInv'
    <2>1. /\ closer[c] = "idle" /\ shutdown = "none" /\ owed = {}
          /\ conn = "open" \/ (pending = <<>> /\ batch = <<>>)
          /\ closing' = TRUE /\ shutdown' = "scheduled" /\ UNCHANGED <<pc, conn>>
          /\ closer' = [closer EXCEPT ![c] = "waiting"]
          /\ owed' = {o \in Write : pc[o] = "queued"}
      BY <1>13 DEF Close, CloseInv, asyncVars, dbVars
    <2>2. \A d \in Closer : closer'[d] = "waiting"
      BY <2>1 DEF CloseInv
    <2>3. \A o \in owed' : pc[o] = "queued" /\ conn = "open"
      BY <1>0, <2>1, EmptyLine DEF QueueInv
    <2>4. closer' \in [Closer -> {"idle", "waiting", "woken", "returned", "canceled"}]
      BY <2>1 DEF CloseInv
    <2> QED
      BY <2>1, <2>2, <2>3, <2>4 DEF CloseInv
  <1>14. ASSUME NEW c \in Closer, CloseReturns(c) \/ CancelClose(c)
         PROVE  CloseInv'
    <2>1. /\ \E x \in {"returned", "canceled"} : closer' = [closer EXCEPT ![c] = x]
          /\ shutdown' = shutdown \/ (shutdown = "done" /\ shutdown' = "none")
          /\ UNCHANGED <<pc, conn, pending, batch, closing, owed>>
      BY <1>14 DEF CloseReturns, CancelClose, asyncVars, dbVars, flushVars
    <2>2. \A d \in Closer : closer'[d] # "idle"
      BY <2>1 DEF CloseInv
    <2>3. closer' \in [Closer -> {"idle", "waiting", "woken", "returned", "canceled"}]
      BY <2>1 DEF CloseInv
    <2> QED
      BY <2>1, <2>2, <2>3 DEF CloseInv
  <1>15. CASE UNCHANGED vars
    BY <1>3, <1>15 DEF vars, closeVars
  <1> QED
    BY <1>4, <1>5, <1>6, <1>7, <1>8, <1>11, <1>12, <1>13, <1>14, <1>15, Passing
       DEF Next, Advance, Cancel, Flush, Shutdown

\* So both invariants hold together.
LEMMA CloseInvariant ==
  ASSUME \A c, d \in Closer : c = d
  PROVE  Spec => [](SqliteInv /\ CloseInv)
  <1>1. Init => CloseInv
    BY DEF Init, CloseInv
  <1>2. SqliteInv /\ CloseInv /\ [Next]_vars => CloseInv'
    BY NextClose
  <1> QED
    BY SqliteInvariant, <1>1, <1>2, PTL DEF Spec

\* With one call of close() the barrier never stays up behind the shutdown.
THEOREM BarrierIsTakenDown ==
  ASSUME \A c, d \in Closer : c = d
  PROVE  Spec => []BarrierComesDown
  <1>1. CloseInv => BarrierComesDown
    BY DEF CloseInv, BarrierComesDown
  <1> QED
    BY CloseInvariant, <1>1, PTL

\* With one call of close() no write that was queued when it came is cut.
THEOREM OwedWritesAreFlushed ==
  ASSUME \A c, d \in Closer : c = d
  PROVE  Spec => []QueuedWritesLand
  <1>1. CloseInv => QueuedWritesLand
    BY DEF CloseInv, QueuedWritesLand
  <1> QED
    BY CloseInvariant, <1>1, PTL

-----------------------------------------------------------------------------
(* The order in which writes were issued.                                  *)

\* What KeepsIssueOrder says of a step.
Ordered ==
  LET line == batch \o pending
      next == batch' \o pending'
  IN \A i, j \in DOMAIN line :
       i < j /\ line[i] \in ToSet(next) =>
         /\ landed'[line[j]] = landed[line[j]]
         /\ \A k, l \in DOMAIN next :
              next[k] = line[i] /\ next[l] = line[j] => k < l

\* The line moves up by d: those in front are gone, the others keep their places
\* among each other, with newcomers only behind them.
MovesUp(line, next, d) ==
  /\ \A i \in 1..d : line[i] \notin ToSet(next)
  /\ \A k \in 1..(Len(line) - d) : k \in DOMAIN next /\ next[k] = line[k + d]

LEMMA MovingUpKeepsOrder ==
  ASSUME NEW S, NEW line, Line(line, S), NEW next, Line(next, S),
         NEW d \in 0..Len(line), MovesUp(line, next, d),
         NEW i \in DOMAIN line, NEW j \in DOMAIN line, i < j, line[i] \in ToSet(next)
  PROVE  /\ i > d
         /\ \A k, l \in DOMAIN next : next[k] = line[i] /\ next[l] = line[j] => k < l
  <1>1. /\ DOMAIN line = 1..Len(line) /\ Len(line) \in Nat
        /\ DOMAIN next = 1..Len(next) /\ Len(next) \in Nat
    BY LenProperties DEF Line
  <1>2. i > d
    BY <1>1 DEF MovesUp
  <1>3. /\ i - d \in DOMAIN next /\ next[i - d] = line[i]
        /\ j - d \in DOMAIN next /\ next[j - d] = line[j]
    <2>1. i - d \in 1..(Len(line) - d) /\ j - d \in 1..(Len(line) - d)
      BY <1>1, <1>2
    <2>2. (i - d) + d = i /\ (j - d) + d = j
      BY <1>1
    <2> QED
      BY <2>1, <2>2 DEF MovesUp
  <1>4. \A k, l \in DOMAIN next : next[k] = next[l] => k = l
    BY DEF Line, IsInjective
  <1> QED
    BY <1>1, <1>2, <1>3, <1>4

\* Everybody left.
LEMMA AllMoveUp ==
  ASSUME NEW S, NEW line, Line(line, S)
  PROVE  MovesUp(line, <<>>, Len(line)) /\ Len(line) \in 0..Len(line)
  <1>1. Len(line) \in Nat
    BY LenProperties DEF Line
  <1> QED
    BY <1>1, EmptyLine DEF MovesUp

\* Nobody did.
LEMMA NobodyMovesUp ==
  ASSUME NEW S, NEW line, Line(line, S)
  PROVE  MovesUp(line, line, 0) /\ 0 \in 0..Len(line)
  <1>1. Len(line) \in Nat /\ DOMAIN line = 1..Len(line)
    BY LenProperties DEF Line
  <1> QED
    BY <1>1 DEF MovesUp

\* Somebody joined.
LEMMA JoinedMovesUp ==
  ASSUME NEW S, NEW s, Line(s, S), NEW t, Line(t, S), ToSet(s) \cap ToSet(t) = {},
         NEW e \in S, e \notin ToSet(s) \cup ToSet(t)
  PROVE  MovesUp(s \o t, s \o Append(t, e), 0) /\ 0 \in 0..Len(s \o t)
  <1>0. s \in Seq(S) /\ t \in Seq(S)
    BY DEF Line
  <1> DEFINE a == Append(t, e)
             u == s \o t
             v == s \o a
  <1>1. /\ a \in Seq(S) /\ Len(a) = Len(t) + 1
        /\ \A i \in 1..Len(t) : a[i] = t[i]
    BY <1>0, AppendProperties
  <1>2. /\ Len(s) \in Nat /\ Len(t) \in Nat
    BY <1>0, LenProperties
  <1> HIDE DEF a
  <1>3. /\ u \in Seq(S) /\ Len(u) = Len(s) + Len(t)
        /\ \A i \in 1..(Len(s) + Len(t)) :
             u[i] = IF i <= Len(s) THEN s[i] ELSE t[i - Len(s)]
    BY <1>0, ConcatProperties
  <1>4. /\ v \in Seq(S) /\ Len(v) = Len(s) + Len(a)
        /\ \A i \in 1..(Len(s) + Len(a)) :
             v[i] = IF i <= Len(s) THEN s[i] ELSE a[i - Len(s)]
    <2>1. s \in Seq(S) /\ a \in Seq(S)
      BY <1>0, <1>1
    <2> HIDE DEF v
    <2>2. v = s \o a
      BY DEF v
    <2> QED
      BY <2>1, <2>2, ConcatProperties
  <1>5. DOMAIN v = 1..Len(v)
    BY <1>4, LenProperties
  <1> HIDE DEF u, v
  <1>6. ASSUME NEW k \in 1..(Len(u) - 0)
        PROVE  k \in DOMAIN v /\ v[k] = u[k + 0]
    <2>1. k \in DOMAIN v /\ k + 0 = k /\ k \in 1..(Len(s) + Len(t))
      BY <1>1, <1>2, <1>3, <1>4, <1>5
    <2>2. CASE k <= Len(s)
      BY <1>1, <1>2, <1>3, <1>4, <2>1, <2>2
    <2>3. CASE k > Len(s)
      <3>1. k - Len(s) \in 1..Len(t)
        BY <1>2, <2>1, <2>3
      <3> QED
        BY <1>1, <1>2, <1>3, <1>4, <2>1, <2>3, <3>1
    <2> QED
      BY <1>2, <2>1, <2>2, <2>3
  <1>7. \A i \in 1..0 : u[i] \notin ToSet(v)
    OBVIOUS
  <1> QED
    BY <1>2, <1>3, <1>6, <1>7 DEF MovesUp, u, v, a

\* Those in front left.
LEMMA FrontMovesUp ==
  ASSUME NEW S, NEW s, Line(s, S), NEW t, Line(t, S), ToSet(s) \cap ToSet(t) = {}
  PROVE  /\ MovesUp(s \o t, t, Len(s)) /\ Len(s) \in 0..Len(s \o t)
         /\ \A j \in DOMAIN (s \o t) : j > Len(s) => (s \o t)[j] \in ToSet(t)
  <1>0. s \in Seq(S) /\ t \in Seq(S)
    BY DEF Line
  <1> DEFINE u == s \o t
  <1>1. /\ Len(s) \in Nat /\ Len(t) \in Nat
        /\ DOMAIN s = 1..Len(s) /\ DOMAIN t = 1..Len(t)
    BY <1>0, LenProperties
  <1>2. /\ u \in Seq(S) /\ Len(u) = Len(s) + Len(t)
        /\ \A i \in 1..(Len(s) + Len(t)) :
             u[i] = IF i <= Len(s) THEN s[i] ELSE t[i - Len(s)]
    BY <1>0, ConcatProperties
  <1>3. DOMAIN u = 1..Len(u)
    BY <1>2, LenProperties
  <1> HIDE DEF u
  <1>4. \A i \in 1..Len(s) : u[i] = s[i] /\ s[i] \in ToSet(s)
    BY <1>1, <1>2 DEF ToSet
  <1>5. ASSUME NEW k \in 1..Len(t)
        PROVE  u[k + Len(s)] = t[k] /\ t[k] \in ToSet(t)
    <2>1. k + Len(s) \in 1..(Len(s) + Len(t)) /\ ~(k + Len(s) <= Len(s))
          /\ (k + Len(s)) - Len(s) = k
      BY <1>1
    <2> QED
      BY <1>1, <1>2, <2>1 DEF ToSet
  <1>6. Len(u) - Len(s) = Len(t)
    BY <1>1, <1>2
  <1>7. ASSUME NEW j \in DOMAIN u, j > Len(s)
        PROVE  u[j] \in ToSet(t)
    <2>1. j - Len(s) \in 1..Len(t) /\ (j - Len(s)) + Len(s) = j
      BY <1>1, <1>2, <1>3, <1>7
    <2> QED
      BY <1>5, <2>1
  <1>8. Len(s) \in 0..Len(u)
    BY <1>1, <1>2
  <1>9. MovesUp(u, t, Len(s))
    BY <1>1, <1>4, <1>5, <1>6 DEF MovesUp
  <1> QED
    BY <1>7, <1>8, <1>9 DEF u

\* A line that moved up is in order.
LEMMA OrderedBy ==
  ASSUME QueueInv, QueueInv', NEW d \in 0..Len(batch \o pending),
         MovesUp(batch \o pending, batch' \o pending', d),
         \A j \in DOMAIN (batch \o pending) : j > d =>
           landed'[(batch \o pending)[j]] = landed[(batch \o pending)[j]]
  PROVE  Ordered
  <1> DEFINE line == batch \o pending
             next == batch' \o pending'
  <1>1. Line(line, Write) /\ Line(next, Write)
    BY JoinedLines DEF QueueInv
  <1> HIDE DEF line, next
  <1>2. ASSUME NEW i \in DOMAIN line, NEW j \in DOMAIN line, i < j,
               line[i] \in ToSet(next)
        PROVE  /\ landed'[line[j]] = landed[line[j]]
               /\ \A k, l \in DOMAIN next :
                    next[k] = line[i] /\ next[l] = line[j] => k < l
    <2>1. MovesUp(line, next, d) /\ d \in 0..Len(line)
      BY DEF line, next
    <2>2. /\ i > d
          /\ \A k, l \in DOMAIN next : next[k] = line[i] /\ next[l] = line[j] => k < l
      BY <1>1, <1>2, <2>1, MovingUpKeepsOrder
    <2>3. DOMAIN line = 1..Len(line) /\ Len(line) \in Nat
      BY <1>1, LenProperties DEF Line
    <2>4. j > d
      BY <1>2, <2>2, <2>3
    <2> QED
      BY <2>2, <2>4 DEF line
  <1> QED
    BY <1>2 DEF Ordered, line, next

\* Every step is in order.
LEMMA NextOrdered ==
  ASSUME SqliteInv, [Next]_vars
  PROVE  [Ordered]_vars
  <1>0. /\ pc \in [Op -> Place] /\ landed \in [Op -> Nat] /\ QueueInv /\ DbInv
        /\ Line(batch, Write) /\ Line(pending, Write)
        /\ ToSet(batch) \cap ToSet(pending) = {} /\ Write \subseteq Op
    BY Names DEF SqliteInv, Shapes, QueueInv
  <1>1. QueueInv' /\ Line(batch', Write) /\ Line(pending', Write)
    BY NextQueue DEF QueueInv
  <1> DEFINE line == batch \o pending
  <1>2. Line(line, Write) /\ ToSet(line) = ToSet(batch) \cup ToSet(pending)
    BY <1>0, JoinedLines
  <1>3. \A j \in DOMAIN line : line[j] \in Write
    BY <1>2, LineSet DEF ToSet
  <1>4. /\ batch \in Seq(Write) /\ pending \in Seq(Write)
        /\ batch' \in Seq(Write) /\ pending' \in Seq(Write) /\ line \in Seq(Write)
    BY <1>0, <1>1, <1>2 DEF Line
  <1>5. line \o <<>> = line /\ <<>> \o line = line
    BY <1>4, ConcatEmptySeq
  <1>6. /\ <<>> \o pending = pending /\ pending \o <<>> = pending
        /\ <<>> \o pending' = pending' /\ <<>> \o <<>> = <<>>
    BY <1>4, ConcatEmptySeq, EmptySeq
  <1> HIDE DEF line
  <1>7. ASSUME batch' \o pending' = line, \A o \in Write : landed'[o] = landed[o]
        PROVE  Ordered
    <2>1. MovesUp(line, line, 0) /\ 0 \in 0..Len(line)
      BY <1>2, NobodyMovesUp
    <2> QED
      BY <1>0, <1>1, <1>3, <1>7, <2>1, OrderedBy DEF line
  <1>8. ASSUME batch' = <<>>, pending' = <<>>
        PROVE  Ordered
    <2>1. MovesUp(line, <<>>, Len(line)) /\ Len(line) \in 0..Len(line)
      BY <1>2, AllMoveUp
    <2>2. DOMAIN line = 1..Len(line) /\ Len(line) \in Nat
      BY <1>4, LenProperties
    <2>3. \A j \in DOMAIN line : ~(j > Len(line))
      BY <2>2
    <2> QED
      BY <1>0, <1>1, <1>6, <1>8, <2>1, <2>3, OrderedBy DEF line
  <1>9. ASSUME batch' = <<>>, pending' = pending,
               \A o \in ToSet(pending) : landed'[o] = landed[o]
        PROVE  Ordered
    <2>1. /\ MovesUp(line, pending, Len(batch)) /\ Len(batch) \in 0..Len(line)
          /\ \A j \in DOMAIN line : j > Len(batch) => line[j] \in ToSet(pending)
      BY <1>0, FrontMovesUp DEF line
    <2> QED
      BY <1>0, <1>1, <1>6, <1>9, <2>1, OrderedBy DEF line
  <1>10. ASSUME NEW o \in Op, Passes(o)
         PROVE  Ordered
    <2>1. batch' = batch /\ landed' = landed
      BY <1>10 DEF Passes
    <2>2. CASE pending' = pending
      BY <1>7, <2>1, <2>2 DEF line
    <2>3. CASE pending' = Append(pending, o) /\ pc'[o] = "queued" /\ o \in Write
      <3>1. pc[o] \notin {"queued", "canceled"}
        BY <1>10, <2>3 DEF Passes, Ended
      <3>2. o \notin ToSet(batch) \cup ToSet(pending)
        BY <1>0, <3>1 DEF QueueInv
      <3>3. /\ MovesUp(batch \o pending, batch \o Append(pending, o), 0)
            /\ 0 \in 0..Len(batch \o pending)
        BY <1>0, <2>3, <3>2, JoinedMovesUp
      <3> QED
        BY <1>0, <1>1, <2>1, <2>3, <3>3, OrderedBy
    <2> QED
      BY <1>10, <2>2, <2>3 DEF Passes
  <1>11. ASSUME NEW o \in Op, TxnBegin(o) \/ TxnRollback(o) \/ CancelBegin(o)
         PROVE  Ordered
    <2>1. UNCHANGED <<batch, pending, landed>>
      BY <1>11 DEF TxnBegin, TxnRollback, CancelBegin, TxnEnds, flushVars
    <2> QED
      BY <1>7, <2>1 DEF line
  \* A transaction lands no write but its own.
  <1>12. ASSUME NEW o \in Op, TxnCommit(o) \/ CancelCommit(o)
         PROVE  Ordered
    <2>1. /\ UNCHANGED <<batch, pending>> /\ pc[o] = "body"
          /\ landed' = [p \in Op |-> landed[p] + IF p \in txn \cup {o} THEN 1 ELSE 0]
      BY <1>12 DEF TxnCommit, CancelCommit, TxnEnds, flushVars
    <2>2. o \in Txn /\ txn = {}
      BY <1>0, <2>1 DEF DbInv
    <2>3. ASSUME NEW p \in Write
          PROVE  landed'[p] = landed[p]
      <3>1. p \in Op /\ p \notin txn \cup {o} /\ landed[p] \in Nat
        BY <1>0, <2>2, Names
      <3> QED
        BY <2>1, <3>1
    <2> QED
      BY <1>7, <2>1, <2>3 DEF line
  <1>13. ASSUME flusher # "flushing"
         PROVE  line = pending
    BY <1>0, <1>6, <1>13 DEF QueueInv, line
  <1>14. ASSUME NEW left, FlushIsBusy(left), landed' = landed, left = line
         PROVE  Ordered
    <2>1. batch' = <<>> /\ (pending' = left \/ pending' = <<>>)
      BY <1>14 DEF FlushIsBusy, Stranded, TurnOver
    <2> QED
      BY <1>5, <1>7, <1>8, <1>14, <2>1
  <1>15. CASE FlushOne
    <2>1. TurnOver(<<>>) \/ (FlushIsBusy(pending) /\ landed' = landed)
      BY <1>15 DEF FlushOne
    <2>2. flusher # "flushing"
      BY <1>15 DEF FlushOne
    <2> QED
      BY <1>8, <1>13, <1>14, <2>1, <2>2 DEF TurnOver
  <1>16. CASE FlushBeginFails
    <2>1. /\ landed' = landed /\ flusher # "flushing"
          /\ TurnOver(<<>>) \/ FlushIsBusy(pending)
      BY <1>16 DEF FlushBeginFails, Stranded
    <2> QED
      BY <1>8, <1>13, <1>14, <2>1 DEF TurnOver
  \* A group commit lands what is in the batch, in front of what is pending.
  <1>17. CASE FlushCommit
    <2>1. /\ flusher = "flushing" /\ batch' = <<>> /\ pending' = pending
          /\ landed' = [o \in Op |-> landed[o] + IF o \in txn THEN 1 ELSE 0]
      BY <1>17 DEF FlushCommit, TurnOver
    <2>2. txn \subseteq ToSet(batch)
      BY <1>0, <2>1 DEF DbInv
    <2>3. ASSUME NEW o \in ToSet(pending)
          PROVE  landed'[o] = landed[o]
      <3>1. o \in Op /\ o \notin txn /\ landed[o] \in Nat
        BY <1>0, <2>2, LineSet
      <3> QED
        BY <2>1, <3>1
    <2> QED
      BY <1>9, <2>1, <2>3
  <1>18. CASE FlushRollback
    <2>1. /\ landed' = landed
          /\ FlushIsBusy(batch \o pending) \/ TurnOver(pending)
      BY <1>18 DEF FlushRollback
    <2> QED
      BY <1>9, <1>14, <2>1 DEF TurnOver, line
  <1>19. CASE FlushBegin
    <2>1. /\ flusher # "flushing" /\ batch' = pending /\ pending' = <<>>
          /\ landed' = landed
      BY <1>19 DEF FlushBegin
    <2> QED
      BY <1>6, <1>7, <1>13, <2>1
  <1>20. CASE FlusherArrives \/ Shutdown
    <2>1. UNCHANGED <<batch, pending, landed>>
      BY <1>20 DEF FlusherArrives, Shutdown, ShutdownStarts, ShutdownDrained,
                   ShutdownCloses, dbVars, flushVars
    <2> QED
      BY <1>7, <2>1 DEF line
  <1>21. ASSUME NEW c \in Closer, Close(c) \/ CloseReturns(c) \/ CancelClose(c)
         PROVE  Ordered
    <2>1. UNCHANGED <<batch, pending, landed>>
      BY <1>21 DEF Close, CloseReturns, CancelClose, dbVars, flushVars
    <2> QED
      BY <1>7, <2>1 DEF line
  <1> QED
    BY <1>10, <1>11, <1>12, <1>15, <1>16, <1>17, <1>18, <1>19, <1>20, <1>21, Passing
       DEF Next, Advance, Cancel, Flush

\* The retry of a group commit, and everything else, keeps the order in which
\* plain writes were issued.
THEOREM IssueOrderIsKept == Spec => KeepsIssueOrder
  <1>1. SqliteInv /\ [Next]_vars => [Ordered]_vars
    BY NextOrdered
  <1> QED
    BY SqliteInvariant, <1>1, PTL DEF Spec, KeepsIssueOrder, Ordered
=============================================================================
