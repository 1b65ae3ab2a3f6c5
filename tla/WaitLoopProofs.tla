----------------------------- MODULE WaitLoopProofs -----------------------------
(***************************************************************************)
(* The last beat of a wait reads the row before it gives up, and no wait   *)
(* reports a task its key was taken from: for any tasks, keys and waiters. *)
(***************************************************************************)
EXTENDS WaitLoop, TLAPS

\* What a subject that was settled at the last probe and still is makes of each
\* step up to the end of the wait.
OnCourse(w) ==
  /\ wait[w].ref \in Task
  /\ Resolve(Subject(w)) = wait[w].ref
  /\ state[wait[w].ref] = "settled"
  /\ \/ Step(w) = "asked" /\ wait[w].ended
     \/ Step(w) = "reading"
     \/ Step(w) = "read" /\ wait[w].done
     \/ Step(w) = "returned"

\* The record of a wait, the types of its columns closed.
Steps == {"out", "asking", "asked", "reading", "read", "nap"} \cup Over
Subjects == Task \cup Key \cup {NoTask}
Refs == Task \cup {NoTask}
Waits == [step : Steps, subject : Subjects, ref : Refs, ended : BOOLEAN,
          beat : BOOLEAN, task : Refs, done : BOOLEAN]

WaitInv == WaitTypeOK /\ \A w \in Waiter : steady[w] => OnCourse(w)

LEMMA InitWait == ViewInit /\ WaitInit => WaitInv
  BY DEF ViewInit, WaitInit, WaitInv, WaitTypeOK, NoWait

\* A move of the table keeps its type.
LEMMA ViewTyped ==
  ASSUME WaitTypeOK, ViewNext
  PROVE  /\ state' \in [Task -> {"unused", "live", "settled", "purged"}]
         /\ current' \in [Key -> Task \cup {NoTask}]
<1> USE DEF WaitTypeOK
<1>1. ASSUME NEW t \in Task, Submitted(t) \/ Revives(t) \/ Requeued(t)
      PROVE  /\ state' \in [Task -> {"unused", "live", "settled", "purged"}]
             /\ current' \in [Key -> Task \cup {NoTask}]
  BY <1>1 DEF Submitted, Revives, Requeued, view
<1>2. ASSUME NEW t \in Task, NEW k \in Key, SubmittedUnder(t, k)
      PROVE  /\ state' \in [Task -> {"unused", "live", "settled", "purged"}]
             /\ current' \in [Key -> Task \cup {NoTask}]
  BY <1>2 DEF SubmittedUnder
<1>3. ASSUME NEW S \in SUBSET Task, Settles(S) \/ Purged(S)
      PROVE  /\ state' \in [Task -> {"unused", "live", "settled", "purged"}]
             /\ current' \in [Key -> Task \cup {NoTask}]
  BY <1>3 DEF Settles, Purged
<1> QED
  BY <1>1, <1>2, <1>3 DEF ViewNext

\* The table moves: whoever's subject is not what it was is no longer steady.
LEMMA ViewKeeps ==
  ASSUME WaitInv, ViewNext, StaysSteady
  PROVE  WaitInv'
<1>1. WaitTypeOK'
  BY ViewTyped DEF WaitInv, WaitTypeOK, StaysSteady
<1>2. ASSUME NEW w \in Waiter, steady'[w]
      PROVE  OnCourse(w)'
  BY <1>2 DEF WaitInv, StaysSteady, OnCourse, Subject, Step
<1> QED
  BY <1>1, <1>2 DEF WaitInv

\* A step of one wait leaves the table, and the other waits.
LEMMA OthersKeep ==
  ASSUME WaitInv, UNCHANGED view, NEW v \in Waiter,
         wait'[v] = wait[v], steady'[v] = steady[v], steady'[v]
  PROVE  OnCourse(v)'
<1>1. OnCourse(v) /\ UNCHANGED <<state, current, replaced>>
  BY DEF WaitInv, view
<1>2. Resolve(Subject(v))' = Resolve(Subject(v))
  BY <1>1 DEF Resolve, Subject
<1> QED
  BY <1>1, <1>2 DEF OnCourse, Subject, Step

LEMMA WaitTyped ==
  WaitTypeOK <=> /\ state \in [Task -> {"unused", "live", "settled", "purged"}]
                 /\ current \in [Key -> Refs]
                 /\ wait \in [Waiter -> Waits]
                 /\ late \in [Waiter -> BOOLEAN]
                 /\ steady \in [Waiter -> BOOLEAN]
BY DEF WaitTypeOK, Waits, Steps, Subjects, Refs

LEMMA StepNames == /\ {"out", "asking", "asked", "reading", "read", "nap"} \subseteq Steps
                   /\ {"returned", "timedout", "raised"} \subseteq Steps
BY DEF Steps, Over

LEMMA NoWaitTyped == /\ NoWait \in Waits
                     /\ \A s \in Subjects : Asking(s) \in Waits
<1>1. "out" \in Steps /\ NoTask \in Subjects /\ NoTask \in Refs
  BY StepNames DEF Subjects, Refs
<1>2. NoWait \in Waits
  BY <1>1 DEF NoWait, Waits
<1>3. ASSUME NEW r \in Waits, NEW s \in Subjects, NEW step \in Steps
      PROVE  [r EXCEPT !.step = step, !.subject = s] \in Waits
  BY DEF Waits
<1> QED
  BY <1>2, <1>3, StepNames DEF Asking

LEMMA WaitKeeps ==
  ASSUME WaitInv, NEW w \in Waiter, WaitMoves(w), UNCHANGED view
  PROVE  WaitInv'
<1>t. WaitTypeOK
  BY DEF WaitInv
<1>m. /\ wait \in [Waiter -> Waits]
      /\ late \in [Waiter -> BOOLEAN]
      /\ steady \in [Waiter -> BOOLEAN]
  BY <1>t, WaitTyped
<1>r. wait[w] \in Waits
  BY <1>m
<1>s. Subject(w) \in Subjects
  BY <1>m DEF Subject, Waits
<1>q. Resolve(Subject(w)) \in Refs
  BY <1>t, <1>s DEF WaitTypeOK, Resolve, Subjects, Refs
<1>i. steady[w] => OnCourse(w)
  BY DEF WaitInv
<1>1. WaitTypeOK'
  <2>1. /\ late' \in [Waiter -> BOOLEAN]
        /\ steady' \in [Waiter -> BOOLEAN]
        /\ \A v \in Waiter : v # w => wait'[v] = wait[v]
        /\ wait' = [v \in Waiter |-> wait'[v]]
    BY <1>m DEF WaitMoves, Starts, DeadlinePasses, Probe, Decides, Reads,
                Concludes, NapEnds, Raises
  <2>2. wait'[w] \in Waits
    <3>1. CASE Starts(w)
      <4>1. PICK s \in Task \cup Key : wait' = [wait EXCEPT ![w] = Asking(s)]
        BY <3>1 DEF Starts
      <4>2. wait'[w] = Asking(s) /\ s \in Subjects
        BY <1>m, <4>1 DEF Subjects
      <4> QED
        BY <4>2, NoWaitTyped
    <3>2. CASE DeadlinePasses(w)
      BY <1>m, <3>2 DEF DeadlinePasses
    <3>3. CASE Probe(w)
      <4>1. PICK t \in Refs, ended \in BOOLEAN :
              wait'[w] = [wait[w] EXCEPT !.step = "asked", !.ref = t,
                                         !.ended = ended]
        BY <1>m, <1>q, <3>3 DEF Probe
      <4>2. "asked" \in Steps
        BY StepNames
      <4> QED
        BY <1>r, <4>1, <4>2 DEF Waits
    <3>4. CASE Decides(w)
      <4>1. PICK step \in {"reading", "timedout", "nap"}, beat \in BOOLEAN :
              wait'[w] = [wait[w] EXCEPT !.beat = beat, !.step = step]
        BY <1>m, <3>4 DEF Decides
      <4>2. step \in Steps
        BY StepNames
      <4> QED
        BY <1>r, <4>1, <4>2 DEF Waits
    <3>5. CASE Reads(w)
      <4>1. PICK t \in Refs, done \in BOOLEAN :
              wait'[w] = [wait[w] EXCEPT !.step = "read", !.task = t,
                                         !.done = done]
        BY <1>m, <1>q, <3>5 DEF Reads
      <4>2. "read" \in Steps
        BY StepNames
      <4> QED
        BY <1>r, <4>1, <4>2 DEF Waits
    <3>6. CASE Concludes(w)
      <4>1. PICK next \in {"returned", "timedout", "nap"} :
              wait'[w] = [wait[w] EXCEPT !.step = next, !.ended = FALSE,
                                         !.beat = FALSE, !.done = FALSE]
        BY <1>m, <3>6 DEF Concludes
      <4>2. next \in Steps
        BY StepNames
      <4> QED
        BY <1>r, <4>1, <4>2 DEF Waits
    <3>7. CASE NapEnds(w)
      <4>1. wait'[w] = Asking(Subject(w))
        BY <1>m, <3>7 DEF NapEnds
      <4> QED
        BY <1>s, <4>1, NoWaitTyped
    <3>8. CASE Raises(w)
      <4>1. wait'[w] = [NoWait EXCEPT !.step = "raised"]
        BY <1>m, <3>8 DEF Raises
      <4>2. \A r \in Waits, step \in Steps : [r EXCEPT !.step = step] \in Waits
        BY DEF Waits
      <4> QED
        BY <4>1, <4>2, NoWaitTyped, StepNames
    <3> QED
      BY <3>1, <3>2, <3>3, <3>4, <3>5, <3>6, <3>7, <3>8 DEF WaitMoves
  <2>3. wait' \in [Waiter -> Waits]
    BY <1>m, <2>1, <2>2
  <2> QED
    <3>1. state' = state /\ current' = current
      BY DEF view
    <3>2. state' \in [Task -> {"unused", "live", "settled", "purged"}]
          /\ current' \in [Key -> Refs]
      BY <1>t, <3>1, WaitTyped
    <3> QED
      BY <2>1, <2>3, <3>2 DEF WaitTypeOK, Waits, Steps, Subjects, Refs
<1>2. ASSUME NEW v \in Waiter, v # w, steady'[v]
      PROVE  OnCourse(v)'
  <2>1. wait'[v] = wait[v] /\ steady'[v] = steady[v]
    BY <1>m, <1>2 DEF WaitMoves, Starts, DeadlinePasses, Probe, Decides, Reads,
                      Concludes, NapEnds, Raises
  <2> QED
    BY <2>1, <1>2, OthersKeep
<1>3. steady'[w] => OnCourse(w)'
  <2> SUFFICES ASSUME steady'[w] PROVE OnCourse(w)'
    OBVIOUS
  <2> USE DEF OnCourse, Step, Subject, Resolve, view
  <2>1. CASE Starts(w)
    BY <1>m, <1>i, <2>1 DEF Starts, Over
  <2>2. CASE DeadlinePasses(w)
    BY <1>m, <1>i, <2>2 DEF DeadlinePasses
  <2>3. CASE Probe(w)
    <3> DEFINE t == Resolve(wait[w].subject)
    <3>1. /\ wait'[w].step = "asked" /\ wait'[w].ref = t
          /\ wait'[w].subject = wait[w].subject
          /\ wait'[w].ended = steady'[w]
      <4>1. wait'[w] = [wait[w] EXCEPT !.step = "asked", !.ref = t,
                                       !.ended = steady'[w]]
        BY <1>m, <2>3 DEF Probe
      <4> QED
        BY <1>r, <4>1 DEF Waits
    <3>2. t \in Task /\ state[t] = "settled"
      <4>1. t # NoTask /\ state[t] = "settled"
        BY <1>m, <2>3 DEF Probe
      <4> QED
        BY <1>q, <4>1 DEF Refs
    <3> QED
      BY <3>1, <3>2
  <2>4. CASE Decides(w)
    BY <1>m, <1>i, <2>4, ViewNames DEF Decides
  <2>5. CASE Reads(w)
    <3>1. /\ wait'[w].step = "read" /\ wait'[w].ref = wait[w].ref
          /\ wait'[w].subject = wait[w].subject
          /\ steady[w]
          /\ wait'[w].done <=>
               (/\ Resolve(Subject(w)) # NoTask
                /\ state[Resolve(Subject(w))] = "settled")
      <4> DEFINE t == Resolve(Subject(w))
      <4>1. /\ wait'[w] = [wait[w] EXCEPT
                 !.step = "read", !.task = t,
                 !.done = (t # NoTask /\ state[t] = "settled")]
            /\ steady'[w] = steady[w]
        BY <1>m, <2>5 DEF Reads
      <4> HIDE DEF t
      <4>2. /\ wait'[w].step = "read" /\ wait'[w].ref = wait[w].ref
            /\ wait'[w].subject = wait[w].subject
            /\ wait'[w].done = (t # NoTask /\ state[t] = "settled")
        BY <1>r, <4>1 DEF Waits
      <4> QED
        BY <4>1, <4>2 DEF t
    <3> QED
      BY <1>i, <3>1, ViewNames
  <2>6. CASE Concludes(w)
    <3>1. /\ wait'[w].step = IF wait[w].done THEN "returned"
                             ELSE IF wait[w].beat THEN "timedout" ELSE "nap"
          /\ wait'[w].ref = wait[w].ref
          /\ wait'[w].subject = wait[w].subject
      <4>1. PICK next : wait'[w] = [wait[w] EXCEPT
                          !.step = next, !.ended = FALSE, !.beat = FALSE,
                          !.done = FALSE]
        BY <1>m, <2>6 DEF Concludes
      <4> QED
        BY <1>r, <1>m, <2>6, <4>1 DEF Waits, Concludes
    <3>2. /\ Step(w) = "read" /\ steady[w]
      BY <2>6 DEF Concludes
    <3> QED
      BY <1>i, <3>1, <3>2
  <2>7. CASE NapEnds(w)
    BY <1>m, <1>i, <2>7 DEF NapEnds
  <2>8. CASE Raises(w)
    BY <1>m, <2>8 DEF Raises
  <2> QED
    BY <2>1, <2>2, <2>3, <2>4, <2>5, <2>6, <2>7, <2>8 DEF WaitMoves
<1> QED
  BY <1>1, <1>2, <1>3 DEF WaitInv

LEMMA NextWait == WaitInv /\ [WaitLoopNext]_<<view, waitVars>> => WaitInv'
<1> SUFFICES ASSUME WaitInv, [WaitLoopNext]_<<view, waitVars>> PROVE WaitInv'
  OBVIOUS
<1>1. CASE WaitLoopNext
  BY <1>1, ViewKeeps, WaitKeeps DEF WaitLoopNext
<1>2. CASE UNCHANGED <<view, waitVars>>
  BY <1>2 DEF view, waitVars, WaitInv, WaitTypeOK, OnCourse, Step, Subject,
              Resolve
<1> QED
  BY <1>1, <1>2

\* The inductive invariant of a wait: as long as the task its probe found
\* finished stays so, each step leads to the return of its row.
THEOREM WaitInvariant == WaitLoopSpec => []WaitInv
  BY InitWait, NextWait, PTL DEF WaitLoopSpec

\* No TaskTimeout over a task that was finished when last probed and has stayed
\* so, however late the answers come.
THEOREM FinishedWaitReturns == WaitLoopSpec => []FinishedIsReturned
<1>1. WaitInv => FinishedIsReturned
  BY DEF WaitInv, OnCourse, FinishedIsReturned
<1> QED
  BY <1>1, WaitInvariant, PTL
-----------------------------------------------------------------------------
(* What a key stands for is never a row that was replaced.                 *)

\* A key points at a task of its own that was submitted and not replaced.
KeyInv ==
  /\ \A k \in Key : current[k] # NoTask => /\ state[current[k]] # "unused"
                                           /\ current[k] \notin replaced
  /\ \A j, k \in Key : j # k /\ current[j] # NoTask => current[j] # current[k]
  /\ \A t \in Task : state[t] = "unused" => t \notin replaced

LEMMA InitKeys == ViewInit => KeyInv
  BY DEF ViewInit, KeyInv

LEMMA ViewKeepsKeys ==
  ASSUME WaitTypeOK, KeyInv, ViewNext PROVE KeyInv'
<1>t. /\ state \in [Task -> {"unused", "live", "settled", "purged"}]
      /\ current \in [Key -> Task \cup {NoTask}]
  BY DEF WaitTypeOK
<1>1. ASSUME UNCHANGED <<current, replaced>>,
             \A u \in Task : state'[u] = "unused" => state[u] = "unused"
      PROVE  KeyInv'
  BY <1>t, <1>1 DEF KeyInv
<1>2. ASSUME NEW t \in Task, Submitted(t) \/ Revives(t) \/ Requeued(t)
      PROVE  KeyInv'
  <2>1. UNCHANGED <<current, replaced>>
        /\ \A u \in Task : state'[u] = "unused" => state[u] = "unused"
    BY <1>t, <1>2 DEF Submitted, Revives, Requeued, view
  <2> QED
    BY <1>1, <2>1
<1>4. ASSUME NEW S \in SUBSET Task, Settles(S) PROVE KeyInv'
  <2>1. UNCHANGED <<current, replaced>>
        /\ \A u \in Task : state'[u] = "unused" => state[u] = "unused"
    BY <1>4 DEF Settles
  <2> QED
    BY <1>1, <2>1
<1>5. ASSUME NEW S \in SUBSET Task, Purged(S) PROVE KeyInv'
  <2>1. /\ \A u \in Task : state'[u] = "unused" => state[u] = "unused"
        /\ \A k \in Key : current'[k] = IF current[k] \in S THEN NoTask
                                                            ELSE current[k]
        /\ replaced' = replaced \ S
    BY <1>5 DEF Purged
  <2> QED
    BY <1>t, <2>1 DEF KeyInv
<1>3. ASSUME NEW t \in Task, NEW k \in Key, SubmittedUnder(t, k)
      PROVE  KeyInv'
  <2>1. /\ state[t] = "unused" /\ t \notin replaced
        /\ \A j \in Key : current[j] # t
    BY <1>3, ViewNames DEF SubmittedUnder, KeyInv
  <2>2. /\ current'[k] = t
        /\ \A j \in Key : j # k => current'[j] = current[j]
    BY <1>t, <1>3 DEF SubmittedUnder
  <2>3. /\ state'[t] = "live"
        /\ \A u \in Task : state'[u] = "unused" => state[u] = "unused"
    BY <1>t, <1>3, <2>1 DEF SubmittedUnder
  <2>4. \/ replaced' = replaced
        \/ /\ replaced' = replaced \cup {current[k]}
           /\ current[k] # NoTask /\ state[current[k]] = "live"
    BY <1>3 DEF SubmittedUnder
  <2>5. ASSUME NEW j \in Key, current'[j] # NoTask
        PROVE  state'[current'[j]] # "unused" /\ current'[j] \notin replaced'
    BY <1>t, <2>1, <2>2, <2>3, <2>4, <2>5 DEF KeyInv
  <2>6. \A i, j \in Key : i # j /\ current'[i] # NoTask => current'[i] # current'[j]
    BY <1>t, <2>1, <2>2 DEF KeyInv
  <2>7. \A u \in Task : state'[u] = "unused" => u \notin replaced'
    BY <2>1, <2>2, <2>3, <2>4 DEF KeyInv
  <2> QED
    BY <2>5, <2>6, <2>7 DEF KeyInv
<1> QED
  BY <1>2, <1>3, <1>4, <1>5 DEF ViewNext

LEMMA NextKeys ==
  WaitInv /\ KeyInv /\ [WaitLoopNext]_<<view, waitVars>> => KeyInv'
<1> SUFFICES ASSUME WaitInv, KeyInv, [WaitLoopNext]_<<view, waitVars>>
             PROVE  KeyInv'
  OBVIOUS
<1>1. CASE ViewNext
  BY <1>1, ViewKeepsKeys DEF WaitInv
<1>2. CASE UNCHANGED view
  BY <1>2 DEF view, KeyInv
<1> QED
  BY <1>1, <1>2 DEF WaitLoopNext

\* The row a wait by key reads is what the key stands for at that instant.
LEMMA ReadIsCurrent ==
  ASSUME WaitInv, KeyInv, [WaitLoopNext]_<<view, waitVars>>, NEW w \in Waiter,
         Subject(w) \in Key, Step(w) = "reading",
         wait'[w].step = "read", wait'[w].done
  PROVE  wait'[w].task \notin replaced
<1>t. wait \in [Waiter -> Waits]
  BY WaitTyped DEF WaitInv
<1>1. PICK v \in Waiter : WaitMoves(v) /\ UNCHANGED view
  BY DEF WaitLoopNext, StaysSteady, waitVars, Step
<1>2. v = w /\ Reads(w)
  BY <1>1, <1>t DEF WaitMoves, Starts, DeadlinePasses, Probe, Decides, Reads,
                    Concludes, NapEnds, Raises, Step, Asking, NoWait
<1>3. /\ wait'[w].task = Resolve(Subject(w))
      /\ wait'[w].done => Resolve(Subject(w)) # NoTask
  BY <1>t, <1>2 DEF Reads, Waits
<1>4. Resolve(Subject(w)) \in {current[Subject(w)], NoTask}
  BY DEF Resolve
<1> QED
  BY <1>3, <1>4 DEF KeyInv

\* A wait by key never returns the cancellation of a task its key was taken
\* from, whatever is submitted, revived or purged between its reads.
THEOREM ReplacedNeverReported == WaitLoopSpec => ReplacedIsNotReported
<1>1. ViewInit /\ WaitInit => KeyInv
  BY InitKeys
<1>2. WaitInv /\ KeyInv /\ [WaitLoopNext]_<<view, waitVars>> =>
        \A w \in Waiter :
          /\ Subject(w) \in Key
          /\ Step(w) = "reading" /\ wait'[w].step = "read" /\ wait'[w].done
          => wait'[w].task \notin replaced
  BY ReadIsCurrent
<1> QED
  BY <1>1, <1>2, NextKeys, WaitInvariant, PTL
     DEF WaitLoopSpec, ReplacedIsNotReported
=============================================================================
