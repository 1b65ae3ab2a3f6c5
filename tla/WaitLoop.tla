------------------------------- MODULE WaitLoop -------------------------------
(***************************************************************************)
(* wait, wait_by_key and the second half of call (cairnq/_wait.py): probe  *)
(* the status, read the row once it looks finished or the time is up,      *)
(* sleep, and so on.                                                       *)
(*                                                                         *)
(* Each read of the table takes effect at one instant ("asking", "reading")*)
(* and is looked at, with the clock, at a later one ("asked", "read").     *)
(***************************************************************************)
EXTENDS TaskView

CONSTANT
  Waiter    \* callers that wait, each once

VARIABLES
  wait,     \* where each wait stands: its step, the probe's answer, the row
  late,     \* whether its deadline has passed
  steady    \* history: the subject was settled at the last probe and is since

waitVars == <<wait, late, steady>>

\* subject is the id or the key waited for; ref and ended, the probe's answer;
\* beat, whether the deadline had passed when it was looked at; task and done,
\* the row read.
NoWait == [step |-> "out", subject |-> NoTask, ref |-> NoTask, ended |-> FALSE,
           beat |-> FALSE, task |-> NoTask, done |-> FALSE]

Asking(s) == [NoWait EXCEPT !.step = "asking", !.subject = s]

WaitInit == /\ wait = [w \in Waiter |-> NoWait]
            /\ late = [w \in Waiter |-> FALSE]
            /\ steady = [w \in Waiter |-> FALSE]

Step(w) == wait[w].step
Subject(w) == wait[w].subject
Over == {"returned", "timedout", "raised"}

Starts(w) == /\ Step(w) = "out"
             /\ \E s \in Task \cup Key :
                  wait' = [wait EXCEPT ![w] = Asking(s)]
             /\ UNCHANGED <<late, steady>>

DeadlinePasses(w) == /\ Step(w) \notin {"out"} \cup Over /\ ~late[w]
                     /\ late' = [late EXCEPT ![w] = TRUE]
                     /\ UNCHANGED <<wait, steady>>

\* get_status or get_status_by_key: a key is resolved again each time.
Probe(w) ==
  LET t == Resolve(Subject(w))
      ended == t # NoTask /\ state[t] = "settled"
  IN /\ Step(w) = "asking"
     /\ wait' = [wait EXCEPT ![w].step = "asked", ![w].ref = t,
                             ![w].ended = ended]
     /\ steady' = [steady EXCEPT ![w] = ended]
     /\ UNCHANGED late

Decides_TimeFirst(w) ==
  /\ Step(w) = "asked"
  /\ wait' = [wait EXCEPT
       ![w].beat = late[w],
       ![w].step = IF late[w] THEN "timedout"
                   ELSE IF wait[w].ended THEN "reading"
                   ELSE "nap"]
  /\ UNCHANGED <<late, steady>>

\* The answer is in hand: the row is worth reading if it says finished, or for
\* the error's snapshot on the last beat.
Decides(w) ==
  /\ Step(w) = "asked"
  /\ wait' = [wait EXCEPT
       ![w].beat = late[w],
       ![w].step = IF wait[w].ref # NoTask /\ (wait[w].ended \/ late[w])
                   THEN "reading"
                   ELSE IF late[w] THEN "timedout"
                   ELSE "nap"]
  /\ UNCHANGED <<late, steady>>

Reads_TheProbed(w) ==
  LET t == wait[w].ref
  IN /\ Step(w) = "reading"
     /\ wait' = [wait EXCEPT ![w].step = "read", ![w].task = t,
                             ![w].done = state[t] = "settled"]
     /\ UNCHANGED <<late, steady>>

\* get or get_by_key, on its own: the key may by now point elsewhere.
Reads(w) ==
  LET t == Resolve(Subject(w))
  IN /\ Step(w) = "reading"
     /\ wait' = [wait EXCEPT ![w].step = "read", ![w].task = t,
                             ![w].done = t # NoTask /\ state[t] = "settled"]
     /\ UNCHANGED <<late, steady>>

\* A settled row ends the wait; otherwise it goes on, unless that was the last
\* beat.
Concludes(w) ==
  /\ Step(w) = "read"
  /\ wait' = [wait EXCEPT
       ![w].step = IF wait[w].done THEN "returned"
                   ELSE IF wait[w].beat THEN "timedout"
                   ELSE "nap",
       ![w].ended = FALSE, ![w].beat = FALSE, ![w].done = FALSE]
  /\ UNCHANGED <<late, steady>>

\* The nap is over; the probe is asked again.
NapEnds(w) == /\ Step(w) = "nap"
              /\ wait' = [wait EXCEPT ![w] = Asking(Subject(w))]
              /\ UNCHANGED <<late, steady>>

\* A store call fails, or the caller is canceled: an exception ends the wait.
Raises(w) == /\ Step(w) \notin {"out"} \cup Over
             /\ wait' = [wait EXCEPT ![w] = [NoWait EXCEPT !.step = "raised"]]
             /\ steady' = [steady EXCEPT ![w] = FALSE]
             /\ UNCHANGED late

\* What a move of the table leaves of the history.
StaysSteady ==
  /\ UNCHANGED <<wait, late>>
  /\ steady' = [w \in Waiter |-> /\ steady[w]
                                 /\ Resolve(Subject(w))' = wait[w].ref
                                 /\ state'[wait[w].ref] = "settled"]
WaitMoves(w) == \/ Starts(w) \/ DeadlinePasses(w) \/ Probe(w) \/ Decides(w)
                \/ Reads(w) \/ Concludes(w) \/ NapEnds(w) \/ Raises(w)

WaitLoopNext == \/ ViewNext /\ StaysSteady
                \/ \E w \in Waiter : WaitMoves(w) /\ UNCHANGED view

WaitLoopSpec == ViewInit /\ WaitInit /\ [][WaitLoopNext]_<<view, waitVars>>
-----------------------------------------------------------------------------
(* Properties.                                                             *)

WaitTypeOK ==
  /\ state \in [Task -> {"unused", "live", "settled", "purged"}]
  /\ current \in [Key -> Task \cup {NoTask}]
  /\ wait \in [Waiter ->
       [step : {"out", "asking", "asked", "reading", "read", "nap"} \cup Over,
        subject : Task \cup Key \cup {NoTask}, ref : Task \cup {NoTask},
        ended : BOOLEAN, beat : BOOLEAN, task : Task \cup {NoTask},
        done : BOOLEAN]]
  /\ late \in [Waiter -> BOOLEAN]
  /\ steady \in [Waiter -> BOOLEAN]

\* "A replace landing mid-wait moves the wait onto the new task rather than
\* reporting the cancellation of the old one": no wait by key takes for its
\* outcome a row that a replace had canceled when it was read.
ReplacedIsNotReported ==
  [][\A w \in Waiter :
       /\ Subject(w) \in Key
       /\ Step(w) = "reading" /\ wait'[w].step = "read" /\ wait'[w].done
       => wait'[w].task \notin replaced]_<<view, waitVars>>

\* TaskTimeout is never raised over a task that was finished when last probed
\* and has stayed so: the last beat reads the row before it gives up.
FinishedIsReturned ==
  \A w \in Waiter : steady[w] => Step(w) # "timedout"
=============================================================================
