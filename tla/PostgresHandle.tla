---------------------------- MODULE PostgresHandle ----------------------------
(***************************************************************************)
(* A CairnQ handle over Postgres at work: waits (WaitLoop) and a claiming  *)
(* worker nap on the wake channel that PostgresStore's LISTEN connection   *)
(* feeds, while the handle is connected, closed and used again.            *)
(*                                                                         *)
(* A notification is sent where the trigger of 0003_notify.sql fires and a *)
(* connection listens; it is delivered later, and lost with the            *)
(* connection.  A connection is lost when the driver notices: until then   *)
(* the timeout of the nap is all there is.                                 *)
(***************************************************************************)
EXTENDS WaitLoop, PostgresStore

CONSTANTS
  Claimer,    \* the worker of the handle
  Queued      \* the notification of the one queue it claims from

ASSUME WakeNames == Claimer \notin Waiter /\ Queued \notin Task

VARIABLES
  notes,         \* notifications under way: tasks that ended, and Queued
  ear,           \* _done_waiters: a nap's event is "none", "open" or "set"
  claimer,       \* where the worker's claim stands
  wakeable,      \* whether its queue is in _wakeable_queues
  pending,       \* whether it is in _pending_queues
  queued_event,  \* _queued_event
  news           \* history: who napped or was about to when its news was sent

channelVars == <<notes, ear, claimer, wakeable, pending, queued_event, news>>
vars == <<view, waitVars, handleVars, channelVars>>

Init == /\ ViewInit /\ WaitInit /\ StoreInit
        /\ notes = {}
        /\ ear = [w \in Waiter |-> "none"]
        /\ claimer = "out"
        /\ wakeable = FALSE /\ pending = FALSE /\ queued_event = FALSE
        /\ news = {}

-----------------------------------------------------------------------------
(* The channel.                                                            *)

Ended == {t \in Task : state[t] = "live" /\ state'[t] = "settled"}
Revived == {t \in Task : state[t] # "live" /\ state'[t] = "live"}

NobodyWaits == \A w \in Waiter : Step(w) = "out"

\* The trigger: a task came to an end, or is queued (again).  Bound: once the
\* handle waits, when nobody claims from it, the latter is not sent to it.
Sent == Ended \cup {n \in {Queued} : NobodyWaits /\ (Revived # {} \/ UNCHANGED view)}

Idling == claimer \in {"probing", "idle", "waiting"}

\* The table moves, in this process or another.
TableMoves ==
  /\ ViewNext
  /\ StaysSteady
  /\ IF listener
     THEN /\ notes' = notes \cup Sent
          /\ news' = news
               \cup {w \in Waiter : ear[w] = "open" /\ wait[w].ref \in Sent}
               \cup {c \in {Claimer} : Idling /\ Queued \in Sent}
     ELSE UNCHANGED <<notes, news>>
  /\ UNCHANGED <<handleVars, ear, claimer, wakeable, pending, queued_event>>

\* _on_notification: buffered only for a queue somebody has claimed from.
Deliver(n) ==
  /\ n \in notes
  /\ notes' = notes \ {n}
  /\ IF n = Queued
     THEN /\ pending' = (pending \/ wakeable)
          /\ queued_event' = TRUE
          /\ UNCHANGED ear
     ELSE /\ ear' = [w \in Waiter |-> IF ear[w] = "open" /\ wait[w].ref = n
                                      THEN "set" ELSE ear[w]]
          /\ UNCHANGED <<pending, queued_event>>
  /\ UNCHANGED <<view, waitVars, handleVars, claimer, wakeable, news>>

ReleaseWaiters_QueueOnly == queued_event' = TRUE /\ UNCHANGED ear

\* _release_waiters.
ReleaseWaiters ==
  /\ queued_event' = TRUE
  /\ ear' = [w \in Waiter |-> IF ear[w] = "open" THEN "set" ELSE ear[w]]

\* A connection off the record has the first channel, cairnq_queued, before a
\* cancellation or the answer to the second LISTEN: its notifications are heard.
\* Bound: before the handle waits.
StrayHears ==
  /\ NobodyWaits
  /\ stray \/ subscribing \in {"asking", "stranded"}
  /\ pending' = (pending \/ wakeable)
  /\ queued_event' = TRUE
  /\ UNCHANGED <<view, waitVars, handleVars, notes, ear, claimer, wakeable, news>>

\* What a lost connection takes with it.
Deafened == /\ notes' = {}
            /\ news' = news \ {Claimer}
            /\ UNCHANGED <<view, waitVars, claimer, wakeable, pending>>

Loses == ListenerLost /\ ReleaseWaiters /\ Deafened

\* close, up to its end or its next suspension; waiters are released where the
\* executor is let go.
Closes ==
  /\ CloseStarts \/ SweepIsStopped \/ SubscribeUnwinds
  /\ IF closing' = "sweep"
     THEN UNCHANGED <<view, waitVars, channelVars>>
     ELSE /\ Deafened
          /\ IF closing' = "listener" THEN UNCHANGED <<ear, queued_event>>
                                      ELSE ReleaseWaiters

\* The rest of the store's life does not touch the channel.
Lives == /\ \/ ConnectNext \/ SweepNext \/ PoolIsClosed
            \/ SubscribeBegins \/ Dials \/ Subscribed \/ SubscribeFails
            \/ RetryIsDue
         /\ UNCHANGED <<view, waitVars, channelVars>>

-----------------------------------------------------------------------------
(* Waits: task_done_wake.                                                  *)

UnchangedByWaits == UNCHANGED <<view, connectVars, stray, closing, used,
                                sweepVars, notes, claimer, wakeable, pending,
                                queued_event>>
NotNapping == UNCHANGED <<listenVars, ear, news>>

\* The nap of a wait that goes on, in the step that decided so: a key that
\* points at nothing is slept on, a task is subscribed to if the store listens.
Naps(w) ==
  IF wait'[w].step = "nap" /\ wait[w].ref # NoTask
  THEN /\ ListenerReady
       /\ ear' = [ear EXCEPT ![w] = IF listener THEN "open" ELSE "none"]
       /\ UNCHANGED news
  ELSE NotNapping

\* Bound: the handle waits, or later claims.
WaitStarts(w) == Starts(w) /\ ~wakeable /\ NotNapping /\ UnchangedByWaits

\* A read needs the executor; without it the call connects or raises.
WaitReads(w) == /\ executor
                /\ Probe(w) \/ Reads(w)
                /\ NotNapping /\ UnchangedByWaits

WaitIsLate(w) == DeadlinePasses(w) /\ NotNapping /\ UnchangedByWaits

WaitGoesOn(w) == (Decides(w) \/ Concludes(w)) /\ Naps(w) /\ UnchangedByWaits

WaitLeaves_EventKept(w) == /\ NapEnds(w) \/ Raises(w)
                           /\ UNCHANGED ear
                           /\ news' = news \ {w}
                           /\ UNCHANGED listenVars /\ UnchangedByWaits

\* The nap's event, its timeout or an exception ends it, and its event goes.
WaitLeaves(w) == /\ NapEnds(w) \/ Raises(w)
                 /\ ear' = [ear EXCEPT ![w] = "none"]
                 /\ news' = news \ {w}
                 /\ UNCHANGED listenVars /\ UnchangedByWaits

-----------------------------------------------------------------------------
(* The worker: claim_session's probe, then claim_wake.                     *)

UnchangedByClaims == UNCHANGED <<view, waitVars, connectVars, stray, closing,
                                 used, sweepVars, notes, ear>>

\* claim_session registers the queue before it looks for work.  Bound: the
\* handle waits, or claims.
ClaimBegins ==
  /\ claimer = "out" /\ NobodyWaits
  /\ claimer' = "probing"
  /\ wakeable' = TRUE
  /\ UNCHANGED <<listenVars, pending, queued_event, news>>
  /\ UnchangedByClaims

\* There is nothing to claim; or there is, or the read fails, and no nap follows.
ClaimProbes ==
  /\ claimer = "probing"
  /\ \/ executor /\ claimer' = "idle" /\ UNCHANGED news
     \/ claimer' = "out" /\ news' = news \ {Claimer}
  /\ UNCHANGED <<listenVars, wakeable, pending, queued_event>>
  /\ UnchangedByClaims

\* A notification of its queue is on record and ends the nap; otherwise it
\* waits for the next one of any queue.
Hits(there) == IF pending
               THEN /\ pending' = FALSE
                    /\ claimer' = "out"
                    /\ news' = news \ {Claimer}
                    /\ UNCHANGED queued_event
               ELSE /\ queued_event' = FALSE
                    /\ claimer' = there
                    /\ UNCHANGED <<pending, news>>

\* claim_wake is called.
ClaimNaps == /\ claimer = "idle"
             /\ ListenerReady
             /\ IF listener THEN Hits("waiting")
                ELSE /\ claimer' = "asleep"
                     /\ UNCHANGED <<pending, queued_event, news>>
             /\ UNCHANGED wakeable
             /\ UnchangedByClaims

ClaimHears == /\ claimer = "waiting" /\ queued_event
              /\ Hits("waiting")
              /\ UNCHANGED <<listenVars, wakeable>>
              /\ UnchangedByClaims

ClaimTimesOut == /\ claimer \in {"waiting", "asleep"}
                 /\ claimer' = "out"
                 /\ news' = news \ {Claimer}
                 /\ UNCHANGED <<listenVars, wakeable, pending, queued_event>>
                 /\ UnchangedByClaims

-----------------------------------------------------------------------------
WaitNext(w) == \/ WaitStarts(w) \/ WaitReads(w) \/ WaitIsLate(w)
               \/ WaitGoesOn(w) \/ WaitLeaves(w)
ClaimNext == ClaimBegins \/ ClaimProbes \/ ClaimNaps \/ ClaimHears \/ ClaimTimesOut

Next == \/ TableMoves \/ StrayHears \/ Loses \/ Closes \/ Lives \/ ClaimNext
        \/ \E n \in Task \cup {Queued} : Deliver(n)
        \/ \E w \in Waiter : WaitNext(w)

Spec == Init /\ [][Next]_vars

-----------------------------------------------------------------------------
(* Properties.                                                             *)

\* _done_waiters keeps events of naps in progress only.
HandleTypeOK ==
  /\ WaitTypeOK /\ StoreTypeOK
  /\ notes \subseteq Task \cup {Queued}
  /\ ear \in [Waiter -> {"none", "open", "set"}]
  /\ \A w \in Waiter : ear[w] # "none" => Step(w) = "nap"
  /\ claimer \in {"out", "probing", "idle", "waiting", "asleep"}
  /\ wakeable \in BOOLEAN /\ pending \in BOOLEAN /\ queued_event \in BOOLEAN
  /\ news \subseteq Waiter \cup {Claimer}

\* No wake is lost: a nap that is subscribed has a connection behind it, news
\* sent since is under way to it or has reached it, and work announced between
\* a worker's look at the queue and the end of its nap ends that nap.
NewsWakesItsWaiters ==
  /\ \A w \in Waiter : ear[w] = "open" =>
       /\ listener
       /\ w \in news => wait[w].ref \in notes
  /\ Claimer \in news => \/ Queued \in notes
                         \/ pending /\ (claimer = "waiting" => queued_event)
=============================================================================
