----------------------------- MODULE PostgresStore -----------------------------
(***************************************************************************)
(* What a CairnQ handle over PostgresStore owns and for how long: the      *)
(* executor that connect publishes, the LISTEN connection a background     *)
(* task subscribes, and the retention loop (cairnq/store/postgres.py,      *)
(* client.py).  Steps are what runs between two suspensions of the event   *)
(* loop.                                                                   *)
(*                                                                         *)
(* One task at a time closes the handle, and it is not canceled.  listen   *)
(* is the built-in executor's (pg_pool.py); one that was injected is taken *)
(* to suspend, to fail and to leave behind no more than that one does.     *)
(***************************************************************************)
EXTENDS RetentionSweeper

CONSTANT
  Provided    \* whether the executor was injected by the application

ASSUME ProvidedOrNot == Provided \in BOOLEAN

VARIABLES
  executor,      \* whether _executor is set
  connecting,    \* a connect past the init lock: "none"; "fresh", or "late" if
                 \* it was called before the last close began; "stale" once a
                 \* close has bumped the generation it read
  waiting,       \* a connect in line for that lock: "none", "fresh" or "late"
  listener,      \* whether _listener is set
  subscribing,   \* _listener_connecting: "none"; a task not yet begun
                 \* ("created"), connecting ("dialing") or awaiting LISTEN on
                 \* its connection ("asking"); canceled at one of these:
                 \* "dead", "doomed", "stranded"
  stray,         \* whether such a connection stays open and nobody can stop it
  unavailable,   \* _listener_unavailable
  resting,       \* whether _listener_retry_at is ahead
  closing,       \* close: "no", or what it awaits: "sweep", "listener", "pool"
  used           \* history: whether connect was called since the last close
                 \* began ("no", "yes"); "revived" if a late one published

connectVars == <<executor, connecting, waiting>>
listenVars == <<listener, subscribing, unavailable, resting>>
storeVars == <<connectVars, listenVars, stray, closing, used>>
handleVars == <<storeVars, sweepVars>>

StoreInit == /\ executor = FALSE /\ connecting = "none" /\ waiting = "none"
             /\ listener = FALSE /\ subscribing = "none" /\ stray = FALSE
             /\ unavailable = FALSE /\ resting = FALSE
             /\ closing = "no" /\ used = "no"
             /\ SweepInit

-----------------------------------------------------------------------------
(* connect.                                                                *)

\* Any operation on a store without an executor: past the init lock, or in line
\* for it.
ConnectStarts == /\ ~executor /\ waiting = "none"   \* bound: one in line
                 /\ IF connecting = "none"
                    THEN connecting' = "fresh" /\ UNCHANGED waiting
                    ELSE waiting' = "fresh" /\ UNCHANGED connecting
                 /\ used' = "yes"
                 /\ UNCHANGED <<executor, listenVars, stray, closing, sweepVars>>

\* Canceled in line.
LineIsLeft == /\ waiting # "none"
              /\ waiting' = "none"
              /\ UNCHANGED <<executor, connecting, listenVars, stray, closing, used,
                             sweepVars>>

\* No server, a foreign schema, a failing migration, another protocol version;
\* or a close in the meantime: what was built is dropped and nothing set.  The
\* lock passes to the connect in line, which reads the generation only now.
ConnectFails == /\ connecting # "none"
                /\ connecting' = waiting
                /\ waiting' = "none"
                /\ UNCHANGED <<executor, listenVars, stray, closing, used, sweepVars>>

Publishable_Stale == connecting # "none"
Publishable == connecting \in {"fresh", "late"}

\* The checked executor is published, the verdict on LISTEN starts over, a
\* subscription is started unless one is on record, and so is retention.  The
\* connect in line finds the executor and returns.
Publish == /\ Publishable
           /\ connecting' = "none" /\ waiting' = "none"
           /\ executor' = TRUE
           /\ used' = IF connecting = "late" /\ used = "no" THEN "revived" ELSE used
           /\ unavailable' = FALSE /\ resting' = FALSE
           /\ subscribing' = IF ~listener /\ subscribing = "none"
                             THEN "created" ELSE subscribing
           /\ UNCHANGED <<listener, stray, closing>>
           /\ Start

-----------------------------------------------------------------------------
(* The LISTEN connection.                                                  *)

\* _listener_ready, from a wake, hence after a read that connected: start a
\* subscription unless one is on record, LISTEN is off, or a failed attempt is
\* recent.
ListenerReady ==
  /\ executor \/ unavailable
  /\ subscribing' = IF ~listener /\ ~unavailable /\ ~resting
                       /\ subscribing = "none"
                    THEN "created" ELSE subscribing
  /\ UNCHANGED <<listener, unavailable, resting>>

\* _start_listener begins, with an executor (whoever lets it go cancels this
\* task first); one that cannot listen turns LISTEN off.
SubscribeBegins ==
  /\ subscribing = "created"
  /\ \/ subscribing' = "dialing" /\ UNCHANGED unavailable
     \/ subscribing' = "none" /\ unavailable' = TRUE
  /\ UNCHANGED <<connectVars, listener, stray, resting, closing, used, sweepVars>>

\* The connection is there; LISTEN is sent on it.
Dials == /\ subscribing = "dialing"
         /\ subscribing' = "asking"
         /\ UNCHANGED <<connectVars, listener, stray, unavailable, resting, closing,
                        used, sweepVars>>

\* listen answers.  It is dropped if the store was closed meanwhile.
Subscribed == /\ subscribing = "asking"
              /\ listener' = ~unavailable
              /\ subscribing' = "none"
              /\ UNCHANGED <<connectVars, stray, unavailable, resting, closing,
                             used, sweepVars>>

\* The connection cannot be made, and the next attempt waits; or LISTEN is
\* refused, for good, and the connection closed.
SubscribeFails == /\ \/ subscribing = "dialing" /\ resting' = TRUE
                        /\ UNCHANGED unavailable
                     \/ subscribing = "asking" /\ unavailable' = TRUE
                        /\ UNCHANGED resting
                  /\ subscribing' = "none"
                  /\ UNCHANGED <<connectVars, listener, stray, closing, used,
                                 sweepVars>>

RetryIsDue == /\ resting
              /\ resting' = FALSE
              /\ UNCHANGED <<connectVars, listener, subscribing, stray, unavailable,
                             closing, used, sweepVars>>

\* _on_listener_lost.
ListenerLost == /\ listener
                /\ listener' = FALSE
                /\ UNCHANGED <<connectVars, subscribing, stray, unavailable,
                               resting, closing, used, sweepVars>>

-----------------------------------------------------------------------------
(* CairnQ.close: the sweep first, then PostgresStore.close.                *)

\* PostgresStore.close up to its first suspension: disown a connect in flight,
\* though not one still in line, turn LISTEN off, and cancel a subscription in
\* the making.
Disown == /\ connecting' = IF connecting = "none" THEN "none" ELSE "stale"
          /\ waiting' = IF waiting = "none" THEN "none" ELSE "late"
          /\ used' = "no"
          /\ unavailable' = TRUE
          /\ listener' = FALSE
          /\ UNCHANGED resting

\* The rest of it: the executor is let go, and closed unless it was injected.
LetGo == /\ executor' = FALSE
         /\ closing' = IF executor /\ ~Provided THEN "pool" ELSE "no"

Canceled == CASE subscribing = "created" -> "dead"
              [] subscribing = "dialing" -> "doomed"
              [] subscribing = "asking" -> "stranded"

\* Without a subscription to cancel there is no suspension in between.
ClosesStore ==
  /\ Disown
  /\ UNCHANGED stray
  /\ IF subscribing \in {"created", "dialing", "asking"}
     THEN /\ closing' = "listener"
          /\ subscribing' = Canceled
          /\ UNCHANGED executor
     ELSE LetGo /\ UNCHANGED subscribing

\* A sweep on record is stopped and awaited; without one the store is closed
\* in the same step.
CloseStarts == /\ closing = "no"
               /\ \/ /\ StopBegins
                     /\ closing' = "sweep"
                     /\ UNCHANGED <<connectVars, listenVars, stray, used>>
                  \/ /\ on_record = NoLoop
                     /\ ClosesStore
                     /\ UNCHANGED sweepVars

\* The awaited loop is gone.
SweepIsStopped == /\ closing = "sweep"
                  /\ StopReturns
                  /\ ClosesStore

\* The canceled subscription unwinds; its finally takes it off the record,
\* unless it never began.  A connection that was being asked to LISTEN is not
\* closed: listen's except clause lets a cancellation pass.
SubscribeUnwinds ==
  /\ closing = "listener"
  /\ subscribing' = IF subscribing = "dead" THEN "dead" ELSE "none"
  /\ stray' = (stray \/ subscribing = "stranded")
  /\ UNCHANGED <<connecting, waiting, listener, unavailable, resting, used,
                 sweepVars>>
  /\ LetGo

PoolIsClosed == /\ closing = "pool"
                /\ closing' = "no"
                /\ UNCHANGED <<connectVars, listenVars, stray, used, sweepVars>>

ConnectNext == ConnectStarts \/ LineIsLeft \/ ConnectFails \/ Publish
ListenNext == \/ SubscribeBegins \/ Dials \/ Subscribed \/ SubscribeFails
              \/ RetryIsDue \/ ListenerLost
Wakes == /\ ListenerReady
         /\ UNCHANGED <<connectVars, stray, closing, used, sweepVars>>
CloseNext == CloseStarts \/ SweepIsStopped \/ SubscribeUnwinds \/ PoolIsClosed
SweepNext == LoopNext /\ UNCHANGED storeVars

StoreNext == ConnectNext \/ ListenNext \/ Wakes \/ CloseNext \/ SweepNext

StoreSpec == StoreInit /\ [][StoreNext]_handleVars
-----------------------------------------------------------------------------
(* Properties.                                                             *)

StoreTypeOK ==
  /\ executor \in BOOLEAN
  /\ connecting \in {"none", "fresh", "late", "stale"}
  /\ waiting \in {"none", "fresh", "late"}
  /\ listener \in BOOLEAN /\ stray \in BOOLEAN
  /\ subscribing \in {"none", "created", "dialing", "asking",
                      "dead", "doomed", "stranded"}
  /\ unavailable \in BOOLEAN /\ resting \in BOOLEAN
  /\ closing \in {"no", "sweep", "listener", "pool"}
  /\ used \in {"no", "yes", "revived"}
  /\ SweepTypeOK

\* Once close has returned and until the handle is used again it holds nothing:
\* a connect that had read the generation, a subscription and a sweep that were
\* in flight put nothing on its record that nobody would ever close.  Two things
\* escape close itself: a connect that was still in line for the init lock
\* revives the handle later ("revived"), and a connection canceled while it was
\* asked to LISTEN stays open off the record ("stray").
QuietAfterClose ==
  used = "no" /\ closing = "no" =>
    /\ ~executor /\ ~listener
    /\ subscribing \in {"none", "dead"}
    /\ \A l \in Loop : ~Alive(l)

\* A connected handle sweeps, after any number of closes and reopenings: the
\* loop on record runs and nothing tells it to stop.
SweeperLives ==
  executor /\ closing \notin {"sweep", "listener"} =>
    /\ on_record \in Loop
    /\ Alive(on_record) /\ ~stop
=============================================================================
