-------------------------- MODULE PostgresHandleProofs --------------------------
(***************************************************************************)
(* What a handle over Postgres keeps true of the things it owns, for every *)
(* number of sweep loops and for both kinds of executor; and that the      *)
(* composed handle does nothing to its parts that they do not allow: seen  *)
(* through its own variables it is PostgresStore, and through the waits'   *)
(* it is WaitLoop.  What is proved of either holds of the handle; what the *)
(* composition adds is the wake channel, and it loses no wake.             *)
(***************************************************************************)
EXTENDS PostgresHandle, WaitLoopProofs

-----------------------------------------------------------------------------
(* The store's lifetime.                                                   *)

\* The sweep: the loop on record runs; any other one is being waited for.
SweepInv ==
  /\ stop <=> closing = "sweep"
  /\ on_record # NoLoop => Alive(on_record)
  /\ \A l \in Loop : Alive(l) => l = on_record \/ closing = "sweep"
  /\ closing \in {"no", "pool"} => (executor <=> on_record # NoLoop)
  /\ closing \in {"sweep", "listener"} => executor /\ on_record = NoLoop

\* The listener and whoever makes one live inside the executor's life.
ListenInv ==
  /\ connecting # "none" => ~executor
  /\ subscribing \in {"created", "dialing", "asking"} =>
       executor /\ closing # "listener"
  /\ subscribing \in {"doomed", "stranded"} => closing = "listener"
  /\ listener => /\ executor /\ closing # "listener"
                 /\ subscribing \notin {"created", "dialing", "asking"}
  /\ closing = "listener" => subscribing \in {"dead", "doomed", "stranded"}

\* Since the last close began, a connect that is neither stale nor late and an
\* executor are there only because somebody called, or a late one published.
UsedInv ==
  /\ "fresh" \in {connecting, waiting} => used = "yes"
  /\ executor /\ closing # "listener" => used # "no"

StoreInv == StoreTypeOK /\ SweepInv /\ ListenInv /\ UsedInv

LEMMA InitStore == StoreInit => StoreInv
  BY NullIsNoLoop
     DEF StoreInit, SweepInit, StoreInv, StoreTypeOK, SweepTypeOK, SweepInv,
         ListenInv, UsedInv, Alive

\* Whoever moves neither the executor nor a close leaves the sweep as it is.
LEMMA SweepStays ==
  ASSUME SweepTypeOK, SweepInv, UNCHANGED <<executor, closing, sweepVars>>
  PROVE  SweepTypeOK' /\ SweepInv'
  BY DEF SweepTypeOK, SweepInv, Alive, sweepVars

\* connect.
LEMMA ConnectKeeps == StoreInv /\ ConnectNext => StoreInv'
<1> SUFFICES ASSUME StoreInv, ConnectNext PROVE StoreInv'
  OBVIOUS
<1> USE DEF StoreInv, StoreTypeOK
<1>1. CASE ConnectStarts \/ LineIsLeft \/ ConnectFails
  <2>1. UNCHANGED <<executor, listenVars, stray, closing, sweepVars>>
    BY <1>1 DEF ConnectStarts, LineIsLeft, ConnectFails
  <2>2. SweepTypeOK' /\ SweepInv'
    BY <2>1, SweepStays
  <2>3. /\ connecting' \in {"none", "fresh", "late", "stale"}
        /\ waiting' \in {"none", "fresh", "late"}
        /\ used' \in {"no", "yes", "revived"}
        /\ connecting' # "none" => ~executor
        /\ UsedInv'
    BY <1>1, <2>1 DEF ConnectStarts, LineIsLeft, ConnectFails, ListenInv, UsedInv
  <2> QED
    BY <2>1, <2>2, <2>3 DEF ListenInv, listenVars
<1>2. CASE Publish
  <2>1. /\ ~executor /\ executor' /\ closing' = closing
        /\ closing \in {"no", "pool"} /\ on_record = NoLoop
    BY <1>2 DEF Publish, Publishable, ListenInv, SweepInv
  <2>2. SweepTypeOK' /\ SweepInv'
    BY <1>2, <2>1, NullIsNoLoop DEF Publish, Start, SweepTypeOK, SweepInv, Alive
  <2>3. UsedInv'
    BY <1>2 DEF Publish, Publishable, UsedInv
  <2>4. ListenInv'
    BY <1>2, <2>1 DEF Publish, ListenInv
  <2>5. StoreTypeOK'
    BY <1>2, <2>2 DEF Publish
  <2> QED
    BY <2>2, <2>3, <2>4, <2>5
<1> QED
  BY <1>1, <1>2 DEF ConnectNext

\* The LISTEN connection, and the wakes that ask for one.
LEMMA ListenKeeps == StoreInv /\ (ListenNext \/ Wakes) => StoreInv'
<1> SUFFICES ASSUME StoreInv, ListenNext \/ Wakes PROVE StoreInv'
  OBVIOUS
<1> USE DEF StoreInv, StoreTypeOK
<1>1. UNCHANGED <<connectVars, stray, closing, used, sweepVars>>
  BY DEF ListenNext, SubscribeBegins, Dials, Subscribed, SubscribeFails, RetryIsDue,
         ListenerLost, Wakes
<1>2. UNCHANGED <<executor, connecting, waiting, stray, closing, used>>
  BY <1>1 DEF connectVars
<1>3. SweepTypeOK' /\ SweepInv'
  BY <1>1, <1>2, SweepStays
<1>4. UsedInv'
  BY <1>2 DEF UsedInv
<1>t. subscribing \in {"none", "created", "dialing", "asking", "dead", "doomed",
                       "stranded"}
  OBVIOUS
<1>5. /\ subscribing' \in {"none", "created", "dialing", "asking", "dead", "doomed",
                           "stranded"}
      /\ listener' \in BOOLEAN /\ unavailable' \in BOOLEAN /\ resting' \in BOOLEAN
      /\ ListenInv'
  <2> USE <1>2, <1>t DEF ListenInv
  <2>1. CASE SubscribeBegins
    BY <2>1 DEF SubscribeBegins
  <2>2. CASE Dials
    BY <2>2 DEF Dials
  <2>3. CASE Subscribed
    BY <2>3 DEF Subscribed
  <2>4. CASE SubscribeFails
    BY <2>4 DEF SubscribeFails
  <2>5. CASE RetryIsDue
    BY <2>5 DEF RetryIsDue
  <2>6. CASE ListenerLost
    BY <2>6 DEF ListenerLost
  <2>7. CASE Wakes
    BY <2>7 DEF Wakes, ListenerReady
  <2> QED
    BY <2>1, <2>2, <2>3, <2>4, <2>5, <2>6, <2>7 DEF ListenNext
<1> QED
  BY <1>2, <1>3, <1>4, <1>5

\* close.  It goes past the sweep only when no loop runs.
LEMMA CloseKeeps == StoreInv /\ CloseNext => StoreInv'
<1> SUFFICES ASSUME StoreInv, CloseNext PROVE StoreInv'
  OBVIOUS
<1> USE DEF StoreInv, StoreTypeOK
\* Once no loop runs, the store's own close: it suspends with a subscription to
\* cancel, or lets the executor go.
<1>1. ASSUME ClosesStore, closing \in {"no", "sweep"}, SweepTypeOK',
             ~stop', on_record' = NoLoop, \A l \in Loop : ~Alive(l)'
      PROVE  StoreInv'
  <2>1. /\ connecting' \in {"none", "stale"} /\ waiting' \in {"none", "late"}
        /\ connecting = "none" => connecting' = "none"
        /\ used' = "no" /\ unavailable' = TRUE /\ listener' = FALSE
        /\ resting' = resting /\ stray' = stray
    BY <1>1 DEF ClosesStore, Disown
  <2>2. CASE subscribing \in {"created", "dialing", "asking"}
    <3>1. /\ closing' = "listener" /\ executor' = executor
          /\ subscribing' \in {"dead", "doomed", "stranded"}
      BY <1>1, <2>2 DEF ClosesStore, Canceled
    <3>2. executor /\ connecting = "none"
      BY <2>2 DEF ListenInv
    <3>3. ListenInv' /\ UsedInv'
      BY <2>1, <3>1, <3>2 DEF ListenInv, UsedInv
    <3>4. SweepInv'
      BY <1>1, <3>1, <3>2, NullIsNoLoop DEF SweepInv
    <3> QED
      BY <1>1, <2>1, <3>1, <3>3, <3>4
  <2>3. CASE subscribing \notin {"created", "dialing", "asking"}
    <3>1. /\ closing' \in {"pool", "no"} /\ executor' = FALSE
          /\ subscribing' = subscribing
      BY <1>1, <2>3 DEF ClosesStore, LetGo
    <3>2. ListenInv' /\ UsedInv'
      BY <1>1, <2>1, <2>3, <3>1 DEF ListenInv, UsedInv
    <3>3. SweepInv'
      BY <1>1, <3>1, NullIsNoLoop DEF SweepInv
    <3> QED
      BY <1>1, <2>1, <3>1, <3>2, <3>3
  <2> QED
    BY <2>2, <2>3
<1>2. CASE CloseStarts
  <2>1. CASE /\ StopBegins
             /\ closing' = "sweep"
             /\ UNCHANGED <<connectVars, listenVars, stray, used>>
    <3>1. /\ closing = "no" /\ on_record # NoLoop /\ stop' = TRUE
          /\ on_record' = NoLoop /\ loop' = loop /\ closing' = "sweep"
          /\ UNCHANGED <<executor, connecting, waiting, listener, subscribing,
                        unavailable, resting, stray, used>>
      BY <1>2, <2>1 DEF CloseStarts, StopBegins, connectVars, listenVars
    <3>2. SweepTypeOK' /\ SweepInv'
      BY <3>1, NullIsNoLoop DEF SweepTypeOK, SweepInv, Alive
    <3>3. ListenInv' /\ UsedInv'
      BY <3>1 DEF ListenInv, UsedInv
    <3> QED
      BY <3>1, <3>2, <3>3
  <2>2. CASE on_record = NoLoop /\ ClosesStore /\ UNCHANGED sweepVars
    <3>1. /\ closing = "no" /\ ~stop /\ \A l \in Loop : ~Alive(l)
      BY <1>2, <2>2, NullIsNoLoop DEF CloseStarts, SweepInv
    <3>2. SweepTypeOK' /\ ~stop' /\ on_record' = NoLoop /\ \A l \in Loop : ~Alive(l)'
      BY <2>2, <3>1 DEF sweepVars, SweepTypeOK, Alive
    <3> QED
      BY <1>1, <2>2, <3>1, <3>2
  <2> QED
    BY <1>2, <2>1, <2>2 DEF CloseStarts
<1>3. CASE SweepIsStopped
  <2>1. /\ closing = "sweep" /\ ClosesStore /\ stop' = FALSE /\ on_record = NoLoop
        /\ on_record' = on_record /\ loop' = loop /\ \A l \in Loop : ~Alive(l)
    BY <1>3 DEF SweepIsStopped, StopReturns, SweepInv
  <2>2. SweepTypeOK' /\ \A l \in Loop : ~Alive(l)'
    BY <2>1 DEF SweepTypeOK, Alive
  <2> QED
    BY <1>1, <2>1, <2>2
<1>4. CASE SubscribeUnwinds
  <2>0. closing = "listener"
    BY <1>4 DEF SubscribeUnwinds
  <2>1. /\ closing = "listener" /\ executor /\ connecting = "none"
        /\ subscribing \in {"dead", "doomed", "stranded"} /\ ~listener
        /\ ~stop /\ on_record = NoLoop /\ \A l \in Loop : ~Alive(l)
    BY <2>0, NullIsNoLoop DEF ListenInv, SweepInv
  <2>2. /\ closing' \in {"pool", "no"} /\ executor' = FALSE
        /\ subscribing' \in {"dead", "none"} /\ stray' \in BOOLEAN
        /\ UNCHANGED <<connecting, waiting, listener, unavailable, resting, used,
                      sweepVars>>
    BY <1>4, <2>1 DEF SubscribeUnwinds, LetGo
  <2>3. SweepTypeOK' /\ SweepInv'
    <3>1. /\ on_record' = NoLoop /\ loop' = loop /\ stop' = FALSE
          /\ executor' = FALSE /\ closing' \in {"pool", "no"}
      BY <2>1, <2>2 DEF SweepTypeOK, sweepVars
    <3>2. \A l \in Loop : ~Alive(l)'
      BY <2>1, <3>1 DEF Alive
    <3>3. SweepTypeOK'
      BY <3>1 DEF SweepTypeOK
    <3>4. SweepInv'
      BY <3>1, <3>2, NullIsNoLoop DEF SweepInv
    <3> QED
      BY <3>3, <3>4
  <2>4. ListenInv' /\ UsedInv'
    BY <2>1, <2>2 DEF ListenInv, UsedInv
  <2>5. UNCHANGED <<connecting, waiting, listener, unavailable, resting, used>>
    BY <2>2
  <2> QED
    BY <2>2, <2>3, <2>4, <2>5
<1>5. CASE PoolIsClosed
  <2>1. /\ closing = "pool" /\ closing' = "no"
        /\ UNCHANGED <<executor, connecting, waiting, listener, subscribing,
                      unavailable, resting, stray, used, sweepVars>>
    BY <1>5 DEF PoolIsClosed, connectVars, listenVars
  <2>2. SweepTypeOK' /\ SweepInv'
    BY <2>1 DEF SweepTypeOK, SweepInv, Alive, sweepVars
  <2>3. ListenInv' /\ UsedInv'
    BY <2>1 DEF ListenInv, UsedInv
  <2> QED
    BY <2>1, <2>2, <2>3
<1> QED
  BY <1>2, <1>3, <1>4, <1>5 DEF CloseNext

\* The loop.
LEMMA SweepKeeps == StoreInv /\ SweepNext => StoreInv'
<1> SUFFICES ASSUME StoreInv, SweepNext PROVE StoreInv'
  OBVIOUS
<1> USE NullIsNoLoop
    DEF StoreInv, StoreTypeOK, SweepTypeOK, SweepInv, ListenInv, UsedInv, Alive,
        storeVars, connectVars, listenVars
<1>1. ASSUME NEW l \in Loop, LoopBegins(l)
      PROVE  StoreInv'
  BY <1>1 DEF SweepNext, LoopBegins
<1>2. ASSUME NEW l \in Loop, LoopWakes(l)
      PROVE  StoreInv'
  BY <1>2 DEF SweepNext, LoopWakes
<1>3. ASSUME NEW l \in Loop, BatchEnds(l)
      PROVE  StoreInv'
  BY <1>3 DEF SweepNext, BatchEnds
<1> QED
  BY <1>1, <1>2, <1>3 DEF SweepNext, LoopNext

LEMMA NextStore == StoreInv /\ [StoreNext]_handleVars => StoreInv'
<1> SUFFICES ASSUME StoreInv, [StoreNext]_handleVars PROVE StoreInv'
  OBVIOUS
<1>1. CASE StoreNext
  BY <1>1, ConnectKeeps, ListenKeeps, CloseKeeps, SweepKeeps DEF StoreNext
<1>2. CASE UNCHANGED handleVars
  BY <1>2 DEF handleVars, storeVars, connectVars, listenVars, sweepVars, StoreInv,
              StoreTypeOK, SweepTypeOK, SweepInv, ListenInv, UsedInv, Alive
<1> QED
  BY <1>1, <1>2

\* The inductive invariant of the handle: a sweep on record runs, a listener and
\* the task that makes one live no longer than the executor.
THEOREM StoreInvariant == StoreSpec => []StoreInv
  BY InitStore, NextStore, PTL DEF StoreSpec

\* A closed handle that was neither used again nor revived by a connect in line
\* holds nothing: no executor, listener, subscription or sweep that was in flight
\* while it closed is on its record.
THEOREM ClosedIsQuiet == StoreSpec => []QuietAfterClose
<1>1. StoreInv => QuietAfterClose
  BY NullIsNoLoop DEF StoreInv, StoreTypeOK, SweepInv, ListenInv, UsedInv, QuietAfterClose
<1> QED
  BY <1>1, StoreInvariant, PTL

\* A connected handle sweeps, however often it was closed and used again.
THEOREM ConnectedSweeps == StoreSpec => []SweeperLives
<1>1. StoreInv => SweeperLives
  BY DEF StoreInv, StoreTypeOK, SweepTypeOK, SweepInv, SweeperLives
<1> QED
  BY <1>1, StoreInvariant, PTL

-----------------------------------------------------------------------------
(* The handle and its parts.                                               *)

LEMMA StepIsStoreStep == [Next]_vars => [StoreNext]_handleVars
<1> SUFFICES ASSUME [Next]_vars PROVE [StoreNext]_handleVars
  OBVIOUS
<1> USE DEF handleVars, storeVars, connectVars, listenVars, sweepVars
<1>1. CASE TableMoves \/ StrayHears
  BY <1>1 DEF TableMoves, StrayHears
<1>2. CASE Loses
  BY <1>2 DEF Loses, StoreNext, ListenNext
<1>3. CASE Closes
  BY <1>3 DEF Closes, StoreNext, CloseNext
<1>4. CASE Lives
  BY <1>4 DEF Lives, StoreNext, ListenNext, CloseNext
<1>5. CASE ClaimNext
  <2>1. CASE ClaimNaps
    BY <2>1 DEF ClaimNaps, UnchangedByClaims, StoreNext, Wakes
  <2>2. CASE ClaimBegins \/ ClaimProbes \/ ClaimHears \/ ClaimTimesOut
    BY <2>2 DEF ClaimBegins, ClaimProbes, ClaimHears, ClaimTimesOut,
                UnchangedByClaims
  <2> QED
    BY <1>5, <2>1, <2>2 DEF ClaimNext
<1>6. ASSUME NEW n \in Task \cup {Queued}, Deliver(n)
      PROVE  UNCHANGED handleVars
  BY <1>6 DEF Deliver
<1>7. ASSUME NEW w \in Waiter, WaitNext(w)
      PROVE  [StoreNext]_handleVars
  <2>1. CASE WaitGoesOn(w)
    BY <2>1 DEF WaitGoesOn, Naps, NotNapping, UnchangedByWaits, StoreNext, Wakes
  <2>2. CASE WaitStarts(w) \/ WaitReads(w) \/ WaitIsLate(w) \/ WaitLeaves(w)
    BY <2>2 DEF WaitStarts, WaitReads, WaitIsLate, WaitLeaves, NotNapping,
                UnchangedByWaits
  <2> QED
    BY <1>7, <2>1, <2>2 DEF WaitNext
<1>8. CASE UNCHANGED vars
  BY <1>8 DEF vars
<1> QED
  BY <1>1, <1>2, <1>3, <1>4, <1>5, <1>6, <1>7, <1>8 DEF Next

LEMMA StepIsWaitStep == [Next]_vars => [WaitLoopNext]_<<view, waitVars>>
<1> SUFFICES ASSUME [Next]_vars PROVE [WaitLoopNext]_<<view, waitVars>>
  OBVIOUS
<1>1. CASE TableMoves
  BY <1>1 DEF TableMoves, WaitLoopNext
<1>2. CASE Loses \/ Closes \/ StrayHears
  BY <1>2 DEF Loses, Closes, Deafened, StrayHears
<1>3. CASE Lives
  BY <1>3 DEF Lives
<1>4. CASE ClaimNext
  BY <1>4 DEF ClaimNext, ClaimBegins, ClaimProbes, ClaimNaps, ClaimHears,
              ClaimTimesOut, UnchangedByClaims
<1>5. ASSUME NEW n \in Task \cup {Queued}, Deliver(n)
      PROVE  UNCHANGED <<view, waitVars>>
  BY <1>5 DEF Deliver
<1>6. ASSUME NEW w \in Waiter, WaitNext(w)
      PROVE  WaitLoopNext
  <2>1. UNCHANGED view
    BY <1>6 DEF WaitNext, WaitStarts, WaitReads, WaitIsLate, WaitGoesOn,
                WaitLeaves, UnchangedByWaits
  <2>2. WaitMoves(w)
    BY <1>6 DEF WaitNext, WaitStarts, WaitReads, WaitIsLate, WaitGoesOn,
                WaitLeaves, WaitMoves
  <2> QED
    BY <2>1, <2>2 DEF WaitLoopNext
<1>7. CASE UNCHANGED vars
  BY <1>7 DEF vars
<1> QED
  BY <1>1, <1>2, <1>3, <1>4, <1>5, <1>6, <1>7 DEF Next

\* Whatever waits and workers do on the handle, the store lives the life
\* PostgresStore allows it.
THEOREM HandleIsAStore == Spec => StoreSpec
<1>1. Init => StoreInit
  BY DEF Init
<1> QED
  BY <1>1, StepIsStoreStep, PTL DEF Spec, StoreSpec

\* Whatever becomes of the store under it, a wait is a WaitLoop.
THEOREM HandleWaits == Spec => WaitLoopSpec
<1>1. Init => ViewInit /\ WaitInit
  BY DEF Init
<1> QED
  BY <1>1, StepIsWaitStep, PTL DEF Spec, WaitLoopSpec

\* So nothing a nap or a wake does leaves a connection on a closed handle's record.
THEOREM ClosedHandleIsQuiet == Spec => []QuietAfterClose
  BY HandleIsAStore, ClosedIsQuiet, PTL

\* So the sweep of a connected handle runs, whoever else uses the handle.
THEOREM HandleSweeps == Spec => []SweeperLives
  BY HandleIsAStore, ConnectedSweeps, PTL

\* So a wait of a handle that is being closed and used again does not time out
\* over a finished task.
THEOREM HandleReturnsFinished == Spec => []FinishedIsReturned
  BY HandleWaits, FinishedWaitReturns, PTL

\* Nor does it report the cancellation of a task its key was taken from.
THEOREM HandleReportsCurrent == Spec => ReplacedIsNotReported
  BY HandleWaits, ReplacedNeverReported, PTL
-----------------------------------------------------------------------------
(* No wake is lost.                                                        *)

ChannelTypeOK ==
  /\ notes \subseteq Task \cup {Queued}
  /\ ear \in [Waiter -> {"none", "open", "set"}]
  /\ claimer \in {"out", "probing", "idle", "waiting", "asleep"}
  /\ wakeable \in BOOLEAN /\ pending \in BOOLEAN /\ queued_event \in BOOLEAN
  /\ news \subseteq Waiter \cup {Claimer}

\* An event belongs to a nap, an open one to a listener and a task; news of a
\* waiter whose event is still open is under way.
EarInv ==
  \A w \in Waiter :
    /\ ear[w] # "none" => Step(w) = "nap"
    /\ ear[w] = "open" => listener /\ wait[w].ref \in Task
    /\ w \in news => ear[w] # "none"
    /\ w \in news /\ ear[w] = "open" => wait[w].ref \in notes

\* A worker that may be told of work has registered its queue, so that the
\* notification is kept when it arrives.
ClaimerInv ==
  /\ claimer # "out" => wakeable
  /\ Claimer \in news => claimer # "out"
  /\ Claimer \in news => \/ Queued \in notes
                         \/ pending /\ (claimer = "waiting" => queued_event)

ChannelInv == ChannelTypeOK /\ EarInv /\ ClaimerInv
HandleInv == WaitInv /\ StoreInv /\ ChannelInv

LEMMA InitChannel == Init => ChannelInv
  BY DEF Init, ChannelInv, ChannelTypeOK, EarInv, ClaimerInv

\* The channel and the waits stay as they are.
LEMMA ChannelStays ==
  ASSUME ChannelInv, UNCHANGED <<wait, channelVars>>, listener => listener'
  PROVE  ChannelInv'
  BY DEF ChannelInv, ChannelTypeOK, EarInv, ClaimerInv, channelVars, Step

LEMMA TableKeepsChannel ==
  ASSUME HandleInv, TableMoves PROVE ChannelInv'
<1> USE DEF HandleInv, ChannelInv
<1>1. UNCHANGED <<wait, listener, ear, claimer, wakeable, pending, queued_event>>
  BY DEF TableMoves, StaysSteady, handleVars, storeVars, listenVars
<1>2. CASE ~listener
  <2>1. UNCHANGED <<notes, news>>
    BY <1>2 DEF TableMoves
  <2> QED
    BY <1>1, <2>1, ChannelStays DEF channelVars
<1>3. CASE listener
  <2>1. /\ notes' = notes \cup Sent
        /\ news' = news
             \cup {w \in Waiter : ear[w] = "open" /\ wait[w].ref \in Sent}
             \cup {c \in {Claimer} : Idling /\ Queued \in Sent}
    BY <1>3 DEF TableMoves
  <2>2. Sent \subseteq Task \cup {Queued}
    BY DEF Sent, Ended
  <2>3. ChannelTypeOK'
    BY <1>1, <2>1, <2>2 DEF ChannelTypeOK
  <2>4. EarInv'
    BY <1>1, <2>1, WakeNames DEF EarInv, Step
  <2>5. ClaimerInv'
    BY <1>1, <2>1, WakeNames DEF ClaimerInv, Idling
  <2> QED
    BY <2>3, <2>4, <2>5
<1> QED
  BY <1>2, <1>3

LEMMA DeliveryKeepsChannel ==
  ASSUME HandleInv, NEW n \in Task \cup {Queued}, Deliver(n) PROVE ChannelInv'
<1> USE DEF HandleInv, ChannelInv
<1>1. /\ UNCHANGED <<wait, listener, claimer, wakeable, news>>
      /\ notes' = notes \ {n}
  BY DEF Deliver, waitVars, handleVars, storeVars, listenVars
<1>2. CASE n = Queued
  <2>1. pending' = (pending \/ wakeable) /\ queued_event' = TRUE /\ UNCHANGED ear
    BY <1>2 DEF Deliver
  <2>2. ChannelTypeOK'
    BY <1>1, <2>1 DEF ChannelTypeOK
  <2>3. EarInv'
    BY <1>1, <1>2, <2>1, WakeNames DEF EarInv, Step
  <2>4. ClaimerInv'
    BY <1>1, <2>1 DEF ClaimerInv
  <2> QED
    BY <2>2, <2>3, <2>4
<1>3. CASE n # Queued
  <2>1. /\ ear' = [w \in Waiter |-> IF ear[w] = "open" /\ wait[w].ref = n
                                    THEN "set" ELSE ear[w]]
        /\ UNCHANGED <<pending, queued_event>>
    BY <1>3 DEF Deliver
  <2>2. ChannelTypeOK'
    BY <1>1, <2>1 DEF ChannelTypeOK
  <2>3. EarInv'
    BY <1>1, <2>1 DEF EarInv, Step, ChannelTypeOK
  <2>4. ClaimerInv'
    BY <1>1, <1>3, <2>1 DEF ClaimerInv
  <2> QED
    BY <2>2, <2>3, <2>4
<1> QED
  BY <1>2, <1>3

\* What a connection off the record brings is kept, and wakes.
LEMMA StrayKeepsChannel ==
  ASSUME HandleInv, StrayHears PROVE ChannelInv'
<1>1. /\ UNCHANGED <<wait, listener, notes, ear, claimer, wakeable, news>>
      /\ pending' = (pending \/ wakeable)
      /\ queued_event' = TRUE
  BY DEF StrayHears, waitVars, handleVars, storeVars, listenVars
<1>2. ChannelTypeOK'
  BY <1>1 DEF HandleInv, ChannelInv, ChannelTypeOK
<1>3. EarInv'
  BY <1>1 DEF HandleInv, ChannelInv, EarInv, Step
<1>4. ClaimerInv'
  BY <1>1 DEF HandleInv, ChannelInv, ClaimerInv
<1> QED
  BY <1>2, <1>3, <1>4 DEF ChannelInv

\* Whoever lets the listener go releases the naps that counted on it.
LEMMA ReleaseKeepsChannel ==
  ASSUME ChannelInv, ReleaseWaiters, Deafened PROVE ChannelInv'
<1> USE DEF ChannelInv, ReleaseWaiters, Deafened, waitVars
<1>1. ChannelTypeOK'
  BY DEF ChannelTypeOK
<1>2. EarInv'
  BY WakeNames DEF EarInv, Step, ChannelTypeOK
<1>3. ClaimerInv'
  BY DEF ClaimerInv
<1> QED
  BY <1>1, <1>2, <1>3

LEMMA CloseKeepsChannel ==
  ASSUME HandleInv, Closes PROVE ChannelInv'
<1>a. LetGo => closing' \in {"pool", "no"}
  BY DEF LetGo
<1>c. ClosesStore =>
        \/ closing' \in {"pool", "no"}
        \/ closing' = "listener" /\ subscribing \in {"created", "dialing", "asking"}
  BY <1>a DEF ClosesStore
<1>d. \/ closing' = "sweep" /\ UNCHANGED listener
      \/ closing' \in {"pool", "no"}
      \/ closing' = "listener" /\ subscribing \in {"created", "dialing", "asking"}
  BY <1>a, <1>c DEF Closes, CloseStarts, SweepIsStopped, SubscribeUnwinds,
                    listenVars
<1>1. CASE closing' = "sweep"
  <2>1. UNCHANGED listener
    BY <1>1, <1>d
  <2> QED
    BY <1>1, <2>1, ChannelStays DEF Closes, HandleInv, waitVars
<1>2. CASE closing' = "listener"
  <2>1. subscribing \in {"created", "dialing", "asking"}
    BY <1>2, <1>d
  <2>2. ~listener
    BY <2>1 DEF HandleInv, StoreInv, ListenInv
  <2>3. Deafened /\ UNCHANGED <<ear, queued_event>>
    BY <1>2 DEF Closes
  <2>4. UNCHANGED <<wait, claimer, wakeable, pending>>
        /\ notes' = {} /\ news' = news \ {Claimer}
    BY <2>3 DEF Deafened, waitVars
  <2>5. ChannelTypeOK'
    BY <2>3, <2>4 DEF HandleInv, ChannelInv, ChannelTypeOK
  <2>6. EarInv'
    BY <2>2, <2>3, <2>4 DEF HandleInv, ChannelInv, EarInv, Step
  <2>7. ClaimerInv'
    BY <2>3, <2>4 DEF HandleInv, ChannelInv, ClaimerInv
  <2> QED
    BY <2>5, <2>6, <2>7 DEF ChannelInv
<1>3. CASE closing' \notin {"sweep", "listener"}
  BY <1>3, ReleaseKeepsChannel DEF Closes, HandleInv
<1> QED
  BY <1>1, <1>2, <1>3

LEMMA ClaimKeepsChannel ==
  ASSUME HandleInv, ClaimNext PROVE ChannelInv'
<1> USE DEF HandleInv, ChannelInv
<1>1. UNCHANGED <<wait, listener, notes, ear>>
  BY DEF ClaimNext, ClaimBegins, ClaimProbes, ClaimNaps, ClaimHears,
         ClaimTimesOut, UnchangedByClaims, ListenerReady, listenVars, waitVars
<1>2. news' \subseteq news /\ \A w \in Waiter : w \in news' <=> w \in news
  BY WakeNames
     DEF ClaimNext, ClaimBegins, ClaimProbes, ClaimNaps, ClaimHears,
         ClaimTimesOut, Hits
<1>3. ChannelTypeOK'
  BY <1>1, <1>2
     DEF ChannelTypeOK, ClaimNext, ClaimBegins, ClaimProbes, ClaimNaps,
         ClaimHears, ClaimTimesOut, Hits
<1>4. EarInv'
  BY <1>1, <1>2 DEF EarInv, Step
<1>5. ClaimerInv'
  BY <1>1, <1>2
     DEF ClaimerInv, ClaimNext, ClaimBegins, ClaimProbes, ClaimNaps, ClaimHears,
         ClaimTimesOut, Hits
<1> QED
  BY <1>3, <1>4, <1>5

\* A wait comes to its nap with no event and no news.
LEMMA WaitKeepsChannel ==
  ASSUME HandleInv, NEW w \in Waiter, WaitNext(w) PROVE ChannelInv'
<1> USE DEF HandleInv, ChannelInv
<1>t. wait \in [Waiter -> Waits] /\ ear \in [Waiter -> {"none", "open", "set"}]
  BY WaitTyped DEF WaitInv, ChannelTypeOK
<1>1. /\ UNCHANGED <<notes, claimer, wakeable, pending, queued_event>>
      /\ UNCHANGED listener
      /\ \A v \in Waiter \ {w} : wait'[v] = wait[v] /\ ear'[v] = ear[v]
  <2>1. UNCHANGED <<notes, claimer, wakeable, pending, queued_event>>
    BY DEF WaitNext, WaitStarts, WaitReads, WaitIsLate, WaitGoesOn, WaitLeaves,
           UnchangedByWaits
  <2>2. UNCHANGED listener /\ \A v \in Waiter \ {w} : ear'[v] = ear[v]
    BY <1>t DEF WaitNext, WaitStarts, WaitReads, WaitIsLate, WaitGoesOn,
                WaitLeaves, NotNapping, Naps, ListenerReady, listenVars
  <2>3. WaitMoves(w)
    BY DEF WaitNext, WaitStarts, WaitReads, WaitIsLate, WaitGoesOn, WaitLeaves,
           WaitMoves
  <2>4. \A v \in Waiter \ {w} : wait'[v] = wait[v]
    BY <1>t, <2>3 DEF WaitMoves, Starts, DeadlinePasses, Probe, Decides, Reads,
                      Concludes, NapEnds, Raises
  <2> QED
    BY <2>1, <2>2, <2>4
<1>2. news' \in {news, news \ {w}}
  BY DEF WaitNext, WaitStarts, WaitReads, WaitIsLate, WaitGoesOn, WaitLeaves,
         NotNapping, Naps
<1>3. /\ ear' \in [Waiter -> {"none", "open", "set"}]
      /\ ear'[w] # "none" => Step(w)' = "nap"
      /\ ear'[w] = "open" => listener /\ wait'[w].ref \in Task
      /\ w \in news' => ear'[w] # "none"
      /\ w \in news' /\ ear'[w] = "open" => wait'[w].ref \in notes
  <2>e. /\ ear[w] # "none" => Step(w) = "nap"
        /\ ear[w] = "open" => listener /\ wait[w].ref \in Task
        /\ w \in news => ear[w] # "none"
        /\ w \in news /\ ear[w] = "open" => wait[w].ref \in notes
    BY DEF EarInv
  <2>1. CASE WaitStarts(w) \/ WaitReads(w)
    <3>1. UNCHANGED <<ear, news>> /\ Step(w) # "nap"
      BY <2>1 DEF WaitStarts, WaitReads, Starts, Probe, Reads, NotNapping
    <3> QED
      BY <1>t, <2>e, <3>1
  <2>2. CASE WaitIsLate(w)
    <3>1. UNCHANGED <<ear, news, wait>>
      BY <2>2 DEF WaitIsLate, DeadlinePasses, NotNapping
    <3> QED
      BY <1>t, <2>e, <3>1 DEF Step
  <2>3. CASE WaitLeaves(w)
    <3>1. ear' = [ear EXCEPT ![w] = "none"] /\ news' = news \ {w}
      BY <2>3 DEF WaitLeaves
    <3> QED
      BY <1>t, <3>1
  <2>4. CASE WaitGoesOn(w)
    <3>1. Step(w) # "nap" /\ ear[w] = "none" /\ w \notin news
      BY <2>4, <2>e DEF WaitGoesOn, Decides, Concludes
    <3>2. CASE NotNapping
      <4>1. UNCHANGED <<ear, news>>
        BY <3>2 DEF NotNapping
      <4> QED
        BY <1>t, <3>1, <4>1
    <3>3. CASE wait'[w].step = "nap" /\ wait[w].ref # NoTask
      <4>1. /\ ear' = [ear EXCEPT ![w] = IF listener THEN "open" ELSE "none"]
            /\ UNCHANGED news
        BY <2>4, <3>3 DEF WaitGoesOn, Naps
      <4>2. wait'[w].ref = wait[w].ref /\ wait[w].ref \in Task
        <5>1. CASE Decides(w)
          BY <1>t, <3>3, <5>1 DEF Decides, Waits, Refs
        <5>2. CASE Concludes(w)
          BY <1>t, <3>3, <5>2 DEF Concludes, Waits, Refs
        <5> QED
          BY <2>4, <5>1, <5>2 DEF WaitGoesOn
      <4> QED
        BY <1>t, <3>1, <3>3, <4>1, <4>2 DEF Step
    <3> QED
      BY <2>4, <3>2, <3>3 DEF WaitGoesOn, Naps
  <2> QED
    BY <2>1, <2>2, <2>3, <2>4 DEF WaitNext
<1>4. ChannelTypeOK'
  BY <1>1, <1>2, <1>3 DEF ChannelTypeOK
<1>5. EarInv'
  <2>1. ASSUME NEW v \in Waiter, v # w
        PROVE  /\ ear'[v] # "none" => Step(v)' = "nap"
               /\ ear'[v] = "open" => listener' /\ wait'[v].ref \in Task
               /\ v \in news' => ear'[v] # "none"
               /\ v \in news' /\ ear'[v] = "open" => wait'[v].ref \in notes'
    BY <1>1, <1>2, <2>1 DEF EarInv, Step
  <2> QED
    BY <1>1, <1>3, <2>1 DEF EarInv
<1>6. ClaimerInv'
  BY <1>1, <1>2, WakeNames DEF ClaimerInv
<1> QED
  BY <1>4, <1>5, <1>6

LEMMA NextHandle == HandleInv /\ [Next]_vars => HandleInv'
<1> SUFFICES ASSUME HandleInv, [Next]_vars PROVE HandleInv'
  OBVIOUS
<1>1. WaitInv' /\ StoreInv'
  BY StepIsStoreStep, StepIsWaitStep, NextStore, NextWait DEF HandleInv
<1>2. ChannelInv'
  <2>0. CASE StrayHears
    BY <2>0, StrayKeepsChannel
  <2>1. CASE TableMoves
    BY <2>1, TableKeepsChannel
  <2>2. CASE Loses
    BY <2>2, ReleaseKeepsChannel DEF Loses, HandleInv
  <2>3. CASE Closes
    BY <2>3, CloseKeepsChannel
  <2>4. CASE Lives
    <3>1. listener => listener'
      BY <2>4 DEF Lives, ConnectNext, ConnectStarts, LineIsLeft, ConnectFails,
                  Publish, SweepNext, storeVars, PoolIsClosed, SubscribeBegins,
                  Dials, Subscribed, SubscribeFails, RetryIsDue, listenVars,
                  HandleInv, StoreInv, ListenInv
    <3>2. UNCHANGED <<wait, channelVars>>
      BY <2>4 DEF Lives, waitVars
    <3> QED
      BY <3>1, <3>2, ChannelStays DEF HandleInv
  <2>5. CASE ClaimNext
    BY <2>5, ClaimKeepsChannel
  <2>6. ASSUME NEW n \in Task \cup {Queued}, Deliver(n) PROVE ChannelInv'
    BY <2>6, DeliveryKeepsChannel
  <2>7. ASSUME NEW w \in Waiter, WaitNext(w) PROVE ChannelInv'
    BY <2>7, WaitKeepsChannel
  <2>8. CASE UNCHANGED vars
    <3>1. UNCHANGED <<wait, channelVars, listener>>
      BY <2>8 DEF vars, waitVars, handleVars, storeVars, listenVars
    <3> QED
      BY <3>1, ChannelStays DEF HandleInv
  <2> QED
    BY <2>0, <2>1, <2>2, <2>3, <2>4, <2>5, <2>6, <2>7, <2>8 DEF Next
<1> QED
  BY <1>1, <1>2 DEF HandleInv

\* The inductive invariant of the handle at work.
THEOREM HandleInvariant == Spec => []HandleInv
<1>1. Init => HandleInv
  BY InitWait, InitStore, InitChannel DEF Init, HandleInv
<1> QED
  BY <1>1, NextHandle, PTL DEF Spec

\* The wake channel is well formed: an event on record is of a nap in progress.
THEOREM HandleTypeCorrect == Spec => []HandleTypeOK
<1>1. HandleInv => HandleTypeOK
  BY DEF HandleInv, WaitInv, StoreInv, ChannelInv, ChannelTypeOK, EarInv,
         HandleTypeOK
<1> QED
  BY <1>1, HandleInvariant, PTL

\* No wake is lost, however many waits share the handle, whatever closes it and
\* whenever its connection goes.
THEOREM NoWakeIsLost == Spec => []NewsWakesItsWaiters
<1>1. HandleInv => NewsWakesItsWaiters
  BY DEF HandleInv, ChannelInv, EarInv, ClaimerInv, NewsWakesItsWaiters
<1> QED
  BY <1>1, HandleInvariant, PTL
=================================================================================
