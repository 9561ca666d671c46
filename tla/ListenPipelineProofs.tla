-------------------------- MODULE ListenPipelineProofs --------------------------
(***************************************************************************)
(* Proofs about ListenPipeline, for any queries, listeners, changes and    *)
(* faults.                                                                 *)
(*                                                                         *)
(* First, ClientIsSound.  The operations of the client are operators on    *)
(* its record, put together by the actions.  So there is a lemma for each  *)
(* operator, from the streams and the tracker up to Listen and             *)
(* StopListening: what it keeps of the parts of the invariant, Base        *)
(* (types, stream, tracker and the offline state) and Agreed (listeners,   *)
(* views and targets).                                                     *)
(*                                                                         *)
(* Then what is on its way, about the queries the server does not refuse,  *)
(* whatever else it refuses on the stream they share: that the answers due *)
(* are counted right (DueIsOnTheWay), that no token hides a change that is *)
(* not on disk (NoHoles), and that the server's word that a target is      *)
(* current comes when every change it stands for is there                  *)
(* (CurrentIsEarned).  The invariant is about the line between client and  *)
(* server: Line says how the requests and answers of a call lead from what *)
(* the client knows to what the server has sent, Joined that the disk and  *)
(* the view are where the line begins.                                     *)
(***************************************************************************)
EXTENDS ListenPipeline, StreamsProofs, FiniteSetTheorems, SequenceTheorems

OfflineShown(k) ==
  k.online.state = "offline" =>
    /\ \A q \in Queries : ~k.view[q].current
    /\ \A l \in Listeners : k.listener[l].phase # "waiting"

Base(k) ==
  /\ k \in Clients
  /\ TrackerIsSound(k.online)
  /\ CallbacksFindTheirState(k.stream)
  /\ OfflineShown(k)

(* The timers that run are for what there is.                              *)
OwnTimer(k) == k.online.timer /\ k.online.failures = 0 => IsStarted(k.stream)

TimersFit(k) == OwnTimer(k) /\ (k.stream.idle => k.targets = {})

Running(k) == k.enabled /\ k.targets # {} => IsStarted(k.stream)

Agreed(k) ==
  \A q \in Queries : /\ k.view[q].on <=> Heard(k, q) # {}
                     /\ k.view[q].on <=> q \in k.targets

(* k and r have the same listeners, views and targets.                     *)
SameInterest(k, r) ==
  /\ r.targets = k.targets
  /\ \A q \in Queries : r.view[q].on = k.view[q].on
  /\ \A l \in Listeners :
       /\ r.listener[l].query = k.listener[l].query
       /\ r.listener[l].phase \in {"waiting", "shown"}
            <=> k.listener[l].phase \in {"waiting", "shown"}

Sound(k) == Base(k) /\ TimersFit(k) /\ Running(k) /\ Agreed(k)

-----------------------------------------------------------------------------
(* Every operation of the online state tracker keeps its assertions, where *)
(* it is called: a stream starts with failures behind it or no timer       *)
(* running, and a timer fires that runs.                                   *)
LEMMA TrackerSteps ==
  ASSUME NEW o \in Trackers, TrackerIsSound(o)
  PROVE  /\ (o.failures = 0 => ~o.timer) =>
              HandleWatchStreamStart(o) \in Trackers /\ TrackerIsSound(HandleWatchStreamStart(o))
         /\ o.timer => /\ TimerFires(o) \in Trackers /\ TrackerIsSound(TimerFires(o))
                       /\ ~TimerFires(o).timer
         /\ HandleWatchStreamFailure(o) \in Trackers /\ TrackerIsSound(HandleWatchStreamFailure(o))
         /\ HandleWatchStreamFailure(o).failures = 0 => ~HandleWatchStreamFailure(o).timer
         /\ \A s \in {"unknown", "online", "offline"} :
              /\ UpdateState(o, s) \in Trackers /\ TrackerIsSound(UpdateState(o, s))
              /\ UpdateState(o, s).state = s /\ ~UpdateState(o, s).timer
<1>0. /\ o.broken = FALSE /\ o.state \in {"unknown", "online", "offline"} /\ o.failures \in 0..FailureBound
      /\ o.timer \in BOOLEAN
      /\ o.timer => o.state = "unknown" /\ o.failures < MaxWatchStreamFailures
      /\ o.state = "online" => o.failures = 0
  BY DEF Trackers, TrackerIsSound
<1>1. ASSUME o.failures = 0 => ~o.timer
      PROVE  HandleWatchStreamStart(o) \in Trackers /\ TrackerIsSound(HandleWatchStreamStart(o))
  <2>1. CASE o.failures = 0
    <3>1. HandleWatchStreamStart(o) = [state |-> "unknown", failures |-> 0, timer |-> TRUE,
                                       broken |-> FALSE]
      BY <1>0, <1>1, <2>1 DEF HandleWatchStreamStart, HardAssert, Trackers
    <3>2. QED BY <3>1, FailuresAssumption DEF Trackers, TrackerIsSound
  <2>2. CASE o.failures # 0
    BY <2>2 DEF HandleWatchStreamStart
  <2>3. QED BY <2>1, <2>2
<1>2. ASSUME o.timer
      PROVE  /\ TimerFires(o) \in Trackers /\ TrackerIsSound(TimerFires(o))
             /\ ~TimerFires(o).timer
  <2>1. TimerFires(o) = [state |-> "offline", failures |-> o.failures, timer |-> FALSE,
                         broken |-> FALSE]
    <3>1. HardAssert(o, o.state = "unknown") = [o EXCEPT !.broken = FALSE]
      BY <1>0, <1>2 DEF HardAssert
    <3>2. TimerFires(o) =
            [[o EXCEPT !.broken = FALSE] EXCEPT !.state = "offline", !.timer = FALSE]
      BY <3>1 DEF TimerFires
    <3>3. QED BY <3>2 DEF Trackers
  <2>2. QED BY <1>0, <2>1 DEF Trackers, TrackerIsSound
<1>3. /\ HandleWatchStreamFailure(o) \in Trackers /\ TrackerIsSound(HandleWatchStreamFailure(o))
      /\ HandleWatchStreamFailure(o).failures = 0 => ~HandleWatchStreamFailure(o).timer
  <2>1. OneMore(o.failures) \in 1..FailureBound
    BY <1>0, FailuresAssumption DEF OneMore
  <2>2. CASE o.state = "online"
    <3>1. HandleWatchStreamFailure(o) = [state |-> "unknown", failures |-> 0, timer |-> FALSE,
                                         broken |-> FALSE]
      <4>1. HandleWatchStreamFailure(o) =
              [HardAssert(o, o.failures = 0 /\ ~o.timer) EXCEPT !.state = "unknown"]
        BY <2>2 DEF HandleWatchStreamFailure
      <4>2. QED BY <1>0, <2>2, <4>1 DEF HardAssert, Trackers
    <3>2. QED BY <3>1, FailuresAssumption DEF Trackers, TrackerIsSound
  <2>3. CASE o.state # "online" /\ OneMore(o.failures) >= MaxWatchStreamFailures
    <3>1. HandleWatchStreamFailure(o) = [state |-> "offline", failures |-> OneMore(o.failures),
                                         timer |-> FALSE, broken |-> FALSE]
      <4>1. HandleWatchStreamFailure(o) =
              [o EXCEPT !.state = "offline", !.failures = OneMore(o.failures), !.timer = FALSE]
        BY <2>3 DEF HandleWatchStreamFailure
      <4>2. QED BY <1>0, <4>1 DEF Trackers
    <3>2. QED BY <2>1, <3>1, FailuresAssumption DEF Trackers, TrackerIsSound
  <2>4. CASE o.state # "online" /\ ~(OneMore(o.failures) >= MaxWatchStreamFailures)
    <3>1. HandleWatchStreamFailure(o) = [state |-> o.state, failures |-> OneMore(o.failures),
                                         timer |-> o.timer, broken |-> FALSE]
      <4>1. HandleWatchStreamFailure(o) = [o EXCEPT !.failures = OneMore(o.failures)]
        BY <2>4 DEF HandleWatchStreamFailure
      <4>2. QED BY <1>0, <4>1 DEF Trackers
    <3>2. QED BY <1>0, <2>1, <2>4, <3>1, FailuresAssumption DEF Trackers, TrackerIsSound
  <2>5. QED BY <2>2, <2>3, <2>4
<1>4. ASSUME NEW s \in {"unknown", "online", "offline"}
      PROVE  /\ UpdateState(o, s) \in Trackers /\ TrackerIsSound(UpdateState(o, s))
             /\ UpdateState(o, s).state = s /\ ~UpdateState(o, s).timer
  <2>1. UpdateState(o, s) = [state |-> s, failures |-> 0, timer |-> FALSE, broken |-> FALSE]
    <3>1. UpdateState(o, s) = [o EXCEPT !.state = s, !.failures = 0, !.timer = FALSE]
      BY DEF UpdateState
    <3>2. QED BY <1>0, <3>1 DEF Trackers
  <2>2. QED BY <2>1, FailuresAssumption DEF Trackers, TrackerIsSound
<1>5. QED BY <1>1, <1>2, <1>3, <1>4
-----------------------------------------------------------------------------
(* Agreement looks only at the interest.                                   *)
LEMMA SameInterestAgrees ==
  ASSUME NEW k, NEW r, SameInterest(k, r), Agreed(k)
  PROVE  Agreed(r)
<1>1. \A q \in Queries : Heard(r, q) = Heard(k, q)
  BY DEF SameInterest, Heard
<1>2. QED BY <1>1 DEF SameInterest, Agreed

LEMMA InterestTransitive ==
  ASSUME NEW k, NEW r, NEW t, SameInterest(k, r), SameInterest(r, t)
  PROVE  SameInterest(k, t)
BY DEF SameInterest

(* A snapshot of some views only turns waiting listeners into shown ones;  *)
(* offline, none of those queries' listeners stays behind.                 *)
LEMMA OnViewSnapshotsKeeps ==
  ASSUME NEW k \in Clients, NEW qs, NEW disk
  PROVE  LET r == OnViewSnapshots(k, qs, disk)
         IN  /\ r \in Clients /\ SameInterest(k, r)
             /\ r.enabled = k.enabled
             /\ r.stream = k.stream /\ r.online = k.online /\ r.view = k.view
             /\ r.aggregator = k.aggregator /\ r.call = k.call
             /\ \A l \in Listeners : k.listener[l].phase # "waiting"
                                       => r.listener[l].phase # "waiting"
             /\ k.online.state = "offline" =>
                  \A l \in Listeners : k.listener[l].query \in qs => r.listener[l].phase # "waiting"
<1> DEFINE r == OnViewSnapshots(k, qs, disk)
           next(l) == IF /\ k.listener[l].phase = "waiting" /\ k.listener[l].query \in qs
                         /\ ShouldRaiseInitialEvent(k, k.listener[l].query,
                                                    disk[k.listener[l].query].changes)
                      THEN [k.listener[l] EXCEPT !.phase = "shown"] ELSE k.listener[l]
<1>1. r = [k EXCEPT !.listener = [l \in Listeners |-> next(l)]]
  BY DEF OnViewSnapshots, Clients
<1>2. \A l \in Listeners :
        /\ next(l) \in ListenerStates /\ next(l).query = k.listener[l].query
        /\ next(l).phase \in {"waiting", "shown"} <=> k.listener[l].phase \in {"waiting", "shown"}
        /\ k.listener[l].phase # "waiting" => next(l).phase # "waiting"
        /\ k.online.state = "offline" /\ k.listener[l].query \in qs => next(l).phase # "waiting"
  BY DEF Clients, ListenerStates, ShouldRaiseInitialEvent
<1> HIDE DEF next
<1>3. r \in Clients
  BY <1>1, <1>2 DEF Clients
<1>4. /\ r.enabled = k.enabled /\ r.targets = k.targets /\ r.stream = k.stream
      /\ r.online = k.online /\ r.view = k.view
      /\ r.aggregator = k.aggregator /\ r.call = k.call
      /\ \A l \in Listeners : r.listener[l] = next(l)
  BY <1>1 DEF Clients
<1>5. QED BY <1>2, <1>3, <1>4 DEF SameInterest

(* A change of the online state is told to the views and the listeners     *)
(* when it is to offline: then none is current and none waits.             *)
LEMMA OnlineChangeKeeps ==
  ASSUME NEW k, Base(k), NEW o \in Trackers, TrackerIsSound(o)
  PROVE  LET r == HandleOnlineStateChange(k, o)
         IN  /\ Base(r) /\ SameInterest(k, r)
             /\ r.enabled = k.enabled /\ r.stream = k.stream /\ r.online = o
             /\ r.aggregator = k.aggregator /\ r.call = k.call
<1> DEFINE told == [k EXCEPT !.online = o]
           views == [q \in Queries |-> [k.view[q] EXCEPT !.current = FALSE]]
           unsynced == [told EXCEPT !.view = views]
           r == HandleOnlineStateChange(k, o)
<1>1. /\ told \in Clients /\ SameInterest(k, told)
      /\ told.enabled = k.enabled /\ told.stream = k.stream /\ told.online = o
      /\ told.aggregator = k.aggregator /\ told.call = k.call
      /\ told.view = k.view /\ told.listener = k.listener
  BY DEF Base, Clients, SameInterest
<1>2. CASE o.state # k.online.state /\ o.state = "offline"
  <2>0. /\ views \in [Queries -> Views]
        /\ \A q \in Queries : views[q].on = k.view[q].on /\ ~views[q].current
    BY DEF Base, Clients, Views
  <2> HIDE DEF views
  <2>1. /\ unsynced \in Clients /\ SameInterest(k, unsynced)
        /\ unsynced.enabled = k.enabled /\ unsynced.stream = k.stream /\ unsynced.online = o
        /\ unsynced.aggregator = k.aggregator /\ unsynced.call = k.call
        /\ \A q \in Queries : ~unsynced.view[q].current
        /\ \A l \in Listeners : unsynced.listener[l].query \in Queries
    BY <1>1, <2>0 DEF Clients, ListenerStates, SameInterest
  <2>2. r = OnViewSnapshots(unsynced, Queries, cache)
    BY <1>1, <1>2 DEF HandleOnlineStateChange, views
  <2> HIDE DEF unsynced
  <2>3. /\ r \in Clients /\ SameInterest(unsynced, r)
        /\ r.enabled = k.enabled /\ r.stream = k.stream /\ r.online = o
        /\ r.aggregator = k.aggregator /\ r.call = k.call
        /\ \A q \in Queries : ~r.view[q].current
        /\ \A l \in Listeners : r.listener[l].phase # "waiting"
    BY <2>1, <2>2, <1>2, OnViewSnapshotsKeeps
  <2>4. SameInterest(k, r)
    BY <2>1, <2>3, InterestTransitive
  <2>5. Base(r)
    BY <2>3 DEF Base, OfflineShown
  <2>6. QED BY <2>3, <2>4, <2>5
<1>3. CASE ~(o.state # k.online.state /\ o.state = "offline")
  <2>1. r = told
    BY <1>3 DEF HandleOnlineStateChange
  <2>2. OfflineShown(told)
    BY <1>1, <1>3 DEF Base, OfflineShown
  <2>3. Base(told)
    BY <1>1, <2>2 DEF Base
  <2>4. QED BY <1>1, <2>1, <2>3
<1>4. QED BY <1>2, <1>3

LEMMA BecomesKeeps ==
  ASSUME NEW k, Base(k), NEW s \in {"unknown", "online", "offline"}
  PROVE  LET r == Becomes(k, s)
         IN  /\ Base(r) /\ SameInterest(k, r)
             /\ r.enabled = k.enabled /\ r.stream = k.stream /\ r.online.state = s
             /\ ~r.online.timer
             /\ r.aggregator = k.aggregator /\ r.call = k.call
<1>1. k.online \in Trackers /\ TrackerIsSound(k.online)
  BY DEF Base, Clients
<1>2. UpdateState(k.online, s) \in Trackers /\ TrackerIsSound(UpdateState(k.online, s))
  BY <1>1, TrackerSteps
<1>3. UpdateState(k.online, s).state = s /\ ~UpdateState(k.online, s).timer
  BY <1>1, TrackerSteps
<1>4. QED BY <1>2, <1>3, OnlineChangeKeeps DEF Becomes

(* Another stream, aggregator or call leaves the rest alone.               *)
LEMMA SameView ==
  ASSUME NEW k, Base(k), NEW r \in Clients,
         r.targets = k.targets, r.view = k.view, r.listener = k.listener,
         r.online = k.online, CallbacksFindTheirState(r.stream)
  PROVE  Base(r) /\ SameInterest(k, r)
BY DEF Base, SameInterest, OfflineShown

LEMMA Fresh == NewAggregator \in [Queries -> Targets] /\ NoCall \in Calls /\ NewTarget \in Targets
<1>1. NewTarget \in Targets
  BY DEF NewTarget, Targets
<1>2. NewAggregator \in [Queries -> Targets]
  BY <1>1 DEF NewAggregator
<1>3. Unwatched \in Watched
  BY BoundsAssumption DEF Unwatched, Watched
<1>4. NoCall \in Calls
  BY <1>3 DEF NoCall, Calls
<1>5. QED BY <1>1, <1>2, <1>4

(* What is left of a target that is removed.                               *)
LEMMA RemoveTyped ==
  ASSUME NEW t \in Targets
  PROVE  /\ RemoveTarget(t) \in Targets /\ RemoveTarget(t).due = 0
         /\ RemoveTarget(t).changes = {} /\ RemoveTarget(t).pending = t.pending
<1>1. NewTarget \in Targets /\ NewTarget.due = 0 /\ NewTarget.changes = {}
  BY Fresh DEF NewTarget
<1>2. QED BY <1>1 DEF RemoveTarget, Targets

(* The stream is started, where it has ended.                              *)
LEMMA StartWatchStreamKeeps ==
  ASSUME NEW k, Base(k), ~IsStarted(k.stream), OwnTimer(k)
  PROVE  LET r == StartWatchStream(k)
         IN  /\ Base(r) /\ SameInterest(k, r)
             /\ r.enabled = k.enabled /\ IsStarted(r.stream) /\ ~r.stream.idle
<1> DEFINE started == [k EXCEPT !.aggregator = NewAggregator, !.stream = Start(@)]
           o == HandleWatchStreamStart(k.online)
<1>1. k \in Clients /\ k.stream \in Streams /\ CallbacksFindTheirState(k.stream)
      /\ k.online \in Trackers /\ TrackerIsSound(k.online)
  BY DEF Base, Clients
<1>2. /\ Start(k.stream) \in Streams /\ CallbacksFindTheirState(Start(k.stream))
      /\ IsStarted(Start(k.stream)) /\ ~Start(k.stream).idle
  BY <1>1, StartSound
<1>3. /\ started \in Clients /\ started.stream = Start(k.stream)
      /\ started.enabled = k.enabled /\ started.targets = k.targets /\ started.view = k.view
      /\ started.listener = k.listener /\ started.online = k.online
  BY <1>1, <1>2, Fresh DEF Clients
<1> HIDE DEF started
<1>4. Base(started) /\ SameInterest(k, started)
  BY <1>2, <1>3, SameView
<1>5. o \in Trackers /\ TrackerIsSound(o)
  <2>1. k.online.failures = 0 => ~k.online.timer
    BY DEF OwnTimer
  <2>2. QED BY <1>1, <2>1, TrackerSteps
<1>6. StartWatchStream(k) = HandleOnlineStateChange(started, o)
  BY DEF StartWatchStream, started
<1> HIDE DEF o
<1>7. /\ Base(StartWatchStream(k)) /\ SameInterest(started, StartWatchStream(k))
      /\ StartWatchStream(k).enabled = k.enabled /\ StartWatchStream(k).stream = Start(k.stream)
  BY <1>3, <1>4, <1>5, <1>6, OnlineChangeKeeps
<1>8. SameInterest(k, StartWatchStream(k))
  BY <1>4, <1>7, InterestTransitive
<1>9. QED BY <1>2, <1>7, <1>8

(* The stream has ended, for whatever reason: it is started again if it is *)
(* needed, and only then.                                                  *)
LEMMA OnWatchStreamCloseKeeps ==
  ASSUME NEW k, Base(k), ~IsStarted(k.stream), ~k.stream.idle
  PROVE  LET r == OnWatchStreamClose(k)
         IN  /\ Base(r) /\ SameInterest(k, r) /\ r.enabled = k.enabled /\ ~r.stream.idle /\ OwnTimer(r)
             /\ IsStarted(r.stream) <=> k.enabled /\ k.targets # {}
<1> DEFINE o == HandleWatchStreamFailure(k.online)
           failed == HandleOnlineStateChange(k, o)
<1>1. o \in Trackers /\ TrackerIsSound(o) /\ (o.failures = 0 => ~o.timer)
  BY TrackerSteps DEF Base, Clients
<1> HIDE DEF o
<1>2. /\ Base(failed) /\ SameInterest(k, failed)
      /\ failed.enabled = k.enabled /\ failed.stream = k.stream /\ failed.online = o
  BY <1>1, OnlineChangeKeeps
<1>3. CASE ShouldStartWatchStream(k)
  <2>1. OnWatchStreamClose(k) = StartWatchStream(failed)
    BY <1>3 DEF OnWatchStreamClose, o
  <2> HIDE DEF failed
  <2>2. /\ Base(StartWatchStream(failed)) /\ SameInterest(failed, StartWatchStream(failed))
        /\ StartWatchStream(failed).enabled = k.enabled
        /\ IsStarted(StartWatchStream(failed).stream) /\ ~StartWatchStream(failed).stream.idle
    <3>1. OwnTimer(failed)
      BY <1>1, <1>2 DEF OwnTimer
    <3>2. QED BY <1>2, <3>1, StartWatchStreamKeeps
  <2>3. SameInterest(k, StartWatchStream(failed))
    BY <1>2, <2>2, InterestTransitive
  <2>4. QED BY <1>3, <2>1, <2>2, <2>3 DEF ShouldStartWatchStream, OwnTimer
<1>4. CASE ~ShouldStartWatchStream(k)
  <2>1. OnWatchStreamClose(k) = Becomes(k, "unknown")
    BY <1>4 DEF OnWatchStreamClose
  <2>2. QED BY <1>4, <2>1, BecomesKeeps DEF ShouldStartWatchStream, OwnTimer
<1>5. QED BY <1>3, <1>4

LEMMA EndStreamKeeps ==
  ASSUME NEW k, Base(k), NEW g \in BOOLEAN
  PROVE  LET r == EndStream(k, g)
         IN  /\ Base(r) /\ SameInterest(k, r) /\ r.enabled = k.enabled /\ ~r.stream.idle /\ OwnTimer(r)
             /\ IsStarted(r.stream) <=> k.enabled /\ k.targets # {}
<1> DEFINE ended == [k EXCEPT !.stream = Close(@, g), !.call = NoCall, !.aggregator = NewAggregator]
<1>1. k \in Clients /\ k.stream \in Streams
  BY DEF Base, Clients
<1>2. /\ Close(k.stream, g) \in Streams /\ CallbacksFindTheirState(Close(k.stream, g))
      /\ ~IsStarted(Close(k.stream, g)) /\ ~Close(k.stream, g).idle
  BY <1>1, CloseSound
<1>3. /\ ended \in Clients /\ ended.stream = Close(k.stream, g)
      /\ ended.enabled = k.enabled /\ ended.targets = k.targets /\ ended.view = k.view
      /\ ended.listener = k.listener /\ ended.online = k.online
  BY <1>1, <1>2, Fresh DEF Clients
<1>4. EndStream(k, g) = OnWatchStreamClose(ended)
  BY DEF EndStream
<1> HIDE DEF ended
<1>5. Base(ended) /\ SameInterest(k, ended)
  BY <1>2, <1>3, SameView
<1>6. /\ Base(EndStream(k, g)) /\ SameInterest(ended, EndStream(k, g))
      /\ EndStream(k, g).enabled = k.enabled /\ ~EndStream(k, g).stream.idle
      /\ OwnTimer(EndStream(k, g))
      /\ IsStarted(EndStream(k, g).stream) <=> k.enabled /\ k.targets # {}
  BY <1>2, <1>3, <1>4, <1>5, OnWatchStreamCloseKeeps
<1>7. SameInterest(k, EndStream(k, g))
  BY <1>5, <1>6, InterestTransitive
<1>8. QED BY <1>6, <1>7

LEMMA StopStreamKeeps ==
  ASSUME NEW k, Base(k)
  PROVE  LET r == StopStream(k)
         IN  /\ Base(r) /\ SameInterest(k, r) /\ r.enabled = k.enabled /\ ~r.stream.idle
             /\ IsStarted(r.stream) => k.enabled /\ k.targets # {}
             /\ Running(k) => Running(r)
             /\ OwnTimer(k) => OwnTimer(r)
<1>1. CASE IsStarted(k.stream)
  <2>1. StopStream(k) = EndStream(k, TRUE)
    BY <1>1 DEF StopStream
  <2>2. /\ Base(StopStream(k)) /\ SameInterest(k, StopStream(k))
        /\ StopStream(k).enabled = k.enabled /\ ~StopStream(k).stream.idle
        /\ OwnTimer(StopStream(k))
        /\ IsStarted(StopStream(k).stream) <=> k.enabled /\ k.targets # {}
    BY <2>1, EndStreamKeeps
  <2>3. StopStream(k).targets = k.targets
    BY <2>2 DEF SameInterest
  <2>4. QED BY <2>2, <2>3 DEF Running
<1>2. CASE ~IsStarted(k.stream)
  <2>1. StopStream(k) = k /\ SameInterest(k, k)
    BY <1>2 DEF StopStream, SameInterest
  <2>2. ~k.stream.idle
    BY <1>2 DEF Base, CallbacksFindTheirState, IsStarted, IsOpen
  <2>3. QED BY <1>2, <2>1, <2>2
<1>3. QED BY <1>1, <1>2

(* Switching the network, by the app or by a change of it or of the user.  *)
LEMMA EnableNetworkKeeps ==
  ASSUME NEW k, Base(k), TimersFit(k)
  PROVE  LET r == EnableNetwork(k)
         IN  Base(r) /\ SameInterest(k, r) /\ TimersFit(r) /\ Running(r)
<1> DEFINE on == [k EXCEPT !.enabled = TRUE]
           r == EnableNetwork(k)
<1>1. /\ on \in Clients /\ on.enabled = TRUE /\ on.stream = k.stream /\ on.targets = k.targets
      /\ on.view = k.view /\ on.listener = k.listener /\ on.online = k.online
  BY DEF Base, Clients
<1>2. r = IF ShouldStartWatchStream(on) THEN StartWatchStream(on) ELSE Becomes(on, "unknown")
  BY DEF EnableNetwork
<1> HIDE DEF on, r
<1>3. Base(on) /\ SameInterest(k, on)
  <2>1. CallbacksFindTheirState(on.stream)
    BY <1>1 DEF Base
  <2>2. QED BY <1>1, <2>1, SameView
<1>4. CASE ShouldStartWatchStream(on)
  <2>1. Base(r) /\ SameInterest(on, r) /\ IsStarted(r.stream) /\ ~r.stream.idle
    <3>1. OwnTimer(on)
      BY <1>1 DEF TimersFit, OwnTimer
    <3>2. QED BY <1>2, <1>3, <1>4, <3>1, StartWatchStreamKeeps DEF ShouldStartWatchStream
  <2>2. SameInterest(k, r)
    BY <1>3, <2>1, InterestTransitive
  <2>3. QED BY <2>1, <2>2 DEF TimersFit, OwnTimer, Running, r
<1>5. CASE ~ShouldStartWatchStream(on)
  <2>1. Base(r) /\ SameInterest(on, r) /\ r.stream = on.stream /\ r.enabled = on.enabled
        /\ ~r.online.timer
    BY <1>2, <1>3, <1>5, BecomesKeeps
  <2>2. SameInterest(k, r)
    BY <1>3, <2>1, InterestTransitive
  <2>3. r.targets = k.targets
    BY <2>2 DEF SameInterest
  <2>4. TimersFit(r) /\ Running(r)
    BY <1>1, <1>5, <2>1, <2>3 DEF TimersFit, OwnTimer, Running, ShouldStartWatchStream
  <2>5. QED BY <2>1, <2>2, <2>4 DEF r
<1>6. QED BY <1>4, <1>5

(* What DisableNetwork and RestartNetwork begin with: the network is off   *)
(* before the stream stops, so that nothing starts it again.               *)
LEMMA SwitchedOff ==
  ASSUME NEW k, Base(k)
  PROVE  LET r == StopStream([k EXCEPT !.enabled = FALSE])
         IN  /\ Base(r) /\ SameInterest(k, r)
             /\ r.enabled = FALSE /\ ~IsStarted(r.stream) /\ ~r.stream.idle
<1> DEFINE off == [k EXCEPT !.enabled = FALSE]
<1>1. /\ off \in Clients /\ off.enabled = FALSE /\ off.stream = k.stream /\ off.targets = k.targets
      /\ off.view = k.view /\ off.listener = k.listener /\ off.online = k.online
  BY DEF Base, Clients
<1> HIDE DEF off
<1>2. CallbacksFindTheirState(off.stream)
  BY <1>1 DEF Base
<1>3. Base(off) /\ SameInterest(k, off)
  BY <1>1, <1>2, SameView
<1>4. /\ Base(StopStream(off)) /\ SameInterest(off, StopStream(off))
      /\ StopStream(off).enabled = FALSE /\ ~StopStream(off).stream.idle
      /\ ~IsStarted(StopStream(off).stream)
  BY <1>1, <1>3, StopStreamKeeps
<1>5. SameInterest(k, StopStream(off))
  BY <1>3, <1>4, InterestTransitive
<1>6. QED BY <1>4, <1>5 DEF off

LEMMA DisableNetworkKeeps ==
  ASSUME NEW k, Base(k)
  PROVE  LET r == DisableNetwork(k)
         IN  Base(r) /\ SameInterest(k, r) /\ TimersFit(r) /\ Running(r)
<1> DEFINE off == StopStream([k EXCEPT !.enabled = FALSE])
<1>1. Base(off) /\ SameInterest(k, off) /\ off.enabled = FALSE /\ ~off.stream.idle
  BY SwitchedOff
<1>2. DisableNetwork(k) = Becomes(off, "offline")
  BY DEF DisableNetwork
<1> HIDE DEF off
<1>3. /\ Base(DisableNetwork(k)) /\ SameInterest(off, DisableNetwork(k))
      /\ DisableNetwork(k).enabled = FALSE /\ ~DisableNetwork(k).stream.idle
      /\ ~DisableNetwork(k).online.timer
  BY <1>1, <1>2, BecomesKeeps
<1>4. SameInterest(k, DisableNetwork(k))
  BY <1>1, <1>3, InterestTransitive
<1>5. QED BY <1>3, <1>4 DEF TimersFit, OwnTimer, Running

LEMMA RestartNetworkKeeps ==
  ASSUME NEW k, Base(k)
  PROVE  LET r == RestartNetwork(k)
         IN  Base(r) /\ SameInterest(k, r) /\ TimersFit(r) /\ Running(r)
<1> DEFINE off == StopStream([k EXCEPT !.enabled = FALSE])
           quiet == Becomes(off, "unknown")
           keen == [quiet EXCEPT !.stream = InhibitBackoff(@)]
<1>1. /\ Base(off) /\ SameInterest(k, off) /\ ~IsStarted(off.stream) /\ ~off.stream.idle
  BY SwitchedOff
<1> HIDE DEF off
<1>2. /\ Base(quiet) /\ SameInterest(off, quiet) /\ ~IsStarted(quiet.stream) /\ ~quiet.stream.idle
      /\ ~quiet.online.timer
  BY <1>1, BecomesKeeps
<1> HIDE DEF quiet
<1>3. /\ InhibitBackoff(quiet.stream) \in Streams
      /\ CallbacksFindTheirState(InhibitBackoff(quiet.stream))
      /\ ~InhibitBackoff(quiet.stream).idle
  BY <1>2, StreamSteps DEF Base, Clients
<1>4. /\ keen \in Clients /\ keen.stream = InhibitBackoff(quiet.stream)
      /\ keen.targets = quiet.targets /\ keen.view = quiet.view
      /\ keen.listener = quiet.listener /\ keen.online = quiet.online
  BY <1>2, <1>3 DEF Base, Clients
<1>5. RestartNetwork(k) = EnableNetwork(keen)
  BY DEF RestartNetwork, keen, quiet, off
<1> HIDE DEF keen
<1>6. Base(keen) /\ SameInterest(quiet, keen) /\ TimersFit(keen)
  BY <1>2, <1>3, <1>4, SameView DEF TimersFit, OwnTimer
<1>7. /\ Base(RestartNetwork(k)) /\ SameInterest(keen, RestartNetwork(k))
      /\ TimersFit(RestartNetwork(k)) /\ Running(RestartNetwork(k))
  BY <1>5, <1>6, EnableNetworkKeeps
<1>8. SameInterest(k, RestartNetwork(k))
  BY <1>1, <1>2, <1>6, <1>7, InterestTransitive
<1>9. QED BY <1>7, <1>8

-----------------------------------------------------------------------------
(* A request on an open stream changes the call, the count of the answers  *)
(* due and the idle timer.                                                 *)
LEMMA SendKeeps ==
  ASSUME NEW k, Base(k), NEW request \in Requests
  PROVE  LET r == Send(k, request)
         IN  /\ Base(r) /\ SameInterest(k, r) /\ r.enabled = k.enabled /\ ~r.stream.idle
             /\ r.stream = CancelIdleCheck(k.stream)
             /\ r.view = k.view /\ r.listener = k.listener /\ r.online = k.online
<1> DEFINE q == request.query
           a == [k.aggregator EXCEPT ![q].due = @ + 1]
           d == [k.call EXCEPT !.requests = IF k.call.broken THEN @ ELSE Append(@, request)]
           r == Send(k, request)
<1>1. /\ k \in Clients /\ k.stream \in Streams /\ CallbacksFindTheirState(k.stream)
      /\ k.aggregator \in [Queries -> Targets] /\ k.call \in Calls /\ q \in Queries
  BY DEF Base, Clients, Requests
<1>2. a \in [Queries -> Targets]
  BY <1>1 DEF Targets
<1>3. d \in Calls
  <2>1. k.call.requests \in Seq(Requests)
    BY <1>1 DEF Calls
  <2>2. Append(k.call.requests, request) \in Seq(Requests)
    BY <2>1
  <2> HIDE DEF q
  <2>3. QED BY <1>1, <2>1, <2>2 DEF Calls
<1>4. /\ CancelIdleCheck(k.stream) \in Streams /\ CallbacksFindTheirState(CancelIdleCheck(k.stream))
      /\ ~CancelIdleCheck(k.stream).idle
  BY <1>1, StreamSteps
<1>5. r = [k EXCEPT !.aggregator = a, !.stream = CancelIdleCheck(@), !.call = d]
  BY <1>1 DEF Send, Clients
<1> HIDE DEF a, d, r, q
<1>6. /\ r \in Clients /\ r.stream = CancelIdleCheck(k.stream)
      /\ r.enabled = k.enabled /\ r.targets = k.targets /\ r.view = k.view
      /\ r.listener = k.listener /\ r.online = k.online
  BY <1>1, <1>2, <1>3, <1>4, <1>5 DEF Clients
<1>7. Base(r) /\ SameInterest(k, r)
  BY <1>4, <1>6, SameView
<1>8. QED BY <1>4, <1>6, <1>7 DEF r

LEMMA RequestsTyped ==
  ASSUME TypeOK, NEW q \in Queries
  PROVE  WatchRequest(q) \in Requests /\ [kind |-> "unwatch", query |-> q] \in Requests
<1>1. cache[q].token \in 0..MaxChanges
  BY DEF TypeOK
<1>2. QED BY <1>1 DEF WatchRequest, Requests

(* A query comes to be of interest: the listeners and the view are there,  *)
(* the target follows.                                                     *)
LEMMA ListenKeeps ==
  ASSUME NEW k, Base(k), TimersFit(k), Running(k), NEW q \in Queries, TypeOK,
         Agreed([k EXCEPT !.targets = @ \cup {q}])
  PROVE  Sound(Listen(k, q))
<1> DEFINE more == [k EXCEPT !.targets = @ \cup {q}]
           r == Listen(k, q)
<1>1. /\ more \in Clients /\ more.enabled = k.enabled /\ more.stream = k.stream
      /\ more.targets = k.targets \cup {q}
      /\ more.view = k.view /\ more.listener = k.listener /\ more.online = k.online
  BY DEF Base, Clients
<1>2. Agreed(more)
  OBVIOUS
<1>3. r = CASE ShouldStartWatchStream(more) -> StartWatchStream(more)
            [] ~ShouldStartWatchStream(more) /\ IsOpen(k.stream) -> SendWatchRequest(more, q)
            [] OTHER -> more
  BY DEF Listen
<1> HIDE DEF more, r
<1>4. Base(more)
  BY <1>1 DEF Base, OfflineShown
<1>5. CASE ShouldStartWatchStream(more)
  <2>1. r = StartWatchStream(more)
    BY <1>3, <1>5
  <2>2. Base(r) /\ SameInterest(more, r) /\ IsStarted(r.stream) /\ ~r.stream.idle
    <3>1. OwnTimer(more)
      BY <1>1 DEF TimersFit, OwnTimer
    <3>2. QED BY <2>1, <1>4, <1>5, <3>1, StartWatchStreamKeeps DEF ShouldStartWatchStream
  <2>3. Agreed(r)
    BY <1>2, <2>2, SameInterestAgrees
  <2>4. QED BY <2>2, <2>3 DEF Sound, TimersFit, OwnTimer, Running, r
<1>6. CASE ~ShouldStartWatchStream(more) /\ IsOpen(k.stream)
  <2>1. r = Send(more, WatchRequest(q))
    BY <1>3, <1>6 DEF SendWatchRequest
  <2>2. /\ Base(r) /\ SameInterest(more, r) /\ ~r.stream.idle
        /\ r.stream = CancelIdleCheck(more.stream)
    BY <2>1, <1>4, SendKeeps, RequestsTyped
  <2>3. IsStarted(r.stream)
    <3>1. IsStarted(more.stream)
      BY <1>1, <1>6 DEF IsOpen, IsStarted
    <3>2. more.stream \in Streams /\ CallbacksFindTheirState(more.stream)
      BY <1>4 DEF Base, Clients
    <3>3. QED BY <2>2, <3>1, <3>2, StreamSteps
  <2>4. Agreed(r)
    BY <1>2, <2>2, SameInterestAgrees
  <2>5. QED BY <2>2, <2>3, <2>4 DEF Sound, TimersFit, OwnTimer, Running, r
<1>7. CASE ~ShouldStartWatchStream(more) /\ ~IsOpen(k.stream)
  <2>1. r = more
    BY <1>3, <1>7
  <2>2. ~more.stream.idle
    BY <1>1, <1>7 DEF Base, CallbacksFindTheirState
  <2>3. Running(more)
    BY <1>7 DEF Running, ShouldStartWatchStream
  <2>4. QED BY <1>1, <1>2, <1>4, <2>1, <2>2, <2>3 DEF Sound, TimersFit, OwnTimer, r
<1>8. QED BY <1>5, <1>6, <1>7

(* It is of interest no more.                                              *)
LEMMA StopListeningKeeps ==
  ASSUME NEW k, Base(k), TimersFit(k), Running(k), NEW q \in Queries, TypeOK,
         Agreed([k EXCEPT !.targets = @ \ {q}])
  PROVE  Sound(StopListening(k, q))
<1> DEFINE less == [k EXCEPT !.targets = @ \ {q}]
           sent == IF IsOpen(k.stream) THEN SendUnwatchRequest(less, q) ELSE less
           r == StopListening(k, q)
<1>1. /\ less \in Clients /\ less.enabled = k.enabled /\ less.stream = k.stream
      /\ less.targets = k.targets \ {q}
      /\ less.view = k.view /\ less.listener = k.listener /\ less.online = k.online
  BY DEF Base, Clients
<1>2. Agreed(less)
  OBVIOUS
<1>3. r = CASE sent.targets # {} -> sent
            [] sent.targets = {} /\ IsOpen(sent.stream) -> [sent EXCEPT !.stream = MarkIdle(@)]
            [] sent.targets = {} /\ ~IsOpen(sent.stream) ->
                 IF sent.enabled THEN Becomes(sent, "unknown") ELSE sent
  BY DEF StopListening
<1>4. sent = IF IsOpen(k.stream) THEN Send(less, [kind |-> "unwatch", query |-> q]) ELSE less
  BY DEF SendUnwatchRequest
<1> HIDE DEF less, sent, r
<1>5. Base(less) /\ TimersFit(less) /\ Running(less)
  BY <1>1 DEF Base, OfflineShown, TimersFit, OwnTimer, Running
<1>6. Base(sent) /\ SameInterest(less, sent) /\ TimersFit(sent) /\ Running(sent)
  <2>1. CASE IsOpen(k.stream)
    <3>1. /\ Base(sent) /\ SameInterest(less, sent) /\ ~sent.stream.idle
          /\ sent.enabled = less.enabled /\ sent.stream = CancelIdleCheck(less.stream)
      BY <1>4, <1>5, <2>1, SendKeeps, RequestsTyped
    <3>2. IsStarted(sent.stream)
      <4>1. IsStarted(less.stream)
        BY <1>1, <2>1 DEF IsOpen, IsStarted
      <4>2. less.stream \in Streams /\ CallbacksFindTheirState(less.stream)
        BY <1>5 DEF Base, Clients
      <4>3. QED BY <3>1, <4>1, <4>2, StreamSteps
    <3>3. QED BY <3>1, <3>2 DEF TimersFit, OwnTimer, Running
  <2>2. CASE ~IsOpen(k.stream)
    BY <1>4, <1>5, <2>2 DEF SameInterest
  <2>3. QED BY <2>1, <2>2
<1>7. CASE sent.targets # {}
  BY <1>2, <1>3, <1>6, <1>7, SameInterestAgrees DEF Sound, r
<1>8. CASE sent.targets = {} /\ IsOpen(sent.stream)
  <2>1. r = [sent EXCEPT !.stream = MarkIdle(@)]
    BY <1>3, <1>8
  <2>2. /\ MarkIdle(sent.stream) \in Streams /\ CallbacksFindTheirState(MarkIdle(sent.stream))
    BY <1>6, StreamSteps DEF Base, Clients
  <2>3. /\ r \in Clients /\ r.stream = MarkIdle(sent.stream) /\ r.targets = sent.targets
        /\ r.view = sent.view /\ r.listener = sent.listener /\ r.online = sent.online
    BY <1>6, <2>1, <2>2 DEF Base, Clients
  <2>4. Base(r) /\ SameInterest(sent, r)
    BY <1>6, <2>2, <2>3, SameView
  <2>5. Agreed(r)
    BY <1>2, <1>6, <2>4, SameInterestAgrees
  <2>6. IsStarted(r.stream)
    <3>1. IsStarted(sent.stream) /\ sent.stream \in Streams /\ CallbacksFindTheirState(sent.stream)
      BY <1>6, <1>8 DEF IsOpen, IsStarted, Base, Clients
    <3>2. QED BY <2>3, <3>1, StreamSteps
  <2>7. QED BY <1>8, <2>3, <2>4, <2>5, <2>6 DEF Sound, TimersFit, OwnTimer, Running, r
<1>9. CASE sent.targets = {} /\ ~IsOpen(sent.stream)
  <2>1. r = IF sent.enabled THEN Becomes(sent, "unknown") ELSE sent
    BY <1>3, <1>9
  <2>2. /\ Base(r) /\ SameInterest(sent, r) /\ r.stream = sent.stream
        /\ OwnTimer(r)
    BY <1>6, <2>1, BecomesKeeps DEF SameInterest, TimersFit, OwnTimer
  <2>3. Agreed(r) /\ r.targets = {}
    BY <1>2, <1>6, <1>9, <2>2, SameInterestAgrees DEF SameInterest
  <2>4. QED BY <2>2, <2>3 DEF Sound, TimersFit, Running, r
<1>10. QED BY <1>7, <1>8, <1>9

-----------------------------------------------------------------------------
(* Steps.  The invariant is TypeOK and the soundness of the client record. *)
LEMMA SoundParts == ClientIsSound <=> TypeOK /\ Sound(c)
BY DEF ClientIsSound, OnlineIsSound, TimerHasStream, CallbacksAreCurrent, IdleOnlyWithoutTargets,
       NeededStreamRuns, AllAgreeOnQueries, OfflineIsShown, Sound, Base, OfflineShown,
       TimersFit, OwnTimer, Running, Agreed, TypeOK

LEMMA NewClientSound == Base(EnableNetwork(NewClient)) /\ Sound(EnableNetwork(NewClient))
<1> DEFINE k == NewClient
           first == CHOOSE q \in Queries : TRUE
<1>1. first \in Queries
  BY QueriesAssumption
<1>2. NewStream \in Streams /\ CallbacksFindTheirState(NewStream) /\ ~NewStream.idle
  BY DEF NewStream, Streams, States, CallbacksFindTheirState, IsOpen
<1>3. NewTracker \in Trackers /\ TrackerIsSound(NewTracker) /\ NewTracker.state = "unknown"
      /\ ~NewTracker.timer
  BY FailuresAssumption DEF NewTracker, Trackers, TrackerIsSound
<1>4. [q \in Queries |-> NoView] \in [Queries -> Views]
  BY BoundsAssumption DEF NoView, Views
<1>5. [l \in Listeners |-> [query |-> first, phase |-> "off"]] \in [Listeners -> ListenerStates]
  BY <1>1 DEF ListenerStates
<1>6. /\ k \in Clients /\ k.targets = {} /\ k.stream = NewStream /\ k.online = NewTracker
      /\ k.view = [q \in Queries |-> NoView]
      /\ k.listener = [l \in Listeners |-> [query |-> first, phase |-> "off"]]
  <2>1. k = [enabled |-> FALSE, targets |-> {}, stream |-> NewStream, online |-> NewTracker,
             aggregator |-> NewAggregator, call |-> NoCall, view |-> [q \in Queries |-> NoView],
             listener |-> [l \in Listeners |-> [query |-> first, phase |-> "off"]]]
    BY DEF NewClient
  <2> HIDE DEF k, first
  <2>2. QED BY <1>2, <1>3, <1>4, <1>5, <2>1, Fresh DEF Clients
<1> HIDE DEF k, first
<1>7. Base(k) /\ TimersFit(k)
  BY <1>2, <1>3, <1>6 DEF Base, OfflineShown, TimersFit, OwnTimer
<1>8. Agreed(k)
  BY <1>6 DEF Agreed, Heard, NoView
<1>9. /\ Base(EnableNetwork(k)) /\ SameInterest(k, EnableNetwork(k))
      /\ TimersFit(EnableNetwork(k)) /\ Running(EnableNetwork(k))
  BY <1>7, EnableNetworkKeeps
<1>10. Agreed(EnableNetwork(k))
  BY <1>8, <1>9, SameInterestAgrees
<1>11. QED BY <1>9, <1>10 DEF Sound, k

LEMMA InitSound == Init => ClientIsSound
<1> SUFFICES ASSUME Init PROVE ClientIsSound
  OBVIOUS
<1>1. Sound(c) /\ Base(c)
  BY NewClientSound DEF Init
<1>2. TypeOK
  <2>1. server \in [Queries -> 0..MaxChanges]
    BY BoundsAssumption DEF Init
  <2>2. cache \in [Queries -> [changes : SUBSET Changes, token : 0..MaxChanges]]
    BY BoundsAssumption DEF Init, Changes
  <2>3. listens \in 0..MaxListens /\ faults \in 0..MaxFaults
    BY BoundsAssumption DEF Init
  <2>4. QED BY <1>1, <2>1, <2>2, <2>3 DEF TypeOK, Base
<1>3. QED BY <1>1, <1>2, SoundParts

(* A client whose operation keeps the interest and the stream is sound.    *)
LEMMA KeepsSound ==
  ASSUME NEW k, Sound(k), NEW r, Base(r), SameInterest(k, r), TimersFit(r), Running(r)
  PROVE  Sound(r)
BY SameInterestAgrees DEF Sound

(* A fault is counted up to its bound.                                     *)
LEMMA FaultTyped == TypeOK /\ Fault => faults' \in 0..MaxFaults
BY BoundsAssumption DEF TypeOK, Fault

(* The callbacks of the stream and the tracker.                            *)
LEMMA CallbackSteps ==
  ASSUME TypeOK, Sound(c),
         \/ NoCredentials \/ LateCredentials \/ BackoffElapses \/ IdleTimeout
         \/ OnlineStateTimeout \/ StreamEnds
  PROVE  TypeOK' /\ Sound(c')
<1>1. /\ Base(c) /\ TimersFit(c) /\ Running(c) /\ Agreed(c)
      /\ c \in Clients /\ c.stream \in Streams /\ CallbacksFindTheirState(c.stream)
  BY DEF Sound, Base, Clients
<1>2. SUFFICES Sound(c')
  BY FaultTyped DEF NoCredentials, LateCredentials, BackoffElapses, IdleTimeout,
     OnlineStateTimeout, StreamEnds, TypeOK, Sound, Base
<1>3. CASE c' = EndStream(c, FALSE)
  <2>1. /\ Base(c') /\ SameInterest(c, c') /\ c'.enabled = c.enabled /\ ~c'.stream.idle
        /\ OwnTimer(c')
        /\ IsStarted(c'.stream) <=> c.enabled /\ c.targets # {}
    BY <1>1, <1>3, EndStreamKeeps
  <2>2. c'.targets = c.targets
    BY <2>1 DEF SameInterest
  <2>3. QED BY <2>1, <2>2, KeepsSound DEF TimersFit, Running, Sound
<1>4. CASE LateCredentials
  <2>1. /\ c' \in Clients /\ c'.stream = [c.stream EXCEPT !.asked = @ \ {"stale"}]
        /\ c'.enabled = c.enabled /\ c'.targets = c.targets /\ c'.view = c.view
        /\ c'.listener = c.listener /\ c'.online = c.online
    BY <1>1, <1>4 DEF LateCredentials, Clients, Streams
  <2>2. /\ CallbacksFindTheirState(c'.stream) /\ IsStarted(c'.stream) = IsStarted(c.stream)
        /\ c'.stream.idle = c.stream.idle
    BY <1>1, <2>1 DEF CallbacksFindTheirState, IsOpen, IsStarted, Streams
  <2>3. Base(c') /\ SameInterest(c, c')
    BY <1>1, <2>1, <2>2, SameView
  <2>4. QED BY <1>1, <2>1, <2>2, <2>3, KeepsSound DEF TimersFit, OwnTimer, Running
<1>5. CASE BackoffElapses
  <2>1. /\ BackoffDone(c.stream) \in Streams /\ CallbacksFindTheirState(BackoffDone(c.stream))
        /\ IsStarted(BackoffDone(c.stream)) /\ ~BackoffDone(c.stream).idle
    BY <1>1, <1>5, StreamSteps DEF BackoffElapses
  <2>2. /\ c' \in Clients /\ c'.stream = BackoffDone(c.stream)
        /\ c'.targets = c.targets /\ c'.view = c.view
        /\ c'.listener = c.listener /\ c'.online = c.online
    BY <1>1, <1>5, <2>1 DEF BackoffElapses, Clients
  <2>3. Base(c') /\ SameInterest(c, c')
    BY <1>1, <2>1, <2>2, SameView
  <2>4. QED BY <2>1, <2>2, <2>3, KeepsSound DEF TimersFit, OwnTimer, Running
<1>6. CASE IdleTimeout
  <2>1. c' = StopStream(c)
    BY <1>6 DEF IdleTimeout
  <2>2. QED BY <1>1, <2>1, StopStreamKeeps, KeepsSound DEF TimersFit
<1>7. CASE OnlineStateTimeout
  <2>1. /\ TimerFires(c.online) \in Trackers /\ TrackerIsSound(TimerFires(c.online))
        /\ ~TimerFires(c.online).timer
    BY <1>1, <1>7, TrackerSteps DEF Base, Clients, OnlineStateTimeout
  <2>2. /\ Base(c') /\ SameInterest(c, c') /\ c'.enabled = c.enabled /\ c'.stream = c.stream
        /\ c'.online = TimerFires(c.online)
    BY <1>1, <1>7, <2>1, OnlineChangeKeeps DEF OnlineStateTimeout
  <2>3. TimersFit(c') /\ Running(c')
    BY <1>1, <2>1, <2>2 DEF TimersFit, OwnTimer, Running, SameInterest
  <2>4. QED BY <2>2, <2>3, KeepsSound
<1>8. QED BY <1>3, <1>4, <1>5, <1>6, <1>7 DEF NoCredentials, StreamEnds

(* Switching the network, and a new process.                               *)
LEMMA NetworkSteps ==
  ASSUME TypeOK, Sound(c),
         TurnNetworkOff \/ TurnNetworkOn \/ NetworkRestarts \/ ProcessRestart
  PROVE  TypeOK' /\ Sound(c')
<1>1. Base(c) /\ TimersFit(c)
  BY DEF Sound
<1>2. SUFFICES Sound(c')
  BY FaultTyped DEF TurnNetworkOff, TurnNetworkOn, NetworkRestarts, ProcessRestart,
     TypeOK, Sound, Base
<1>3. CASE TurnNetworkOff
  BY <1>1, <1>3, DisableNetworkKeeps, KeepsSound DEF TurnNetworkOff
<1>4. CASE TurnNetworkOn
  BY <1>1, <1>4, EnableNetworkKeeps, KeepsSound DEF TurnNetworkOn
<1>5. CASE NetworkRestarts
  BY <1>1, <1>5, RestartNetworkKeeps, KeepsSound DEF NetworkRestarts
<1>6. CASE ProcessRestart
  BY <1>6, NewClientSound DEF ProcessRestart
<1>7. QED BY <1>3, <1>4, <1>5, <1>6

(* The call is made: all targets are asked for, in some order.             *)
LEMMA ConnectStep ==
  ASSUME TypeOK, Sound(c), Connect
  PROVE  TypeOK' /\ Sound(c')
<1> DEFINE order == SetToSeq(c.targets)
           requests == [i \in DOMAIN order |-> WatchRequest(order[i])]
           a == [q \in Queries |-> IF q \in c.targets
                                   THEN [c.aggregator[q] EXCEPT !.due = @ + 1]
                                   ELSE c.aggregator[q]]
           d == [c.call EXCEPT !.requests = requests]
<1>1. /\ Base(c) /\ TimersFit(c) /\ c \in Clients /\ c.targets \subseteq Queries
      /\ c.stream \in Streams /\ CallbacksFindTheirState(c.stream) /\ "current" \in c.stream.asked
      /\ c.aggregator \in [Queries -> Targets] /\ c.call \in Calls
  BY DEF Sound, Base, Clients, Connect
<1>2. /\ Opened(c.stream) \in Streams /\ CallbacksFindTheirState(Opened(c.stream))
      /\ IsStarted(Opened(c.stream)) /\ ~Opened(c.stream).idle
  BY <1>1, StreamSteps
<1>3. order \in Seq(c.targets)
  <2>1. IsFiniteSet(c.targets)
    BY <1>1, QueriesAssumption, FS_Subset
  <2>2. Cardinality(c.targets) \in Nat /\ ExistsBijection(1..Cardinality(c.targets), c.targets)
    BY <2>1, FS_CardinalityType
  <2>3. \E f \in [1..Cardinality(c.targets) -> c.targets] : IsInjective(f)
    <3>1. PICK f \in Bijection(1..Cardinality(c.targets), c.targets) : TRUE
      BY <2>2 DEF ExistsBijection
    <3>2. f \in [1..Cardinality(c.targets) -> c.targets] /\ IsInjective(f)
      BY <3>1 DEF Bijection, Injection, IsInjective
    <3>3. QED BY <3>2
  <2>4. order \in [1..Cardinality(c.targets) -> c.targets]
    BY <2>3 DEF SetToSeq
  <2>5. QED BY <2>2, <2>4
<1>4. requests \in Seq(Requests)
  <2> HIDE DEF order
  <2>0. \A i \in DOMAIN order : order[i] \in Queries
    BY <1>1, <1>3
  <2>1. \A i \in DOMAIN order : WatchRequest(order[i]) \in Requests
    BY <2>0, RequestsTyped
  <2>2. Len(order) \in Nat /\ DOMAIN order = 1..Len(order)
    BY <1>3
  <2>3. QED BY <2>1, <2>2
<1>5. a \in [Queries -> Targets]
  BY <1>1 DEF Targets
<1>6. d \in Calls
  <2> HIDE DEF requests
  <2>1. QED BY <1>1, <1>4 DEF Calls
<1>7. c' = [c EXCEPT !.stream = Opened(@), !.call = d, !.aggregator = a]
  BY <1>1 DEF Connect, OnWatchStreamOpen, Clients
<1> HIDE DEF a, d, requests, order
<1>8. /\ c' \in Clients /\ c'.stream = Opened(c.stream)
      /\ c'.targets = c.targets /\ c'.view = c.view
      /\ c'.listener = c.listener /\ c'.online = c.online
  BY <1>1, <1>2, <1>5, <1>6, <1>7 DEF Clients
<1>9. Base(c') /\ SameInterest(c, c')
  BY <1>1, <1>2, <1>8, SameView
<1>10. Sound(c')
  BY <1>2, <1>8, <1>9, KeepsSound DEF TimersFit, OwnTimer, Running
<1>11. QED BY <1>8, <1>10 DEF Connect, TypeOK

(* A listener comes.                                                       *)
LEMMA AddStep ==
  ASSUME TypeOK, Sound(c), NEW l \in Listeners, NEW q \in Queries, AddQueryListener(l, q)
  PROVE  TypeOK' /\ Sound(c')
<1> DEFINE added == [c EXCEPT !.listener[l] = [query |-> q, phase |-> "waiting"]]
           made == IF c.view[q].on THEN added
                   ELSE [added EXCEPT !.view[q] = [on |-> TRUE, current |-> FALSE,
                                                   since |-> server[q]]]
           told == OnViewSnapshots(made, {q}, cache)
<1>1. /\ Base(c) /\ TimersFit(c) /\ Running(c) /\ Agreed(c) /\ c \in Clients
      /\ c.listener \in [Listeners -> ListenerStates] /\ c.view \in [Queries -> Views]
      /\ server[q] \in 0..MaxChanges
  BY DEF Sound, Base, Clients, TypeOK
<1>2. /\ added \in Clients /\ added.enabled = c.enabled /\ added.targets = c.targets
      /\ added.stream = c.stream /\ added.online = c.online /\ added.view = c.view
      /\ added.listener = [c.listener EXCEPT ![l] = [query |-> q, phase |-> "waiting"]]
  BY <1>1 DEF Clients, ListenerStates
<1>3. /\ made \in Clients /\ made.enabled = c.enabled /\ made.targets = c.targets
      /\ made.stream = c.stream /\ made.online = c.online /\ made.listener = added.listener
      /\ made.view \in [Queries -> Views] /\ made.view[q].on
      /\ made.view[q].current => c.view[q].current
      /\ \A p \in Queries \ {q} : made.view[p] = c.view[p]
  <2> HIDE DEF added
  <2>1. CASE c.view[q].on
    BY <1>1, <1>2, <2>1
  <2>2. CASE ~c.view[q].on
    BY <1>1, <1>2, <2>2 DEF Clients, Views
  <2>3. QED BY <2>1, <2>2
<1>4. c' = (IF c.view[q].on THEN told ELSE Listen(told, q)) /\ c.listener[l].phase \in {"off", "failed"}
  BY DEF AddQueryListener
<1> HIDE DEF added, made, told
<1>5. /\ told \in Clients /\ SameInterest(made, told) /\ told.enabled = c.enabled
      /\ told.stream = c.stream /\ told.online = c.online /\ told.view = made.view
      /\ \A x \in Listeners : made.listener[x].phase # "waiting" => told.listener[x].phase # "waiting"
      /\ c.online.state = "offline" => told.listener[l].phase # "waiting"
  <2>1. made.listener[l].query = q
    BY <1>1, <1>2, <1>3
  <2>2. QED BY <1>3, <2>1, OnViewSnapshotsKeeps DEF told
<1>6. Base(told) /\ TimersFit(told) /\ Running(told)
  <2>1. OfflineShown(told)
    BY <1>1, <1>2, <1>3, <1>5 DEF Base, OfflineShown
  <2>2. told.targets = c.targets
    BY <1>3, <1>5 DEF SameInterest
  <2>3. QED BY <1>1, <1>5, <2>1, <2>2 DEF Base, TimersFit, OwnTimer, Running
<1>7. /\ Heard(told, q) # {} /\ told.view[q].on
      /\ \A p \in Queries \ {q} : Heard(told, p) = Heard(c, p) /\ told.view[p].on = c.view[p].on
      /\ told.targets = c.targets
  <2>1. \A p \in Queries : Heard(told, p) = Heard(made, p)
    BY <1>5 DEF Heard, SameInterest
  <2>2. l \in Heard(made, q)
    BY <1>1, <1>2, <1>3 DEF Heard
  <2>3. \A p \in Queries \ {q} : Heard(made, p) = Heard(c, p)
    BY <1>1, <1>2, <1>3, <1>4 DEF Heard
  <2>4. QED BY <1>3, <1>5, <2>1, <2>2, <2>3 DEF SameInterest
<1>8. Sound(c')
  <2>1. CASE c.view[q].on
    <3>1. Agreed(told)
      BY <1>1, <1>7, <2>1 DEF Agreed
    <3>2. QED BY <1>4, <1>6, <2>1, <3>1 DEF Sound
  <2>2. CASE ~c.view[q].on
    <3> DEFINE more == [told EXCEPT !.targets = @ \cup {q}]
    <3>1. more.targets = c.targets \cup {q} /\ more.view = told.view /\ more.listener = told.listener
      BY <1>5, <1>7 DEF Clients
    <3> HIDE DEF more
    <3>2. \A p \in Queries : Heard(more, p) = Heard(told, p)
      BY <3>1 DEF Heard
    <3>3. Agreed(more)
      BY <1>1, <1>7, <3>1, <3>2 DEF Agreed
    <3>4. Sound(Listen(told, q))
      BY <1>6, <3>3, ListenKeeps DEF more
    <3>5. QED BY <1>4, <2>2, <3>4
  <2>3. QED BY <2>1, <2>2
<1>9. listens' \in 0..MaxListens /\ UNCHANGED <<server, cache, faults>>
  <2>1. listens \in 0..MaxListens /\ listens < MaxListens /\ listens' = listens + 1
        /\ UNCHANGED <<server, cache, faults>>
    BY DEF AddQueryListener, TypeOK
  <2>2. QED BY <2>1, BoundsAssumption
<1>10. c' \in Clients
  BY <1>8 DEF Sound, Base
<1>11. QED
  BY <1>8, <1>9, <1>10 DEF TypeOK

(* A listener goes.                                                        *)
LEMMA RemoveStep ==
  ASSUME TypeOK, Sound(c), NEW l \in Listeners, RemoveQueryListener(l)
  PROVE  TypeOK' /\ Sound(c')
<1> DEFINE q == c.listener[l].query
           less == [c EXCEPT !.listener[l].phase = "off"]
           gone == [less EXCEPT !.view[q] = NoView]
<1>1. /\ Base(c) /\ TimersFit(c) /\ Running(c) /\ Agreed(c) /\ c \in Clients
      /\ c.listener \in [Listeners -> ListenerStates] /\ c.view \in [Queries -> Views]
      /\ q \in Queries /\ c.listener[l].phase \in {"waiting", "shown"}
  BY DEF Sound, Base, Clients, RemoveQueryListener, ListenerStates
<1>2. c' = IF Heard(less, q) # {} THEN less ELSE StopListening(gone, q)
  BY DEF RemoveQueryListener
<1> HIDE DEF q
<1>3. /\ less \in Clients /\ less.enabled = c.enabled /\ less.targets = c.targets
      /\ less.stream = c.stream /\ less.online = c.online /\ less.view = c.view
      /\ less.listener = [c.listener EXCEPT ![l].phase = "off"]
  BY <1>1 DEF Clients, ListenerStates
<1> HIDE DEF less
<1>4. Base(less) /\ TimersFit(less) /\ Running(less)
  BY <1>1, <1>3 DEF Base, OfflineShown, TimersFit, OwnTimer, Running, ListenerStates
<1>5. \A p \in Queries \ {q} : Heard(less, p) = Heard(c, p)
  BY <1>1, <1>3 DEF Heard, ListenerStates, q
<1>6. CASE Heard(less, q) # {}
  <2>1. l \in Heard(c, q)
    BY <1>1 DEF Heard, q
  <2>2. Agreed(less)
    BY <1>1, <1>3, <1>5, <1>6, <2>1 DEF Agreed
  <2>3. QED
    BY <1>2, <1>3, <1>4, <1>6, <2>2 DEF Sound, TypeOK, RemoveQueryListener
<1>7. CASE Heard(less, q) = {}
  <2>1. NoView \in Views /\ ~NoView.on /\ ~NoView.current
    BY BoundsAssumption DEF NoView, Views
  <2>2. /\ gone \in Clients /\ gone.enabled = c.enabled /\ gone.targets = c.targets
        /\ gone.stream = c.stream /\ gone.online = c.online /\ gone.listener = less.listener
        /\ gone.view = [c.view EXCEPT ![q] = NoView]
    BY <1>1, <1>3, <2>1 DEF Clients
  <2> HIDE DEF gone
  <2>3. Base(gone) /\ TimersFit(gone) /\ Running(gone)
    BY <1>1, <1>4, <1>3, <2>1, <2>2 DEF Base, OfflineShown, TimersFit, OwnTimer, Running
  <2> DEFINE fewer == [gone EXCEPT !.targets = @ \ {q}]
  <2>4. fewer.targets = c.targets \ {q} /\ fewer.view = gone.view /\ fewer.listener = less.listener
    BY <2>2 DEF Clients
  <2> HIDE DEF fewer
  <2>5. \A p \in Queries : Heard(fewer, p) = Heard(less, p)
    BY <2>4 DEF Heard
  <2>6. Agreed(fewer)
    BY <1>1, <1>5, <1>7, <2>1, <2>2, <2>4, <2>5 DEF Agreed
  <2>7. Sound(StopListening(gone, q))
    BY <1>1, <2>3, <2>6, StopListeningKeeps DEF fewer
  <2>8. QED
    BY <1>2, <1>7, <2>7 DEF Sound, Base, TypeOK, RemoveQueryListener
<1>8. QED BY <1>6, <1>7

-----------------------------------------------------------------------------
(* What the server says about a target changes only what the aggregator    *)
(* knows of it.                                                            *)
LEMMA TargetTold ==
  ASSUME NEW k, Base(k), NEW q \in Queries, NEW n \in Changes,
         NEW r, \/ r = HandleAdded(k, q) \/ r = HandleRemoved(k, q)
                \/ r = HandleCurrent(k, q) \/ r = HandleDocumentChange(k, q, n)
  PROVE  Base(r) /\ SameInterest(k, r) /\ r.enabled = k.enabled /\ r.stream = k.stream
         /\ r.online = k.online
<1>1. /\ k \in Clients /\ k.aggregator \in [Queries -> Targets] /\ k.aggregator[q] \in Targets
      /\ k.aggregator[q].due \in Int /\ k.aggregator[q].changes \subseteq Changes
      /\ k.aggregator[q].pending \subseteq Changes
      /\ CallbacksFindTheirState(k.stream)
  BY DEF Base, Clients, Targets
<1> DEFINE Of(t) == [k EXCEPT !.aggregator = [k.aggregator EXCEPT ![q] = t]]
<1>2. \A t \in Targets :
        Base(Of(t)) /\ SameInterest(k, Of(t)) /\ Of(t).enabled = k.enabled /\ Of(t).stream = k.stream
        /\ Of(t).online = k.online
  <2>1. SUFFICES ASSUME NEW t \in Targets
                 PROVE  /\ Base(Of(t)) /\ SameInterest(k, Of(t))
                        /\ Of(t).enabled = k.enabled /\ Of(t).stream = k.stream
                        /\ Of(t).online = k.online
    OBVIOUS
  <2>2. /\ Of(t) \in Clients /\ Of(t).targets = k.targets /\ Of(t).view = k.view
        /\ Of(t).listener = k.listener /\ Of(t).online = k.online
        /\ Of(t).enabled = k.enabled /\ Of(t).stream = k.stream
    BY <1>1 DEF Clients
  <2> HIDE DEF Of
  <2>3. QED BY <1>1, <2>2, SameView
<1>3. CASE r = k
  BY <1>3 DEF SameInterest
<1>4. CASE r = HandleAdded(k, q)
  <2> DEFINE t == [k.aggregator[q] EXCEPT !.due = k.aggregator[q].due - 1,
                     !.changes = IF k.aggregator[q].due - 1 = 0 THEN {} ELSE k.aggregator[q].changes]
  <2>1. t \in Targets
    <3>1. ASSUME NEW b \in Targets, NEW cs \in SUBSET Changes
          PROVE  [b EXCEPT !.due = b.due - 1, !.changes = cs] \in Targets
      <4> DEFINE d == [b EXCEPT !.due = b.due - 1]
      <4>1. d \in Targets
        BY <3>1 DEF Targets
      <4>2. [d EXCEPT !.changes = cs] \in Targets
        <5> HIDE DEF d
        <5>1. QED BY <3>1, <4>1 DEF Targets
      <4>3. QED BY <4>2
    <3>2. (IF k.aggregator[q].due - 1 = 0 THEN {} ELSE k.aggregator[q].changes) \in SUBSET Changes
      BY <1>1
    <3>3. QED BY <1>1, <3>1, <3>2
  <2>2. r = Of(t)
    <3>1. /\ DOMAIN k.aggregator = Queries /\ "aggregator" \in DOMAIN k
          /\ DOMAIN k.aggregator[q] = {"due", "current", "changes", "pending"}
      BY <1>1 DEF Clients, Targets
    <3>2. QED BY <1>4, <3>1 DEF HandleAdded
  <2> HIDE DEF Of, t
  <2>3. QED BY <1>2, <2>1, <2>2
<1>5. CASE r = HandleRemoved(k, q)
  <2> DEFINE t == IF k.aggregator[q].due - 1 = 0 THEN RemoveTarget(k.aggregator[q])
                  ELSE [k.aggregator[q] EXCEPT !.due = k.aggregator[q].due - 1]
  <2>1. t \in Targets
    BY <1>1, RemoveTyped DEF Targets
  <2>2. r = Of(t)
    BY <1>1, <1>5 DEF HandleRemoved, Clients
  <2> HIDE DEF Of, t
  <2>3. QED BY <1>2, <2>1, <2>2
<1>6. CASE r = HandleCurrent(k, q) /\ r # k
  <2> DEFINE t == [k.aggregator[q] EXCEPT !.current = TRUE]
  <2>1. t \in Targets
    BY <1>1 DEF Targets
  <2>2. r = Of(t)
    BY <1>1, <1>6 DEF HandleCurrent, Clients
  <2> HIDE DEF Of, t
  <2>3. QED BY <1>2, <2>1, <2>2
<1>7. CASE r = HandleDocumentChange(k, q, n) /\ r # k
  <2> DEFINE t == [k.aggregator[q] EXCEPT !.changes = k.aggregator[q].changes \cup {n},
                                           !.pending = k.aggregator[q].pending \cup {n}]
  <2>1. t \in Targets
    BY <1>1 DEF Targets
  <2>2. r = Of(t)
    BY <1>1, <1>7 DEF HandleDocumentChange, Clients
  <2> HIDE DEF Of, t
  <2>3. QED BY <1>2, <2>1, <2>2
<1>8. QED BY <1>3, <1>4, <1>5, <1>6, <1>7

(* A refused query goes from the targets, the views and the listeners at   *)
(* once.  The client is online: the server has just answered.              *)
LEMMA ProcessTargetErrorKeeps ==
  ASSUME NEW k, Sound(k), k.online.state = "online", NEW q \in Queries
  PROVE  Sound(ProcessTargetError(k, q))
<1>1. CASE q \notin k.targets
  BY <1>1 DEF ProcessTargetError
<1>2. CASE q \in k.targets
  <2> DEFINE r == ProcessTargetError(k, q)
             t == RemoveTarget(k.aggregator[q])
             heard == [l \in Listeners |->
                         IF l \in Heard(k, q) THEN [k.listener[l] EXCEPT !.phase = "failed"]
                         ELSE k.listener[l]]
  <2>1. /\ k \in Clients /\ k.listener \in [Listeners -> ListenerStates]
        /\ NoView \in Views /\ ~NoView.on /\ t \in Targets
    <3>1. k \in Clients /\ k.aggregator[q] \in Targets
      BY DEF Sound, Base, Clients
    <3>2. NoView \in Views /\ ~NoView.on
      BY BoundsAssumption DEF NoView, Views
    <3>3. QED BY <3>1, <3>2, RemoveTyped DEF Clients
  <2>2. /\ heard \in [Listeners -> ListenerStates]
        /\ \A l \in Listeners : heard[l].query = k.listener[l].query
        /\ \A l \in Heard(k, q) : heard[l].phase = "failed"
        /\ \A l \in Listeners \ Heard(k, q) : heard[l] = k.listener[l]
    BY <2>1 DEF ListenerStates, Heard
  <2>3. r = [k EXCEPT !.targets = @ \ {q}, !.aggregator[q] = t, !.view[q] = NoView,
                      !.listener = heard]
    BY <1>2, <2>1 DEF ProcessTargetError, Clients
  <2> HIDE DEF r, heard, t
  <2>4. /\ r \in Clients /\ r.enabled = k.enabled /\ r.targets = k.targets \ {q}
        /\ r.stream = k.stream /\ r.online = k.online /\ r.listener = heard
        /\ r.view = [k.view EXCEPT ![q] = NoView]
    BY <2>1, <2>2, <2>3 DEF Clients
  <2>5. Base(r)
    BY <2>4 DEF Sound, Base, OfflineShown
  <2>6. Heard(r, q) = {}
    BY <2>1, <2>2, <2>4 DEF Heard
  <2>7. \A p \in Queries \ {q} : Heard(r, p) = Heard(k, p)
    BY <2>2, <2>4 DEF Heard
  <2>8. k.view \in [Queries -> Views]
    BY <2>1 DEF Clients
  <2>9. Agreed(r)
    BY <2>1, <2>4, <2>6, <2>7, <2>8 DEF Sound, Agreed
  <2>10. TimersFit(r) /\ Running(r)
    BY <2>4 DEF Sound, TimersFit, OwnTimer, Running
  <2>11. QED BY <2>5, <2>9, <2>10 DEF Sound, r
<1>3. QED BY <1>1, <1>2

(* A snapshot reaches the disk, the views and the listeners of the active  *)
(* targets; no view or listener comes or goes.                             *)
LEMMA RaiseWatchSnapshotKeeps ==
  ASSUME NEW k, Sound(k), k.online.state = "online",
         cache \in [Queries -> [changes : SUBSET Changes, token : 0..MaxChanges]],
         NEW tokens \in [Queries -> 0..MaxChanges], RaiseWatchSnapshot(k, tokens)
  PROVE  /\ cache' \in [Queries -> [changes : SUBSET Changes, token : 0..MaxChanges]]
         /\ Sound(c')
<1> DEFINE disk == [q \in Queries |->
                      [changes |-> cache[q].changes \cup k.aggregator[q].pending,
                       token |-> IF q \in Active(k) THEN tokens[q] ELSE cache[q].token]]
           known == [q \in Queries |->
                       [k.aggregator[q] EXCEPT !.changes = IF q \in Active(k) THEN {} ELSE @,
                                               !.pending = {}]]
           views == [q \in Queries |->
                       IF q \in Active(k)
                       THEN [k.view[q] EXCEPT !.current = k.aggregator[q].current]
                       ELSE k.view[q]]
           changed == {q \in Queries : disk[q].changes # cache[q].changes}
           seen == [k EXCEPT !.aggregator = known, !.view = views]
<1>1. /\ k \in Clients /\ k.aggregator \in [Queries -> Targets] /\ k.view \in [Queries -> Views]
      /\ Base(k) /\ TimersFit(k) /\ Running(k) /\ Agreed(k)
  BY DEF Sound, Base, Clients
<1>2. cache' = disk /\ c' = OnViewSnapshots(seen, Active(k) \cup changed, disk)
  BY DEF RaiseWatchSnapshot
<1>3. disk \in [Queries -> [changes : SUBSET Changes, token : 0..MaxChanges]]
  <2>1. \A q \in Queries : k.aggregator[q].pending \subseteq Changes
    BY <1>1 DEF Targets
  <2>2. QED BY <2>1
<1>4. known \in [Queries -> Targets]
  <2>1. ASSUME NEW t \in Targets, NEW new \in SUBSET Changes
        PROVE  [t EXCEPT !.changes = new, !.pending = {}] \in Targets
    BY DEF Targets
  <2>2. \A q \in Queries : (IF q \in Active(k) THEN {} ELSE k.aggregator[q].changes) \in SUBSET Changes
    BY <1>1 DEF Targets
  <2>3. QED BY <1>1, <2>1, <2>2
<1>5. views \in [Queries -> Views] /\ \A q \in Queries : views[q].on = k.view[q].on
  <2>1. \A q \in Queries : k.aggregator[q].current \in BOOLEAN
    BY <1>1 DEF Targets
  <2>2. QED BY <1>1, <2>1 DEF Views
<1> HIDE DEF disk, known, views, changed
<1>6. /\ seen \in Clients /\ SameInterest(k, seen) /\ seen.enabled = k.enabled
      /\ seen.stream = k.stream /\ seen.online = k.online
  BY <1>1, <1>4, <1>5 DEF Clients, SameInterest
<1> HIDE DEF seen
<1>7. /\ c' \in Clients /\ SameInterest(seen, c') /\ c'.enabled = k.enabled
      /\ c'.stream = k.stream /\ c'.online = k.online
  BY <1>2, <1>6, OnViewSnapshotsKeeps
<1>8. SameInterest(k, c')
  BY <1>6, <1>7, InterestTransitive
<1>9. Base(c')
  BY <1>1, <1>7 DEF Base, OfflineShown
<1>10. TimersFit(c') /\ Running(c')
  BY <1>1, <1>7, <1>8 DEF TimersFit, OwnTimer, Running, SameInterest
<1>11. QED BY <1>2, <1>3, <1>8, <1>9, <1>10, KeepsSound

(* An answer of the server: the client is online, and each kind of answer  *)
(* has its handler.                                                        *)
LEMMA AnswerStep ==
  ASSUME TypeOK, Sound(c), OnWatchStreamChange
  PROVE  TypeOK' /\ Sound(c')
<1> DEFINE a == Head(c.call.answers)
           read == [c EXCEPT !.call.answers = Tail(@)]
           k == Becomes(read, "online")
<1>1. /\ c \in Clients /\ c.call.answers \in Seq(Answers) /\ c.call.answers # <<>>
      /\ Base(c) /\ TimersFit(c) /\ Running(c) /\ CallbacksFindTheirState(c.stream)
  BY DEF OnWatchStreamChange, Sound, Base, Clients, Calls
<1>2. a \in Answers /\ Tail(c.call.answers) \in Seq(Answers)
  BY <1>1
<1>3. /\ read \in Clients /\ read.targets = c.targets /\ read.view = c.view
      /\ read.listener = c.listener /\ read.online = c.online
      /\ read.stream = c.stream /\ read.enabled = c.enabled
  BY <1>1, <1>2 DEF Clients, Calls
<1>4. \/ a.kind = "added" /\ c' = HandleAdded(k, a.query) /\ UNCHANGED cache
      \/ a.kind = "removed" /\ c' = HandleRemoved(k, a.query) /\ UNCHANGED cache
      \/ a.kind = "current" /\ c' = HandleCurrent(k, a.query) /\ UNCHANGED cache
      \/ a.kind = "change" /\ c' = HandleDocumentChange(k, a.query, a.change) /\ UNCHANGED cache
      \/ a.kind = "refused" /\ c' = ProcessTargetError(k, a.query) /\ UNCHANGED cache
      \/ a.kind = "snapshot" /\ RaiseWatchSnapshot(k, a.tokens)
  BY <1>2 DEF OnWatchStreamChange, Answers
<1>5. /\ a.kind \in {"added", "removed", "refused", "current", "change"} => a.query \in Queries
      /\ a.kind = "change" => a.change \in Changes
      /\ a.kind = "snapshot" => a.tokens \in [Queries -> 0..MaxChanges]
  BY <1>2 DEF Answers
<1> HIDE DEF a, read
<1>6. Base(read) /\ SameInterest(c, read)
  BY <1>1, <1>3, SameView
<1>7. /\ Base(k) /\ SameInterest(read, k) /\ k.online.state = "online"
      /\ ~k.online.timer /\ k.stream = c.stream /\ k.enabled = c.enabled
  BY <1>3, <1>6, BecomesKeeps
<1> HIDE DEF k
<1>8. SameInterest(c, k)
  BY <1>6, <1>7, InterestTransitive
<1>9. Sound(k)
  BY <1>1, <1>7, <1>8, KeepsSound DEF TimersFit, OwnTimer, Running, SameInterest
<1>10. CASE /\ UNCHANGED cache
            /\ a.kind \in {"added", "removed", "current", "change"}
  <2>1. PICK n \in Changes : a.kind = "change" => n = a.change
    BY <1>5, BoundsAssumption DEF Changes
  <2>2. \/ c' = HandleAdded(k, a.query) \/ c' = HandleRemoved(k, a.query)
        \/ c' = HandleCurrent(k, a.query) \/ c' = HandleDocumentChange(k, a.query, n)
    BY <1>4, <1>10, <2>1
  <2>3. Base(c') /\ SameInterest(k, c') /\ c'.enabled = k.enabled /\ c'.stream = k.stream
        /\ c'.online = k.online
    BY <1>5, <1>7, <1>10, <2>2, TargetTold
  <2>4. TimersFit(c') /\ Running(c')
    BY <1>9, <2>3 DEF Sound, TimersFit, OwnTimer, Running, SameInterest
  <2>5. Sound(c')
    BY <1>9, <2>3, <2>4, KeepsSound
  <2>6. QED BY <1>10, <2>5 DEF OnWatchStreamChange, TypeOK, Sound, Base
<1>11. CASE a.kind = "refused" /\ c' = ProcessTargetError(k, a.query) /\ UNCHANGED cache
  <2>1. Sound(c')
    BY <1>5, <1>7, <1>9, <1>11, ProcessTargetErrorKeeps
  <2>2. QED BY <1>11, <2>1 DEF OnWatchStreamChange, TypeOK, Sound, Base
<1>12. CASE a.kind = "snapshot" /\ RaiseWatchSnapshot(k, a.tokens)
  <2>1. /\ cache' \in [Queries -> [changes : SUBSET Changes, token : 0..MaxChanges]]
        /\ Sound(c')
    BY <1>5, <1>7, <1>9, <1>12, RaiseWatchSnapshotKeeps DEF TypeOK
  <2>2. QED BY <2>1 DEF OnWatchStreamChange, TypeOK, Sound, Base
<1>13. QED BY <1>4, <1>10, <1>11, <1>12

-----------------------------------------------------------------------------
(* The server and the network act on the call alone.                       *)
LEMMA CallKeeps ==
  ASSUME Sound(c), NEW d \in Calls, c' = [c EXCEPT !.call = d]
  PROVE  c' \in Clients /\ Sound(c')
<1>1. c \in Clients /\ Base(c) /\ TimersFit(c) /\ Running(c) /\ CallbacksFindTheirState(c.stream)
  BY DEF Sound, Base
<1>2. /\ c' \in Clients /\ c'.targets = c.targets /\ c'.view = c.view
      /\ c'.listener = c.listener /\ c'.online = c.online
      /\ c'.stream = c.stream /\ c'.enabled = c.enabled
  BY <1>1 DEF Clients
<1>3. Base(c') /\ SameInterest(c, c')
  BY <1>1, <1>2, SameView
<1>4. QED BY <1>1, <1>2, <1>3, KeepsSound DEF TimersFit, OwnTimer, Running

(* One more answer on its way is still a call.                             *)
LEMMA AnswerSent ==
  ASSUME NEW d \in Calls, NEW x \in Answers, NEW w \in [Queries -> Watched], NEW b \in BOOLEAN
  PROVE  [d EXCEPT !.answers = Append(d.answers, x), !.watched = w, !.news = b] \in Calls
<1>1. Append(d.answers, x) \in Seq(Answers)
  BY DEF Calls
<1>2. QED BY <1>1 DEF Calls

LEMMA ServerTakesStep ==
  ASSUME TypeOK, Sound(c), ServerTakes
  PROVE  TypeOK' /\ Sound(c')
<1> DEFINE r == Head(c.call.requests)
           call == [c.call EXCEPT !.requests = Tail(@)]
           added == [kind |-> "added", query |-> r.query]
           refused == [kind |-> "refused", query |-> r.query]
           removed == [kind |-> "removed", query |-> r.query]
           new == [on |-> TRUE, sent |-> r.token, since |-> server[r.query], current |-> FALSE]
<1>1. /\ c \in Clients /\ c.call \in Calls /\ c.call.requests \in Seq(Requests)
      /\ c.call.requests # <<>> /\ server \in [Queries -> 0..MaxChanges]
  BY DEF ServerTakes, Sound, Base, Clients, Calls, TypeOK
<1>2. r \in Requests /\ Tail(c.call.requests) \in Seq(Requests)
  BY <1>1
<1>3. /\ r.query \in Queries /\ r.kind \in {"watch", "unwatch"}
      /\ r.kind = "watch" => r.token \in 0..MaxChanges
  BY <1>2 DEF Requests
<1>4. /\ call \in Calls /\ call.answers = c.call.answers /\ call.watched = c.call.watched
      /\ call.news = c.call.news
  BY <1>1, <1>2 DEF Calls
<1>5. added \in Answers /\ refused \in Answers /\ removed \in Answers
  BY <1>3 DEF Answers
<1>6. Unwatched \in Watched
  BY BoundsAssumption DEF Unwatched, Watched
<1>7. call.watched \in [Queries -> Watched] /\ call.news \in BOOLEAN
  BY <1>4 DEF Calls
<1>8. \E d \in Calls : c' = [c EXCEPT !.call = d]
  <2>1. CASE /\ r.kind = "watch"
             /\ c' = [c EXCEPT !.call = [call EXCEPT !.answers = Append(@, added),
                                                     !.watched[r.query] = new, !.news = TRUE]]
    <3>1. new \in Watched
      BY <1>1, <1>3, <2>1 DEF Watched
    <3> DEFINE w == [call.watched EXCEPT ![r.query] = new]
               d == [call EXCEPT !.answers = Append(call.answers, added),
                                 !.watched = w, !.news = TRUE]
    <3>2. w \in [Queries -> Watched]
      BY <1>7, <3>1
    <3> HIDE DEF new, added, call, r, w
    <3>3. d \in Calls
      BY <1>4, <1>5, <3>2, AnswerSent
    <3>4. c' = [c EXCEPT !.call = d]
      BY <2>1 DEF w
    <3>5. QED BY <3>3, <3>4
  <2>2. CASE c' = [c EXCEPT !.call = [call EXCEPT !.answers = Append(@, refused)]]
    <3> DEFINE answers == Append(call.answers, refused)
    <3> HIDE DEF refused, call, r, removed, added, new
    <3>1. answers \in Seq(Answers)
      BY <1>4, <1>5 DEF Calls
    <3>2. c' = [c EXCEPT !.call = [call EXCEPT !.answers = answers]]
      BY <2>2
    <3> HIDE DEF answers
    <3>3. [call EXCEPT !.answers = answers] \in Calls
      BY <1>4, <3>1 DEF Calls
    <3>4. QED BY <3>2, <3>3
  <2>3. CASE c' = [c EXCEPT !.call = [call EXCEPT !.answers = Append(@, removed),
                                                  !.watched[r.query] = Unwatched]]
    <3> DEFINE w == [call.watched EXCEPT ![r.query] = Unwatched]
               d == [call EXCEPT !.answers = Append(call.answers, removed),
                                 !.watched = w, !.news = call.news]
    <3>1. w \in [Queries -> Watched]
      BY <1>6, <1>7
    <3> HIDE DEF removed, call, r
    <3>2. c' = [c EXCEPT !.call = d]
      BY <1>4, <2>3 DEF Calls
    <3> HIDE DEF w
    <3>3. d \in Calls
      BY <1>4, <1>5, <1>7, <3>1, AnswerSent
    <3>4. QED BY <3>2, <3>3
  <2>4. QED BY <2>1, <2>2, <2>3 DEF ServerTakes
<1>9. Sound(c') /\ c' \in Clients
  BY <1>8, CallKeeps
<1>10. QED BY <1>9, FaultTyped DEF ServerTakes, TypeOK

(* What the server sends of its own accord.                                *)
LEMMA ServerSendsStep ==
  ASSUME TypeOK, Sound(c),
         \/ ServerSendsSnapshot
         \/ \E q \in Queries : ServerSendsChange(q) \/ ServerMarksCurrent(q)
  PROVE  TypeOK' /\ Sound(c')
<1>1. /\ c \in Clients /\ c.call \in Calls /\ server \in [Queries -> 0..MaxChanges]
      /\ c.call.watched \in [Queries -> Watched] /\ c.call.answers \in Seq(Answers)
      /\ c.call.news \in BOOLEAN
  BY DEF Sound, Base, Clients, Calls, TypeOK
<1>2. \E d \in Calls : c' = [c EXCEPT !.call = d]
  <2>1. CASE ServerSendsSnapshot
    <3> DEFINE x == [kind |-> "snapshot", tokens |-> [q \in Queries |-> c.call.watched[q].sent]]
    <3>1. x \in Answers
      <4>1. \A q \in Queries : c.call.watched[q].sent \in 0..MaxChanges
        BY <1>1 DEF Watched
      <4>2. QED BY <4>1 DEF Answers
    <3>2. c' = [c EXCEPT !.call.news = FALSE, !.call.answers = Append(@, x)]
      BY <2>1 DEF ServerSendsSnapshot
    <3> HIDE DEF x
    <3> DEFINE d == [c.call EXCEPT !.answers = Append(c.call.answers, x), !.news = FALSE]
    <3>3. d \in Calls
      <4> DEFINE answers == Append(c.call.answers, x)
      <4>1. answers \in Seq(Answers)
        BY <1>1, <3>1
      <4> HIDE DEF answers
      <4>2. [c.call EXCEPT !.answers = answers, !.news = FALSE] \in Calls
        BY <1>1, <4>1 DEF Calls
      <4>3. QED BY <4>2 DEF answers
    <3>4. c' = [c EXCEPT !.call = d]
      BY <1>1, <3>2 DEF Clients, Calls
    <3>5. QED BY <3>3, <3>4
  <2>2. ASSUME NEW q \in Queries, ServerSendsChange(q)
        PROVE  \E d \in Calls : c' = [c EXCEPT !.call = d]
    <3> DEFINE n == c.call.watched[q].sent + 1
               x == [kind |-> "change", query |-> q, change |-> n]
               w == [c.call.watched EXCEPT ![q].sent = n]
               d == [c.call EXCEPT !.answers = Append(c.call.answers, x),
                                   !.watched = w, !.news = TRUE]
    <3>1. n \in Changes
      <4>1. c.call.watched[q].sent \in 0..MaxChanges /\ server[q] \in 0..MaxChanges
        BY <1>1 DEF Watched
      <4>2. c.call.watched[q].sent < server[q]
        BY <2>2 DEF ServerSendsChange
      <4>3. QED BY <4>1, <4>2, BoundsAssumption DEF Changes
    <3>2. x \in Answers
      BY <3>1 DEF Answers
    <3>3. w \in [Queries -> Watched]
      <4>1. n \in 0..MaxChanges
        BY <3>1, BoundsAssumption DEF Changes
      <4> HIDE DEF n
      <4>2. [c.call.watched[q] EXCEPT !.sent = n] \in Watched
        BY <1>1, <4>1 DEF Watched
      <4>3. QED BY <1>1, <4>2
    <3>4. c' = [c EXCEPT !.call.watched[q].sent = n, !.call.news = TRUE,
                         !.call.answers = Append(@, x)]
      BY <2>2 DEF ServerSendsChange
    <3> HIDE DEF n, x
    <3>5. c' = [c EXCEPT !.call = d]
      BY <1>1, <3>4 DEF Clients, Calls
    <3> HIDE DEF w
    <3>6. d \in Calls
      BY <1>1, <3>2, <3>3, AnswerSent
    <3>7. QED BY <3>5, <3>6
  <2>3. ASSUME NEW q \in Queries, ServerMarksCurrent(q)
        PROVE  \E d \in Calls : c' = [c EXCEPT !.call = d]
    <3> DEFINE x == [kind |-> "current", query |-> q]
               w == [c.call.watched EXCEPT ![q].current = TRUE]
               d == [c.call EXCEPT !.answers = Append(c.call.answers, x),
                                   !.watched = w, !.news = TRUE]
    <3>1. x \in Answers
      BY DEF Answers
    <3>2. w \in [Queries -> Watched]
      BY <1>1 DEF Watched
    <3>3. c' = [c EXCEPT !.call.watched[q].current = TRUE, !.call.news = TRUE,
                         !.call.answers = Append(@, x)]
      BY <2>3 DEF ServerMarksCurrent
    <3> HIDE DEF x
    <3>4. c' = [c EXCEPT !.call = d]
      BY <1>1, <3>3 DEF Clients, Calls
    <3> HIDE DEF w
    <3>5. d \in Calls
      BY <1>1, <3>1, <3>2, AnswerSent
    <3>6. QED BY <3>4, <3>5
  <2>4. QED BY <2>1, <2>2, <2>3
<1>3. Sound(c') /\ c' \in Clients
  BY <1>2, CallKeeps
<1>4. QED
  BY <1>3 DEF ServerSendsSnapshot, ServerSendsChange, ServerMarksCurrent, TypeOK

(* The connection breaks, and a change is committed at the server.         *)
LEMMA OutsideStep ==
  ASSUME TypeOK, Sound(c), CallBreaks \/ \E q \in Queries : ServerCommits(q)
  PROVE  TypeOK' /\ Sound(c')
<1>1. CASE CallBreaks
  <2>1. c.call.answers \in Seq(Answers) /\ NoCall \in Calls
    BY Fresh DEF Sound, Base, Clients, Calls
  <2>2. PICK n \in 0..Len(c.call.answers) :
          c' = [c EXCEPT !.call = [NoCall EXCEPT !.answers = SubSeq(c.call.answers, 1, n),
                                                 !.broken = TRUE]]
    BY <1>1 DEF CallBreaks
  <2>3. SubSeq(c.call.answers, 1, n) \in Seq(Answers)
    BY <2>1
  <2>4. [NoCall EXCEPT !.answers = SubSeq(c.call.answers, 1, n), !.broken = TRUE] \in Calls
    BY <2>1, <2>3 DEF Calls
  <2>5. Sound(c') /\ c' \in Clients
    BY <2>2, <2>4, CallKeeps
  <2>6. QED BY <1>1, <2>5, FaultTyped DEF CallBreaks, TypeOK
<1>2. ASSUME NEW q \in Queries, ServerCommits(q) PROVE TypeOK' /\ Sound(c')
  BY <1>2, BoundsAssumption DEF ServerCommits, TypeOK
<1>3. QED BY <1>1, <1>2

-----------------------------------------------------------------------------
LEMMA NextSound == ClientIsSound /\ [Next]_vars => ClientIsSound'
<1> SUFFICES ASSUME ClientIsSound, [Next]_vars PROVE ClientIsSound'
  OBVIOUS
<1>1. TypeOK /\ Sound(c)
  BY SoundParts DEF ClientIsSound
<1>2. TypeOK' /\ Sound(c')
  <2>1. CASE UNCHANGED vars
    BY <1>1, <2>1 DEF vars, TypeOK
  <2>2. CASE NoCredentials \/ LateCredentials \/ BackoffElapses \/ IdleTimeout
             \/ OnlineStateTimeout \/ StreamEnds
    BY <1>1, <2>2, CallbackSteps
  <2>3. CASE TurnNetworkOff \/ TurnNetworkOn \/ NetworkRestarts \/ ProcessRestart
    BY <1>1, <2>3, NetworkSteps
  <2>4. CASE Connect
    BY <1>1, <2>4, ConnectStep
  <2>5. CASE \E l \in Listeners : RemoveQueryListener(l) \/ \E q \in Queries : AddQueryListener(l, q)
    BY <1>1, <2>5, AddStep, RemoveStep
  <2>6. CASE OnWatchStreamChange
    BY <1>1, <2>6, AnswerStep
  <2>7. CASE ServerSteps
    BY <1>1, <2>7, ServerTakesStep, ServerSendsStep DEF ServerSteps
  <2>8. CASE CallBreaks \/ \E q \in Queries : ServerCommits(q)
    BY <1>1, <2>8, OutsideStep
  <2>9. QED BY <2>1, <2>2, <2>3, <2>4, <2>5, <2>6, <2>7, <2>8 DEF Next
<1>3. QED
  BY <1>2 DEF ClientIsSound, OnlineIsSound, TimerHasStream, CallbacksAreCurrent, IdleOnlyWithoutTargets,
     NeededStreamRuns, AllAgreeOnQueries, OfflineIsShown, Sound, Base, OfflineShown,
     TimersFit, OwnTimer, Running, Agreed, Heard

(* However callbacks, timers, answers, faults and the app's own calls      *)
(* interleave, they find the listeners, the views, the targets, the stream *)
(* and the online state as the code assumes.                               *)
THEOREM Soundness == Spec => []ClientIsSound
BY InitSound, NextSound, PTL DEF Spec

(* A query has a view exactly while a listener asks for it and the watch   *)
(* stream has its target.                                                  *)
THEOREM Agreement == Spec => []AllAgreeOnQueries
<1>1. ClientIsSound => AllAgreeOnQueries
  BY DEF ClientIsSound
<1>2. QED BY <1>1, Soundness, PTL

(* Offline, nothing passes for synced and no listener is left without its  *)
(* first event.                                                            *)
THEOREM Offline == Spec => []OfflineIsShown
<1>1. ClientIsSound => OfflineIsShown
  BY DEF ClientIsSound
<1>2. QED BY <1>1, Soundness, PTL
-----------------------------------------------------------------------------
(* What is on its way, as far as it is about one query.  Places(s, X) is   *)
(* where members of X stand in the sequence s.                             *)
Places(s, X) == {i \in DOMAIN s : s[i] \in X}

Askers(q) == {r \in Requests : r.query = q}
Closers(q) == {a \in Answers : a.kind \in Closing /\ a.query = q}

Asked(d, q) == Places(d.requests, Askers(q))
Closings(d, q) == Places(d.answers, Closers(q))

Latest(S, i) == i \in S /\ \A j \in S : j <= i

(* One end of a sequence at a time: how many places there are after an     *)
(* Append, a Tail or a cut, and which.                                     *)
LEMMA PlacesFinite ==
  ASSUME NEW S, NEW s \in Seq(S), NEW X
  PROVE  /\ IsFiniteSet(Places(s, X)) /\ Cardinality(Places(s, X)) \in Nat
         /\ Cardinality(Places(s, X)) = 0 <=> Places(s, X) = {}
         /\ Places(s, X) \subseteq 1..Len(s) /\ Len(s) \in Nat
<1>1. Len(s) \in Nat /\ DOMAIN s = 1..Len(s)
  BY LenProperties
<1>2. Places(s, X) \subseteq 1..Len(s)
  BY <1>1 DEF Places
<1>3. IsFiniteSet(Places(s, X))
  <2>1. IsFiniteSet(1..Len(s))
    BY <1>1, FS_Interval
  <2>2. QED BY <1>2, <2>1, FS_Subset
<1>4. QED BY <1>1, <1>2, <1>3, FS_CardinalityType, FS_EmptySet

LEMMA PlacesAppend ==
  ASSUME NEW S, NEW s \in Seq(S), NEW e \in S, NEW X
  PROVE  /\ e \in X => /\ Places(Append(s, e), X) = Places(s, X) \cup {Len(s) + 1}
                       /\ Cardinality(Places(Append(s, e), X)) = Cardinality(Places(s, X)) + 1
         /\ e \notin X => Places(Append(s, e), X) = Places(s, X)
<1>1. /\ Len(s) \in Nat /\ DOMAIN s = 1..Len(s)
      /\ Len(Append(s, e)) = Len(s) + 1 /\ DOMAIN Append(s, e) = 1..(Len(s) + 1)
      /\ \A i \in 1..Len(s) : Append(s, e)[i] = s[i]
      /\ Append(s, e)[Len(s) + 1] = e
  BY LenProperties, AppendProperties
<1>2. CASE e \in X
  <2>1. Places(Append(s, e), X) = Places(s, X) \cup {Len(s) + 1} /\ Len(s) + 1 \notin Places(s, X)
    BY <1>1, <1>2 DEF Places
  <2>2. QED BY <1>2, <2>1, PlacesFinite, FS_AddElement
<1>3. CASE e \notin X
  BY <1>1, <1>3 DEF Places
<1>4. QED BY <1>2, <1>3

LEMMA PlacesTail ==
  ASSUME NEW S, NEW s \in Seq(S), s # <<>>, NEW X
  PROVE  /\ Tail(s) \in Seq(S) /\ Head(s) \in S /\ Head(s) = s[1]
         /\ Len(s) \in Nat \ {0} /\ Len(Tail(s)) = Len(s) - 1
         /\ \A i \in 1..(Len(s) - 1) : Tail(s)[i] = s[i + 1]
         /\ \A i \in 1..(Len(s) - 1) : i \in Places(Tail(s), X) <=> i + 1 \in Places(s, X)
         /\ 1 \in Places(s, X) <=> Head(s) \in X
         /\ Cardinality(Places(Tail(s), X)) =
              Cardinality(Places(s, X)) - (IF Head(s) \in X THEN 1 ELSE 0)
<1>1. /\ Tail(s) \in Seq(S) /\ Head(s) \in S /\ Head(s) = s[1]
      /\ Len(s) \in Nat \ {0} /\ DOMAIN s = 1..Len(s)
      /\ Len(Tail(s)) = Len(s) - 1 /\ DOMAIN Tail(s) = 1..(Len(s) - 1)
      /\ \A i \in 1..(Len(s) - 1) : Tail(s)[i] = s[i + 1]
  BY LenProperties, HeadTailProperties, EmptySeq
<1>2. \A i \in 1..(Len(s) - 1) : i \in Places(Tail(s), X) <=> i + 1 \in Places(s, X)
  BY <1>1 DEF Places
<1>3. 1 \in Places(s, X) <=> Head(s) \in X
  BY <1>1 DEF Places
<1>4. Cardinality(Places(Tail(s), X)) = Cardinality(Places(s, X) \ {1})
  <2> DEFINE f == [i \in Places(Tail(s), X) |-> i + 1]
  <2>1. Places(Tail(s), X) \subseteq 1..(Len(s) - 1) /\ Places(s, X) \subseteq 1..Len(s)
    BY <1>1, PlacesFinite
  <2>2. f \in Bijection(Places(Tail(s), X), Places(s, X) \ {1})
    <3>1. \A i \in Places(Tail(s), X) : i + 1 \in Places(s, X) \ {1}
      BY <1>2, <2>1
    <3>2. \A j \in Places(s, X) \ {1} : j - 1 \in Places(Tail(s), X) /\ j = (j - 1) + 1
      <4>1. SUFFICES ASSUME NEW j \in Places(s, X) \ {1}
                     PROVE  j - 1 \in Places(Tail(s), X) /\ j = (j - 1) + 1
        OBVIOUS
      <4>2. j - 1 \in 1..(Len(s) - 1) /\ j = (j - 1) + 1
        BY <1>1, <2>1
      <4>3. QED BY <1>2, <4>2
    <3>3. \A i, j \in Places(Tail(s), X) : i + 1 = j + 1 => i = j
      BY <2>1
    <3>4. QED BY <3>1, <3>2, <3>3 DEF Bijection, Injection, Surjection, IsInjective
  <2>3. ExistsBijection(Places(Tail(s), X), Places(s, X) \ {1})
    BY <2>2 DEF ExistsBijection
  <2>4. IsFiniteSet(Places(Tail(s), X))
    BY <1>1, PlacesFinite
  <2>5. QED BY <2>3, <2>4, FS_Bijection
<1>5. IsFiniteSet(Places(s, X)) /\ Cardinality(Places(s, X)) \in Nat
  BY PlacesFinite
<1>6. Cardinality(Places(s, X) \ {1}) =
        Cardinality(Places(s, X)) - (IF Head(s) \in X THEN 1 ELSE 0)
  <2>1. Cardinality(Places(s, X) \ {1}) =
          IF 1 \in Places(s, X) THEN Cardinality(Places(s, X)) - 1 ELSE Cardinality(Places(s, X))
    BY <1>5, FS_RemoveElement
  <2>2. CASE Head(s) \in X
    BY <1>3, <2>1, <2>2
  <2>3. CASE Head(s) \notin X
    BY <1>3, <1>5, <2>1, <2>3
  <2>4. QED BY <2>2, <2>3
<1>7. QED BY <1>1, <1>2, <1>3, <1>4, <1>6

LEMMA PlacesCut ==
  ASSUME NEW S, NEW s \in Seq(S), NEW m \in 0..Len(s), NEW X
  PROVE  /\ SubSeq(s, 1, m) \in Seq(S) /\ Len(SubSeq(s, 1, m)) = m
         /\ \A i \in 1..m : i \in DOMAIN s /\ SubSeq(s, 1, m)[i] = s[i]
         /\ Places(SubSeq(s, 1, m), X) = Places(s, X) \cap 1..m
         /\ Cardinality(Places(SubSeq(s, 1, m), X)) <= Cardinality(Places(s, X))
         /\ Cardinality(Places(SubSeq(s, 1, m), X)) = Cardinality(Places(s, X))
              => Places(SubSeq(s, 1, m), X) = Places(s, X)
<1>1. Len(s) \in Nat /\ DOMAIN s = 1..Len(s) /\ \A i \in 1..Len(s) : s[i] \in S
  BY LenProperties, ElementOfSeq
<1>2. \A i \in 1..m : s[i] \in S
  BY <1>1
<1>3. /\ SubSeq(s, 1, m) \in Seq(S) /\ Len(SubSeq(s, 1, m)) = m
      /\ \A i \in 1..m : SubSeq(s, 1, m)[i] = s[i]
  BY <1>1, <1>2, SubSeqProperties
<1>4. DOMAIN SubSeq(s, 1, m) = 1..m
  BY <1>3, LenProperties
<1>5. Places(SubSeq(s, 1, m), X) = Places(s, X) \cap 1..m
  BY <1>1, <1>3, <1>4 DEF Places
<1>6. Places(SubSeq(s, 1, m), X) \subseteq Places(s, X) /\ IsFiniteSet(Places(s, X))
  BY <1>5, PlacesFinite
<1>7. QED BY <1>1, <1>3, <1>5, <1>6, FS_Subset

(* What the server watches of a query for a call.  Once a target is        *)
(* current, all that was there when it was added has been sent.            *)
Steady == {w \in Watched : w.current => w.sent >= w.since}

(* The answer a takes what the client knows of the server's watch of q     *)
(* from w to v.  A target is added where the client's token says, and is   *)
(* not refused.                                                            *)
Follows(a, q, token, w, v) ==
  IF a.kind = "snapshot"
    THEN v = w /\ a.tokens[q] = w.sent
    ELSE IF a.query # q
           THEN v = w
           ELSE /\ a.kind # "refused"
                /\ a.kind = "added" => v.on /\ v.sent = token /\ ~v.current
                /\ a.kind = "removed" => ~v.on
                /\ a.kind = "change" => a.change = w.sent + 1
                                        /\ v = [w EXCEPT !.sent = w.sent + 1]
                /\ a.kind = "current" => v = [w EXCEPT !.current = TRUE]

(* g is what the client will know after each of the answers on their way.  *)
History(g, q, answers, token) ==
  /\ g \in [0..Len(answers) -> Steady]
  /\ \A i \in 1..Len(answers) : Follows(answers[i], q, token, g[i - 1], g[i])

Settled(q, d, t) == t.due = Cardinality(Closings(d, q))

(* What the call d of an open stream and the aggregator's state t of the   *)
(* target q have to do with each other, for the targets T, a view made     *)
(* when since changes had been committed, and a token on disk:             *)
(*   - the answers due are those to the requests and those on their way;   *)
(*   - the last request, or else the last of these answers, says whether   *)
(*     the target is wanted;                                               *)
(*   - the answers continue what the client has, up to what the server     *)
(*     has sent; a target with no answer due hears from where its disk and *)
(*     what it gathered end.                                               *)
Counted(q, d, t) ==
  IF d.broken THEN d.requests = <<>> /\ t.due >= Cardinality(Closings(d, q))
  ELSE t.due = Cardinality(Asked(d, q)) + Cardinality(Closings(d, q))

LastWord(q, d, t, T, token) ==
  /\ \A i \in Asked(d, q) :
       /\ d.requests[i].kind = "watch" => d.requests[i].token = token
       /\ Latest(Asked(d, q), i) => (d.requests[i].kind = "watch" <=> q \in T)
  /\ Settled(q, d, t) =>
       \A i \in Closings(d, q) :
         Latest(Closings(d, q), i) => (d.answers[i].kind = "added" <=> q \in T)

Hears(g, q, d, t, T, since, token) ==
  /\ ~d.broken => g[Len(d.answers)] = d.watched[q]
  /\ q \in T /\ Settled(q, d, t) =>
       \A i \in Closings(d, q) : Latest(Closings(d, q), i) => g[i].since >= since
  /\ q \in T /\ t.due = 0 =>
       g[0].on /\ g[0].since >= since /\ g[0].sent = token + Cardinality(t.changes)

Line(q, d, t, T, since, token) ==
  /\ Counted(q, d, t)
  /\ LastWord(q, d, t, T, token)
  /\ \E g : History(g, q, d.answers, token) /\ Hears(g, q, d, t, T, since, token)

LEMMA CallTypes ==
  ASSUME NEW d \in Calls, NEW q \in Queries
  PROVE  /\ d.requests \in Seq(Requests) /\ d.answers \in Seq(Answers)
         /\ d.watched[q] \in Watched /\ d.broken \in BOOLEAN
         /\ Len(d.answers) \in Nat /\ DOMAIN d.answers = 1..Len(d.answers)
         /\ Len(d.requests) \in Nat /\ DOMAIN d.requests = 1..Len(d.requests)
         /\ Cardinality(Asked(d, q)) \in Nat /\ Cardinality(Closings(d, q)) \in Nat
         /\ Asked(d, q) \subseteq 1..Len(d.requests)
         /\ Closings(d, q) \subseteq 1..Len(d.answers)
         /\ Cardinality(Asked(d, q)) = 0 <=> Asked(d, q) = {}
         /\ Cardinality(Closings(d, q)) = 0 <=> Closings(d, q) = {}
<1>1. /\ d.requests \in Seq(Requests) /\ d.answers \in Seq(Answers)
      /\ d.watched[q] \in Watched /\ d.broken \in BOOLEAN
  BY DEF Calls
<1>2. QED BY <1>1, LenProperties, PlacesFinite DEF Asked, Closings

(* One more answer, and one less.                                          *)
LEMMA HistoryAppend ==
  ASSUME NEW q \in Queries, NEW s \in Seq(Answers), NEW a \in Answers, NEW token, NEW g,
         History(g, q, s, token), NEW v \in Steady, Follows(a, q, token, g[Len(s)], v)
  PROVE  \E h : /\ History(h, q, Append(s, a), token)
                /\ h[Len(s) + 1] = v /\ \A i \in 0..Len(s) : h[i] = g[i]
<1> DEFINE h == [i \in 0..(Len(s) + 1) |-> IF i = Len(s) + 1 THEN v ELSE g[i]]
<1>1. /\ Len(s) \in Nat /\ Len(Append(s, a)) = Len(s) + 1
      /\ \A i \in 1..Len(s) : Append(s, a)[i] = s[i]
      /\ Append(s, a)[Len(s) + 1] = a
  BY LenProperties, AppendProperties
<1>2. g \in [0..Len(s) -> Steady] /\ \A i \in 1..Len(s) : Follows(s[i], q, token, g[i - 1], g[i])
  BY DEF History
<1>3. h \in [0..(Len(s) + 1) -> Steady] /\ h[Len(s) + 1] = v /\ \A i \in 0..Len(s) : h[i] = g[i]
  BY <1>1, <1>2
<1> HIDE DEF h
<1>4. ASSUME NEW i \in 1..(Len(s) + 1)
      PROVE  Follows(Append(s, a)[i], q, token, h[i - 1], h[i])
  <2>1. CASE i \in 1..Len(s)
    <3>1. i - 1 \in 0..Len(s) /\ i \in 0..Len(s)
      BY <1>1, <2>1
    <3>2. QED BY <1>1, <1>2, <1>3, <2>1, <3>1
  <2>2. CASE i = Len(s) + 1
    <3>1. i - 1 = Len(s) /\ Len(s) \in 0..Len(s)
      BY <1>1, <2>2
    <3>2. h[i - 1] = g[Len(s)]
      BY <1>3, <3>1
    <3>3. QED BY <1>1, <1>3, <2>2, <3>2
  <2>3. QED BY <1>1, <2>1, <2>2
<1>5. History(h, q, Append(s, a), token)
  BY <1>1, <1>3, <1>4 DEF History
<1>6. QED BY <1>3, <1>5

LEMMA HistoryTail ==
  ASSUME NEW q \in Queries, NEW s \in Seq(Answers), s # <<>>, NEW token, NEW g,
         History(g, q, s, token)
  PROVE  /\ Follows(Head(s), q, token, g[0], g[1])
         /\ g[0] \in Steady /\ g[1] \in Steady
         /\ \E h : /\ History(h, q, Tail(s), token)
                  /\ h[Len(s) - 1] = g[Len(s)] /\ h[0] = g[1]
                  /\ \A i \in 0..(Len(s) - 1) : h[i] = g[i + 1]
<1> DEFINE h == [i \in 0..(Len(s) - 1) |-> g[i + 1]]
<1>1. /\ Len(s) \in Nat \ {0} /\ Len(Tail(s)) = Len(s) - 1 /\ Head(s) = s[1]
      /\ \A i \in 1..(Len(s) - 1) : Tail(s)[i] = s[i + 1]
  BY PlacesTail
<1>2. g \in [0..Len(s) -> Steady] /\ \A i \in 1..Len(s) : Follows(s[i], q, token, g[i - 1], g[i])
  BY DEF History
<1>3. h \in [0..(Len(s) - 1) -> Steady] /\ \A i \in 0..(Len(s) - 1) : h[i] = g[i + 1]
  BY <1>1, <1>2
<1> HIDE DEF h
<1>4. ASSUME NEW i \in 1..(Len(s) - 1)
      PROVE  Follows(Tail(s)[i], q, token, h[i - 1], h[i])
  <2>1. i + 1 \in 1..Len(s) /\ (i + 1) - 1 = i /\ i - 1 \in 0..(Len(s) - 1)
        /\ i \in 0..(Len(s) - 1) /\ (i - 1) + 1 = i
    BY <1>1
  <2>2. h[i - 1] = g[i] /\ h[i] = g[i + 1]
    BY <1>3, <2>1
  <2>3. Follows(s[i + 1], q, token, g[(i + 1) - 1], g[i + 1])
    BY <1>2, <2>1
  <2>4. QED BY <1>1, <2>1, <2>2, <2>3
<1>5. History(h, q, Tail(s), token)
  BY <1>1, <1>3, <1>4 DEF History
<1>6. Follows(Head(s), q, token, g[0], g[1])
  <2>1. 1 \in 1..Len(s) /\ 1 - 1 = 0
    BY <1>1
  <2>2. Follows(s[1], q, token, g[1 - 1], g[1])
    BY <1>2, <2>1
  <2>3. QED BY <1>1, <2>1, <2>2
<1>7. h[Len(s) - 1] = g[Len(s)] /\ h[0] = g[1]
  BY <1>1, <1>3
<1>8. g[0] \in Steady /\ g[1] \in Steady
  BY <1>1, <1>2
<1>9. QED BY <1>3, <1>5, <1>6, <1>7, <1>8

(* Where no answer is due, the token can be another one.                   *)
LEMMA HistoryRetoken ==
  ASSUME NEW q \in Queries, NEW s \in Seq(Answers), NEW token, NEW other, NEW g,
         History(g, q, s, token), Places(s, Closers(q)) = {}
  PROVE  History(g, q, s, other)
<1>1. Len(s) \in Nat /\ DOMAIN s = 1..Len(s) /\ \A i \in 1..Len(s) : s[i] \in Answers
  BY LenProperties, ElementOfSeq
<1>2. ASSUME NEW i \in 1..Len(s)
      PROVE  Follows(s[i], q, other, g[i - 1], g[i])
  <2>1. s[i] \notin Closers(q)
    BY <1>1 DEF Places
  <2>2. ~(s[i].kind = "added" /\ s[i].query = q)
    BY <1>1, <2>1 DEF Closers, Closing
  <2>3. Follows(s[i], q, token, g[i - 1], g[i])
    BY DEF History
  <2>4. QED BY <2>2, <2>3 DEF Follows
<1>3. QED BY <1>2 DEF History

(* Requests: one more about the query, one more about another, and the     *)
(* first one about another taken by the server.                            *)
LEMMA LineSent ==
  ASSUME NEW q \in Queries, NEW d \in Calls, NEW e \in Calls, NEW t \in Targets, NEW u \in Targets,
         NEW T, NEW V, NEW since, NEW newer, NEW token, Line(q, d, t, T, since, token),
         NEW r \in Requests, r.query = q, r.kind = "watch" => r.token = token,
         r.kind = "watch" <=> q \in V,
         e.answers = d.answers, e.watched = d.watched, e.broken = d.broken,
         e.requests = IF d.broken THEN d.requests ELSE Append(d.requests, r),
         u.due = t.due + 1
  PROVE  Line(q, e, u, V, newer, token)
<1>1. /\ Cardinality(Asked(d, q)) \in Nat /\ Cardinality(Closings(d, q)) \in Nat
      /\ d.requests \in Seq(Requests) /\ Len(d.requests) \in Nat /\ t.due \in Int
      /\ DOMAIN d.requests = 1..Len(d.requests) /\ Asked(d, q) \subseteq 1..Len(d.requests)
      /\ r \in Askers(q) /\ Closings(e, q) = Closings(d, q)
      /\ d.broken \in BOOLEAN /\ d.answers \in Seq(Answers)
  BY CallTypes DEF Closings, Targets, Askers
<1>2. Counted(q, d, t) /\ LastWord(q, d, t, T, token)
  BY DEF Line
<1>3. ~d.broken => /\ Asked(e, q) = Asked(d, q) \cup {Len(d.requests) + 1}
                   /\ Cardinality(Asked(e, q)) = Cardinality(Asked(d, q)) + 1
                   /\ \A i \in 1..Len(d.requests) : e.requests[i] = d.requests[i]
                   /\ e.requests[Len(d.requests) + 1] = r
  <2> SUFFICES ASSUME ~d.broken
               PROVE  /\ Asked(e, q) = Asked(d, q) \cup {Len(d.requests) + 1}
                      /\ Cardinality(Asked(e, q)) = Cardinality(Asked(d, q)) + 1
                      /\ \A i \in 1..Len(d.requests) : e.requests[i] = d.requests[i]
                      /\ e.requests[Len(d.requests) + 1] = r
    OBVIOUS
  <2>1. e.requests = Append(d.requests, r)
    OBVIOUS
  <2>2. /\ \A i \in 1..Len(d.requests) : e.requests[i] = d.requests[i]
        /\ e.requests[Len(d.requests) + 1] = r
    BY <1>1, <2>1, AppendProperties
  <2> DEFINE s == d.requests
             X == Askers(q)
  <2>3. s \in Seq(Requests) /\ r \in X
    BY <1>1
  <2> HIDE DEF s, X
  <2>4. /\ Places(Append(s, r), X) = Places(s, X) \cup {Len(s) + 1}
        /\ Cardinality(Places(Append(s, r), X)) = Cardinality(Places(s, X)) + 1
    BY <2>3, PlacesAppend
  <2>5. QED BY <2>1, <2>2, <2>4 DEF s, X, Asked
<1>4. d.broken => Asked(e, q) = {} /\ t.due >= Cardinality(Closings(d, q)) /\ e.requests = <<>>
  <2>1. DOMAIN <<>> = {}
    OBVIOUS
  <2>2. QED BY <1>2, <2>1 DEF Counted, Asked, Places
<1>5. Counted(q, e, u)
  BY <1>1, <1>2, <1>3, <1>4 DEF Counted
<1>6. u.due > Cardinality(Closings(e, q)) /\ u.due # 0
  BY <1>1, <1>2, <1>4 DEF Counted
<1>7. LastWord(q, e, u, V, token)
  <2>1. ~Settled(q, e, u)
    BY <1>1, <1>6 DEF Settled
  <2>2. CASE d.broken
    BY <1>4, <2>1, <2>2 DEF LastWord
  <2>3. CASE ~d.broken
    <3>1. ASSUME NEW i \in Asked(e, q)
          PROVE  e.requests[i].kind = "watch" => e.requests[i].token = token
      BY <1>1, <1>2, <1>3, <2>3, <3>1 DEF LastWord
    <3>2. ASSUME NEW i \in Asked(e, q), Latest(Asked(e, q), i)
          PROVE  e.requests[i].kind = "watch" <=> q \in V
      <4>1. i = Len(d.requests) + 1
        BY <1>1, <1>3, <2>3, <3>2 DEF Latest
      <4>2. QED BY <1>3, <2>3, <4>1
    <3>3. QED BY <2>1, <3>1, <3>2 DEF LastWord
  <2>4. QED BY <2>2, <2>3
<1>8. PICK g : History(g, q, d.answers, token) /\ Hears(g, q, d, t, T, since, token)
  BY DEF Line
<1>9. Hears(g, q, e, u, V, newer, token)
  BY <1>1, <1>6, <1>8 DEF Hears, Settled
<1>10. QED BY <1>5, <1>7, <1>8, <1>9 DEF Line

LEMMA LineSame ==
  ASSUME NEW q \in Queries, NEW d \in Calls, NEW e \in Calls, NEW t \in Targets, NEW u \in Targets,
         NEW T, NEW V, NEW since, NEW token, Line(q, d, t, T, since, token),
         q \in V <=> q \in T, u.due = t.due, u.changes = t.changes,
         e.answers = d.answers, e.watched[q] = d.watched[q], e.broken = d.broken,
         Asked(e, q) = Asked(d, q), \A i \in Asked(d, q) : e.requests[i] = d.requests[i],
         d.broken => e.requests = d.requests
  PROVE  Line(q, e, u, V, since, token)
<1>1. Closings(e, q) = Closings(d, q)
  BY DEF Closings
<1>2. Counted(q, e, u)
  BY <1>1 DEF Line, Counted
<1>3. LastWord(q, e, u, V, token)
  BY <1>1 DEF Line, LastWord, Settled, Latest
<1>4. PICK g : History(g, q, d.answers, token) /\ Hears(g, q, d, t, T, since, token)
  BY DEF Line
<1>5. Hears(g, q, e, u, V, since, token)
  BY <1>1, <1>4 DEF Hears, Settled
<1>6. QED BY <1>2, <1>3, <1>4, <1>5 DEF Line

LEMMA LineSentElsewhere ==
  ASSUME NEW q \in Queries, NEW d \in Calls, NEW e \in Calls, NEW t \in Targets, NEW u \in Targets,
         NEW T, NEW V, NEW since, NEW token, Line(q, d, t, T, since, token),
         NEW r \in Requests, r.query # q, q \in V <=> q \in T,
         u.due = t.due, u.changes = t.changes,
         e.answers = d.answers, e.watched = d.watched, e.broken = d.broken,
         e.requests = IF d.broken THEN d.requests ELSE Append(d.requests, r)
  PROVE  Line(q, e, u, V, since, token)
<1>1. d.requests \in Seq(Requests) /\ r \notin Askers(q) /\ d.broken \in BOOLEAN
      /\ Asked(d, q) \subseteq 1..Len(d.requests)
  BY CallTypes DEF Askers
<1>2. Asked(e, q) = Asked(d, q) /\ \A i \in Asked(d, q) : e.requests[i] = d.requests[i]
  BY <1>1, PlacesAppend, AppendProperties DEF Asked
<1>3. QED BY <1>2, LineSame

LEMMA LineTakenElsewhere ==
  ASSUME NEW q \in Queries, NEW d \in Calls, NEW e \in Calls, NEW t \in Targets,
         NEW T, NEW since, NEW token, Line(q, d, t, T, since, token),
         d.requests # <<>>, Head(d.requests).query # q,
         e.answers = d.answers, e.watched = d.watched, e.broken = d.broken,
         e.requests = Tail(d.requests)
  PROVE  Line(q, e, t, T, since, token)
<1>1. /\ d.requests \in Seq(Requests) /\ Closings(e, q) = Closings(d, q)
      /\ Asked(d, q) \subseteq 1..Len(d.requests) /\ Len(d.requests) \in Nat \ {0}
      /\ Cardinality(Asked(d, q)) \in Nat /\ d.broken \in BOOLEAN
  BY CallTypes, PlacesTail DEF Closings
<1>2. Head(d.requests) \notin Askers(q)
  BY DEF Askers
<1>3. /\ \A i \in 1..(Len(d.requests) - 1) : e.requests[i] = d.requests[i + 1]
      /\ \A i \in 1..(Len(d.requests) - 1) : i \in Asked(e, q) <=> i + 1 \in Asked(d, q)
      /\ 1 \notin Asked(d, q)
      /\ Cardinality(Asked(e, q)) = Cardinality(Asked(d, q)) - 0
      /\ Asked(e, q) \subseteq 1..(Len(d.requests) - 1)
  <2>1. /\ e.requests \in Seq(Requests) /\ Len(e.requests) = Len(d.requests) - 1
        /\ \A i \in 1..(Len(d.requests) - 1) : e.requests[i] = d.requests[i + 1]
        /\ \A i \in 1..(Len(d.requests) - 1) : i \in Asked(e, q) <=> i + 1 \in Asked(d, q)
        /\ 1 \notin Asked(d, q)
        /\ Cardinality(Asked(e, q)) =
             Cardinality(Asked(d, q)) - (IF Head(d.requests) \in Askers(q) THEN 1 ELSE 0)
    BY <1>1, <1>2, PlacesTail DEF Asked
  <2>2. Asked(e, q) \subseteq 1..Len(e.requests)
    BY CallTypes
  <2>3. QED BY <1>2, <2>1, <2>2
<1>4. Counted(q, e, t)
  BY <1>1, <1>3 DEF Line, Counted
<1>5. LastWord(q, e, t, T, token)
  <2>1. ASSUME NEW i \in Asked(e, q)
        PROVE  /\ i + 1 \in Asked(d, q) /\ e.requests[i] = d.requests[i + 1]
               /\ Latest(Asked(e, q), i) => Latest(Asked(d, q), i + 1)
    <3>1. i + 1 \in Asked(d, q) /\ e.requests[i] = d.requests[i + 1] /\ i \in Nat
      BY <1>1, <1>3
    <3>2. ASSUME Latest(Asked(e, q), i), NEW j \in Asked(d, q)
          PROVE  j <= i + 1
      <4>1. j \in 1..Len(d.requests) /\ j # 1
        BY <1>1, <1>3
      <4>2. j - 1 \in 1..(Len(d.requests) - 1) /\ (j - 1) + 1 = j
        BY <1>1, <4>1
      <4>3. j - 1 \in Asked(e, q)
        BY <1>3, <4>2
      <4>4. j - 1 <= i
        BY <3>2, <4>3 DEF Latest
      <4>5. QED BY <3>1, <4>1, <4>4
    <3>3. QED BY <3>1, <3>2 DEF Latest
  <2>2. LastWord(q, d, t, T, token)
    BY DEF Line
  <2>3. ASSUME NEW i \in Asked(e, q)
        PROVE  /\ e.requests[i].kind = "watch" => e.requests[i].token = token
               /\ Latest(Asked(e, q), i) => (e.requests[i].kind = "watch" <=> q \in T)
    <3> DEFINE m == i + 1
    <3>1. /\ m \in Asked(d, q) /\ e.requests[i] = d.requests[m]
          /\ Latest(Asked(e, q), i) => Latest(Asked(d, q), m)
      BY <2>1
    <3> HIDE DEF m
    <3>2. QED BY <2>2, <3>1 DEF LastWord
  <2>4. /\ Settled(q, e, t) <=> Settled(q, d, t)
        /\ Closings(e, q) = Closings(d, q) /\ e.answers = d.answers
    BY <1>1 DEF Settled
  <2>5. QED BY <2>2, <2>3, <2>4 DEF LastWord
<1>6. PICK g : History(g, q, d.answers, token) /\ Hears(g, q, d, t, T, since, token)
  BY DEF Line
<1>7. Hears(g, q, e, t, T, since, token)
  BY <1>1, <1>6 DEF Hears, Settled
<1>8. QED BY <1>4, <1>5, <1>6, <1>7 DEF Line

(* A request about the query is taken and answered: the target is added    *)
(* where the token says, or removed.                                       *)
LEMMA LineTaken ==
  ASSUME NEW q \in Queries, NEW d \in Calls, NEW e \in Calls, NEW t \in Targets,
         NEW T, NEW since, NEW token, Line(q, d, t, T, since, token), ~d.broken,
         d.requests # <<>>, Head(d.requests).query = q,
         NEW a \in Answers, a.query = q,
         a.kind = IF Head(d.requests).kind = "watch" THEN "added" ELSE "removed",
         e.requests = Tail(d.requests), e.answers = Append(d.answers, a), ~e.broken,
         e.watched[q] \in Steady,
         Head(d.requests).kind = "watch" =>
           /\ e.watched[q].on /\ e.watched[q].sent = Head(d.requests).token
           /\ ~e.watched[q].current /\ e.watched[q].since >= since,
         Head(d.requests).kind # "watch" => ~e.watched[q].on
  PROVE  Line(q, e, t, T, since, token)
<1> DEFINE r == Head(d.requests)
           n == Len(d.answers) + 1
<1>1. /\ d.requests \in Seq(Requests) /\ d.answers \in Seq(Answers)
      /\ Len(d.answers) \in Nat /\ Len(d.requests) \in Nat \ {0}
      /\ Cardinality(Asked(d, q)) \in Nat /\ Cardinality(Closings(d, q)) \in Nat
      /\ Asked(d, q) \subseteq 1..Len(d.requests)
      /\ Closings(d, q) \subseteq 1..Len(d.answers)
      /\ DOMAIN d.answers = 1..Len(d.answers)
  BY CallTypes, PlacesTail
<1>2. r \in Askers(q) /\ a \in Closers(q) /\ r = d.requests[1]
  <2>1. r \in Requests /\ r = d.requests[1]
    BY <1>1, PlacesTail
  <2>2. QED BY <2>1 DEF Askers, Closers, Closing
<1>3. /\ \A i \in 1..(Len(d.requests) - 1) : e.requests[i] = d.requests[i + 1]
      /\ \A i \in 1..(Len(d.requests) - 1) : i \in Asked(e, q) <=> i + 1 \in Asked(d, q)
      /\ 1 \in Asked(d, q)
      /\ Cardinality(Asked(e, q)) = Cardinality(Asked(d, q)) - 1
      /\ Asked(e, q) \subseteq 1..(Len(d.requests) - 1)
      /\ Cardinality(Asked(e, q)) = 0 <=> Asked(e, q) = {}
      /\ Cardinality(Asked(e, q)) \in Nat
  <2>1. /\ e.requests \in Seq(Requests) /\ Len(e.requests) = Len(d.requests) - 1
        /\ \A i \in 1..(Len(d.requests) - 1) : e.requests[i] = d.requests[i + 1]
        /\ \A i \in 1..(Len(d.requests) - 1) : i \in Asked(e, q) <=> i + 1 \in Asked(d, q)
        /\ 1 \in Asked(d, q)
        /\ Cardinality(Asked(e, q)) =
             Cardinality(Asked(d, q)) - (IF Head(d.requests) \in Askers(q) THEN 1 ELSE 0)
    BY <1>1, <1>2, PlacesTail DEF Asked
  <2>2. /\ Asked(e, q) \subseteq 1..Len(e.requests) /\ Cardinality(Asked(e, q)) \in Nat
        /\ Cardinality(Asked(e, q)) = 0 <=> Asked(e, q) = {}
    BY CallTypes
  <2>3. QED BY <1>2, <2>1, <2>2
<1>4. /\ Closings(e, q) = Closings(d, q) \cup {n}
      /\ Cardinality(Closings(e, q)) = Cardinality(Closings(d, q)) + 1
      /\ e.answers[n] = a /\ Len(e.answers) = n /\ n - 1 = Len(d.answers)
      /\ \A i \in 1..Len(d.answers) : e.answers[i] = d.answers[i]
  BY <1>1, <1>2, PlacesAppend, AppendProperties DEF Closings
<1> HIDE DEF r, n
<1>5. t.due = Cardinality(Asked(d, q)) + Cardinality(Closings(d, q)) /\ LastWord(q, d, t, T, token)
  BY DEF Line, Counted
<1>6. Counted(q, e, t)
  BY <1>1, <1>3, <1>4, <1>5 DEF Counted
<1>7. n \in Nat /\ \A i \in Closings(e, q) : i <= n
  BY <1>1, <1>4 DEF n
<1>8. Settled(q, e, t) => Asked(e, q) = {}
  <2>1. t.due = Cardinality(Asked(e, q)) + Cardinality(Closings(e, q))
    BY <1>1, <1>3, <1>4, <1>5
  <2>2. Cardinality(Closings(e, q)) \in Nat /\ Cardinality(Asked(e, q)) \in Nat
    BY <1>1, <1>3, <1>4
  <2>3. Settled(q, e, t) => Cardinality(Asked(e, q)) = 0
    BY <2>1, <2>2 DEF Settled
  <2>4. QED BY <1>3, <2>3
<1>9. Asked(e, q) = {} => (r.kind = "watch" <=> q \in T)
  <2>1. SUFFICES ASSUME Asked(e, q) = {}
                 PROVE  r.kind = "watch" <=> q \in T
    OBVIOUS
  <2>2. ASSUME NEW j \in Asked(d, q)
        PROVE  j <= 1
    <3>1. j \in 1..Len(d.requests)
      BY <1>1
    <3>2. j # 1 => j - 1 \in 1..(Len(d.requests) - 1) /\ (j - 1) + 1 = j
      BY <1>1, <3>1
    <3>3. QED BY <1>3, <2>1, <3>1, <3>2
  <2>3. Latest(Asked(d, q), 1)
    BY <1>3, <2>2 DEF Latest
  <2>4. QED BY <1>2, <1>3, <1>5, <2>3 DEF LastWord
<1>10. LastWord(q, e, t, T, token)
  <2>1. ASSUME NEW i \in Asked(e, q)
        PROVE  /\ i + 1 \in Asked(d, q) /\ e.requests[i] = d.requests[i + 1]
               /\ Latest(Asked(e, q), i) => Latest(Asked(d, q), i + 1)
    <3>1. i + 1 \in Asked(d, q) /\ e.requests[i] = d.requests[i + 1] /\ i \in Nat /\ i >= 1
      <4>1. i \in 1..(Len(d.requests) - 1)
        BY <1>3
      <4>2. i \in Nat /\ i >= 1
        BY <1>1, <4>1
      <4>3. QED BY <1>3, <4>1, <4>2
    <3>2. ASSUME Latest(Asked(e, q), i), NEW j \in Asked(d, q)
          PROVE  j <= i + 1
      <4>1. j \in 1..Len(d.requests)
        BY <1>1
      <4>2. CASE j = 1
        BY <3>1, <4>2
      <4>3. CASE j # 1
        <5>1. j - 1 \in 1..(Len(d.requests) - 1) /\ (j - 1) + 1 = j
          BY <1>1, <4>1, <4>3
        <5>2. j - 1 \in Asked(e, q)
          BY <1>3, <5>1
        <5>3. j - 1 <= i
          BY <3>2, <5>2 DEF Latest
        <5>4. QED BY <3>1, <4>1, <5>3
      <4>4. QED BY <4>2, <4>3
    <3>3. QED BY <3>1, <3>2 DEF Latest
  <2>2. ASSUME Settled(q, e, t), NEW i \in Closings(e, q), Latest(Closings(e, q), i)
        PROVE  e.answers[i].kind = "added" <=> q \in T
    <3>1. i = n
      BY <1>1, <1>4, <1>7, <2>2 DEF Latest
    <3>2. QED BY <1>4, <1>8, <1>9, <2>2, <3>1 DEF r
  <2>3. ASSUME NEW i \in Asked(e, q)
        PROVE  /\ e.requests[i].kind = "watch" => e.requests[i].token = token
               /\ Latest(Asked(e, q), i) => (e.requests[i].kind = "watch" <=> q \in T)
    <3>1. /\ i + 1 \in Asked(d, q) /\ e.requests[i] = d.requests[i + 1]
          /\ Latest(Asked(e, q), i) => Latest(Asked(d, q), i + 1)
      BY <2>1
    <3> DEFINE m == i + 1
    <3>2. /\ m \in Asked(d, q) /\ e.requests[i] = d.requests[m]
          /\ Latest(Asked(e, q), i) => Latest(Asked(d, q), m)
      BY <3>1
    <3> HIDE DEF m
    <3>3. QED BY <1>5, <3>2 DEF LastWord
  <2>4. QED BY <2>2, <2>3 DEF LastWord
<1>11. PICK g : History(g, q, d.answers, token) /\ Hears(g, q, d, t, T, since, token)
  BY DEF Line
<1>12. Follows(a, q, token, g[Len(d.answers)], e.watched[q])
  <2>1. r.kind = "watch" => r.token = token
    BY <1>2, <1>3, <1>5 DEF LastWord
  <2>2. QED BY <2>1 DEF Follows, r
<1>13. PICK h : History(h, q, e.answers, token) /\ h[n] = e.watched[q]
  <2> DEFINE v == e.watched[q]
             s == d.answers
  <2>1. s \in Seq(Answers) /\ a \in Answers /\ v \in Steady
    BY <1>1
  <2>2. History(g, q, s, token) /\ Follows(a, q, token, g[Len(s)], v)
    BY <1>11, <1>12
  <2> HIDE DEF s, v
  <2>3. \E h : History(h, q, Append(s, a), token) /\ h[Len(s) + 1] = v
    BY <2>1, <2>2, HistoryAppend
  <2>4. QED BY <2>3 DEF n, s, v
<1>14. t.due # 0
  BY <1>1, <1>3, <1>5
<1>15. Hears(h, q, e, t, T, since, token)
  <2>1. ASSUME q \in T, Settled(q, e, t), NEW i \in Closings(e, q), Latest(Closings(e, q), i)
        PROVE  h[i].since >= since
    <3>1. i = n
      BY <1>1, <1>4, <1>7, <2>1 DEF Latest
    <3>2. QED BY <1>8, <1>9, <1>13, <2>1, <3>1 DEF r
  <2>2. QED BY <1>4, <1>13, <1>14, <2>1 DEF Hears
<1>16. QED BY <1>6, <1>10, <1>13, <1>15 DEF Line

(* The server says something else: nothing that answers a request about    *)
(* the query.                                                              *)
LEMMA LineAnswered ==
  ASSUME NEW q \in Queries, NEW d \in Calls, NEW e \in Calls, NEW t \in Targets,
         NEW T, NEW since, NEW token, Line(q, d, t, T, since, token), ~d.broken, ~e.broken,
         NEW a \in Answers, a \notin Closers(q),
         e.requests = d.requests, e.answers = Append(d.answers, a),
         d.watched[q] \in Steady => e.watched[q] \in Steady,
         Follows(a, q, token, d.watched[q], e.watched[q])
  PROVE  Line(q, e, t, T, since, token)
<1>1. /\ d.answers \in Seq(Answers) /\ Len(d.answers) \in Nat
      /\ Closings(d, q) \subseteq 1..Len(d.answers) /\ DOMAIN d.answers = 1..Len(d.answers)
  BY CallTypes
<1>2. /\ Closings(e, q) = Closings(d, q) /\ Asked(e, q) = Asked(d, q)
      /\ \A i \in 1..Len(d.answers) : e.answers[i] = d.answers[i]
      /\ Len(e.answers) = Len(d.answers) + 1
  BY <1>1, PlacesAppend, AppendProperties DEF Closings, Asked
<1>3. PICK g : History(g, q, d.answers, token) /\ Hears(g, q, d, t, T, since, token)
  BY DEF Line
<1>4. g \in [0..Len(d.answers) -> Steady] /\ g[Len(d.answers)] = d.watched[q]
  BY <1>3 DEF History, Hears
<1>5. d.watched[q] \in Steady
  BY <1>1, <1>4
<1>6. PICK h : /\ History(h, q, e.answers, token) /\ h[Len(d.answers) + 1] = e.watched[q]
               /\ \A i \in 0..Len(d.answers) : h[i] = g[i]
  BY <1>1, <1>3, <1>4, <1>5, HistoryAppend
<1>7. Counted(q, e, t) /\ LastWord(q, e, t, T, token)
  BY <1>1, <1>2 DEF Line, Counted, LastWord, Settled
<1>8. 0 \in 0..Len(d.answers) /\ \A i \in Closings(d, q) : i \in 0..Len(d.answers)
  BY <1>1
<1>9. Hears(h, q, e, t, T, since, token)
  BY <1>2, <1>3, <1>6, <1>8 DEF Hears, Settled
<1>10. QED BY <1>6, <1>7, <1>9 DEF Line

(* The client reads the first answer.  w and v are the server's watch of   *)
(* the query before it and after.                                          *)
LEMMA LineRead ==
  ASSUME NEW q \in Queries, NEW d \in Calls, NEW e \in Calls, NEW t \in Targets, NEW u \in Targets,
         NEW T, NEW since, NEW token, Line(q, d, t, T, since, token),
         d.answers # <<>>, e.answers = Tail(d.answers), e.requests = d.requests,
         e.watched = d.watched, e.broken = d.broken,
         u.due = t.due - (IF Head(d.answers) \in Closers(q) THEN 1 ELSE 0)
  PROVE  /\ Head(d.answers).kind = "refused" => Head(d.answers).query # q
         /\ \E w, v \in Steady :
              /\ Follows(Head(d.answers), q, token, w, v)
              /\ q \in T /\ t.due = 0 =>
                   w.on /\ w.since >= since /\ w.sent = token + Cardinality(t.changes)
              /\ Head(d.answers) \in Closers(q) /\ u.due = 0 =>
                   /\ Head(d.answers).kind = "added" <=> q \in T
                   /\ q \in T => v.since >= since
              /\ \A other :
                   /\ other # token => t.due = 0
                   /\ q \in T /\ u.due = 0 =>
                        v.on /\ v.since >= since /\ v.sent = other + Cardinality(u.changes)
                   => Line(q, e, u, T, since, other)
<1> DEFINE a == Head(d.answers)
           n == Len(d.answers)
           one == IF a \in Closers(q) THEN 1 ELSE 0
<1>1. /\ Cardinality(Asked(d, q)) \in Nat /\ Cardinality(Closings(d, q)) \in Nat
      /\ d.answers \in Seq(Answers) /\ n \in Nat \ {0} /\ t.due \in Int
      /\ Closings(d, q) \subseteq 1..n /\ DOMAIN d.answers = 1..n /\ d.broken \in BOOLEAN
      /\ Cardinality(Asked(d, q)) = 0 <=> Asked(d, q) = {}
      /\ Cardinality(Closings(d, q)) = 0 <=> Closings(d, q) = {}
      /\ Asked(e, q) = Asked(d, q) /\ Cardinality(Closings(e, q)) \in Nat
      /\ Cardinality(Closings(e, q)) = 0 <=> Closings(e, q) = {}
  BY CallTypes, PlacesTail DEF Targets, Asked
<1>2. /\ Len(e.answers) = n - 1 /\ a = d.answers[1] /\ a \in Answers
      /\ \A i \in 1..(n - 1) : e.answers[i] = d.answers[i + 1]
      /\ \A i \in 1..(n - 1) : i \in Closings(e, q) <=> i + 1 \in Closings(d, q)
      /\ 1 \in Closings(d, q) <=> a \in Closers(q)
      /\ Cardinality(Closings(e, q)) = Cardinality(Closings(d, q)) - one
      /\ Closings(e, q) \subseteq 1..(n - 1)
  <2>1. /\ Len(e.answers) = n - 1 /\ a = d.answers[1] /\ a \in Answers
        /\ \A i \in 1..(n - 1) : e.answers[i] = d.answers[i + 1]
        /\ \A i \in 1..(n - 1) : i \in Closings(e, q) <=> i + 1 \in Closings(d, q)
        /\ 1 \in Closings(d, q) <=> a \in Closers(q)
        /\ Cardinality(Closings(e, q)) = Cardinality(Closings(d, q)) - one
    BY <1>1, PlacesTail DEF Closings
  <2>2. QED BY <2>1, CallTypes
<1>3. PICK g : History(g, q, d.answers, token) /\ Hears(g, q, d, t, T, since, token)
  BY DEF Line
<1>4. /\ one \in {0, 1} /\ (one = 1 <=> a \in Closers(q)) /\ u.due = t.due - one
  OBVIOUS
<1>5. PICK h : /\ History(h, q, e.answers, token) /\ h[n - 1] = g[n] /\ h[0] = g[1]
               /\ \A i \in 0..(n - 1) : h[i] = g[i + 1]
               /\ Follows(a, q, token, g[0], g[1]) /\ g[0] \in Steady /\ g[1] \in Steady
  BY <1>1, <1>3, HistoryTail
<1> HIDE DEF a, n, one
<1>6. Counted(q, d, t) /\ LastWord(q, d, t, T, token)
  BY DEF Line
<1>7. Counted(q, e, u)
  BY <1>1, <1>2, <1>4, <1>6 DEF Counted
<1>8. Settled(q, e, u) <=> Settled(q, d, t)
  BY <1>1, <1>2, <1>4 DEF Settled
<1>9. ASSUME NEW i \in Closings(e, q)
      PROVE  /\ i + 1 \in Closings(d, q) /\ e.answers[i] = d.answers[i + 1] /\ h[i] = g[i + 1]
             /\ Latest(Closings(e, q), i) => Latest(Closings(d, q), i + 1)
  <2>1. /\ i + 1 \in Closings(d, q) /\ e.answers[i] = d.answers[i + 1] /\ i \in Nat /\ i >= 1
        /\ i \in 0..(n - 1)
    BY <1>1, <1>2
  <2>2. ASSUME Latest(Closings(e, q), i), NEW j \in Closings(d, q)
        PROVE  j <= i + 1
    <3>1. j \in 1..n
      BY <1>1
    <3>2. j # 1 => j - 1 \in 1..(n - 1) /\ (j - 1) + 1 = j
      BY <1>1, <3>1
    <3>3. j # 1 => j - 1 \in Closings(e, q)
      BY <1>2, <3>2
    <3>4. j # 1 => j - 1 <= i
      BY <2>2, <3>3 DEF Latest
    <3>5. QED BY <2>1, <3>1, <3>4
  <2>3. QED BY <1>5, <2>1, <2>2 DEF Latest
<1>10. t.due = 0 => Asked(d, q) = {} /\ Closings(d, q) = {}
  <2>1. DOMAIN <<>> = {}
    OBVIOUS
  <2>2. d.broken => Asked(d, q) = {}
    BY <1>6, <2>1 DEF Counted, Asked, Places
  <2>3. QED BY <1>1, <1>6, <2>2 DEF Counted
<1>11. a \in Closers(q) /\ u.due = 0 => Latest(Closings(d, q), 1) /\ Settled(q, d, t)
  <2>1. SUFFICES ASSUME a \in Closers(q), u.due = 0
                 PROVE  Latest(Closings(d, q), 1) /\ Settled(q, d, t)
    OBVIOUS
  <2>2. t.due = 1 /\ 1 \in Closings(d, q) /\ Cardinality(Closings(d, q)) >= 1
    BY <1>1, <1>2, <1>4, <2>1
  <2>3. Cardinality(Closings(d, q)) = 1
    BY <1>1, <1>6, <2>2 DEF Counted
  <2>4. Closings(e, q) = {}
    BY <1>1, <1>2, <1>4, <2>1, <2>3
  <2>5. ASSUME NEW j \in Closings(d, q)
        PROVE  j <= 1
    <3>1. j \in 1..n
      BY <1>1
    <3>2. j # 1 => j - 1 \in 1..(n - 1) /\ (j - 1) + 1 = j
      BY <1>1, <3>1
    <3>3. QED BY <1>2, <2>4, <3>1, <3>2
  <2>6. QED BY <2>2, <2>3, <2>5 DEF Latest, Settled
<1>12. /\ q \in T /\ t.due = 0 =>
            g[0].on /\ g[0].since >= since /\ g[0].sent = token + Cardinality(t.changes)
       /\ a \in Closers(q) /\ u.due = 0 =>
            (a.kind = "added" <=> q \in T) /\ (q \in T => g[1].since >= since)
  BY <1>2, <1>3, <1>6, <1>11 DEF Hears, LastWord, Latest
<1>13. ASSUME NEW other, other # token => t.due = 0,
              q \in T /\ u.due = 0 =>
                g[1].on /\ g[1].since >= since /\ g[1].sent = other + Cardinality(u.changes)
       PROVE  Line(q, e, u, T, since, other)
  <2>1. LastWord(q, e, u, T, other)
    <3>1. ASSUME NEW i \in Asked(e, q)
          PROVE  /\ e.requests[i].kind = "watch" => e.requests[i].token = other
                 /\ Latest(Asked(e, q), i) => (e.requests[i].kind = "watch" <=> q \in T)
      <4>1. other = token
        BY <1>1, <1>10, <1>13
      <4>2. QED BY <1>1, <1>6, <4>1 DEF LastWord
    <3>2. ASSUME Settled(q, e, u), NEW i \in Closings(e, q), Latest(Closings(e, q), i)
          PROVE  e.answers[i].kind = "added" <=> q \in T
      <4> DEFINE m == i + 1
      <4>1. m \in Closings(d, q) /\ e.answers[i] = d.answers[m] /\ Latest(Closings(d, q), m)
        BY <1>9, <3>2
      <4> HIDE DEF m
      <4>2. QED BY <1>6, <1>8, <3>2, <4>1 DEF LastWord
    <3>3. QED BY <3>1, <3>2 DEF LastWord
  <2>2. History(h, q, e.answers, other)
    <3>1. CASE other = token
      BY <1>5, <3>1
    <3>2. CASE other # token
      <4>1. Closings(e, q) = {}
        BY <1>9, <1>10, <1>13, <3>2
      <4>2. e.answers \in Seq(Answers)
        BY CallTypes
      <4>3. QED BY <1>5, <4>1, <4>2, HistoryRetoken DEF Closings
    <3>3. QED BY <3>1, <3>2
  <2>3. Hears(h, q, e, u, T, since, other)
    <3>1. ~e.broken => h[Len(e.answers)] = e.watched[q]
      BY <1>2, <1>3, <1>5 DEF Hears, n
    <3>2. ASSUME q \in T, Settled(q, e, u), NEW i \in Closings(e, q), Latest(Closings(e, q), i)
          PROVE  h[i].since >= since
      <4> DEFINE m == i + 1
      <4>1. m \in Closings(d, q) /\ h[i] = g[m] /\ Latest(Closings(d, q), m)
        BY <1>9, <3>2
      <4> HIDE DEF m
      <4>2. QED BY <1>3, <1>8, <3>2, <4>1 DEF Hears
    <3>3. QED BY <1>5, <1>13, <3>1, <3>2 DEF Hears
  <2>4. QED BY <1>7, <2>1, <2>2, <2>3 DEF Line
<1>14. a.kind = "refused" => a.query # q
  BY <1>5 DEF Follows
<1>15. QED BY <1>5, <1>12, <1>13, <1>14 DEF a

(* The connection breaks: the answers that still come are a beginning of   *)
(* those that were on their way.                                           *)
LEMMA LineCut ==
  ASSUME NEW q \in Queries, NEW d \in Calls, NEW e \in Calls, NEW t \in Targets,
         NEW T, NEW since, NEW token, Line(q, d, t, T, since, token), ~d.broken, e.broken,
         NEW m \in 0..Len(d.answers), e.requests = <<>>, e.answers = SubSeq(d.answers, 1, m)
  PROVE  Line(q, e, t, T, since, token)
<1>1. /\ Cardinality(Asked(d, q)) \in Nat /\ Cardinality(Closings(d, q)) \in Nat
      /\ Cardinality(Closings(e, q)) \in Nat
      /\ d.answers \in Seq(Answers) /\ Len(d.answers) \in Nat /\ DOMAIN d.answers = 1..Len(d.answers)
      /\ Closings(d, q) \subseteq 1..Len(d.answers)
      /\ Cardinality(Asked(d, q)) = 0 <=> Asked(d, q) = {} /\ t.due \in Int
  BY CallTypes DEF Targets
<1>2. /\ Len(e.answers) = m /\ \A i \in 1..m : e.answers[i] = d.answers[i]
      /\ Closings(e, q) = Closings(d, q) \cap 1..m
      /\ Cardinality(Closings(e, q)) <= Cardinality(Closings(d, q))
      /\ Cardinality(Closings(e, q)) = Cardinality(Closings(d, q)) => Closings(e, q) = Closings(d, q)
  BY <1>1, PlacesCut DEF Closings
<1>3. t.due = Cardinality(Asked(d, q)) + Cardinality(Closings(d, q)) /\ LastWord(q, d, t, T, token)
  BY DEF Line, Counted
<1>4. Counted(q, e, t)
  BY <1>1, <1>2, <1>3 DEF Counted
<1>5. Settled(q, e, t) => Settled(q, d, t) /\ Closings(e, q) = Closings(d, q)
  BY <1>1, <1>2, <1>3 DEF Settled
<1>6. Asked(e, q) = {}
  <2>1. DOMAIN <<>> = {}
    OBVIOUS
  <2>2. QED BY <2>1 DEF Asked, Places
<1>7. \A i \in Closings(e, q) : e.answers[i] = d.answers[i] /\ i \in 0..m
  BY <1>2
<1>8. LastWord(q, e, t, T, token)
  BY <1>3, <1>5, <1>6, <1>7 DEF LastWord
<1>9. PICK g : History(g, q, d.answers, token) /\ Hears(g, q, d, t, T, since, token)
  BY DEF Line
<1> DEFINE h == [i \in 0..m |-> g[i]]
<1>10. History(h, q, e.answers, token)
  <2>1. g \in [0..Len(d.answers) -> Steady]
        /\ \A i \in 1..Len(d.answers) : Follows(d.answers[i], q, token, g[i - 1], g[i])
    BY <1>9 DEF History
  <2>2. h \in [0..m -> Steady]
    <3>1. \A i \in 0..m : i \in 0..Len(d.answers)
      BY <1>1
    <3>2. \A i \in 0..m : g[i] \in Steady
      BY <2>1, <3>1
    <3>3. QED BY <3>2
  <2>3. ASSUME NEW i \in 1..m
        PROVE  Follows(e.answers[i], q, token, h[i - 1], h[i])
    <3>1. i \in 1..Len(d.answers) /\ i \in 0..m /\ i - 1 \in 0..m
      BY <1>1
    <3>2. QED BY <1>2, <2>1, <3>1
  <2>4. QED BY <1>2, <2>2, <2>3 DEF History
<1>11. h[0] = g[0] /\ \A i \in Closings(e, q) : h[i] = g[i]
  BY <1>7
<1> HIDE DEF h
<1>12. Hears(h, q, e, t, T, since, token)
  BY <1>5, <1>9, <1>11 DEF Hears
<1>13. QED BY <1>4, <1>8, <1>10, <1>12 DEF Line

(* A call that is new: one request for each target.                        *)
LEMMA LineFresh ==
  ASSUME NEW q \in Queries, NEW d \in Calls, NEW t \in Targets, NEW T, NEW since, NEW token,
         ~d.broken, d.answers = <<>>, d.watched[q] \in Steady,
         q \in T => /\ t.due = 1
                    /\ \E i \in DOMAIN d.requests :
                         /\ Asked(d, q) = {i}
                         /\ d.requests[i].kind = "watch" /\ d.requests[i].token = token,
         q \notin T => t.due = 0 /\ Asked(d, q) = {}
  PROVE  Line(q, d, t, T, since, token)
<1>1. Closings(d, q) = {} /\ Len(d.answers) = 0
  <2>1. DOMAIN <<>> = {} /\ Len(<<>>) = 0
    OBVIOUS
  <2>2. QED BY <2>1 DEF Closings, Places
<1>2. Cardinality({}) = 0 /\ \A i : Cardinality({i}) = 1
  BY FS_EmptySet, FS_Singleton
<1>3. Counted(q, d, t) /\ LastWord(q, d, t, T, token)
  <2>1. CASE q \in T
    <3>1. PICK i \in DOMAIN d.requests :
            Asked(d, q) = {i} /\ d.requests[i].kind = "watch" /\ d.requests[i].token = token
      BY <2>1
    <3>2. t.due = 1 /\ Cardinality(Asked(d, q)) = 1 /\ Cardinality(Closings(d, q)) = 0
      BY <1>1, <1>2, <2>1, <3>1
    <3>3. QED BY <1>1, <2>1, <3>1, <3>2 DEF Counted, LastWord
  <2>2. CASE q \notin T
    <3>1. t.due = 0 /\ Cardinality(Asked(d, q)) = 0 /\ Cardinality(Closings(d, q)) = 0
      BY <1>1, <1>2, <2>2
    <3>2. QED BY <1>1, <2>2, <3>1 DEF Counted, LastWord
  <2>3. QED BY <2>1, <2>2
<1> DEFINE h == [i \in 0..0 |-> d.watched[q]]
<1>4. h \in [0..0 -> Steady] /\ h[0] = d.watched[q]
  OBVIOUS
<1> HIDE DEF h
<1>5. History(h, q, d.answers, token) /\ Hears(h, q, d, t, T, since, token)
  BY <1>1, <1>2, <1>4 DEF History, Hears, Settled
<1>6. QED BY <1>3, <1>5 DEF Line

-----------------------------------------------------------------------------
(* The client as a whole, with the disk and the server's changes: while no *)
(* stream is open nothing is on its way and nothing is gathered; the disk  *)
(* holds the changes its token stands for, and what is gathered continues  *)
(* them, on disk already or among the updates that go there with the next  *)
(* snapshot; and no view was made in the future.                           *)
(* All but the first for the queries that are not refused.                 *)
Quiet(k) == ~IsOpen(k.stream) => k.call = NoCall /\ k.aggregator = NewAggregator

Gathered(t, stored) ==
  /\ 1..stored.token \subseteq stored.changes
  /\ t.changes = (stored.token + 1)..(stored.token + Cardinality(t.changes))
  /\ t.changes \subseteq stored.changes \cup t.pending

Timely(v, committed) == v.since <= committed

Joined(k, disk, committed) ==
  /\ Quiet(k)
  /\ \A q \in Queries \ Refusable :
       /\ Gathered(k.aggregator[q], disk[q])
       /\ Timely(k.view[q], committed[q])
       /\ IsOpen(k.stream) =>
            Line(q, k.call, k.aggregator[q], k.targets, k.view[q].since, disk[q].token)

(* r is k after something that is not about what the server says: the      *)
(* stream may have ended, views may have ceased to be current.             *)
Dimmed(k, r) ==
  /\ r.targets = k.targets
  /\ \A q \in Queries : r.view[q].since = k.view[q].since /\ (r.view[q].current => k.view[q].current)

Calm(k, r) ==
  /\ Dimmed(k, r) /\ Quiet(r)
  /\ IsOpen(r.stream) => IsOpen(k.stream) /\ r.call = k.call /\ r.aggregator = k.aggregator

LEMMA CalmTransitive ==
  ASSUME NEW k, NEW r, NEW s, Calm(k, r), Calm(r, s)
  PROVE  Calm(k, s)
BY DEF Calm, Dimmed

LEMMA NothingGathered ==
  ASSUME NEW q \in Queries
  PROVE  NewAggregator[q].changes = {} /\ NewAggregator[q].due = 0 /\ Cardinality({}) = 0
BY FS_EmptySet DEF NewAggregator, NewTarget

LEMMA CalmKeepsJoined ==
  ASSUME NEW disk \in [Queries -> [changes : SUBSET Changes, token : 0..MaxChanges]],
         NEW committed, NEW k, NEW r, Joined(k, disk, committed), Calm(k, r)
  PROVE  Joined(r, disk, committed)
<1>1. Quiet(r) /\ r.targets = k.targets
  BY DEF Calm, Dimmed
<1>2. ASSUME NEW q \in Queries \ Refusable
      PROVE  /\ Gathered(r.aggregator[q], disk[q])
             /\ Timely(r.view[q], committed[q])
             /\ IsOpen(r.stream) =>
                  Line(q, r.call, r.aggregator[q], r.targets, r.view[q].since, disk[q].token)
  <2>1. r.view[q].since = k.view[q].since /\ (r.view[q].current => k.view[q].current)
    BY DEF Calm, Dimmed
  <2>2. Gathered(k.aggregator[q], disk[q]) /\ Timely(k.view[q], committed[q])
    BY DEF Joined
  <2>3. Timely(r.view[q], committed[q])
    BY <2>1, <2>2 DEF Timely
  <2>4. CASE IsOpen(r.stream)
    <3>1. IsOpen(k.stream) /\ r.call = k.call /\ r.aggregator = k.aggregator
      BY <2>4 DEF Calm
    <3>2. Line(q, k.call, k.aggregator[q], k.targets, k.view[q].since, disk[q].token)
      BY <3>1 DEF Joined
    <3>3. QED BY <1>1, <2>1, <2>2, <2>3, <3>1, <3>2
  <2>5. CASE ~IsOpen(r.stream)
    <3>1. r.aggregator[q].changes = {} /\ Cardinality({}) = 0
      BY <1>1, <2>5, NothingGathered DEF Quiet
    <3>2. disk[q].token \in Nat /\ 1..disk[q].token \subseteq disk[q].changes
      BY <2>2, BoundsAssumption DEF Gathered
    <3>3. (disk[q].token + 1)..(disk[q].token + 0) = {}
      BY <3>2
    <3>4. Gathered(r.aggregator[q], disk[q])
      BY <3>1, <3>2, <3>3 DEF Gathered
    <3>5. QED BY <2>3, <2>5, <3>4
  <2>6. QED BY <2>4, <2>5
<1>3. QED BY <1>1, <1>2 DEF Joined

(* Other fields may change; and a stream that is not open may end.         *)
LEMMA CalmElsewhere ==
  ASSUME NEW k, NEW r, Quiet(k), r.targets = k.targets, r.view = k.view,
         \/ r.call = k.call /\ r.aggregator = k.aggregator /\ (IsOpen(r.stream) <=> IsOpen(k.stream))
         \/ r.call = NoCall /\ r.aggregator = NewAggregator /\ ~IsOpen(r.stream)
  PROVE  Calm(k, r)
BY DEF Calm, Dimmed, Quiet

LEMMA OnlineChangeCalm ==
  ASSUME NEW k, Base(k), Quiet(k), NEW o \in Trackers, TrackerIsSound(o)
  PROVE  LET r == HandleOnlineStateChange(k, o)
         IN  Calm(k, r) /\ r.stream = k.stream
<1> DEFINE told == [k EXCEPT !.online = o]
           views == [q \in Queries |-> [k.view[q] EXCEPT !.current = FALSE]]
           unsynced == [told EXCEPT !.view = views]
           r == HandleOnlineStateChange(k, o)
<1>1. /\ r.stream = k.stream /\ r.aggregator = k.aggregator /\ r.call = k.call
      /\ r.targets = k.targets
  BY OnlineChangeKeeps DEF SameInterest
<1>2. /\ told.view = k.view /\ told \in Clients
  BY DEF Base, Clients
<1>3. \A q \in Queries : r.view[q].since = k.view[q].since /\ (r.view[q].current => k.view[q].current)
  <2>1. CASE o.state # k.online.state /\ o.state = "offline"
    <3>1. views \in [Queries -> Views] /\ \A q \in Queries : views[q].since = k.view[q].since
                                                             /\ ~views[q].current
      BY DEF Base, Clients, Views
    <3>2. r = OnViewSnapshots(unsynced, Queries, cache)
      BY <1>2, <2>1 DEF HandleOnlineStateChange
    <3> HIDE DEF views, told, r
    <3>3. unsynced \in Clients /\ unsynced.view = views
      BY <1>2, <3>1 DEF Clients
    <3> HIDE DEF unsynced
    <3>4. r.view = views
      BY <3>2, <3>3, OnViewSnapshotsKeeps
    <3>5. QED BY <3>1, <3>4
  <2>2. CASE ~(o.state # k.online.state /\ o.state = "offline")
    <3>1. r = told
      BY <2>2 DEF HandleOnlineStateChange
    <3>2. QED BY <1>2, <3>1
  <2>3. QED BY <2>1, <2>2
<1> HIDE DEF r
<1>4. Calm(k, r)
  BY <1>1, <1>3 DEF Calm, Dimmed, Quiet
<1>5. QED BY <1>1, <1>4 DEF r

LEMMA BecomesCalm ==
  ASSUME NEW k, Base(k), Quiet(k), NEW s \in {"unknown", "online", "offline"}
  PROVE  Calm(k, Becomes(k, s)) /\ Becomes(k, s).stream = k.stream
<1>1. k.online \in Trackers /\ TrackerIsSound(k.online)
  BY DEF Base, Clients
<1>2. UpdateState(k.online, s) \in Trackers /\ TrackerIsSound(UpdateState(k.online, s))
  BY <1>1, TrackerSteps
<1>3. QED BY <1>2, OnlineChangeCalm DEF Becomes

LEMMA StartWatchStreamCalm ==
  ASSUME NEW k, Base(k), Quiet(k), ~IsStarted(k.stream), OwnTimer(k)
  PROVE  Calm(k, StartWatchStream(k)) /\ ~IsOpen(StartWatchStream(k).stream)
<1> DEFINE started == [k EXCEPT !.aggregator = NewAggregator, !.stream = Start(@)]
           o == HandleWatchStreamStart(k.online)
<1>1. k \in Clients /\ k.stream \in Streams /\ CallbacksFindTheirState(k.stream)
      /\ o \in Trackers /\ TrackerIsSound(o)
  <2>1. k \in Clients /\ k.stream \in Streams /\ CallbacksFindTheirState(k.stream)
        /\ k.online \in Trackers /\ TrackerIsSound(k.online)
    BY DEF Base, Clients
  <2>2. k.online.failures = 0 => ~k.online.timer
    BY DEF OwnTimer
  <2>3. QED BY <2>1, <2>2, TrackerSteps
<1>2. /\ Start(k.stream) \in Streams /\ CallbacksFindTheirState(Start(k.stream))
      /\ ~IsOpen(Start(k.stream)) /\ ~IsOpen(k.stream)
  <2>1. ~IsOpen(Start(k.stream))
    BY <1>1 DEF Start, Streams, IsOpen
  <2>2. QED BY <1>1, <2>1, StartSound DEF IsOpen, IsStarted
<1>3. /\ started \in Clients /\ started.stream = Start(k.stream)
      /\ started.targets = k.targets /\ started.view = k.view
      /\ started.listener = k.listener /\ started.online = k.online
      /\ started.call = k.call /\ started.aggregator = NewAggregator
  BY <1>1, <1>2, Fresh DEF Clients
<1>4. StartWatchStream(k) = HandleOnlineStateChange(started, o)
  BY DEF StartWatchStream
<1> HIDE DEF started, o
<1>5. Base(started)
  BY <1>2, <1>3, SameView
<1>6. started.call = NoCall
  BY <1>2, <1>3 DEF Quiet
<1>7. Calm(k, started)
  BY <1>2, <1>3, <1>6, CalmElsewhere
<1>8. Quiet(started)
  BY <1>7 DEF Calm
<1>9. /\ Calm(started, StartWatchStream(k)) /\ StartWatchStream(k).stream = started.stream
  BY <1>1, <1>4, <1>5, <1>8, OnlineChangeCalm
<1>10. QED BY <1>2, <1>3, <1>7, <1>9, CalmTransitive

LEMMA OnWatchStreamCloseCalm ==
  ASSUME NEW k, Base(k), Quiet(k), ~IsStarted(k.stream)
  PROVE  Calm(k, OnWatchStreamClose(k)) /\ ~IsOpen(OnWatchStreamClose(k).stream)
<1> DEFINE o == HandleWatchStreamFailure(k.online)
           failed == HandleOnlineStateChange(k, o)
<1>1. o \in Trackers /\ TrackerIsSound(o) /\ ~IsOpen(k.stream) /\ (o.failures = 0 => ~o.timer)
  BY TrackerSteps DEF Base, Clients, IsOpen, IsStarted
<1> HIDE DEF o
<1>2. Base(failed) /\ failed.stream = k.stream /\ failed.online = o /\ Calm(k, failed)
  BY <1>1, OnlineChangeKeeps, OnlineChangeCalm
<1>3. CASE ShouldStartWatchStream(k)
  <2>1. OnWatchStreamClose(k) = StartWatchStream(failed)
    BY <1>3 DEF OnWatchStreamClose, o
  <2> HIDE DEF failed
  <2>2. Calm(failed, StartWatchStream(failed)) /\ ~IsOpen(StartWatchStream(failed).stream)
    BY <1>1, <1>2, StartWatchStreamCalm DEF Calm, OwnTimer
  <2>3. QED BY <1>2, <2>1, <2>2, CalmTransitive
<1>4. CASE ~ShouldStartWatchStream(k)
  <2>1. OnWatchStreamClose(k) = Becomes(k, "unknown")
    BY <1>4 DEF OnWatchStreamClose
  <2>2. QED BY <1>1, <2>1, BecomesCalm
<1>5. QED BY <1>3, <1>4

LEMMA EndStreamCalm ==
  ASSUME NEW k, Base(k), Quiet(k), NEW g \in BOOLEAN
  PROVE  Calm(k, EndStream(k, g)) /\ ~IsOpen(EndStream(k, g).stream)
<1> DEFINE ended == [k EXCEPT !.stream = Close(@, g), !.call = NoCall, !.aggregator = NewAggregator]
<1>1. k \in Clients /\ k.stream \in Streams
  BY DEF Base, Clients
<1>2. /\ Close(k.stream, g) \in Streams /\ CallbacksFindTheirState(Close(k.stream, g))
      /\ ~IsStarted(Close(k.stream, g)) /\ ~IsOpen(Close(k.stream, g))
  BY <1>1, CloseSound DEF IsStarted, IsOpen
<1>3. /\ ended \in Clients /\ ended.stream = Close(k.stream, g)
      /\ ended.targets = k.targets /\ ended.view = k.view
      /\ ended.listener = k.listener /\ ended.online = k.online
      /\ ended.call = NoCall /\ ended.aggregator = NewAggregator
  BY <1>1, <1>2, Fresh DEF Clients
<1>4. EndStream(k, g) = OnWatchStreamClose(ended)
  BY DEF EndStream
<1> HIDE DEF ended
<1>5. Base(ended)
  BY <1>2, <1>3, SameView
<1>6. Calm(k, ended)
  BY <1>2, <1>3, CalmElsewhere
<1>7. Calm(ended, EndStream(k, g)) /\ ~IsOpen(EndStream(k, g).stream)
  BY <1>2, <1>3, <1>4, <1>5, <1>6, OnWatchStreamCloseCalm DEF Calm
<1>8. QED BY <1>6, <1>7, CalmTransitive

LEMMA StopStreamCalm ==
  ASSUME NEW k, Base(k), Quiet(k)
  PROVE  Calm(k, StopStream(k)) /\ ~IsOpen(StopStream(k).stream)
<1>1. CASE IsStarted(k.stream)
  BY <1>1, EndStreamCalm DEF StopStream
<1>2. CASE ~IsStarted(k.stream)
  BY <1>2, CalmElsewhere DEF StopStream, IsStarted, IsOpen
<1>3. QED BY <1>1, <1>2

LEMMA EnableNetworkCalm ==
  ASSUME NEW k, Base(k), Quiet(k), OwnTimer(k)
  PROVE  Calm(k, EnableNetwork(k))
<1> DEFINE on == [k EXCEPT !.enabled = TRUE]
<1>1. /\ on \in Clients /\ on.stream = k.stream /\ on.targets = k.targets
      /\ on.view = k.view /\ on.listener = k.listener /\ on.online = k.online
      /\ on.call = k.call /\ on.aggregator = k.aggregator
  BY DEF Base, Clients
<1>2. EnableNetwork(k) =
        IF ShouldStartWatchStream(on) THEN StartWatchStream(on) ELSE Becomes(on, "unknown")
  BY DEF EnableNetwork
<1> HIDE DEF on
<1>3. Base(on)
  BY <1>1, SameView DEF Base
<1>4. Calm(k, on)
  BY <1>1, CalmElsewhere
<1>5. Calm(on, EnableNetwork(k))
  <2>1. OwnTimer(on)
    BY <1>1 DEF OwnTimer
  <2>2. QED
    BY <1>2, <1>3, <1>4, <2>1, StartWatchStreamCalm, BecomesCalm DEF ShouldStartWatchStream, Calm
<1>6. QED BY <1>4, <1>5, CalmTransitive

(* DisableNetwork and RestartNetwork begin in the same way.                *)
LEMMA SwitchedOffCalm ==
  ASSUME NEW k, Base(k), Quiet(k)
  PROVE  LET r == StopStream([k EXCEPT !.enabled = FALSE])
         IN  Calm(k, r) /\ ~IsOpen(r.stream)
<1> DEFINE off == [k EXCEPT !.enabled = FALSE]
<1>1. /\ off \in Clients /\ off.stream = k.stream /\ off.targets = k.targets
      /\ off.view = k.view /\ off.listener = k.listener /\ off.online = k.online
      /\ off.call = k.call /\ off.aggregator = k.aggregator
  BY DEF Base, Clients
<1> HIDE DEF off
<1>2. Base(off)
  BY <1>1, SameView DEF Base
<1>3. Calm(k, off)
  BY <1>1, CalmElsewhere
<1>4. Calm(off, StopStream(off)) /\ ~IsOpen(StopStream(off).stream)
  BY <1>2, <1>3, StopStreamCalm DEF Calm
<1>5. Calm(k, StopStream(off))
  BY <1>3, <1>4, CalmTransitive
<1>6. QED BY <1>4, <1>5 DEF off

LEMMA DisableNetworkCalm ==
  ASSUME NEW k, Base(k), Quiet(k)
  PROVE  Calm(k, DisableNetwork(k))
<1> DEFINE off == StopStream([k EXCEPT !.enabled = FALSE])
<1>1. Base(off) /\ Calm(k, off)
  BY SwitchedOff, SwitchedOffCalm
<1>2. DisableNetwork(k) = Becomes(off, "offline")
  BY DEF DisableNetwork
<1> HIDE DEF off
<1>3. Calm(off, DisableNetwork(k))
  BY <1>1, <1>2, BecomesCalm DEF Calm
<1>4. QED BY <1>1, <1>3, CalmTransitive

LEMMA RestartNetworkCalm ==
  ASSUME NEW k, Base(k), Quiet(k)
  PROVE  Calm(k, RestartNetwork(k))
<1> DEFINE off == StopStream([k EXCEPT !.enabled = FALSE])
           quiet == Becomes(off, "unknown")
           keen == [quiet EXCEPT !.stream = InhibitBackoff(@)]
<1>1. /\ Base(off) /\ Calm(k, off) /\ ~IsOpen(off.stream) /\ ~IsStarted(off.stream)
  BY SwitchedOff, SwitchedOffCalm
<1> HIDE DEF off
<1>2. /\ Base(quiet) /\ Calm(off, quiet) /\ ~IsOpen(quiet.stream) /\ ~IsStarted(quiet.stream)
      /\ ~quiet.online.timer
  BY <1>1, BecomesKeeps, BecomesCalm DEF Calm
<1> HIDE DEF quiet
<1>3. /\ InhibitBackoff(quiet.stream) \in Streams /\ ~IsOpen(InhibitBackoff(quiet.stream))
      /\ CallbacksFindTheirState(InhibitBackoff(quiet.stream))
  <2>1. /\ InhibitBackoff(quiet.stream) \in Streams /\ ~IsStarted(InhibitBackoff(quiet.stream))
        /\ CallbacksFindTheirState(InhibitBackoff(quiet.stream))
    BY <1>2, StreamSteps DEF Base, Clients
  <2>2. QED BY <2>1 DEF IsOpen, IsStarted
<1>4. /\ keen \in Clients /\ keen.stream = InhibitBackoff(quiet.stream)
      /\ keen.targets = quiet.targets /\ keen.view = quiet.view
      /\ keen.listener = quiet.listener /\ keen.online = quiet.online
      /\ keen.call = quiet.call /\ keen.aggregator = quiet.aggregator
  BY <1>2, <1>3 DEF Base, Clients
<1>5. RestartNetwork(k) = EnableNetwork(keen)
  BY DEF RestartNetwork, keen, quiet, off
<1> HIDE DEF keen
<1>6. Base(keen) /\ OwnTimer(keen)
  BY <1>2, <1>3, <1>4, SameView DEF OwnTimer
<1>7. Calm(quiet, keen)
  BY <1>2, <1>3, <1>4, CalmElsewhere DEF Calm
<1>8. Calm(keen, RestartNetwork(k))
  BY <1>5, <1>6, <1>7, EnableNetworkCalm DEF Calm
<1>9. QED BY <1>1, <1>2, <1>7, <1>8, CalmTransitive

-----------------------------------------------------------------------------
(* Steps.  What is on its way is as it should be.                          *)
Flowing == Joined(c, cache, server)

(* What the types say of a call that is there.                             *)
LEMMA FlowTypes ==
  ASSUME TypeOK, Sound(c)
  PROVE  /\ c \in Clients /\ Base(c) /\ c.stream \in Streams /\ CallbacksFindTheirState(c.stream)
         /\ c.call \in Calls /\ c.aggregator \in [Queries -> Targets] /\ c.targets \subseteq Queries
         /\ c.view \in [Queries -> Views] /\ c.listener \in [Listeners -> ListenerStates]
         /\ c.call.requests \in Seq(Requests) /\ c.call.answers \in Seq(Answers)
         /\ c.call.watched \in [Queries -> Watched]
         /\ c.call.broken \in BOOLEAN /\ c.call.news \in BOOLEAN
         /\ server \in [Queries -> 0..MaxChanges]
         /\ cache \in [Queries -> [changes : SUBSET Changes, token : 0..MaxChanges]]
BY DEF TypeOK, Sound, Base, Clients, Calls

LEMMA CalmStep ==
  ASSUME TypeOK, Flowing, Calm(c, c'), UNCHANGED <<server, cache>>
  PROVE  Flowing'
<1>1. cache \in [Queries -> [changes : SUBSET Changes, token : 0..MaxChanges]]
  BY DEF TypeOK
<1>2. Joined(c', cache, server)
  BY <1>1, CalmKeepsJoined DEF Flowing
<1>3. QED BY <1>2 DEF Flowing

LEMMA CallbackFlows ==
  ASSUME TypeOK, Sound(c), Flowing,
         \/ NoCredentials \/ LateCredentials \/ BackoffElapses \/ IdleTimeout
         \/ OnlineStateTimeout \/ StreamEnds
  PROVE  Flowing'
<1>1. /\ Base(c) /\ c \in Clients /\ c.stream \in Streams /\ CallbacksFindTheirState(c.stream)
      /\ Quiet(c)
  BY FlowTypes DEF Flowing, Joined
<1>2. UNCHANGED <<server, cache>>
  BY DEF NoCredentials, LateCredentials, BackoffElapses, IdleTimeout, OnlineStateTimeout, StreamEnds
<1>3. Calm(c, c')
  <2>1. CASE c' = EndStream(c, FALSE)
    BY <1>1, <2>1, EndStreamCalm
  <2>2. CASE LateCredentials
    <3>1. /\ c'.targets = c.targets /\ c'.view = c.view
          /\ c'.call = c.call /\ c'.aggregator = c.aggregator
          /\ c'.stream = [c.stream EXCEPT !.asked = @ \ {"stale"}]
      BY <1>1, <2>2 DEF LateCredentials, Clients, Streams
    <3>2. IsOpen(c'.stream) <=> IsOpen(c.stream)
      BY <1>1, <3>1 DEF IsOpen, Streams
    <3>3. QED BY <1>1, <3>1, <3>2, CalmElsewhere
  <2>3. CASE BackoffElapses
    <3>1. /\ c'.targets = c.targets /\ c'.view = c.view
          /\ c'.call = c.call /\ c'.aggregator = c.aggregator
          /\ c'.stream = BackoffDone(c.stream)
      BY <1>1, <2>3 DEF BackoffElapses, Clients
    <3>2. ~IsOpen(BackoffDone(c.stream)) /\ ~IsOpen(c.stream)
      BY <1>1, <2>3 DEF BackoffElapses, BackoffDone, Start, IsOpen, Streams, CallbacksFindTheirState
    <3>3. QED BY <1>1, <3>1, <3>2, CalmElsewhere
  <2>4. CASE IdleTimeout
    BY <1>1, <2>4, StopStreamCalm DEF IdleTimeout
  <2>5. CASE OnlineStateTimeout
    <3>1. TimerFires(c.online) \in Trackers /\ TrackerIsSound(TimerFires(c.online))
      BY <1>1, <2>5, TrackerSteps DEF Base, Clients, OnlineStateTimeout
    <3>2. QED BY <1>1, <2>5, <3>1, OnlineChangeCalm DEF OnlineStateTimeout
  <2>6. QED BY <2>1, <2>2, <2>3, <2>4, <2>5 DEF NoCredentials, StreamEnds
<1>4. QED BY <1>2, <1>3, CalmStep

(* A client that has just come has nothing on its way, whatever is on disk *)
(* and at the server.                                                      *)
LEMMA NewClientFlows ==
  ASSUME NEW disk \in [Queries -> [changes : SUBSET Changes, token : 0..MaxChanges]],
         NEW committed \in [Queries -> 0..MaxChanges],
         \A q \in Queries \ Refusable : 1..disk[q].token \subseteq disk[q].changes
  PROVE  Joined(EnableNetwork(NewClient), disk, committed)
<1> DEFINE k == NewClient
<1>1. /\ k.call = NoCall /\ k.aggregator = NewAggregator /\ k.stream = NewStream
      /\ k.view = [q \in Queries |-> NoView]
  BY DEF NewClient
<1>2. Base(k)
  <2> DEFINE first == CHOOSE q \in Queries : TRUE
  <2>1. first \in Queries
    BY QueriesAssumption
  <2>2. NewStream \in Streams /\ CallbacksFindTheirState(NewStream)
    BY DEF NewStream, Streams, States, CallbacksFindTheirState, IsOpen
  <2>3. NewTracker \in Trackers /\ TrackerIsSound(NewTracker) /\ NewTracker.state = "unknown"
    BY FailuresAssumption DEF NewTracker, Trackers, TrackerIsSound
  <2>4. [q \in Queries |-> NoView] \in [Queries -> Views]
    BY BoundsAssumption DEF NoView, Views
  <2>5. [l \in Listeners |-> [query |-> first, phase |-> "off"]] \in [Listeners -> ListenerStates]
    BY <2>1 DEF ListenerStates
  <2>6. k = [enabled |-> FALSE, targets |-> {}, stream |-> NewStream, online |-> NewTracker,
             aggregator |-> NewAggregator, call |-> NoCall, view |-> [q \in Queries |-> NoView],
             listener |-> [l \in Listeners |-> [query |-> first, phase |-> "off"]]]
    BY DEF NewClient
  <2> HIDE DEF k, first
  <2>7. k \in Clients /\ k.stream = NewStream /\ k.online = NewTracker
    BY <2>2, <2>3, <2>4, <2>5, <2>6, Fresh DEF Clients
  <2>8. QED BY <2>2, <2>3, <2>7 DEF Base, OfflineShown
<1> HIDE DEF k
<1>3. Joined(k, disk, committed)
  <2>1. ~IsOpen(k.stream) /\ Quiet(k)
    BY <1>1 DEF IsOpen, NewStream, Quiet
  <2>2. ASSUME NEW q \in Queries \ Refusable
        PROVE  Gathered(k.aggregator[q], disk[q]) /\ Timely(k.view[q], committed[q])
    <3>1. k.aggregator[q].changes = {} /\ Cardinality({}) = 0 /\ disk[q].token \in Nat
      BY <1>1, NothingGathered, BoundsAssumption
    <3>2. (disk[q].token + 1)..(disk[q].token + 0) = {}
      BY <3>1
    <3>3. Gathered(k.aggregator[q], disk[q])
      BY <3>1, <3>2 DEF Gathered
    <3>4. k.view[q].since = 0 /\ ~k.view[q].current
      BY <1>1 DEF NoView
    <3>5. Timely(k.view[q], committed[q])
      BY <3>4, BoundsAssumption DEF Timely
    <3>6. QED BY <3>3, <3>5
  <2>3. QED BY <2>1, <2>2 DEF Joined
<1>4. Calm(k, EnableNetwork(k))
  <2>1. OwnTimer(k)
    BY DEF k, NewClient, NewTracker, OwnTimer
  <2>2. QED BY <1>2, <1>3, <2>1, EnableNetworkCalm DEF Joined
<1>5. Joined(EnableNetwork(k), disk, committed)
  BY <1>3, <1>4, CalmKeepsJoined
<1>6. QED BY <1>5 DEF k

LEMMA InitFlows == Init => Flowing
<1> SUFFICES ASSUME Init PROVE Flowing
  OBVIOUS
<1>1. TypeOK
  BY InitSound DEF ClientIsSound
<1>2. \A q \in Queries : 1..cache[q].token \subseteq cache[q].changes
  <2>1. 1..0 = {}
    OBVIOUS
  <2>2. QED BY <2>1 DEF Init
<1>3. Joined(EnableNetwork(NewClient), cache, server)
  BY <1>1, <1>2, NewClientFlows DEF TypeOK
<1>4. QED BY <1>3 DEF Init, Flowing

LEMMA NetworkFlows ==
  ASSUME TypeOK, Sound(c), Flowing,
         TurnNetworkOff \/ TurnNetworkOn \/ NetworkRestarts \/ ProcessRestart
  PROVE  Flowing'
<1>1. Base(c) /\ Quiet(c) /\ OwnTimer(c)
  BY DEF Sound, TimersFit, Flowing, Joined
<1>2. CASE TurnNetworkOff \/ TurnNetworkOn \/ NetworkRestarts
  <2>1. Calm(c, c') /\ UNCHANGED <<server, cache>>
    BY <1>1, <1>2, DisableNetworkCalm, EnableNetworkCalm, RestartNetworkCalm
       DEF TurnNetworkOff, TurnNetworkOn, NetworkRestarts
  <2>2. QED BY <2>1, CalmStep
<1>3. CASE ProcessRestart
  <2>1. \A q \in Queries \ Refusable : 1..cache[q].token \subseteq cache[q].changes
    BY DEF Flowing, Joined, Gathered
  <2>2. Joined(EnableNetwork(NewClient), cache, server)
    BY <2>1, NewClientFlows DEF TypeOK
  <2>3. QED BY <1>3, <2>2 DEF ProcessRestart, Flowing
<1>4. QED BY <1>2, <1>3

(* The call is made: one request for each target.                          *)
LEMMA ConnectFlows ==
  ASSUME TypeOK, Sound(c), Flowing, Connect
  PROVE  Flowing'
<1> DEFINE order == SetToSeq(c.targets)
           requests == [i \in DOMAIN order |-> WatchRequest(order[i])]
           a == [q \in Queries |-> IF q \in c.targets
                                   THEN [c.aggregator[q] EXCEPT !.due = @ + 1]
                                   ELSE c.aggregator[q]]
           d == [c.call EXCEPT !.requests = requests]
<1>1. /\ c \in Clients /\ c.targets \subseteq Queries /\ c.stream \in Streams
      /\ c.call = NoCall /\ c.aggregator = NewAggregator /\ ~IsOpen(c.stream)
      /\ c.call \in Calls /\ UNCHANGED <<server, cache>>
      /\ cache \in [Queries -> [changes : SUBSET Changes, token : 0..MaxChanges]]
  <2>1. c.stream.state = "starting"
    BY FlowTypes DEF Connect, CallbacksFindTheirState
  <2>2. QED BY <2>1, FlowTypes DEF Connect, IsOpen, Flowing, Joined, Quiet
<1>2. PICK f \in [1..Cardinality(c.targets) -> c.targets] :
        /\ \A x \in c.targets : \E i \in 1..Cardinality(c.targets) : f[i] = x
        /\ IsInjective(f)
  <2>1. IsFiniteSet(c.targets)
    BY <1>1, QueriesAssumption, FS_Subset
  <2>2. Cardinality(c.targets) \in Nat /\ ExistsBijection(1..Cardinality(c.targets), c.targets)
    BY <2>1, FS_CardinalityType
  <2>3. PICK f \in Bijection(1..Cardinality(c.targets), c.targets) : TRUE
    BY <2>2 DEF ExistsBijection
  <2>4. /\ f \in [1..Cardinality(c.targets) -> c.targets] /\ IsInjective(f)
        /\ \A x \in c.targets : \E i \in 1..Cardinality(c.targets) : f[i] = x
    BY <2>3 DEF Bijection, Injection, Surjection, IsInjective
  <2>5. QED BY <2>4
<1>3. /\ order \in [1..Cardinality(c.targets) -> c.targets] /\ IsInjective(order)
      /\ DOMAIN order = 1..Cardinality(c.targets)
  <2>1. order \in [1..Cardinality(c.targets) -> c.targets] /\ IsInjective(order)
    BY <1>2 DEF SetToSeq
  <2>2. QED BY <2>1
<1>0. c' = [c EXCEPT !.stream = Opened(@), !.call = d, !.aggregator = a]
  BY <1>1 DEF Connect, OnWatchStreamOpen, Clients
<1> HIDE DEF order
<1>4. \A x \in c.targets : \E i \in DOMAIN order : order[i] = x
  <2>1. IsFiniteSet(1..Cardinality(c.targets)) /\ IsFiniteSet(c.targets)
        /\ Cardinality(1..Cardinality(c.targets)) = Cardinality(c.targets)
        /\ Cardinality(c.targets) \in Nat
    <3>1. IsFiniteSet(c.targets)
      BY <1>1, QueriesAssumption, FS_Subset
    <3>2. Cardinality(c.targets) \in Nat
      BY <3>1, FS_CardinalityType
    <3>3. QED BY <3>1, <3>2, FS_Interval
  <2>2. order \in Injection(1..Cardinality(c.targets), c.targets)
    BY <1>3 DEF Injection, IsInjective
  <2>3. order \in Surjection(1..Cardinality(c.targets), c.targets)
    BY <2>1, <2>2, FS_Injection
  <2>4. QED BY <1>3, <2>3 DEF Surjection
<1>5. \A i \in DOMAIN order : order[i] \in Queries
  BY <1>1, <1>3
<1>6. /\ DOMAIN requests = DOMAIN order /\ DOMAIN order = 1..Len(requests)
      /\ requests \in Seq(Requests)
      /\ \A i \in DOMAIN order : requests[i] = WatchRequest(order[i])
  <2>1. Cardinality(c.targets) \in Nat
    BY <1>1, QueriesAssumption, FS_Subset, FS_CardinalityType
  <2>2. \A i \in DOMAIN order : WatchRequest(order[i]) \in Requests
    BY <1>5, RequestsTyped
  <2>3. requests \in [1..Cardinality(c.targets) -> Requests]
    BY <1>3, <2>2
  <2>4. requests \in Seq(Requests) /\ DOMAIN requests = 1..Len(requests)
    BY <2>1, <2>3, LenProperties
  <2>5. QED BY <2>4
<1> HIDE DEF requests
<1>7. d \in Calls /\ d.requests = requests /\ d.answers = <<>> /\ ~d.broken
      /\ d.watched = [q \in Queries |-> Unwatched]
  <2>1. c.call.answers = <<>> /\ ~c.call.broken /\ c.call.watched = [q \in Queries |-> Unwatched]
    BY <1>1 DEF NoCall
  <2>2. /\ d \in Calls /\ d.requests = requests /\ d.answers = c.call.answers
        /\ d.watched = c.call.watched /\ d.broken = c.call.broken
    BY <1>1, <1>6 DEF Calls
  <2>3. QED BY <2>1, <2>2
<1> HIDE DEF a, d
<1>8. /\ c'.call = d /\ c'.targets = c.targets /\ c'.view = c.view /\ c'.aggregator = a
      /\ IsOpen(c'.stream)
  BY <1>0, <1>1 DEF Clients, Opened, IsOpen, Streams
<1>9. ASSUME NEW q \in Queries
      PROVE  /\ c'.aggregator[q].changes = c.aggregator[q].changes
             /\ c'.aggregator[q].pending = c.aggregator[q].pending
             /\ c'.aggregator[q].due = IF q \in c.targets THEN 1 ELSE 0
             /\ c'.aggregator[q] \in Targets
  <2>1. c.aggregator[q] = NewTarget /\ a[q] = IF q \in c.targets
                                             THEN [c.aggregator[q] EXCEPT !.due = @ + 1]
                                             ELSE c.aggregator[q]
    BY <1>1 DEF NewAggregator, a
  <2>2. NewTarget \in Targets /\ NewTarget.due = 0
    BY Fresh DEF NewTarget
  <2>3. CASE q \in c.targets
    BY <1>8, <2>1, <2>2, <2>3 DEF Targets
  <2>4. CASE q \notin c.targets
    BY <1>8, <2>1, <2>2, <2>4
  <2>5. QED BY <2>3, <2>4
<1>10. ASSUME NEW q \in Queries
       PROVE  Line(q, c'.call, c'.aggregator[q], c'.targets, c'.view[q].since, cache'[q].token)
  <2>1. d.watched[q] \in Steady
    BY <1>7, BoundsAssumption DEF Unwatched, Steady, Watched
  <2>2. ASSUME q \in c.targets
        PROVE  \E i \in DOMAIN d.requests :
                 /\ Asked(d, q) = {i}
                 /\ d.requests[i].kind = "watch" /\ d.requests[i].token = cache[q].token
    <3>1. PICK i \in DOMAIN order : order[i] = q
      BY <1>4, <2>2
    <3>2. \A j \in DOMAIN order : order[j] = q => j = i
      BY <1>3, <3>1 DEF IsInjective
    <3>3. \A j \in DOMAIN order : requests[j] \in Askers(q) <=> j = i
      <4>1. \A j \in DOMAIN order : requests[j] \in Requests /\ requests[j].query = order[j]
        BY <1>5, <1>6, RequestsTyped DEF WatchRequest
      <4>2. QED BY <3>1, <3>2, <4>1 DEF Askers
    <3>4. Asked(d, q) = {i}
      BY <1>6, <1>7, <3>1, <3>3 DEF Asked, Places
    <3>5. requests[i].kind = "watch" /\ requests[i].token = cache[q].token
      BY <1>6, <3>1 DEF WatchRequest
    <3>6. QED BY <1>6, <1>7, <3>1, <3>4, <3>5
  <2>3. ASSUME q \notin c.targets
        PROVE  Asked(d, q) = {}
    <3>1. \A j \in DOMAIN order : requests[j] \notin Askers(q)
      <4>1. \A j \in DOMAIN order : requests[j].query = order[j] /\ order[j] \in c.targets
        BY <1>3, <1>6 DEF WatchRequest
      <4>2. QED BY <2>3, <4>1 DEF Askers
    <3>2. QED BY <1>6, <1>7, <3>1 DEF Asked, Places
  <2>4. QED BY <1>1, <1>7, <1>8, <1>9, <2>1, <2>2, <2>3, LineFresh
<1>11. Quiet(c')
  BY <1>8 DEF Quiet
<1>12. \A q \in Queries \ Refusable :
         Gathered(c'.aggregator[q], cache'[q]) /\ Timely(c'.view[q], server'[q])
  BY <1>1, <1>8, <1>9 DEF Flowing, Joined, Gathered, Timely
<1>13. QED BY <1>10, <1>11, <1>12 DEF Flowing, Joined

(* What is left of one query's listeners has changed, and its target: a    *)
(* request goes out, where the stream is open.                             *)
LEMMA SendParts ==
  ASSUME NEW k, Base(k), NEW request \in Requests
  PROVE  LET r == Send(k, request)
         IN  /\ r.targets = k.targets /\ r.view = k.view /\ (IsOpen(r.stream) <=> IsOpen(k.stream))
             /\ r.aggregator \in [Queries -> Targets] /\ r.call \in Calls
             /\ \A q \in Queries :
                  /\ r.aggregator[q].changes = k.aggregator[q].changes
                  /\ r.aggregator[q].pending = k.aggregator[q].pending
                  /\ r.aggregator[q].due = k.aggregator[q].due + (IF q = request.query THEN 1 ELSE 0)
             /\ r.call.answers = k.call.answers /\ r.call.watched = k.call.watched
             /\ r.call.broken = k.call.broken
             /\ r.call.requests = IF k.call.broken THEN k.call.requests
                                  ELSE Append(k.call.requests, request)
<1> DEFINE q == request.query
           a == [k.aggregator EXCEPT ![q].due = @ + 1]
           more == IF k.call.broken THEN k.call.requests ELSE Append(k.call.requests, request)
           d == [k.call EXCEPT !.requests = IF k.call.broken THEN @ ELSE Append(@, request)]
           r == Send(k, request)
<1>1. /\ k \in Clients /\ k.stream \in Streams /\ k.aggregator \in [Queries -> Targets]
      /\ k.call \in Calls /\ q \in Queries
  BY DEF Base, Clients, Requests
<1>2. r = [k EXCEPT !.aggregator = a, !.stream = CancelIdleCheck(@), !.call = d]
  BY <1>1 DEF Send, Clients
<1>3. /\ a \in [Queries -> Targets]
      /\ \A p \in Queries : /\ a[p].changes = k.aggregator[p].changes
                            /\ a[p].pending = k.aggregator[p].pending
                            /\ a[p].due = k.aggregator[p].due + (IF p = q THEN 1 ELSE 0)
  <2> HIDE DEF q
  <2>1. ASSUME NEW p \in Queries
        PROVE  /\ a[p].changes = k.aggregator[p].changes
               /\ a[p].pending = k.aggregator[p].pending
               /\ a[p].due = k.aggregator[p].due + (IF p = q THEN 1 ELSE 0)
    <3>1. k.aggregator[p] \in Targets
      BY <1>1
    <3>2. CASE p = q
      BY <1>1, <3>1, <3>2 DEF Targets
    <3>3. CASE p # q
      <4>1. a[p] = k.aggregator[p] /\ k.aggregator[p].due \in Int
        BY <1>1, <3>1, <3>3 DEF Targets
      <4>2. QED BY <3>3, <4>1
    <3>4. QED BY <3>2, <3>3
  <2>2. a \in [Queries -> Targets]
    BY <1>1 DEF Targets
  <2>3. QED BY <2>1, <2>2
<1>4. more \in Seq(Requests)
  BY <1>1 DEF Calls
<1> HIDE DEF more
<1>5. d = [k.call EXCEPT !.requests = more]
  BY DEF more
<1>6. /\ d \in Calls /\ d.requests = more /\ d.answers = k.call.answers
      /\ d.watched = k.call.watched /\ d.broken = k.call.broken
  BY <1>1, <1>4, <1>5 DEF Calls
<1> HIDE DEF a, d, r, q
<1>7. /\ r.targets = k.targets /\ r.view = k.view /\ r.aggregator = a /\ r.call = d
      /\ r.stream = CancelIdleCheck(k.stream)
  BY <1>1, <1>2 DEF Clients
<1>8. IsOpen(r.stream) <=> IsOpen(k.stream)
  BY <1>1, <1>7 DEF CancelIdleCheck, IsOpen, Streams
<1>9. QED BY <1>3, <1>6, <1>7, <1>8 DEF r, q, more

LEMMA SendJoined ==
  ASSUME TypeOK, Sound(c), Flowing, NEW q \in Queries, NEW k, Base(k),
         IsOpen(k.stream), IsOpen(c.stream), k.call = c.call, k.aggregator = c.aggregator,
         \A p \in Queries \ {q} : k.view[p] = c.view[p] /\ (p \in k.targets <=> p \in c.targets),
         q \notin Refusable => Timely(k.view[q], server[q]),
         NEW request \in Requests, request.query = q,
         request.kind = "watch" => request.token = cache[q].token,
         request.kind = "watch" <=> q \in k.targets
  PROVE  Joined(Send(k, request), cache, server)
<1> DEFINE r == Send(k, request)
<1>1. /\ r.targets = k.targets /\ r.view = k.view /\ IsOpen(r.stream)
      /\ r.aggregator \in [Queries -> Targets] /\ r.call \in Calls
      /\ \A p \in Queries :
           /\ r.aggregator[p].changes = c.aggregator[p].changes
           /\ r.aggregator[p].pending = c.aggregator[p].pending
           /\ r.aggregator[p].due = c.aggregator[p].due + (IF p = q THEN 1 ELSE 0)
      /\ r.call.answers = c.call.answers /\ r.call.watched = c.call.watched
      /\ r.call.broken = c.call.broken
      /\ r.call.requests = IF c.call.broken THEN c.call.requests
                           ELSE Append(c.call.requests, request)
  BY SendParts
<1> HIDE DEF r
<1>2. c.call \in Calls /\ c.aggregator \in [Queries -> Targets]
  BY FlowTypes
<1>3. ASSUME NEW p \in Queries \ Refusable
      PROVE  Line(p, r.call, r.aggregator[p], r.targets, r.view[p].since, cache[p].token)
  <2>1. Line(p, c.call, c.aggregator[p], c.targets, c.view[p].since, cache[p].token)
    BY DEF Flowing, Joined
  <2>2. c.aggregator[p] \in Targets /\ r.aggregator[p] \in Targets
    BY <1>1, <1>2
  <2>3. CASE p = q
    <3>1. r.aggregator[q].due = c.aggregator[q].due + 1
      BY <1>1
    <3>2. Line(q, r.call, r.aggregator[q], r.targets, r.view[q].since, cache[q].token)
      <4>1. Line(q, c.call, c.aggregator[q], c.targets, c.view[q].since, cache[q].token)
        BY <2>1, <2>3
      <4>2. c.aggregator[q] \in Targets /\ r.aggregator[q] \in Targets
        BY <1>1, <1>2
      <4>3. request.kind = "watch" <=> q \in r.targets
        BY <1>1
      <4>4. /\ r.call \in Calls /\ c.call \in Calls
            /\ r.call.answers = c.call.answers /\ r.call.watched = c.call.watched
            /\ r.call.broken = c.call.broken
            /\ r.call.requests = IF c.call.broken THEN c.call.requests
                                 ELSE Append(c.call.requests, request)
        BY <1>1, <1>2
      <4>5. QED BY <3>1, <4>1, <4>2, <4>3, <4>4, LineSent
    <3>3. QED BY <2>3, <3>2
  <2>4. CASE p # q
    <3>1. /\ r.view[p].since = c.view[p].since /\ (p \in r.targets <=> p \in c.targets)
          /\ r.aggregator[p].changes = c.aggregator[p].changes
          /\ r.aggregator[p].due = c.aggregator[p].due
      <4>1. c.aggregator[p].due \in Int /\ r.aggregator[p].due = c.aggregator[p].due + 0
        BY <1>1, <2>2, <2>4 DEF Targets
      <4>2. QED BY <1>1, <2>4, <4>1
    <3>2. /\ r.call \in Calls /\ c.call \in Calls
          /\ r.call.answers = c.call.answers /\ r.call.watched = c.call.watched
          /\ r.call.broken = c.call.broken
          /\ r.call.requests = IF c.call.broken THEN c.call.requests
                               ELSE Append(c.call.requests, request)
      BY <1>1, <1>2
    <3>3. p \in Queries /\ request.query # p
      BY <2>4
    <3>4. Line(p, r.call, r.aggregator[p], r.targets, c.view[p].since, cache[p].token)
      <4> DEFINE d == c.call
                 e == r.call
                 t == c.aggregator[p]
                 u == r.aggregator[p]
                 since == c.view[p].since
                 token == cache[p].token
      <4>1. /\ d \in Calls /\ e \in Calls /\ t \in Targets /\ u \in Targets
            /\ Line(p, d, t, c.targets, since, token) /\ (p \in r.targets <=> p \in c.targets)
            /\ u.due = t.due /\ u.changes = t.changes
            /\ e.answers = d.answers /\ e.watched = d.watched /\ e.broken = d.broken
            /\ e.requests = IF d.broken THEN d.requests ELSE Append(d.requests, request)
        BY <2>1, <2>2, <3>1, <3>2
      <4> HIDE DEF d, e, t, u, since, token
      <4>2. Line(p, e, u, r.targets, since, token)
        BY <3>3, <4>1, LineSentElsewhere
      <4>3. QED BY <4>2 DEF e, u, since, token
    <3>5. QED BY <3>1, <3>4
  <2>5. QED BY <2>3, <2>4
<1>4. \A p \in Queries \ Refusable :
        Gathered(r.aggregator[p], cache[p]) /\ Timely(r.view[p], server[p])
  BY <1>1 DEF Flowing, Joined, Gathered
<1>5. Quiet(r)
  BY <1>1 DEF Quiet
<1>6. QED BY <1>3, <1>4, <1>5 DEF Joined, r

LEMMA UnsentJoined ==
  ASSUME TypeOK, Flowing, NEW q \in Queries, NEW k,
         ~IsOpen(k.stream), ~IsOpen(c.stream), k.call = c.call, k.aggregator = c.aggregator,
         \A p \in Queries \ {q} : k.view[p] = c.view[p],
         q \notin Refusable => Timely(k.view[q], server[q])
  PROVE  Joined(k, cache, server)
BY DEF Flowing, Joined, Quiet

(* A listener comes.                                                       *)
LEMMA AddFlows ==
  ASSUME TypeOK, Sound(c), Flowing,
         NEW l \in Listeners, NEW q \in Queries, AddQueryListener(l, q)
  PROVE  Flowing'
<1> DEFINE added == [c EXCEPT !.listener[l] = [query |-> q, phase |-> "waiting"]]
           new == [on |-> TRUE, current |-> FALSE, since |-> server[q]]
           made == IF c.view[q].on THEN added ELSE [added EXCEPT !.view[q] = new]
           told == OnViewSnapshots(made, {q}, cache)
           more == [told EXCEPT !.targets = @ \cup {q}]
<1>1. /\ Base(c) /\ Agreed(c) /\ c \in Clients /\ Quiet(c)
      /\ c.listener \in [Listeners -> ListenerStates] /\ c.view \in [Queries -> Views]
      /\ server[q] \in 0..MaxChanges /\ UNCHANGED <<server, cache>>
  BY DEF Sound, Base, Clients, TypeOK, AddQueryListener, Flowing, Joined
<1>2. /\ added \in Clients /\ added.targets = c.targets /\ added.view = c.view
      /\ added.stream = c.stream /\ added.online = c.online
      /\ added.call = c.call /\ added.aggregator = c.aggregator
      /\ added.listener = [c.listener EXCEPT ![l] = [query |-> q, phase |-> "waiting"]]
  BY <1>1 DEF Clients, ListenerStates
<1>3. new \in Views
  BY <1>1 DEF Views
<1>4. c' = IF c.view[q].on THEN told ELSE Listen(told, q)
  BY DEF AddQueryListener
<1> HIDE DEF added, new
<1>5. /\ made \in Clients /\ made.targets = c.targets
      /\ made.view = IF c.view[q].on THEN c.view ELSE [c.view EXCEPT ![q] = new]
      /\ made.stream = c.stream /\ made.online = c.online
      /\ made.call = c.call /\ made.aggregator = c.aggregator /\ made.listener = added.listener
  <2>1. CASE c.view[q].on
    BY <1>2, <2>1
  <2>2. CASE ~c.view[q].on
    BY <1>1, <1>2, <1>3, <2>2 DEF Clients
  <2>3. QED BY <2>1, <2>2
<1> HIDE DEF made
<1>6. /\ told \in Clients /\ told.targets = c.targets /\ told.view = made.view
      /\ told.stream = c.stream /\ told.online = c.online
      /\ told.call = c.call /\ told.aggregator = c.aggregator
      /\ \A x \in Listeners : made.listener[x].phase # "waiting" => told.listener[x].phase # "waiting"
      /\ c.online.state = "offline" => told.listener[l].phase # "waiting"
  <2>1. made.listener[l].query = q
    BY <1>1, <1>2, <1>5
  <2>2. QED BY <1>5, <2>1, OnViewSnapshotsKeeps DEF SameInterest
<1> HIDE DEF told
<1>7. CASE c.view[q].on
  <2>1. c' = told /\ told.view = c.view
    BY <1>4, <1>5, <1>6, <1>7
  <2>2. QED BY <1>1, <1>6, <2>1, CalmElsewhere, CalmStep
<1>8. CASE ~c.view[q].on
  <2>1. /\ more \in Clients /\ more.targets = c.targets \cup {q}
        /\ more.view = [c.view EXCEPT ![q] = new] /\ more.listener = told.listener
        /\ more.stream = c.stream /\ more.online = c.online
        /\ more.call = c.call /\ more.aggregator = c.aggregator
    BY <1>5, <1>6, <1>8 DEF Clients
  <2>2. c' = CASE ShouldStartWatchStream(more) -> StartWatchStream(more)
               [] ~ShouldStartWatchStream(more) /\ IsOpen(told.stream) -> SendWatchRequest(more, q)
               [] OTHER -> more
    BY <1>4, <1>8 DEF Listen
  <2> HIDE DEF more
  <2>3. Base(more)
    <3>1. OfflineShown(more)
      <4>1. \A p \in Queries : more.view[p].current => c.view[p].current
        BY <1>1, <2>1 DEF new
      <4>2. \A x \in Listeners : x # l => made.listener[x] = c.listener[x]
        BY <1>1, <1>2, <1>5
      <4>3. QED BY <1>1, <1>6, <2>1, <4>1, <4>2 DEF Base, OfflineShown
    <3>2. QED BY <1>1, <2>1, <3>1 DEF Base
  <2>4. /\ \A p \in Queries \ {q} : more.view[p] = c.view[p] /\ (p \in more.targets <=> p \in c.targets)
        /\ Timely(more.view[q], server[q])
    <3>1. more.view[q] = new
      BY <1>1, <2>1
    <3>2. Timely(new, server[q])
      BY <1>1 DEF Timely, new
    <3>3. QED BY <1>1, <2>1, <3>1, <3>2
  <2>5. CASE IsOpen(c.stream)
    <3>1. ~ShouldStartWatchStream(more)
      BY <2>1, <2>5 DEF ShouldStartWatchStream, IsOpen, IsStarted
    <3>2. c' = Send(more, WatchRequest(q))
      BY <1>6, <2>2, <2>5, <3>1 DEF SendWatchRequest
    <3>3. /\ WatchRequest(q) \in Requests /\ WatchRequest(q).query = q
          /\ WatchRequest(q).kind = "watch" /\ WatchRequest(q).token = cache[q].token
      BY RequestsTyped DEF WatchRequest
    <3>4. Joined(c', cache, server)
      BY <2>1, <2>3, <2>4, <2>5, <3>2, <3>3, SendJoined
    <3>5. QED BY <1>1, <3>4 DEF Flowing
  <2>6. CASE ~IsOpen(c.stream)
    <3>1. Joined(more, cache, server) /\ Quiet(more)
      BY <2>1, <2>4, <2>6, UnsentJoined DEF Joined
    <3>2. Calm(more, c')
      <4>1. CASE ShouldStartWatchStream(more)
        <5>1. OwnTimer(more)
          BY <1>6, <2>1 DEF Sound, TimersFit, OwnTimer
        <5>2. QED
          BY <2>2, <2>3, <3>1, <4>1, <5>1, StartWatchStreamCalm DEF ShouldStartWatchStream
      <4>2. CASE ~ShouldStartWatchStream(more)
        BY <1>6, <2>2, <2>6, <3>1, <4>2, CalmElsewhere
      <4>3. QED BY <4>1, <4>2
    <3>3. cache \in [Queries -> [changes : SUBSET Changes, token : 0..MaxChanges]]
      BY DEF TypeOK
    <3>4. Joined(c', cache, server)
      BY <3>1, <3>2, <3>3, CalmKeepsJoined
    <3>5. QED BY <1>1, <3>4 DEF Flowing
  <2>7. QED BY <2>5, <2>6
<1>9. QED BY <1>7, <1>8

(* A listener goes.                                                        *)
LEMMA RemoveFlows ==
  ASSUME TypeOK, Sound(c), Flowing, NEW l \in Listeners, RemoveQueryListener(l)
  PROVE  Flowing'
<1> DEFINE q == c.listener[l].query
           less == [c EXCEPT !.listener[l].phase = "off"]
           gone == [less EXCEPT !.view[q] = NoView]
           fewer == [gone EXCEPT !.targets = @ \ {q}]
           sent == IF IsOpen(gone.stream) THEN SendUnwatchRequest(fewer, q) ELSE fewer
<1>1. /\ Base(c) /\ c \in Clients /\ Quiet(c)
      /\ c.listener \in [Listeners -> ListenerStates] /\ c.view \in [Queries -> Views]
      /\ q \in Queries /\ UNCHANGED <<server, cache>> /\ server \in [Queries -> 0..MaxChanges]
      /\ cache \in [Queries -> [changes : SUBSET Changes, token : 0..MaxChanges]]
  BY DEF Sound, Base, Clients, TypeOK, RemoveQueryListener, ListenerStates, Flowing, Joined
<1>2. c' = IF Heard(less, q) # {} THEN less ELSE StopListening(gone, q)
  BY DEF RemoveQueryListener
<1> HIDE DEF q
<1>3. /\ less \in Clients /\ less.targets = c.targets /\ less.view = c.view
      /\ less.stream = c.stream /\ less.online = c.online
      /\ less.call = c.call /\ less.aggregator = c.aggregator
      /\ less.listener = [c.listener EXCEPT ![l].phase = "off"]
  <2>1. /\ c.listener[l] \in ListenerStates
        /\ [c.listener[l] EXCEPT !.phase = "off"] \in ListenerStates
    BY <1>1 DEF ListenerStates
  <2>2. [c.listener EXCEPT ![l].phase = "off"] \in [Listeners -> ListenerStates]
    BY <1>1, <2>1
  <2>3. QED BY <1>1, <2>2 DEF Clients
<1> HIDE DEF less
<1>4. CASE Heard(less, q) # {}
  BY <1>1, <1>2, <1>3, <1>4, CalmElsewhere, CalmStep
<1>5. CASE Heard(less, q) = {}
  <2>1. NoView \in Views /\ ~NoView.current /\ NoView.since = 0
    BY BoundsAssumption DEF NoView, Views
  <2>2. /\ gone \in Clients /\ gone.targets = c.targets /\ gone.listener = less.listener
        /\ gone.view = [c.view EXCEPT ![q] = NoView]
        /\ gone.stream = c.stream /\ gone.online = c.online
        /\ gone.call = c.call /\ gone.aggregator = c.aggregator
    BY <1>1, <1>3, <2>1 DEF Clients
  <2>3. c' = CASE sent.targets # {} -> sent
               [] sent.targets = {} /\ IsOpen(sent.stream) -> [sent EXCEPT !.stream = MarkIdle(@)]
               [] sent.targets = {} /\ ~IsOpen(sent.stream) ->
                    IF sent.enabled THEN Becomes(sent, "unknown") ELSE sent
    BY <1>2, <1>5 DEF StopListening
  <2>4. sent = IF IsOpen(c.stream) THEN Send(fewer, [kind |-> "unwatch", query |-> q]) ELSE fewer
    BY <2>2 DEF SendUnwatchRequest
  <2> HIDE DEF gone, sent
  <2>5. /\ fewer \in Clients /\ fewer.targets = c.targets \ {q} /\ fewer.view = gone.view
        /\ fewer.listener = less.listener /\ fewer.stream = c.stream /\ fewer.online = c.online
        /\ fewer.call = c.call /\ fewer.aggregator = c.aggregator
    BY <2>2 DEF Clients
  <2> HIDE DEF fewer
  <2>6. Base(fewer)
    <3>1. OfflineShown(fewer)
      <4>1. \A p \in Queries : fewer.view[p].current => c.view[p].current
        BY <1>1, <2>1, <2>2, <2>5
      <4>2. \A x \in Listeners : fewer.listener[x].phase = "waiting" => c.listener[x].phase = "waiting"
        BY <1>1, <1>3, <2>5 DEF ListenerStates
      <4>3. QED BY <1>1, <2>5, <4>1, <4>2 DEF Base, OfflineShown
    <3>2. QED BY <1>1, <2>5, <3>1 DEF Base
  <2>7. /\ \A p \in Queries \ {q} : fewer.view[p] = c.view[p] /\ (p \in fewer.targets <=> p \in c.targets)
        /\ Timely(fewer.view[q], server[q])
    <3>1. fewer.view[q] = NoView /\ server[q] >= 0
      BY <1>1, <2>2, <2>5
    <3>2. Timely(NoView, server[q])
      BY <2>1, <3>1 DEF Timely
    <3>3. QED BY <1>1, <2>2, <2>5, <3>1, <3>2
  <2>8. Joined(sent, cache, server) /\ Base(sent)
    <3>1. CASE IsOpen(c.stream)
      <4> DEFINE r == [kind |-> "unwatch", query |-> q]
      <4>1. r \in Requests /\ r.query = q /\ r.kind # "watch" /\ q \notin fewer.targets
        BY <1>1, <2>5, RequestsTyped
      <4>2. sent = Send(fewer, r)
        BY <2>4, <3>1
      <4> HIDE DEF r
      <4>3. Joined(sent, cache, server)
        BY <1>1, <2>5, <2>6, <2>7, <3>1, <4>1, <4>2, SendJoined
      <4>4. Base(sent)
        BY <2>6, <4>1, <4>2, SendKeeps
      <4>5. QED BY <4>3, <4>4
    <3>2. CASE ~IsOpen(c.stream)
      BY <1>1, <2>4, <2>5, <2>6, <2>7, <3>2, UnsentJoined
    <3>3. QED BY <3>1, <3>2
  <2>9. Quiet(sent) /\ sent \in Clients /\ sent.stream \in Streams
    BY <2>8 DEF Joined, Base, Clients
  <2>10. Calm(sent, c')
    <3>1. CASE sent.targets # {}
      BY <2>3, <2>9, <3>1, CalmElsewhere
    <3>2. CASE sent.targets = {} /\ IsOpen(sent.stream)
      <4>1. c' = [sent EXCEPT !.stream = MarkIdle(@)]
        BY <2>3, <3>2
      <4>2. IsOpen(MarkIdle(sent.stream))
        BY <2>9, <3>2 DEF MarkIdle, IsOpen, Streams
      <4>3. /\ c'.targets = sent.targets /\ c'.view = sent.view /\ c'.call = sent.call
            /\ c'.aggregator = sent.aggregator /\ IsOpen(c'.stream)
        BY <2>9, <4>1, <4>2 DEF Clients
      <4>4. QED BY <2>9, <3>2, <4>3, CalmElsewhere
    <3>3. CASE sent.targets = {} /\ ~IsOpen(sent.stream)
      <4>1. c' = IF sent.enabled THEN Becomes(sent, "unknown") ELSE sent
        BY <2>3, <3>3
      <4>2. QED BY <2>8, <2>9, <4>1, BecomesCalm, CalmElsewhere
    <3>4. QED BY <3>1, <3>2, <3>3
  <2>11. Joined(c', cache, server)
    BY <1>1, <2>8, <2>10, CalmKeepsJoined
  <2>12. QED BY <1>1, <2>11 DEF Flowing
<1>6. QED BY <1>4, <1>5

-----------------------------------------------------------------------------
(* Answers.  Told says what an answer that is no snapshot makes of what    *)
(* the aggregator knows of q.                                              *)
Told(t, u, a, q, T) ==
  IF a.query # q THEN u = t
  ELSE /\ u.due = t.due - (IF a.kind \in {"added", "removed"} THEN 1 ELSE 0)
       /\ u.changes = IF a.kind \in {"added", "removed"} /\ u.due = 0 THEN {}
                      ELSE IF a.kind = "change" /\ q \in T /\ t.due = 0
                           THEN t.changes \cup {a.change} ELSE t.changes
       /\ u.pending = IF a.kind = "change" /\ q \in T /\ t.due = 0
                      THEN t.pending \cup {a.change} ELSE t.pending

LEMMA HandlersTell ==
  ASSUME NEW k, Base(k), NEW a \in Answers, NEW r,
         \/ a.kind = "added" /\ r = HandleAdded(k, a.query)
         \/ a.kind = "removed" /\ r = HandleRemoved(k, a.query)
         \/ a.kind = "current" /\ r = HandleCurrent(k, a.query)
         \/ a.kind = "change" /\ r = HandleDocumentChange(k, a.query, a.change)
  PROVE  /\ r \in Clients /\ r.targets = k.targets /\ r.view = k.view
         /\ r.stream = k.stream /\ r.call = k.call
         /\ \A q \in Queries : Told(k.aggregator[q], r.aggregator[q], a, q, k.targets)
<1>1. /\ k \in Clients /\ k.aggregator \in [Queries -> Targets] /\ a.query \in Queries
      /\ a.kind = "change" => a.change \in Changes
  BY DEF Base, Clients, Answers
<1>2. r \in Clients
  <2>1. PICK n \in Changes : a.kind = "change" => n = a.change
    BY <1>1, BoundsAssumption DEF Changes
  <2>2. \/ r = HandleAdded(k, a.query) \/ r = HandleRemoved(k, a.query)
        \/ r = HandleCurrent(k, a.query) \/ r = HandleDocumentChange(k, a.query, n)
    BY <2>1
  <2>3. Base(r)
    BY <1>1, <2>2, TargetTold
  <2>4. QED BY <2>3 DEF Base
<1> DEFINE b == k.aggregator[a.query]
           Of(t) == [k EXCEPT !.aggregator = [k.aggregator EXCEPT ![a.query] = t]]
<1>3. b \in Targets /\ b.due \in Int /\ b.due - 0 = b.due
  BY <1>1 DEF Targets
<1>4. \E t : r = Of(t) /\ Told(b, t, a, a.query, k.targets)
  <2>1. CASE a.kind = "added"
    <3> DEFINE x == b.due - 1
               cs == IF b.due - 1 = 0 THEN {} ELSE b.changes
               t == [b EXCEPT !.due = x, !.changes = cs]
    <3>1. r = Of(t)
      BY <1>1, <2>1 DEF HandleAdded, Clients, Targets
    <3>2. t.due = x /\ t.changes = cs /\ t.pending = b.pending
      <4> HIDE DEF x, cs
      <4>1. QED BY <1>3 DEF Targets
    <3> HIDE DEF t, Of
    <3>3. Told(b, t, a, a.query, k.targets)
      BY <2>1, <3>2 DEF Told
    <3>4. QED BY <3>1, <3>3
  <2>2. CASE a.kind = "removed"
    <3> DEFINE t == IF b.due - 1 = 0 THEN RemoveTarget(b) ELSE [b EXCEPT !.due = b.due - 1]
    <3>1. r = Of(t)
      BY <1>1, <2>2 DEF HandleRemoved, Clients
    <3>2. /\ t.due = b.due - 1 /\ t.changes = IF b.due - 1 = 0 THEN {} ELSE b.changes
          /\ t.pending = b.pending
      <4>1. CASE b.due - 1 = 0
        BY <1>3, <4>1, RemoveTyped
      <4>2. CASE b.due - 1 # 0
        BY <1>3, <4>2 DEF Targets
      <4>3. QED BY <4>1, <4>2
    <3> HIDE DEF t, Of
    <3>3. Told(b, t, a, a.query, k.targets)
      BY <2>2, <3>2 DEF Told
    <3>4. QED BY <3>1, <3>3
  <2>3. r = k /\ (a.kind = "current" \/ (a.kind = "change" /\ ~(a.query \in k.targets /\ b.due = 0)))
        => r = Of(b) /\ Told(b, b, a, a.query, k.targets)
    BY <1>1, <1>3 DEF Told, Clients
  <2>4. CASE a.kind = "current" /\ r # k
    <3> DEFINE t == [b EXCEPT !.current = TRUE]
    <3>1. r = Of(t)
      BY <1>1, <2>4 DEF HandleCurrent, Clients
    <3>2. t.due = b.due /\ t.changes = b.changes /\ t.pending = b.pending
      BY <1>3 DEF Targets
    <3> HIDE DEF t, Of
    <3>3. Told(b, t, a, a.query, k.targets)
      BY <1>3, <2>4, <3>2 DEF Told
    <3>4. QED BY <3>1, <3>3
  <2>5. CASE a.kind = "change" /\ a.query \in k.targets /\ b.due = 0
    <3> DEFINE t == [b EXCEPT !.changes = b.changes \cup {a.change},
                              !.pending = b.pending \cup {a.change}]
    <3>1. r = Of(t)
      BY <1>1, <2>5 DEF HandleDocumentChange, IsActiveTarget, Clients
    <3>2. /\ t.due = b.due /\ t.changes = b.changes \cup {a.change}
          /\ t.pending = b.pending \cup {a.change}
      BY <1>3 DEF Targets
    <3> HIDE DEF t, Of
    <3>3. Told(b, t, a, a.query, k.targets)
      BY <1>3, <2>5, <3>2 DEF Told
    <3>4. QED BY <3>1, <3>3
  <2>6. CASE a.kind = "change" /\ ~(a.query \in k.targets /\ b.due = 0)
    <3>1. r = k
      BY <2>6 DEF HandleDocumentChange, IsActiveTarget
    <3>2. QED BY <2>3, <2>6, <3>1
  <2>7. QED BY <2>1, <2>2, <2>3, <2>4, <2>5, <2>6
<1>5. PICK t : r = Of(t) /\ Told(b, t, a, a.query, k.targets)
  BY <1>4
<1>6. /\ r.targets = k.targets /\ r.view = k.view /\ r.stream = k.stream /\ r.call = k.call
      /\ r.aggregator = [k.aggregator EXCEPT ![a.query] = t]
  BY <1>1, <1>5 DEF Clients
<1>7. ASSUME NEW q \in Queries
      PROVE  Told(k.aggregator[q], r.aggregator[q], a, q, k.targets)
  <2>1. CASE q = a.query
    BY <1>1, <1>5, <1>6, <2>1
  <2>2. CASE q # a.query
    BY <1>1, <1>6, <2>2 DEF Told
  <2>3. QED BY <2>1, <2>2
<1>8. QED BY <1>2, <1>6, <1>7

(* A refusal is about its own query alone.                                 *)
LEMMA RefusalTells ==
  ASSUME NEW k, Base(k), NEW p \in Queries
  PROVE  LET r == ProcessTargetError(k, p)
         IN  /\ r.stream = k.stream /\ r.call = k.call /\ r.aggregator \in [Queries -> Targets]
             /\ \A q \in Queries \ {p} :
                  /\ r.aggregator[q] = k.aggregator[q] /\ r.view[q] = k.view[q]
                  /\ q \in r.targets <=> q \in k.targets
<1>1. /\ k \in Clients /\ k.aggregator \in [Queries -> Targets] /\ k.view \in [Queries -> Views]
      /\ k.targets \subseteq Queries /\ RemoveTarget(k.aggregator[p]) \in Targets
  BY RemoveTyped DEF Base, Clients
<1>2. CASE p \in k.targets
  <2> DEFINE mine == [l \in Listeners |-> IF l \in Heard(k, p)
                                         THEN [k.listener[l] EXCEPT !.phase = "failed"]
                                         ELSE k.listener[l]]
             r == [k EXCEPT !.targets = k.targets \ {p}, !.listener = mine,
                            !.aggregator = [k.aggregator EXCEPT ![p] = RemoveTarget(k.aggregator[p])],
                            !.view = [k.view EXCEPT ![p] = NoView]]
  <2>1. ProcessTargetError(k, p) = r
    BY <1>1, <1>2 DEF ProcessTargetError, Clients
  <2> HIDE DEF mine
  <2>2. /\ r.stream = k.stream /\ r.call = k.call /\ r.targets = k.targets \ {p}
        /\ r.aggregator = [k.aggregator EXCEPT ![p] = RemoveTarget(k.aggregator[p])]
        /\ r.view = [k.view EXCEPT ![p] = NoView]
    BY <1>1 DEF Clients
  <2> HIDE DEF r
  <2>3. QED BY <1>1, <2>1, <2>2
<1>3. CASE p \notin k.targets
  BY <1>1, <1>3 DEF ProcessTargetError
<1>4. QED BY <1>2, <1>3

(* A target with no answer due gathers what comes next; one whose last     *)
(* answer comes begins where its disk ends.                                *)
LEMMA HearsMore ==
  ASSUME NEW q \in Queries, NEW a \in Answers, NEW t \in Targets, NEW u \in Targets,
         NEW stored \in [changes : SUBSET Changes, token : 0..MaxChanges],
         NEW w \in Steady, NEW v \in Steady, NEW T, NEW since \in 0..MaxChanges,
         a.kind \in {"added", "removed", "current", "change"}, Told(t, u, a, q, T),
         Gathered(t, stored), Follows(a, q, stored.token, w, v),
         q \in T /\ t.due = 0 =>
           w.on /\ w.since >= since /\ w.sent = stored.token + Cardinality(t.changes),
         a \in Closers(q) /\ u.due = 0 =>
           (a.kind = "added" <=> q \in T) /\ (q \in T => v.since >= since)
  PROVE  /\ Gathered(u, stored)
         /\ q \in T /\ u.due = 0 =>
              v.on /\ v.since >= since /\ v.sent = stored.token + Cardinality(u.changes)
         /\ u.due = t.due - (IF a \in Closers(q) THEN 1 ELSE 0)
<1>1. /\ stored.token \in Nat /\ Cardinality({}) = 0 /\ t.due \in Int /\ t.due - 0 = t.due
      /\ 1..stored.token \subseteq stored.changes
      /\ a \in Closers(q) <=> a.query = q /\ a.kind \in {"added", "removed"}
  BY FS_EmptySet, BoundsAssumption DEF Targets, Gathered, Closers, Closing
<1>2. IsFiniteSet(t.changes) /\ Cardinality(t.changes) \in Nat
  <2>1. t.changes \subseteq 1..MaxChanges
    BY DEF Targets, Changes
  <2>2. IsFiniteSet(1..MaxChanges)
    <3>1. 1 \in Int /\ MaxChanges \in Int
      BY BoundsAssumption
    <3>2. QED BY <3>1, FS_Interval
  <2>3. IsFiniteSet(t.changes)
    BY <2>1, <2>2, FS_Subset
  <2>4. QED BY <2>3, FS_CardinalityType
<1>3. u.changes = {} => Gathered(u, stored)
  <2>1. (stored.token + 1)..(stored.token + 0) = {}
    BY <1>1
  <2>2. QED BY <1>1, <2>1 DEF Gathered
<1>4. u.changes = t.changes /\ u.pending = t.pending => Gathered(u, stored)
  BY DEF Gathered
<1>5. CASE a.query # q
  <2>1. u = t /\ v = w /\ a \notin Closers(q)
    BY <1>1, <1>5 DEF Told, Follows
  <2>2. QED BY <1>1, <2>1
<1>6. CASE a.query = q /\ a.kind = "added"
  <2>1. u.due = t.due - 1 /\ u.changes = (IF u.due = 0 THEN {} ELSE t.changes)
        /\ u.pending = t.pending /\ v.on /\ v.sent = stored.token
    BY <1>6 DEF Told, Follows
  <2>2. Gathered(u, stored)
    BY <1>3, <1>4, <2>1
  <2>3. QED BY <1>1, <1>6, <2>1, <2>2
<1>7. CASE a.query = q /\ a.kind = "removed"
  <2>1. u.due = t.due - 1 /\ u.changes = (IF u.due = 0 THEN {} ELSE t.changes)
        /\ u.pending = t.pending
    BY <1>7 DEF Told
  <2>2. Gathered(u, stored)
    BY <1>3, <1>4, <2>1
  <2>3. QED BY <1>1, <1>7, <2>1, <2>2
<1>8. CASE a.query = q /\ a.kind = "current"
  <2>1. u.due = t.due /\ u.changes = t.changes /\ u.pending = t.pending /\ v = [w EXCEPT !.current = TRUE]
    BY <1>1, <1>8 DEF Told, Follows
  <2>2. v.on = w.on /\ v.since = w.since /\ v.sent = w.sent
    BY <2>1 DEF Steady, Watched
  <2>3. QED BY <1>1, <1>4, <1>8, <2>1, <2>2
<1>9. CASE a.query = q /\ a.kind = "change"
  <2>1. /\ u.due = t.due /\ a.change = w.sent + 1 /\ v = [w EXCEPT !.sent = w.sent + 1]
        /\ u.changes = IF q \in T /\ t.due = 0 THEN t.changes \cup {a.change} ELSE t.changes
        /\ u.pending = IF q \in T /\ t.due = 0 THEN t.pending \cup {a.change} ELSE t.pending
    BY <1>1, <1>9 DEF Told, Follows
  <2>2. v.on = w.on /\ v.since = w.since /\ v.sent = w.sent + 1
    BY <2>1 DEF Steady, Watched
  <2>3. CASE q \in T /\ t.due = 0
    <3> DEFINE n == Cardinality(t.changes)
    <3>1. a.change = stored.token + n + 1 /\ u.changes = t.changes \cup {stored.token + n + 1}
          /\ u.pending = t.pending \cup {stored.token + n + 1}
      BY <2>1, <2>3
    <3>2. t.changes = (stored.token + 1)..(stored.token + n)
      BY DEF Gathered
    <3>3. stored.token + n + 1 \notin t.changes
      BY <1>1, <1>2, <3>2
    <3>4. Cardinality(u.changes) = n + 1
      <4> HIDE DEF n
      <4>1. \A x : x \notin t.changes => Cardinality(t.changes \cup {x}) = Cardinality(t.changes) + 1
        BY <1>2, FS_AddElement
      <4>2. QED BY <3>1, <3>3, <4>1 DEF n
    <3>5. u.changes = (stored.token + 1)..(stored.token + (n + 1))
      BY <1>1, <1>2, <3>1, <3>2
    <3> HIDE DEF n
    <3>6. Gathered(u, stored)
      <4>1. u.changes \subseteq stored.changes \cup u.pending
        BY <3>1 DEF Gathered
      <4>2. QED BY <1>1, <3>4, <3>5, <4>1 DEF Gathered
    <3>7. v.sent = stored.token + (n + 1)
      BY <1>1, <1>2, <2>2, <2>3 DEF n
    <3>8. QED BY <1>1, <1>9, <2>1, <2>2, <2>3, <3>4, <3>6, <3>7
  <2>4. CASE ~(q \in T /\ t.due = 0)
    BY <1>1, <1>4, <1>9, <2>1, <2>4
  <2>5. QED BY <2>3, <2>4
<1>10. QED BY <1>5, <1>6, <1>7, <1>8, <1>9

(* A snapshot brings every update to the disk.  It ends what an active     *)
(* target has gathered, and its token is what the server has sent; of a    *)
(* target that is not active it says nothing.                              *)
LEMMA SnapshotParts ==
  ASSUME NEW k \in Clients, NEW tokens, RaiseWatchSnapshot(k, tokens),
         cache \in [Queries -> [changes : SUBSET Changes, token : 0..MaxChanges]]
  PROVE  /\ c'.targets = k.targets /\ c'.stream = k.stream /\ c'.call = k.call
         /\ c'.aggregator \in [Queries -> Targets]
         /\ \A q \in Queries :
              /\ c'.view[q].since = k.view[q].since
              /\ c'.aggregator[q].due = k.aggregator[q].due
              /\ cache'[q].changes = cache[q].changes \cup k.aggregator[q].pending
              /\ q \in k.targets /\ k.aggregator[q].due = 0 =>
                   c'.aggregator[q].changes = {} /\ cache'[q].token = tokens[q]
              /\ ~(q \in k.targets /\ k.aggregator[q].due = 0) =>
                   /\ c'.aggregator[q].changes = k.aggregator[q].changes
                   /\ cache'[q].token = cache[q].token
<1> DEFINE active == Active(k)
           known == [q \in Queries |->
                       [k.aggregator[q] EXCEPT !.changes = IF q \in active THEN {} ELSE @,
                                               !.pending = {}]]
           views == [q \in Queries |->
                       IF q \in active THEN [k.view[q] EXCEPT !.current = k.aggregator[q].current]
                       ELSE k.view[q]]
           seen == [k EXCEPT !.aggregator = known, !.view = views]
           disk == [q \in Queries |->
                      [changes |-> cache[q].changes \cup k.aggregator[q].pending,
                       token |-> IF q \in active THEN tokens[q] ELSE cache[q].token]]
           changed == {q \in Queries : disk[q].changes # cache[q].changes}
<1>1. k.aggregator \in [Queries -> Targets] /\ k.view \in [Queries -> Views]
  BY DEF Clients
<1>2. \A q \in Queries : q \in active <=> q \in k.targets /\ k.aggregator[q].due = 0
  BY DEF Active, IsActiveTarget
<1>3. c' = OnViewSnapshots(seen, active \cup changed, disk) /\ cache' = disk
  BY DEF RaiseWatchSnapshot
<1> HIDE DEF active
<1>4. /\ known \in [Queries -> Targets]
      /\ \A q \in Queries :
           /\ known[q].due = k.aggregator[q].due
           /\ known[q].changes = IF q \in active THEN {} ELSE k.aggregator[q].changes
  <2> DEFINE left(q) == IF q \in active THEN {} ELSE k.aggregator[q].changes
  <2>1. ASSUME NEW t \in Targets, NEW new \in SUBSET Changes
        PROVE  LET u == [t EXCEPT !.changes = new, !.pending = {}]
               IN  u \in Targets /\ u.due = t.due /\ u.changes = new
    BY DEF Targets
  <2>2. \A q \in Queries : /\ k.aggregator[q] \in Targets
                           /\ left(q) \in SUBSET Changes
    BY <1>1 DEF Targets
  <2>3. known = [q \in Queries |-> [k.aggregator[q] EXCEPT !.changes = left(q), !.pending = {}]]
    OBVIOUS
  <2> HIDE DEF left, known
  <2>4. \A q \in Queries : LET u == [k.aggregator[q] EXCEPT !.changes = left(q), !.pending = {}]
                           IN  u \in Targets /\ u.due = k.aggregator[q].due /\ u.changes = left(q)
    BY <2>1, <2>2
  <2>5. \A q \in Queries : known[q] = [k.aggregator[q] EXCEPT !.changes = left(q), !.pending = {}]
    BY <2>3
  <2>6. known \in [Queries -> Targets]
    BY <2>3, <2>4
  <2>7. QED BY <2>4, <2>5, <2>6 DEF left
<1>5. /\ views \in [Queries -> Views]
      /\ \A q \in Queries : views[q].since = k.view[q].since
  <2>1. \A q \in Queries : k.aggregator[q].current \in BOOLEAN
    BY <1>1 DEF Targets
  <2>2. QED BY <1>1, <2>1 DEF Views
<1>6. \A q \in Queries :
        /\ disk[q].changes = cache[q].changes \cup k.aggregator[q].pending
        /\ disk[q].token = IF q \in active THEN tokens[q] ELSE cache[q].token
  OBVIOUS
<1> HIDE DEF known, views, disk, changed
<1>7. /\ seen \in Clients /\ seen.targets = k.targets /\ seen.stream = k.stream
      /\ seen.call = k.call /\ seen.aggregator = known /\ seen.view = views
  BY <1>4, <1>5 DEF Clients
<1> HIDE DEF seen
<1>8. /\ c'.targets = k.targets /\ c'.stream = k.stream
      /\ c'.call = k.call /\ c'.aggregator = known /\ c'.view = views
  BY <1>3, <1>7, OnViewSnapshotsKeeps DEF SameInterest
<1>9. QED BY <1>2, <1>3, <1>4, <1>5, <1>6, <1>8

(* The disk after a snapshot: an active target's new token stands for what *)
(* was there and what was gathered; that of another target, and what it    *)
(* has gathered, still stand.                                              *)
LEMMA SnapshotJoins ==
  ASSUME NEW t \in Targets, NEW stored \in [changes : SUBSET Changes, token : 0..MaxChanges],
         Gathered(t, stored), NEW next, NEW u,
         next.changes = stored.changes \cup t.pending,
         \/ u.changes = {} /\ next.token = stored.token + Cardinality(t.changes)
         \/ u.changes = t.changes /\ next.token = stored.token
  PROVE  Gathered(u, next)
<1>1. Cardinality(t.changes) \in Nat /\ Cardinality({}) = 0 /\ stored.token \in Nat
  <2>1. t.changes \subseteq 1..MaxChanges
    BY DEF Targets, Changes
  <2>2. IsFiniteSet(1..MaxChanges)
    <3>1. 1 \in Int /\ MaxChanges \in Int
      BY BoundsAssumption
    <3>2. QED BY <3>1, FS_Interval
  <2>3. IsFiniteSet(t.changes)
    BY <2>1, <2>2, FS_Subset
  <2>4. QED BY <2>3, FS_CardinalityType, FS_EmptySet, BoundsAssumption
<1> DEFINE n == Cardinality(t.changes)
<1>2. /\ 1..stored.token \subseteq next.changes /\ t.changes \subseteq next.changes
      /\ t.changes = (stored.token + 1)..(stored.token + n)
  BY DEF Gathered
<1>3. CASE u.changes = t.changes /\ next.token = stored.token
  BY <1>2, <1>3 DEF Gathered
<1>4. CASE u.changes = {} /\ next.token = stored.token + n
  <2> HIDE DEF n
  <2>1. 1..(stored.token + n) = (1..stored.token) \cup ((stored.token + 1)..(stored.token + n))
    BY <1>1 DEF n
  <2>2. 1..next.token \subseteq next.changes /\ next.token \in Nat
    BY <1>1, <1>2, <1>4, <2>1 DEF n
  <2>3. (next.token + 1)..(next.token + 0) = {}
    BY <2>2
  <2>4. QED BY <1>1, <1>4, <2>2, <2>3 DEF Gathered
<1>5. QED BY <1>3, <1>4

(* The client reads an answer.                                             *)
LEMMA AnswerFlows ==
  ASSUME TypeOK, Sound(c), Flowing, OnWatchStreamChange
  PROVE  Flowing'
<1> DEFINE a == Head(c.call.answers)
           read == [c EXCEPT !.call.answers = Tail(@)]
           k == Becomes(read, "online")
<1>1. /\ c \in Clients /\ c.call.answers \in Seq(Answers) /\ c.call.answers # <<>>
      /\ Base(c) /\ CallbacksFindTheirState(c.stream) /\ c.call \in Calls
      /\ c.aggregator \in [Queries -> Targets] /\ c.view \in [Queries -> Views]
      /\ cache \in [Queries -> [changes : SUBSET Changes, token : 0..MaxChanges]]
      /\ server' = server
  BY FlowTypes DEF OnWatchStreamChange
<1>2. a \in Answers /\ Tail(c.call.answers) \in Seq(Answers)
  BY <1>1
<1>3. IsOpen(c.stream)
  BY <1>1 DEF Flowing, Joined, Quiet, NoCall
<1>4. /\ read \in Clients /\ read.targets = c.targets /\ read.view = c.view
      /\ read.listener = c.listener /\ read.online = c.online /\ read.stream = c.stream
      /\ read.aggregator = c.aggregator /\ read.call \in Calls
      /\ read.call.answers = Tail(c.call.answers) /\ read.call.requests = c.call.requests
      /\ read.call.watched = c.call.watched /\ read.call.broken = c.call.broken
  BY <1>1, <1>2 DEF Clients, Calls
<1>5. \/ a.kind = "added" /\ c' = HandleAdded(k, a.query) /\ UNCHANGED cache
      \/ a.kind = "removed" /\ c' = HandleRemoved(k, a.query) /\ UNCHANGED cache
      \/ a.kind = "current" /\ c' = HandleCurrent(k, a.query) /\ UNCHANGED cache
      \/ a.kind = "change" /\ c' = HandleDocumentChange(k, a.query, a.change) /\ UNCHANGED cache
      \/ a.kind = "refused" /\ c' = ProcessTargetError(k, a.query) /\ UNCHANGED cache
      \/ a.kind = "snapshot" /\ RaiseWatchSnapshot(k, a.tokens)
  BY <1>2 DEF OnWatchStreamChange, Answers
<1> HIDE DEF a, read
<1>6. Base(read) /\ Quiet(read)
  BY <1>1, <1>3, <1>4, SameView DEF Quiet
<1>7. /\ Base(k) /\ k \in Clients /\ Dimmed(c, k) /\ k.stream = c.stream
      /\ k.call = read.call /\ k.aggregator = c.aggregator /\ k.targets = c.targets
  <2>1. /\ Base(k) /\ Calm(read, k) /\ k.stream = c.stream
        /\ k.call = read.call /\ k.aggregator = c.aggregator
    BY <1>4, <1>6, BecomesKeeps, BecomesCalm
  <2>2. QED BY <1>4, <2>1 DEF Base, Calm, Dimmed
<1> HIDE DEF k
<1>8. ASSUME NEW q \in Queries \ Refusable
      PROVE  /\ Line(q, c.call, c.aggregator[q], c.targets, c.view[q].since, cache[q].token)
             /\ Gathered(c.aggregator[q], cache[q]) /\ Timely(c.view[q], server[q])
             /\ c.aggregator[q] \in Targets /\ c.view[q].since \in 0..MaxChanges
             /\ cache[q] \in [changes : SUBSET Changes, token : 0..MaxChanges]
             /\ k.view[q].since = c.view[q].since /\ (k.view[q].current => c.view[q].current)
  BY <1>1, <1>3, <1>7 DEF Flowing, Joined, Dimmed, Views
<1>9. ASSUME NEW q \in Queries \ Refusable, NEW u \in Targets,
             u.due = c.aggregator[q].due - (IF a \in Closers(q) THEN 1 ELSE 0)
      PROVE  /\ a.kind = "refused" => a.query # q
             /\ \E w, v \in Steady :
                  /\ Follows(a, q, cache[q].token, w, v)
                  /\ q \in c.targets /\ c.aggregator[q].due = 0 =>
                       /\ w.on /\ w.since >= c.view[q].since
                       /\ w.sent = cache[q].token + Cardinality(c.aggregator[q].changes)
                  /\ a \in Closers(q) /\ u.due = 0 =>
                       /\ a.kind = "added" <=> q \in c.targets
                       /\ q \in c.targets => v.since >= c.view[q].since
                  /\ \A other :
                       /\ other # cache[q].token => c.aggregator[q].due = 0
                       /\ q \in c.targets /\ u.due = 0 =>
                            /\ v.on /\ v.since >= c.view[q].since
                            /\ v.sent = other + Cardinality(u.changes)
                       => Line(q, read.call, u, c.targets, c.view[q].since, other)
  <2> DEFINE t == c.aggregator[q]
             s == c.view[q].since
             token == cache[q].token
  <2>1. /\ c.call \in Calls /\ read.call \in Calls /\ t \in Targets
        /\ Line(q, c.call, t, c.targets, s, token) /\ c.call.answers # <<>>
        /\ read.call.answers = Tail(c.call.answers) /\ read.call.requests = c.call.requests
        /\ read.call.watched = c.call.watched /\ read.call.broken = c.call.broken
        /\ u.due = t.due - (IF Head(c.call.answers) \in Closers(q) THEN 1 ELSE 0)
    BY <1>1, <1>4, <1>8, <1>9 DEF a
  <2> HIDE DEF t, s, token
  <2>2. /\ Head(c.call.answers).kind = "refused" => Head(c.call.answers).query # q
        /\ \E w, v \in Steady :
              /\ Follows(Head(c.call.answers), q, token, w, v)
              /\ q \in c.targets /\ t.due = 0 =>
                   w.on /\ w.since >= s /\ w.sent = token + Cardinality(t.changes)
              /\ Head(c.call.answers) \in Closers(q) /\ u.due = 0 =>
                   /\ Head(c.call.answers).kind = "added" <=> q \in c.targets
                   /\ q \in c.targets => v.since >= s
              /\ \A other :
                   /\ other # token => t.due = 0
                   /\ q \in c.targets /\ u.due = 0 =>
                        v.on /\ v.since >= s /\ v.sent = other + Cardinality(u.changes)
                   => Line(q, read.call, u, c.targets, s, other)
    BY <2>1, LineRead
  <2>3. QED BY <2>2 DEF a, t, s, token
<1>10. CASE a.kind = "refused"
  <2>1. /\ c' = ProcessTargetError(k, a.query) /\ cache' = cache /\ a.query \in Queries
    BY <1>2, <1>5, <1>10 DEF Answers
  <2>2. /\ c'.stream = c.stream /\ c'.call = read.call /\ c'.aggregator \in [Queries -> Targets]
        /\ \A q \in Queries \ {a.query} :
             /\ c'.aggregator[q] = c.aggregator[q] /\ c'.view[q] = k.view[q]
             /\ q \in c'.targets <=> q \in c.targets
    BY <1>7, <2>1, RefusalTells
  <2>3. ASSUME NEW q \in Queries \ Refusable
        PROVE  /\ Gathered(c'.aggregator[q], cache'[q])
               /\ Timely(c'.view[q], server'[q])
               /\ Line(q, c'.call, c'.aggregator[q], c'.targets, c'.view[q].since, cache'[q].token)
    <3> DEFINE t == c.aggregator[q]
               s == c.view[q].since
    <3>1. /\ t \in Targets /\ Gathered(t, cache[q]) /\ Timely(c.view[q], server[q])
          /\ k.view[q].since = s /\ (k.view[q].current => c.view[q].current)
      BY <1>8
    <3>2. t.due = t.due - (IF a \in Closers(q) THEN 1 ELSE 0) \/ a.query = q
      <4>1. t.due \in Int /\ t.due - 0 = t.due
        BY <3>1 DEF Targets
      <4>2. a \in Closers(q) => a.query = q
        BY DEF Closers
      <4>3. QED BY <4>1, <4>2
    <3>3. a.query # q
      <4> DEFINE u == [t EXCEPT !.due = @ - (IF a \in Closers(q) THEN 1 ELSE 0)]
      <4>1. u \in Targets /\ u.due = t.due - (IF a \in Closers(q) THEN 1 ELSE 0)
        BY <3>1 DEF Targets
      <4> HIDE DEF u
      <4>2. QED BY <1>9, <1>10, <4>1
    <3>4. PICK w \in Steady, v \in Steady :
            /\ Follows(a, q, cache[q].token, w, v)
            /\ q \in c.targets /\ t.due = 0 =>
                 w.on /\ w.since >= s /\ w.sent = cache[q].token + Cardinality(t.changes)
            /\ \A other :
                 /\ other # cache[q].token => t.due = 0
                 /\ q \in c.targets /\ t.due = 0 =>
                      v.on /\ v.since >= s /\ v.sent = other + Cardinality(t.changes)
                 => Line(q, read.call, t, c.targets, s, other)
      BY <1>9, <3>1, <3>2, <3>3
    <3> HIDE DEF t, s
    <3>5. v = w
      BY <1>10, <3>3, <3>4 DEF Follows
    <3>6. Line(q, read.call, t, c.targets, s, cache[q].token)
      BY <3>4, <3>5
    <3>7. /\ c'.aggregator[q] = t /\ c'.view[q] = k.view[q] /\ c'.view[q].since = s
          /\ q \in c'.targets <=> q \in c.targets
      BY <2>2, <3>1, <3>3 DEF t, s
    <3>8. Line(q, read.call, t, c'.targets, s, cache[q].token)
      BY <1>4, <3>1, <3>6, <3>7, LineSame
    <3>9. Timely(c'.view[q], server'[q])
      BY <1>1, <2>1, <3>1, <3>7 DEF Timely, s
    <3>10. QED BY <2>1, <2>2, <3>1, <3>7, <3>8, <3>9
  <2>4. Quiet(c')
    BY <1>3, <2>2 DEF Quiet
  <2>5. QED BY <2>3, <2>4 DEF Flowing, Joined
<1>11. CASE a.kind \notin {"snapshot", "refused"}
  <2>1. /\ a.kind \in {"added", "removed", "current", "change"} /\ cache' = cache
        /\ c'.targets = c.targets /\ c'.view = k.view /\ c'.stream = c.stream
        /\ c'.call = read.call /\ c' \in Clients
        /\ \A q \in Queries : Told(c.aggregator[q], c'.aggregator[q], a, q, c.targets)
    BY <1>2, <1>5, <1>7, <1>11, HandlersTell
  <2>2. ASSUME NEW q \in Queries \ Refusable
        PROVE  /\ Gathered(c'.aggregator[q], cache[q])
               /\ Line(q, c'.call, c'.aggregator[q], c.targets, c.view[q].since, cache[q].token)
    <3> DEFINE t == c.aggregator[q]
               u == c'.aggregator[q]
               s == c.view[q].since
    <3>1. /\ u \in Targets /\ t \in Targets /\ Told(t, u, a, q, c.targets) /\ s \in 0..MaxChanges
          /\ cache[q] \in [changes : SUBSET Changes, token : 0..MaxChanges]
          /\ Gathered(t, cache[q]) /\ Line(q, c.call, t, c.targets, s, cache[q].token)
      BY <1>8, <2>1 DEF Clients
    <3> HIDE DEF t, u, s
    <3>2. u.due = t.due - (IF a \in Closers(q) THEN 1 ELSE 0)
      <4>1. t.due \in Int /\ t.due - 0 = t.due
        BY <3>1 DEF Targets
      <4>2. a \in Closers(q) <=> a.query = q /\ a.kind \in {"added", "removed"}
        BY <1>2, <2>1 DEF Closers, Closing
      <4>3. CASE a.query = q /\ a.kind \in {"added", "removed"}
        BY <3>1, <4>2, <4>3 DEF Told
      <4>4. CASE ~(a.query = q /\ a.kind \in {"added", "removed"})
        <5>1. u.due = t.due
          BY <2>1, <3>1, <4>1, <4>4 DEF Told
        <5>2. QED BY <4>1, <4>2, <4>4, <5>1
      <4>5. QED BY <4>3, <4>4
    <3>3. PICK w \in Steady, v \in Steady :
            /\ Follows(a, q, cache[q].token, w, v)
            /\ q \in c.targets /\ t.due = 0 =>
                 w.on /\ w.since >= s /\ w.sent = cache[q].token + Cardinality(t.changes)
            /\ a \in Closers(q) /\ u.due = 0 =>
                 (a.kind = "added" <=> q \in c.targets) /\ (q \in c.targets => v.since >= s)
            /\ \A other :
                 /\ other # cache[q].token => t.due = 0
                 /\ q \in c.targets /\ u.due = 0 =>
                      v.on /\ v.since >= s /\ v.sent = other + Cardinality(u.changes)
                 => Line(q, read.call, u, c.targets, s, other)
      BY <1>9, <3>1, <3>2 DEF t, u, s
    <3>4. /\ Gathered(u, cache[q])
          /\ q \in c.targets /\ u.due = 0 =>
               v.on /\ v.since >= s /\ v.sent = cache[q].token + Cardinality(u.changes)
      BY <1>2, <2>1, <3>1, <3>3, HearsMore
    <3>5. Line(q, read.call, u, c.targets, s, cache[q].token)
      BY <3>3, <3>4
    <3>6. QED BY <2>1, <3>4, <3>5 DEF u, s
  <2>3. \A q \in Queries \ Refusable :
          Timely(c'.view[q], server[q]) /\ c'.view[q].since = c.view[q].since
    BY <1>8, <2>1 DEF Timely
  <2>4. Quiet(c')
    BY <1>3, <2>1 DEF Quiet
  <2>5. QED BY <1>1, <2>1, <2>2, <2>3, <2>4 DEF Flowing, Joined
<1>12. CASE a.kind = "snapshot"
  <2>1. /\ c'.targets = c.targets /\ c'.stream = c.stream /\ c'.call = read.call
        /\ c'.aggregator \in [Queries -> Targets]
        /\ \A q \in Queries :
             /\ c'.view[q].since = k.view[q].since
             /\ c'.aggregator[q].due = c.aggregator[q].due
             /\ cache'[q].changes = cache[q].changes \cup c.aggregator[q].pending
             /\ q \in c.targets /\ c.aggregator[q].due = 0 =>
                  c'.aggregator[q].changes = {} /\ cache'[q].token = a.tokens[q]
             /\ ~(q \in c.targets /\ c.aggregator[q].due = 0) =>
                  /\ c'.aggregator[q].changes = c.aggregator[q].changes
                  /\ cache'[q].token = cache[q].token
    <3>1. RaiseWatchSnapshot(k, a.tokens)
      BY <1>5, <1>12
    <3>2. QED BY <1>1, <1>7, <3>1, SnapshotParts
  <2>2. ASSUME NEW q \in Queries \ Refusable
        PROVE  /\ Gathered(c'.aggregator[q], cache'[q])
               /\ Timely(c'.view[q], server[q])
               /\ Line(q, c'.call, c'.aggregator[q], c.targets, c.view[q].since, cache'[q].token)
    <3> DEFINE t == c.aggregator[q]
               u == c'.aggregator[q]
               s == c.view[q].since
    <3>1. /\ u \in Targets /\ t \in Targets /\ s \in 0..MaxChanges
          /\ cache[q] \in [changes : SUBSET Changes, token : 0..MaxChanges]
          /\ Gathered(t, cache[q]) /\ Line(q, c.call, t, c.targets, s, cache[q].token)
          /\ c'.view[q].since = s /\ s <= server[q]
      BY <1>8, <2>1 DEF Timely
    <3>2. a \notin Closers(q) /\ u.due = t.due /\ t.due \in Int
      BY <1>8, <1>12, <2>1 DEF Closers, Closing, Targets
    <3> HIDE DEF t, u, s
    <3>3. u.due = t.due - (IF a \in Closers(q) THEN 1 ELSE 0)
      BY <3>2
    <3>4. PICK w \in Steady, v \in Steady :
            /\ Follows(a, q, cache[q].token, w, v)
            /\ q \in c.targets /\ t.due = 0 =>
                 w.on /\ w.since >= s /\ w.sent = cache[q].token + Cardinality(t.changes)
            /\ \A other :
                 /\ other # cache[q].token => t.due = 0
                 /\ q \in c.targets /\ u.due = 0 =>
                      v.on /\ v.since >= s /\ v.sent = other + Cardinality(u.changes)
                 => Line(q, read.call, u, c.targets, s, other)
      BY <1>9, <3>1, <3>3 DEF t, u, s
    <3>5. v = w /\ a.tokens[q] = w.sent /\ w \in Watched
      BY <1>12, <3>4 DEF Follows, Steady
    <3>6. CASE q \in c.targets /\ t.due = 0
      <4>1. /\ q \in c.targets /\ t.due = 0 /\ u.changes = {} /\ cache'[q].token = w.sent
            /\ cache'[q].changes = cache[q].changes \cup t.pending
        BY <2>1, <3>5, <3>6 DEF t, u
      <4>2. w.on /\ w.since >= s /\ w.sent = cache[q].token + Cardinality(t.changes)
        BY <3>4, <4>1
      <4>3. Gathered(u, cache'[q])
        BY <3>1, <4>1, <4>2, SnapshotJoins
      <4>4. w.sent \in Nat /\ w.sent + Cardinality({}) = w.sent
        BY <3>5, BoundsAssumption, FS_EmptySet DEF Watched
      <4>5. Line(q, read.call, u, c.targets, s, w.sent)
        BY <3>4, <3>5, <4>1, <4>2, <4>4
      <4>6. Timely(c'.view[q], server[q])
        BY <3>1 DEF Timely
      <4>7. QED BY <2>1, <4>1, <4>3, <4>5, <4>6 DEF u, s
    <3>7. CASE ~(q \in c.targets /\ t.due = 0)
      <4>1. /\ u.changes = t.changes /\ cache'[q].token = cache[q].token
            /\ cache'[q].changes = cache[q].changes \cup t.pending
            /\ ~(q \in c.targets /\ u.due = 0)
        BY <2>1, <3>2, <3>7 DEF t, u
      <4>2. Line(q, read.call, u, c.targets, s, cache[q].token)
        BY <3>4, <4>1
      <4>3. Gathered(u, cache'[q])
        BY <3>1, <4>1, SnapshotJoins
      <4>4. Timely(c'.view[q], server[q])
        BY <3>1 DEF Timely
      <4>5. QED BY <2>1, <3>1, <4>1, <4>2, <4>3, <4>4 DEF u, s
    <3>8. QED BY <3>6, <3>7
  <2>3. Quiet(c')
    BY <1>3, <2>1 DEF Quiet
  <2>4. \A q \in Queries \ Refusable : c'.view[q].since = c.view[q].since
    BY <1>8, <2>1
  <2>5. QED BY <1>1, <2>1, <2>2, <2>3, <2>4 DEF Flowing, Joined
<1>13. QED BY <1>10, <1>11, <1>12

-----------------------------------------------------------------------------
(* The server and the network act on an open stream's call alone.          *)
LEMMA OnCall ==
  ASSUME Flowing, c.call # NoCall
  PROVE  /\ IsOpen(c.stream)
         /\ \A q \in Queries \ Refusable :
              Line(q, c.call, c.aggregator[q], c.targets, c.view[q].since, cache[q].token)
BY DEF Flowing, Joined, Quiet

LEMMA CallFlows ==
  ASSUME TypeOK, Sound(c), Flowing, c.call # NoCall, UNCHANGED <<server, cache>>,
         NEW d \in Calls, c' = [c EXCEPT !.call = d],
         \A q \in Queries \ Refusable :
           Line(q, d, c.aggregator[q], c.targets, c.view[q].since, cache[q].token)
  PROVE  Flowing'
<1>1. c \in Clients /\ IsOpen(c.stream)
  BY FlowTypes, OnCall
<1>2. /\ c'.call = d /\ c'.stream = c.stream /\ c'.aggregator = c.aggregator
      /\ c'.targets = c.targets /\ c'.view = c.view
  BY <1>1 DEF Clients
<1>3. Quiet(c')
  BY <1>1, <1>2 DEF Quiet
<1>4. ASSUME NEW q \in Queries \ Refusable
      PROVE  /\ Gathered(c'.aggregator[q], cache'[q])
             /\ Timely(c'.view[q], server'[q])
             /\ Line(q, c'.call, c'.aggregator[q], c'.targets, c'.view[q].since, cache'[q].token)
  BY <1>2 DEF Flowing, Joined
<1>5. QED BY <1>3, <1>4 DEF Flowing, Joined

(* A request is refused: of the other queries nothing is said.             *)
Refuses ==
  LET r == Head(c.call.requests)
  IN  /\ r.kind = "watch" /\ r.query \in Refusable
      /\ c' = [c EXCEPT !.call =
           [c.call EXCEPT !.requests = Tail(@),
                          !.answers = Append(@, [kind |-> "refused", query |-> r.query])]]

LEMMA RefusesFlows ==
  ASSUME TypeOK, Sound(c), Flowing, c.call.requests # <<>>, Refuses, UNCHANGED <<server, cache>>
  PROVE  Flowing'
<1> DEFINE r == Head(c.call.requests)
           a == [kind |-> "refused", query |-> r.query]
           left == Tail(c.call.requests)
           said == Append(c.call.answers, a)
           mid == [c.call EXCEPT !.requests = left]
           d == [c.call EXCEPT !.requests = left, !.answers = said]
<1>1. /\ c \in Clients /\ c.call \in Calls /\ c.call.requests \in Seq(Requests)
      /\ c.call.answers \in Seq(Answers) /\ c.call.broken \in BOOLEAN
      /\ c.aggregator \in [Queries -> Targets]
  BY FlowTypes
<1>2. r \in Requests /\ left \in Seq(Requests)
  BY <1>1
<1>3. a \in Answers /\ a.query \in Refusable /\ a.kind = "refused"
  BY <1>2 DEF Refuses, Requests, Answers
<1>4. said \in Seq(Answers)
  BY <1>1, <1>3
<1>5. c' = [c EXCEPT !.call = d]
  BY <1>1 DEF Refuses, Calls
<1> HIDE DEF left, said
<1>6. /\ mid \in Calls /\ mid.requests = left /\ mid.answers = c.call.answers
      /\ mid.watched = c.call.watched /\ mid.broken = c.call.broken
      /\ d \in Calls /\ d.requests = left /\ d.answers = said
      /\ d.watched = c.call.watched /\ d.broken = c.call.broken
  BY <1>1, <1>2, <1>4 DEF Calls
<1> HIDE DEF mid, d
<1>7. c.call # NoCall
  BY DEF NoCall
<1>8. ASSUME NEW q \in Queries \ Refusable
      PROVE  Line(q, d, c.aggregator[q], c.targets, c.view[q].since, cache[q].token)
  <2>1. /\ Line(q, c.call, c.aggregator[q], c.targets, c.view[q].since, cache[q].token)
        /\ c.aggregator[q] \in Targets
    BY <1>1, <1>7, OnCall
  <2>2. ~c.call.broken
    BY <1>1, <2>1 DEF Line, Counted
  <2>3. a.query # q /\ Head(c.call.requests).query # q
    BY <1>3
  <2>4. Line(q, mid, c.aggregator[q], c.targets, c.view[q].since, cache[q].token)
    BY <1>1, <1>6, <2>1, <2>3, LineTakenElsewhere DEF left
  <2>5. /\ a \notin Closers(q) /\ Follows(a, q, cache[q].token, mid.watched[q], d.watched[q])
    BY <1>3, <1>6, <2>3 DEF Closers, Follows
  <2>6. QED BY <1>1, <1>3, <1>6, <2>1, <2>2, <2>4, <2>5, LineAnswered DEF said
<1>9. QED BY <1>5, <1>6, <1>7, <1>8, CallFlows

(* A request is granted.                                                   *)
LEMMA GrantsFlows ==
  ASSUME TypeOK, Sound(c), Flowing, ServerTakes, ~Refuses
  PROVE  Flowing'
<1> DEFINE r == Head(c.call.requests)
           kind == IF r.kind = "watch" THEN "added" ELSE "removed"
           a == [kind |-> kind, query |-> r.query]
           w == IF r.kind = "watch"
                THEN [on |-> TRUE, sent |-> r.token, since |-> server[r.query], current |-> FALSE]
                ELSE Unwatched
           mid == [c.call EXCEPT !.requests = Tail(@)]
           d == [mid EXCEPT !.answers = Append(c.call.answers, a),
                            !.watched = [c.call.watched EXCEPT ![r.query] = w],
                            !.news = r.kind = "watch" \/ c.call.news]
<1>1. /\ c \in Clients /\ c.call \in Calls /\ c.call.requests \in Seq(Requests)
      /\ c.call.answers \in Seq(Answers) /\ c.call.watched \in [Queries -> Watched]
      /\ c.aggregator \in [Queries -> Targets] /\ c.view \in [Queries -> Views]
      /\ server \in [Queries -> 0..MaxChanges] /\ c.call.news \in BOOLEAN
      /\ c.call.requests # <<>> /\ UNCHANGED <<server, cache>>
  BY FlowTypes DEF ServerTakes
<1>2. r \in Requests /\ Tail(c.call.requests) \in Seq(Requests)
  BY <1>1
<1>3. /\ r.query \in Queries /\ r.kind \in {"watch", "unwatch"}
      /\ r.kind = "watch" => r.token \in 0..MaxChanges
  BY <1>2 DEF Requests
<1>4. a \in Answers
  BY <1>3 DEF Answers
<1>5. w \in Watched /\ w \in Steady
  <2>1. server[r.query] \in 0..MaxChanges
    BY <1>1, <1>3
  <2>2. w \in Watched /\ ~w.current
    BY <1>3, <2>1, BoundsAssumption DEF Watched, Unwatched
  <2>3. QED BY <2>2 DEF Steady
<1>6. c.call # NoCall
  BY <1>1 DEF NoCall
<1>7. c' = [c EXCEPT !.call = d]
  <2>1. CASE r.kind = "watch"
    <3> DEFINE x == [kind |-> "added", query |-> r.query]
               y == [on |-> TRUE, sent |-> r.token, since |-> server[r.query], current |-> FALSE]
    <3>1. c' = [c EXCEPT !.call = [mid EXCEPT !.answers = Append(@, x),
                                              !.watched[r.query] = y, !.news = TRUE]]
      <4>1. ~(r.query \in Refusable /\ c' = [c EXCEPT !.call =
                [mid EXCEPT !.answers = Append(@, [kind |-> "refused", query |-> r.query])]])
        BY <1>1, <2>1 DEF Refuses, Calls
      <4>2. QED BY <2>1, <4>1 DEF ServerTakes
    <3>2. a = x /\ w = y /\ (r.kind = "watch" \/ c.call.news) = TRUE
      BY <2>1
    <3>3. mid.answers = c.call.answers /\ mid.watched = c.call.watched
      BY <1>1 DEF Calls
    <3> HIDE DEF x, y, a, w, r, mid
    <3>4. QED BY <3>1, <3>2, <3>3
  <2>2. CASE r.kind = "unwatch"
    <3> DEFINE x == [kind |-> "removed", query |-> r.query]
    <3>1. c' = [c EXCEPT !.call = [mid EXCEPT !.answers = Append(@, x),
                                              !.watched[r.query] = Unwatched]]
      BY <2>2 DEF ServerTakes
    <3>2. a = x /\ w = Unwatched /\ (r.kind = "watch" \/ c.call.news) = c.call.news
      BY <1>1, <2>2
    <3>3. /\ mid.answers = c.call.answers /\ mid.watched = c.call.watched
          /\ mid.news = c.call.news /\ mid \in Calls
      BY <1>1, <1>2 DEF Calls
    <3> HIDE DEF x, a, w, r, mid
    <3>4. QED BY <3>1, <3>2, <3>3 DEF Calls
  <2>3. QED BY <1>3, <2>1, <2>2
<1>8. /\ mid \in Calls /\ mid.requests = Tail(c.call.requests) /\ mid.answers = c.call.answers
      /\ mid.watched = c.call.watched /\ mid.broken = c.call.broken
  BY <1>1, <1>2 DEF Calls
<1> HIDE DEF a, w, r, kind
<1>9. /\ d \in Calls /\ d.requests = Tail(c.call.requests)
      /\ d.answers = Append(c.call.answers, a) /\ d.broken = c.call.broken
      /\ d.watched[r.query] = w
      /\ \A q \in Queries : q # r.query => d.watched[q] = c.call.watched[q]
  <2> DEFINE answers == Append(c.call.answers, a)
             watched == [c.call.watched EXCEPT ![r.query] = w]
             news == r.kind = "watch" \/ c.call.news
  <2>1. answers \in Seq(Answers) /\ news \in BOOLEAN
    BY <1>1, <1>4
  <2>2. /\ watched \in [Queries -> Watched] /\ watched[r.query] = w
        /\ \A q \in Queries : q # r.query => watched[q] = c.call.watched[q]
    BY <1>1, <1>3, <1>5
  <2> HIDE DEF answers, watched, news, mid
  <2>3. d = [mid EXCEPT !.answers = answers, !.watched = watched, !.news = news]
    BY DEF answers, watched, news
  <2> HIDE DEF d
  <2>4. d \in Calls /\ d.requests = mid.requests /\ d.answers = answers
        /\ d.broken = mid.broken /\ d.watched = watched
    BY <1>8, <2>1, <2>2, <2>3 DEF Calls
  <2>5. QED BY <1>8, <2>2, <2>4 DEF answers
<1> HIDE DEF d, mid
<1>10. ASSUME NEW q \in Queries \ Refusable
       PROVE  Line(q, d, c.aggregator[q], c.targets, c.view[q].since, cache[q].token)
  <2> DEFINE t == c.aggregator[q]
             s == c.view[q].since
             token == cache[q].token
  <2>1. Line(q, c.call, t, c.targets, s, token) /\ t \in Targets /\ s \in 0..MaxChanges
        /\ s <= server[q] /\ c.call \in Calls
    BY <1>1, <1>6, OnCall DEF Flowing, Joined, Timely, Views
  <2> HIDE DEF t, s, token
  <2>2. ~c.call.broken
    BY <1>1, <2>1 DEF Line, Counted
  <2>3. CASE r.query = q
    <3>1. a \in Answers /\ a.query = q /\ a.kind = IF r.kind = "watch" THEN "added" ELSE "removed"
      BY <1>4, <2>3 DEF a, kind
    <3>2. d.watched[q] = w /\ w \in Steady
      BY <1>5, <1>9, <2>3
    <3>3. r.kind = "watch" => w.on /\ w.sent = r.token /\ ~w.current /\ w.since >= s
      BY <1>1, <2>1, <2>3 DEF w
    <3>4. r.kind # "watch" => ~w.on
      BY DEF w, Unwatched
    <3>5. /\ d \in Calls /\ d.requests = Tail(c.call.requests) /\ ~d.broken
          /\ d.answers = Append(c.call.answers, a) /\ c.call.requests # <<>>
          /\ Head(c.call.requests).query = q /\ d.watched[q] \in Steady
          /\ a.kind = IF Head(c.call.requests).kind = "watch" THEN "added" ELSE "removed"
          /\ Head(c.call.requests).kind = "watch" =>
               /\ d.watched[q].on /\ d.watched[q].sent = Head(c.call.requests).token
               /\ ~d.watched[q].current /\ d.watched[q].since >= s
          /\ Head(c.call.requests).kind # "watch" => ~d.watched[q].on
      BY <1>1, <1>9, <2>2, <2>3, <3>1, <3>2, <3>3, <3>4 DEF r
    <3>6. Line(q, d, t, c.targets, s, token)
      BY <2>1, <2>2, <3>1, <3>5, LineTaken
    <3>7. QED BY <3>6 DEF t, s, token
  <2>4. CASE r.query # q
    <3>1. /\ mid \in Calls /\ mid.answers = c.call.answers /\ mid.watched = c.call.watched
          /\ mid.broken = c.call.broken /\ mid.requests = Tail(c.call.requests)
          /\ c.call.requests # <<>> /\ Head(c.call.requests).query # q
      BY <1>1, <1>8, <2>4 DEF r
    <3>2. Line(q, mid, t, c.targets, s, token)
      BY <2>1, <3>1, LineTakenElsewhere
    <3>3. a.query # q /\ a.kind \in {"added", "removed"} /\ a \in Answers
      BY <1>4, <2>4 DEF a, kind
    <3>4. a \notin Closers(q) /\ d.watched[q] = mid.watched[q]
      BY <1>8, <1>9, <2>4, <3>3 DEF Closers
    <3>5. Follows(a, q, token, mid.watched[q], d.watched[q])
      BY <3>3, <3>4 DEF Follows
    <3>6. /\ d \in Calls /\ ~mid.broken /\ ~d.broken /\ d.requests = mid.requests
          /\ d.answers = Append(mid.answers, a)
          /\ mid.watched[q] \in Steady => d.watched[q] \in Steady
      BY <1>8, <1>9, <2>2, <3>4
    <3>7. Line(q, d, t, c.targets, s, token)
      BY <2>1, <3>1, <3>2, <3>3, <3>4, <3>5, <3>6, LineAnswered
    <3>8. QED BY <3>7 DEF t, s, token
  <2>5. QED BY <2>3, <2>4
<1>11. QED BY <1>1, <1>6, <1>7, <1>9, <1>10, CallFlows

LEMMA TakesFlows ==
  ASSUME TypeOK, Sound(c), Flowing, ServerTakes
  PROVE  Flowing'
<1>1. c.call.requests # <<>> /\ UNCHANGED <<server, cache>>
  BY DEF ServerTakes
<1>2. QED BY <1>1, RefusesFlows, GrantsFlows

(* The server says something of its own accord.                            *)
LEMMA SaysFlows ==
  ASSUME TypeOK, Sound(c), Flowing, c.call # NoCall, UNCHANGED <<server, cache>>, ~c.call.broken,
         NEW a \in Answers, NEW d \in Calls, c' = [c EXCEPT !.call = d],
         d.requests = c.call.requests, d.answers = Append(c.call.answers, a), ~d.broken,
         a.kind \notin Closing,
         \A q \in Queries :
           /\ c.call.watched[q] \in Steady => d.watched[q] \in Steady
           /\ Follows(a, q, cache[q].token, c.call.watched[q], d.watched[q])
  PROVE  Flowing'
<1>1. c.call \in Calls /\ c.aggregator \in [Queries -> Targets]
  BY FlowTypes
<1>2. ASSUME NEW q \in Queries \ Refusable
      PROVE  Line(q, d, c.aggregator[q], c.targets, c.view[q].since, cache[q].token)
  <2>1. /\ Line(q, c.call, c.aggregator[q], c.targets, c.view[q].since, cache[q].token)
        /\ a \notin Closers(q) /\ c.aggregator[q] \in Targets
    BY <1>1, OnCall DEF Closers
  <2>2. QED BY <1>1, <2>1, LineAnswered
<1>3. QED BY <1>2, CallFlows

LEMMA SendsFlows ==
  ASSUME TypeOK, Sound(c), Flowing,
         \/ ServerSendsSnapshot
         \/ \E q \in Queries : ServerSendsChange(q) \/ ServerMarksCurrent(q)
  PROVE  Flowing'
<1>1. /\ c \in Clients /\ c.call \in Calls /\ server \in [Queries -> 0..MaxChanges]
      /\ c.call.watched \in [Queries -> Watched] /\ c.call.answers \in Seq(Answers)
      /\ UNCHANGED <<server, cache>>
  BY FlowTypes DEF ServerSendsSnapshot, ServerSendsChange, ServerMarksCurrent
<1>2. CASE ServerSendsSnapshot
  <2> DEFINE a == [kind |-> "snapshot", tokens |-> [q \in Queries |-> c.call.watched[q].sent]]
             answers == Append(c.call.answers, a)
             d == [c.call EXCEPT !.answers = answers, !.news = FALSE]
  <2>1. a \in Answers
    <3>1. \A q \in Queries : c.call.watched[q].sent \in 0..MaxChanges
      BY <1>1 DEF Watched
    <3>2. QED BY <3>1 DEF Answers
  <2>2. c' = [c EXCEPT !.call.news = FALSE, !.call.answers = Append(@, a)]
        /\ c.call.news /\ ~c.call.broken
    BY <1>2 DEF ServerSendsSnapshot
  <2>3. a.kind = "snapshot" /\ \A q \in Queries : a.tokens[q] = c.call.watched[q].sent
    OBVIOUS
  <2> HIDE DEF a
  <2>4. answers \in Seq(Answers)
    BY <1>1, <2>1
  <2>5. c' = [c EXCEPT !.call = d]
    BY <1>1, <2>2 DEF Clients, Calls
  <2> HIDE DEF answers
  <2>6. d \in Calls /\ d.requests = c.call.requests /\ d.answers = answers
        /\ d.broken = c.call.broken /\ d.watched = c.call.watched
    BY <1>1, <2>4 DEF Calls
  <2> HIDE DEF d
  <2>7. \A q \in Queries :
          /\ c.call.watched[q] \in Steady => d.watched[q] \in Steady
          /\ Follows(a, q, cache[q].token, c.call.watched[q], d.watched[q])
    BY <2>2, <2>3, <2>6 DEF Follows
  <2>8. c.call # NoCall
    BY <2>2 DEF NoCall
  <2>9. QED BY <1>1, <2>1, <2>2, <2>3, <2>5, <2>6, <2>7, <2>8, SaysFlows DEF answers, Closing
<1>3. ASSUME NEW q \in Queries, ServerSendsChange(q)
      PROVE  Flowing'
  <2> DEFINE w == c.call.watched[q]
             n == w.sent + 1
             a == [kind |-> "change", query |-> q, change |-> n]
             v == [w EXCEPT !.sent = n]
             watched == [c.call.watched EXCEPT ![q] = v]
             answers == Append(c.call.answers, a)
             d == [c.call EXCEPT !.answers = answers, !.watched = watched, !.news = TRUE]
  <2>1. /\ c' = [c EXCEPT !.call.watched[q].sent = n, !.call.news = TRUE,
                          !.call.answers = Append(@, a)]
        /\ w.on /\ ~c.call.broken /\ w.sent < server[q]
    BY <1>3 DEF ServerSendsChange
  <2>2. /\ w \in Watched /\ w.sent \in 0..MaxChanges /\ server[q] \in 0..MaxChanges
        /\ n \in 1..MaxChanges /\ w.since \in 0..MaxChanges
    <3>1. w \in Watched /\ w.sent \in 0..MaxChanges /\ server[q] \in 0..MaxChanges
          /\ w.since \in 0..MaxChanges
      BY <1>1 DEF Watched
    <3>2. QED BY <2>1, <3>1, BoundsAssumption
  <2>3. a \in Answers /\ a.kind = "change" /\ a.query = q /\ a.change = w.sent + 1
    BY <2>2 DEF Answers, Changes
  <2>4. v \in Watched /\ v.current = w.current /\ v.since = w.since /\ v.sent = n
        /\ v = [w EXCEPT !.sent = w.sent + 1]
    <3>1. n \in 0..MaxChanges
      BY <2>2
    <3>2. v = [w EXCEPT !.sent = w.sent + 1]
      OBVIOUS
    <3>3. w = [on |-> w.on, sent |-> w.sent, since |-> w.since, current |-> w.current]
          /\ w.on \in BOOLEAN /\ w.current \in BOOLEAN
      BY <2>2 DEF Watched
    <3> HIDE DEF n, w
    <3>4. v = [on |-> w.on, sent |-> n, since |-> w.since, current |-> w.current]
      BY <3>3
    <3>5. v \in Watched
      BY <2>2, <3>1, <3>3, <3>4 DEF Watched
    <3> HIDE DEF v
    <3>6. QED BY <3>2, <3>4, <3>5
  <2>5. w \in Steady => v \in Steady
    <3>1. w.sent \in Int /\ w.since \in Int /\ v.sent = w.sent + 1
      BY <2>2, <2>4
    <3> HIDE DEF v, n, w
    <3>2. /\ v \in Watched /\ v.since = w.since
          /\ w \in Steady /\ v.current => w.sent >= w.since
      BY <2>4 DEF Steady
    <3>3. w \in Steady => (v.current => v.sent >= v.since)
      BY <3>1, <3>2
    <3>4. QED BY <3>2, <3>3 DEF Steady
  <2>6. /\ c.call.watched \in [Queries -> Watched]
        /\ c' = [c EXCEPT !.call = d]
    BY <1>1, <2>1 DEF Clients, Calls
  <2> HIDE DEF v, a
  <2>7. /\ watched \in [Queries -> Watched] /\ watched[q] = v
        /\ \A p \in Queries : p # q => watched[p] = c.call.watched[p]
    BY <1>1, <2>4
  <2>8. answers \in Seq(Answers)
    BY <1>1, <2>3
  <2> HIDE DEF watched, answers
  <2>9. d \in Calls /\ d.requests = c.call.requests /\ d.answers = answers
        /\ d.broken = c.call.broken /\ d.watched = watched
    BY <1>1, <2>7, <2>8 DEF Calls
  <2> HIDE DEF d
  <2>10. ASSUME NEW p \in Queries
         PROVE  /\ c.call.watched[p] \in Steady => d.watched[p] \in Steady
                /\ Follows(a, p, cache[p].token, c.call.watched[p], d.watched[p])
    <3>1. CASE p = q
      <4>1. d.watched[p] = v /\ c.call.watched[p] = w
        BY <2>7, <2>9, <3>1
      <4> HIDE DEF w
      <4>2. QED BY <2>3, <2>4, <2>5, <3>1, <4>1 DEF Follows
    <3>2. CASE p # q
      BY <2>3, <2>7, <2>9, <3>2 DEF Follows
    <3>3. QED BY <3>1, <3>2
  <2>11. c.call # NoCall
    BY <2>1 DEF NoCall, Unwatched
  <2>12. QED
    BY <1>1, <2>1, <2>3, <2>6, <2>9, <2>10, <2>11, SaysFlows DEF answers, Closing
<1>4. ASSUME NEW q \in Queries, ServerMarksCurrent(q)
      PROVE  Flowing'
  <2> DEFINE w == c.call.watched[q]
             a == [kind |-> "current", query |-> q]
             v == [w EXCEPT !.current = TRUE]
             watched == [c.call.watched EXCEPT ![q] = v]
             answers == Append(c.call.answers, a)
             d == [c.call EXCEPT !.answers = answers, !.watched = watched, !.news = TRUE]
  <2>1. /\ c' = [c EXCEPT !.call.watched[q].current = TRUE, !.call.news = TRUE,
                          !.call.answers = Append(@, a)]
        /\ w.on /\ ~c.call.broken /\ w.sent >= w.since
    BY <1>4 DEF ServerMarksCurrent
  <2>2. a \in Answers /\ a.kind = "current" /\ a.query = q /\ w \in Watched
    BY <1>1 DEF Answers
  <2>3. v \in Watched /\ v \in Steady /\ v = [w EXCEPT !.current = TRUE]
    BY <2>1, <2>2 DEF Watched, Steady
  <2>4. c' = [c EXCEPT !.call = d]
    BY <1>1, <2>1 DEF Clients, Calls
  <2> HIDE DEF v, a
  <2>5. /\ watched \in [Queries -> Watched] /\ watched[q] = v
        /\ \A p \in Queries : p # q => watched[p] = c.call.watched[p]
    BY <1>1, <2>3
  <2>6. answers \in Seq(Answers)
    BY <1>1, <2>2
  <2> HIDE DEF watched, answers
  <2>7. d \in Calls /\ d.requests = c.call.requests /\ d.answers = answers
        /\ d.broken = c.call.broken /\ d.watched = watched
    BY <1>1, <2>5, <2>6 DEF Calls
  <2> HIDE DEF d
  <2>8. ASSUME NEW p \in Queries
        PROVE  /\ c.call.watched[p] \in Steady => d.watched[p] \in Steady
               /\ Follows(a, p, cache[p].token, c.call.watched[p], d.watched[p])
    <3>1. CASE p = q
      <4>1. d.watched[p] = v /\ c.call.watched[p] = w
        BY <2>5, <2>7, <3>1
      <4> HIDE DEF w
      <4>2. QED BY <2>2, <2>3, <3>1, <4>1 DEF Follows
    <3>2. CASE p # q
      BY <2>2, <2>5, <2>7, <3>2 DEF Follows
    <3>3. QED BY <3>1, <3>2
  <2>9. c.call # NoCall
    BY <2>1 DEF NoCall, Unwatched
  <2>10. QED
    BY <1>1, <2>1, <2>2, <2>4, <2>7, <2>8, <2>9, SaysFlows DEF answers, Closing
<1>5. QED BY <1>2, <1>3, <1>4

(* The connection breaks, or a change is committed.                        *)
LEMMA OutsideFlows ==
  ASSUME TypeOK, Sound(c), Flowing, CallBreaks \/ \E q \in Queries : ServerCommits(q)
  PROVE  Flowing'
<1>1. CASE CallBreaks
  <2>1. /\ c.call \in Calls /\ c.call.answers \in Seq(Answers) /\ NoCall \in Calls
        /\ c \in Clients /\ IsOpen(c.stream) /\ ~c.call.broken
        /\ c.aggregator \in [Queries -> Targets] /\ UNCHANGED <<server, cache>>
    BY <1>1, Fresh, FlowTypes DEF CallBreaks
  <2>2. PICK n \in 0..Len(c.call.answers) :
          c' = [c EXCEPT !.call = [NoCall EXCEPT !.answers = SubSeq(c.call.answers, 1, n),
                                                 !.broken = TRUE]]
    BY <1>1 DEF CallBreaks
  <2> DEFINE answers == SubSeq(c.call.answers, 1, n)
             d == [NoCall EXCEPT !.answers = answers, !.broken = TRUE]
  <2>3. answers \in Seq(Answers) /\ NoCall.requests = <<>>
    BY <2>1 DEF NoCall
  <2>4. c' = [c EXCEPT !.call = d]
    BY <2>2
  <2> HIDE DEF answers
  <2>5. d \in Calls /\ d.answers = answers /\ d.broken /\ d.requests = <<>>
    BY <2>1, <2>3 DEF Calls
  <2> HIDE DEF d
  <2>6. ASSUME NEW q \in Queries \ Refusable
        PROVE  Line(q, d, c.aggregator[q], c.targets, c.view[q].since, cache[q].token)
    <3>1. /\ Line(q, c.call, c.aggregator[q], c.targets, c.view[q].since, cache[q].token)
          /\ c.aggregator[q] \in Targets
      BY <2>1 DEF Flowing, Joined
    <3>2. d.answers = SubSeq(c.call.answers, 1, n)
      BY <2>5 DEF answers
    <3>3. QED BY <2>1, <2>2, <2>5, <3>1, <3>2, LineCut
  <2>7. /\ c'.call = d /\ c'.stream = c.stream /\ c'.aggregator = c.aggregator
        /\ c'.targets = c.targets /\ c'.view = c.view
    BY <2>1, <2>4 DEF Clients
  <2>8. Quiet(c')
    BY <2>1, <2>7 DEF Quiet
  <2>9. ASSUME NEW q \in Queries \ Refusable
        PROVE  /\ Gathered(c'.aggregator[q], cache'[q])
               /\ Timely(c'.view[q], server'[q])
               /\ Line(q, c'.call, c'.aggregator[q], c'.targets, c'.view[q].since, cache'[q].token)
    BY <2>1, <2>6, <2>7 DEF Flowing, Joined
  <2>10. QED BY <2>8, <2>9 DEF Flowing, Joined
<1>2. ASSUME NEW q \in Queries, ServerCommits(q)
      PROVE  Flowing'
  <2>1. /\ c' = c /\ cache' = cache /\ server' = [server EXCEPT ![q] = @ + 1]
        /\ server \in [Queries -> 0..MaxChanges] /\ c.view \in [Queries -> Views]
    BY <1>2, FlowTypes DEF ServerCommits
  <2>2. ASSUME NEW p \in Queries \ Refusable
        PROVE  Timely(c'.view[p], server'[p])
    <3>1. Timely(c.view[p], server[p])
      BY DEF Flowing, Joined
    <3>2. server[p] \in Int /\ server'[p] \in Int /\ server[p] <= server'[p]
          /\ c.view[p].since \in Int
      BY <2>1 DEF Views
    <3>3. QED BY <2>1, <3>1, <3>2 DEF Timely
  <2>3. QED BY <2>1, <2>2 DEF Flowing, Joined
<1>3. QED BY <1>1, <1>2

LEMMA NextFlows ==
  ASSUME ClientIsSound, Flowing, [Next]_vars
  PROVE  Flowing'
<1>1. TypeOK /\ Sound(c)
  BY SoundParts
<1>2. CASE UNCHANGED vars
  BY <1>2 DEF vars, Flowing
<1>3. CASE \/ NoCredentials \/ LateCredentials \/ BackoffElapses \/ IdleTimeout
           \/ OnlineStateTimeout \/ StreamEnds
  BY <1>1, <1>3, CallbackFlows
<1>4. CASE TurnNetworkOff \/ TurnNetworkOn \/ NetworkRestarts \/ ProcessRestart
  BY <1>1, <1>4, NetworkFlows
<1>5. CASE Connect
  BY <1>1, <1>5, ConnectFlows
<1>6. CASE \E l \in Listeners : RemoveQueryListener(l) \/ \E q \in Queries : AddQueryListener(l, q)
  BY <1>1, <1>6, AddFlows, RemoveFlows
<1>7. CASE OnWatchStreamChange
  BY <1>1, <1>7, AnswerFlows
<1>8. CASE ServerSteps
  BY <1>1, <1>8, TakesFlows, SendsFlows DEF ServerSteps
<1>9. CASE CallBreaks \/ \E q \in Queries : ServerCommits(q)
  BY <1>1, <1>9, OutsideFlows
<1>10. QED BY <1>2, <1>3, <1>4, <1>5, <1>6, <1>7, <1>8, <1>9 DEF Next

(* What is on its way about a query that is not refused stays as it should *)
(* be, through every fault.  (A refusal resets a target whose earlier      *)
(* answers may still come.)                                                *)
LEMMA AlwaysFlowing == Spec => [](ClientIsSound /\ Flowing)
<1>1. ClientIsSound /\ Flowing /\ [Next]_vars => (ClientIsSound /\ Flowing)'
  BY NextSound, NextFlows
<1>2. Init => ClientIsSound /\ Flowing
  BY InitSound, InitFlows
<1>3. QED BY <1>1, <1>2, PTL DEF Spec

(* The answers a target waits for are those to the requests on their way   *)
(* and those on their way back, whatever the server refuses on the same    *)
(* stream: no target stays deaf, and none hears what was said to its       *)
(* earlier life.                                                           *)
THEOREM Counts == Spec => []DueIsOnTheWay
<1>1. ClientIsSound /\ Flowing => DueIsOnTheWay
  <2>1. SUFFICES ASSUME ClientIsSound, Flowing, IsOpen(c.stream), ~c.call.broken,
                        NEW q \in Queries \ Refusable
                 PROVE  c.aggregator[q].due = OnTheWay(q)
    BY DEF DueIsOnTheWay
  <2>2. c.call \in Calls
    BY <2>1, SoundParts, FlowTypes
  <2>3. c.aggregator[q].due = Cardinality(Asked(c.call, q)) + Cardinality(Closings(c.call, q))
    BY <2>1 DEF Flowing, Joined, Line, Counted
  <2>4. Asked(c.call, q) = {i \in DOMAIN c.call.requests : c.call.requests[i].query = q}
    <3>1. \A i \in DOMAIN c.call.requests : c.call.requests[i] \in Requests
      BY <2>2, CallTypes, ElementOfSeq
    <3>2. QED BY <3>1 DEF Asked, Places, Askers
  <2>5. Closings(c.call, q) = {i \in DOMAIN c.call.answers :
                                 c.call.answers[i].kind \in Closing /\ c.call.answers[i].query = q}
    <3>1. \A i \in DOMAIN c.call.answers : c.call.answers[i] \in Answers
      BY <2>2, CallTypes, ElementOfSeq
    <3>2. QED BY <3>1 DEF Closings, Places, Closers
  <2>6. QED BY <2>3, <2>4, <2>5 DEF OnTheWay
<1>2. QED BY <1>1, AlwaysFlowing, PTL

(* All changes that a token stands for are on disk, and what is gathered   *)
(* for the next snapshot continues them and will be there with the next    *)
(* token: no change is lost behind a token.                                *)
THEOREM Seamless == Spec => []NoHoles
<1>1. Flowing => NoHoles
  BY DEF Flowing, Joined, Gathered, NoHoles
<1>2. QED BY <1>1, AlwaysFlowing, PTL

(* When the server's word that a target is current is read and counts, the *)
(* changes on disk and those gathered reach as far as the server had got   *)
(* when the screen's view was made: the word is never one that was meant   *)
(* for an earlier life of the target.                                      *)
THEOREM Earned == Spec => []CurrentIsEarned
<1>1. ClientIsSound /\ Flowing => CurrentIsEarned
  <2>1. SUFFICES ASSUME ClientIsSound, Flowing, NEW q \in Queries \ Refusable,
                        c.call.answers # <<>>,
                        Head(c.call.answers) = [kind |-> "current", query |-> q],
                        IsActiveTarget(c, q)
                 PROVE  1..c.view[q].since \subseteq cache[q].changes \cup c.aggregator[q].changes
    BY DEF CurrentIsEarned
  <2> DEFINE a == Head(c.call.answers)
             t == c.aggregator[q]
             s == c.view[q].since
             token == cache[q].token
             n == Cardinality(t.changes)
  <2>2. /\ c.call \in Calls /\ c.call.answers \in Seq(Answers) /\ t \in Targets
        /\ s \in 0..MaxChanges /\ token \in 0..MaxChanges
    BY <2>1, SoundParts, FlowTypes DEF Views
  <2>3. c.call # NoCall
    BY <2>1 DEF NoCall
  <2>4. Line(q, c.call, t, c.targets, s, token) /\ Gathered(t, cache[q])
    BY <2>1, <2>3, OnCall DEF Flowing, Joined
  <2>5. q \in c.targets /\ t.due = 0
    BY <2>1 DEF IsActiveTarget
  <2>6. PICK g : /\ g \in [0..Len(c.call.answers) -> Steady]
                 /\ \A i \in 1..Len(c.call.answers) :
                      Follows(c.call.answers[i], q, token, g[i - 1], g[i])
                 /\ g[0].on /\ g[0].since >= s /\ g[0].sent = token + n
    BY <2>4, <2>5 DEF Line, History, Hears
  <2>7. 1 \in 1..Len(c.call.answers) /\ 0 \in 0..Len(c.call.answers) /\ 1 \in 0..Len(c.call.answers)
        /\ c.call.answers[1] = a
    <3>1. Len(c.call.answers) \in Nat \ {0} /\ Head(c.call.answers) = c.call.answers[1]
      BY <2>1, <2>2, PlacesTail
    <3>2. QED BY <3>1
  <2>8. Follows(a, q, token, g[0], g[1]) /\ g[0] \in Steady /\ g[1] \in Steady
    <3>1. Follows(c.call.answers[1], q, token, g[1 - 1], g[1]) /\ 1 - 1 = 0
      BY <2>6, <2>7
    <3>2. QED BY <2>6, <2>7, <3>1
  <2>9. a.kind = "current" /\ a.query = q
    BY <2>1
  <2>10. g[1] = [g[0] EXCEPT !.current = TRUE]
    BY <2>8, <2>9 DEF Follows
  <2>11. g[0].sent >= g[0].since /\ g[0].sent \in Nat /\ g[0].since \in Nat
    BY <2>8, <2>10, BoundsAssumption DEF Steady, Watched
  <2>12. s <= token + n /\ s \in Nat /\ token \in Nat /\ token + n \in Nat
    <3>1. s \in Nat /\ token \in Nat
      BY <2>2, BoundsAssumption
    <3>2. g[0].since >= s /\ g[0].sent = token + n
      BY <2>6
    <3> HIDE DEF s, token, n
    <3>3. QED BY <2>11, <3>1, <3>2
  <2>13. 1..token \subseteq cache[q].changes /\ t.changes = (token + 1)..(token + n)
    BY <2>4 DEF Gathered
  <2>14. ASSUME NEW i \in 1..s
         PROVE  i \in 1..token \/ i \in (token + 1)..(token + n)
    <3> HIDE DEF s, token, n
    <3>1. QED BY <2>12
  <2>15. QED BY <2>13, <2>14
<1>2. QED BY <1>1, AlwaysFlowing, PTL
=============================================================================
