----------------------------- MODULE ListenPipeline ----------------------------
(***************************************************************************)
(* How the Firestore client keeps what a screen shows up to date: from a   *)
(* listener (event_manager.cc, query_listener.cc) through the view of its  *)
(* query (sync_engine.cc, view.cc) to the watch stream (the first half of  *)
(* remote_store.cc, remote_event.cc, online_state_tracker.cc) and back.    *)
(*                                                                         *)
(* The result of a query at the server is the number of changes that have  *)
(* been committed to it.  The server sends the changes one by one, after   *)
(* the one the resume token of the request names, and tells when together  *)
(* they are a snapshot.  The client keeps the changes it has applied on    *)
(* disk, with the token.  A query keeps its target id, so one name serves  *)
(* for both.                                                               *)
(***************************************************************************)
EXTENDS Integers, SequencesExt, Streams, OnlineState

CONSTANTS
  Queries,
  Listeners,
  Refusable,      \* the queries the server may refuse
  FirstChanges,   \* changes to each query's result made before
  MaxChanges,     \* bound: changes to the result of a query
  MaxListens,     \* bound: listeners added
  MaxFaults       \* bound: broken calls, failed credentials, restarts, network changes

ASSUME QueriesAssumption == IsFiniteSet(Queries) /\ Queries # {}
ASSUME RefusableAssumption == Refusable \subseteq Queries
ASSUME BoundsAssumption ==
  /\ MaxChanges \in Nat \ {0} /\ MaxListens \in Nat /\ MaxFaults \in Nat
  /\ FirstChanges \in 0..MaxChanges

VARIABLES
  server,   \* the changes committed to each query's result
  cache,    \* on disk: the changes applied, and the resume token
  c,        \* the client in memory, from the listeners to the stream
  listens, faults

vars == <<server, cache, c, listens, faults>>

Changes == 1..MaxChanges

(* What the aggregator knows of a target: the answers due for requests     *)
(* about it, whether the server called it current, and the changes since   *)
(* the last snapshot; and the part about this query's result of the one    *)
(* map of document updates, which goes on whatever becomes of the target.  *)
NewTarget == [due |-> 0, current |-> FALSE, changes |-> {}, pending |-> {}]
NewAggregator == [q \in Queries |-> NewTarget]

Requests == [kind : {"watch"}, query : Queries, token : 0..MaxChanges]
            \cup [kind : {"unwatch"}, query : Queries]
Answers == [kind : {"added", "removed", "refused", "current"}, query : Queries]
           \cup [kind : {"change"}, query : Queries, change : Changes]
           \cup [kind : {"snapshot"}, tokens : [Queries -> 0..MaxChanges]]

(* The call of an open stream: requests on their way, what the server      *)
(* watches for it, answers on their way, and whether it is broken.         *)
Unwatched == [on |-> FALSE, sent |-> 0, since |-> 0, current |-> FALSE]
NoCall == [requests |-> <<>>, answers |-> <<>>, watched |-> [q \in Queries |-> Unwatched],
           news |-> FALSE, broken |-> FALSE]

NoView == [on |-> FALSE, current |-> FALSE, since |-> 0]

Targets == [due : Int, current : BOOLEAN, changes : SUBSET Changes, pending : SUBSET Changes]
Watched == [on : BOOLEAN, sent : 0..MaxChanges, since : 0..MaxChanges, current : BOOLEAN]
Calls == [requests : Seq(Requests), answers : Seq(Answers), watched : [Queries -> Watched],
          news : BOOLEAN, broken : BOOLEAN]
Views == [on : BOOLEAN, current : BOOLEAN, since : 0..MaxChanges]
ListenerStates == [query : Queries, phase : {"off", "waiting", "shown", "failed"}]

Clients ==
  [enabled : BOOLEAN, targets : SUBSET Queries, stream : Streams, online : Trackers,
   aggregator : [Queries -> Targets], call : Calls, view : [Queries -> Views],
   listener : [Listeners -> ListenerStates]]

TypeOK ==
  /\ server \in [Queries -> 0..MaxChanges]
  /\ cache \in [Queries -> [changes : SUBSET Changes, token : 0..MaxChanges]]
  /\ c \in Clients
  /\ listens \in 0..MaxListens /\ faults \in 0..MaxFaults

-----------------------------------------------------------------------------
(* A definition named X_Y beside a definition X is X with a plausible slip *)
(* in it.  No specification uses it: it stands for the mistake that some   *)
(* property below is there to notice.                                      *)

(* The first event of a listener: at once if the view is synced, has       *)
(* something from the cache, or nothing better is to be expected.          *)
ShouldRaiseInitialEvent(k, q, stored) ==
  k.view[q].current \/ stored # {} \/ k.online.state = "offline"

(* A snapshot of the views of qs reaches the listeners of those queries.   *)
OnViewSnapshots(k, qs, disk) ==
  [k EXCEPT !.listener = [l \in Listeners |->
     IF /\ @[l].phase = "waiting" /\ @[l].query \in qs
        /\ ShouldRaiseInitialEvent(k, @[l].query, disk[@[l].query].changes)
     THEN [@[l] EXCEPT !.phase = "shown"] ELSE @[l]]]

(* Every change of the online state is told.  Offline, no view is current  *)
(* and every listener gets its first event.                                *)
HandleOnlineStateChange_ListenersOnly(k, o) ==
  LET told == [k EXCEPT !.online = o]
  IN  IF o.state # k.online.state /\ o.state = "offline"
      THEN OnViewSnapshots(told, Queries, cache)
      ELSE told

HandleOnlineStateChange(k, o) ==
  LET told == [k EXCEPT !.online = o]
  IN  IF o.state # k.online.state /\ o.state = "offline"
      THEN OnViewSnapshots(
             [told EXCEPT !.view = [q \in Queries |-> [@[q] EXCEPT !.current = FALSE]]],
             Queries, cache)
      ELSE told

Becomes(k, state) == HandleOnlineStateChange(k, UpdateState(k.online, state))

ShouldStartWatchStream(k) == k.enabled /\ ~IsStarted(k.stream) /\ k.targets # {}

StartWatchStream(k) ==
  LET started == [k EXCEPT !.aggregator = NewAggregator, !.stream = Start(@)]
  IN  HandleOnlineStateChange(started, HandleWatchStreamStart(k.online))

(* A request on the stream; on a broken call it is lost.                   *)
Send(k, request) ==
  [k EXCEPT !.aggregator[request.query].due = @ + 1,
            !.stream = CancelIdleCheck(@),
            !.call.requests = IF k.call.broken THEN @ ELSE Append(@, request)]

WatchRequest(q) == [kind |-> "watch", query |-> q, token |-> cache[q].token]

SendWatchRequest(k, q) == Send(k, WatchRequest(q))

SendUnwatchRequest_NotCounted(k, q) ==
  LET sent == Send(k, [kind |-> "unwatch", query |-> q])
  IN  [sent EXCEPT !.aggregator = k.aggregator]

SendUnwatchRequest(k, q) == Send(k, [kind |-> "unwatch", query |-> q])

(* Everything is asked for again, on a call that is new.                   *)
OnWatchStreamOpen(k) ==
  LET order == SetToSeq(k.targets)
  IN  [k EXCEPT !.call.requests = [i \in DOMAIN order |-> WatchRequest(order[i])],
                !.aggregator = [q \in Queries |->
                   IF q \in k.targets THEN [k.aggregator[q] EXCEPT !.due = @ + 1]
                   ELSE k.aggregator[q]]]

(* The stream has ended: again, if it is needed.                           *)
OnWatchStreamClose_NoRetry(k) ==
  IF ShouldStartWatchStream(k)
  THEN HandleOnlineStateChange(k, HandleWatchStreamFailure(k.online))
  ELSE Becomes(k, "unknown")

OnWatchStreamClose(k) ==
  IF ShouldStartWatchStream(k)
  THEN StartWatchStream(HandleOnlineStateChange(k, HandleWatchStreamFailure(k.online)))
  ELSE Becomes(k, "unknown")

EndStream(k, graceful) ==
  OnWatchStreamClose([k EXCEPT !.stream = Close(@, graceful), !.call = NoCall,
                               !.aggregator = NewAggregator])

StopStream(k) == IF IsStarted(k.stream) THEN EndStream(k, TRUE) ELSE k

EnableNetwork(k) ==
  LET on == [k EXCEPT !.enabled = TRUE]
  IN  IF ShouldStartWatchStream(on) THEN StartWatchStream(on) ELSE Becomes(on, "unknown")

DisableNetwork(k) == Becomes(StopStream([k EXCEPT !.enabled = FALSE]), "offline")

RestartNetwork(k) ==
  LET off == Becomes(StopStream([k EXCEPT !.enabled = FALSE]), "unknown")
  IN  EnableNetwork([off EXCEPT !.stream = InhibitBackoff(@)])

(* A target is watched, or no longer.                                      *)
Listen_Unsent(k, q) ==
  LET more == [k EXCEPT !.targets = @ \cup {q}]
  IN  IF ShouldStartWatchStream(more) THEN StartWatchStream(more) ELSE more

Listen(k, q) ==
  LET more == [k EXCEPT !.targets = @ \cup {q}]
  IN  CASE ShouldStartWatchStream(more) -> StartWatchStream(more)
        [] ~ShouldStartWatchStream(more) /\ IsOpen(k.stream) -> SendWatchRequest(more, q)
        [] OTHER -> more

StopListening(k, q) ==
  LET less == [k EXCEPT !.targets = @ \ {q}]
      sent == IF IsOpen(k.stream) THEN SendUnwatchRequest(less, q) ELSE less
  IN  CASE sent.targets # {} -> sent
        [] sent.targets = {} /\ IsOpen(sent.stream) -> [sent EXCEPT !.stream = MarkIdle(@)]
        [] sent.targets = {} /\ ~IsOpen(sent.stream) ->
             IF sent.enabled THEN Becomes(sent, "unknown") ELSE sent

Fault == faults < MaxFaults /\ faults' = faults + 1

NewClient ==
  [enabled |-> FALSE, targets |-> {}, stream |-> NewStream, online |-> NewTracker,
   aggregator |-> NewAggregator, call |-> NoCall, view |-> [q \in Queries |-> NoView],
   listener |-> [l \in Listeners |-> [query |-> CHOOSE q \in Queries : TRUE, phase |-> "off"]]]

Init ==
  /\ server = [q \in Queries |-> FirstChanges]
  /\ cache = [q \in Queries |-> [changes |-> {}, token |-> 0]]
  /\ c = EnableNetwork(NewClient)
  /\ listens = 0 /\ faults = 0

-----------------------------------------------------------------------------
Heard(k, q) == {l \in Listeners : k.listener[l].phase \in {"waiting", "shown"}
                                  /\ k.listener[l].query = q}

(* A screen begins to listen.  The first listener of a query makes its     *)
(* view, from what is on disk.                                             *)
AddQueryListener(l, q) ==
  /\ c.listener[l].phase \in {"off", "failed"} /\ listens < MaxListens
  /\ LET added == [c EXCEPT !.listener[l] = [query |-> q, phase |-> "waiting"]]
         made == IF c.view[q].on THEN added
                 ELSE [added EXCEPT !.view[q] = [on |-> TRUE, current |-> FALSE,
                                                 since |-> server[q]]]
         told == OnViewSnapshots(made, {q}, cache)
     IN  c' = IF c.view[q].on THEN told ELSE Listen(told, q)
  /\ listens' = listens + 1
  /\ UNCHANGED <<server, cache, faults>>

RemoveQueryListener_First(l) ==
  /\ c.listener[l].phase \in {"waiting", "shown"}
  /\ LET q == c.listener[l].query
         less == [c EXCEPT !.listener[l].phase = "off"]
     IN  c' = IF c.view[q].on THEN StopListening([less EXCEPT !.view[q] = NoView], q) ELSE less
  /\ UNCHANGED <<server, cache, listens, faults>>

(* It stops; with the last listener the view goes.                         *)
RemoveQueryListener(l) ==
  /\ c.listener[l].phase \in {"waiting", "shown"}
  /\ LET q == c.listener[l].query
         less == [c EXCEPT !.listener[l].phase = "off"]
     IN  c' = IF Heard(less, q) # {} THEN less
              ELSE StopListening([less EXCEPT !.view[q] = NoView], q)
  /\ UNCHANGED <<server, cache, listens, faults>>

(* Credentials for the attempt under way: the call is made, and everything *)
(* is asked for again.                                                     *)
Connect ==
  /\ "current" \in c.stream.asked
  /\ c' = OnWatchStreamOpen([c EXCEPT !.stream = Opened(@)])
  /\ UNCHANGED <<server, cache, listens, faults>>

NoCredentials ==
  /\ "current" \in c.stream.asked
  /\ c' = EndStream(c, FALSE) /\ Fault
  /\ UNCHANGED <<server, cache, listens>>

LateCredentials ==
  /\ "stale" \in c.stream.asked
  /\ c' = [c EXCEPT !.stream.asked = @ \ {"stale"}]
  /\ UNCHANGED <<server, cache, listens, faults>>

BackoffElapses ==
  /\ c.stream.delay
  /\ c' = [c EXCEPT !.stream = BackoffDone(@)]
  /\ UNCHANGED <<server, cache, listens, faults>>

IdleTimeout ==
  /\ c.stream.idle
  /\ c' = StopStream(c)
  /\ UNCHANGED <<server, cache, listens, faults>>

OnlineStateTimeout ==
  /\ c.online.timer
  /\ c' = HandleOnlineStateChange(c, TimerFires(c.online))
  /\ UNCHANGED <<server, cache, listens, faults>>

-----------------------------------------------------------------------------
(* Only a target the client wants, with no answer due, takes part.         *)
IsActiveTarget_Unanswered(k, q) == q \in k.targets

IsActiveTarget(k, q) == q \in k.targets /\ k.aggregator[q].due = 0

(* Each request is answered once.  What was gathered for an earlier life   *)
(* of the target is dropped, but current is kept, and so are the updates.  *)
HandleAdded(k, q) ==
  LET due == k.aggregator[q].due - 1
  IN  [k EXCEPT !.aggregator[q].due = due, !.aggregator[q].changes = IF due = 0 THEN {} ELSE @]

RemoveTarget(t) == [NewTarget EXCEPT !.pending = t.pending]

HandleRemoved(k, q) ==
  LET due == k.aggregator[q].due - 1
  IN  [k EXCEPT !.aggregator[q] = IF due = 0 THEN RemoveTarget(@) ELSE [@ EXCEPT !.due = due]]

HandleCurrent(k, q) ==
  IF IsActiveTarget(k, q) THEN [k EXCEPT !.aggregator[q].current = TRUE] ELSE k

HandleDocumentChange(k, q, n) ==
  IF IsActiveTarget(k, q)
  THEN [k EXCEPT !.aggregator[q].changes = @ \cup {n}, !.aggregator[q].pending = @ \cup {n}]
  ELSE k

(* The query is given up, with an error to its listeners.                  *)
ProcessTargetError(k, q) ==
  IF q \notin k.targets THEN k
  ELSE [k EXCEPT !.targets = @ \ {q}, !.aggregator[q] = RemoveTarget(@), !.view[q] = NoView,
                 !.listener = [l \in Listeners |->
                    IF l \in Heard(k, q) THEN [k.listener[l] EXCEPT !.phase = "failed"]
                    ELSE k.listener[l]]]

(* A snapshot.  Every update goes to disk, whatever has become of the      *)
(* target it came for; with it the tokens of the active targets.  The      *)
(* views of these learn whether they are current.                          *)
Active(k) == {q \in k.targets : IsActiveTarget(k, q)}

RaiseWatchSnapshot_AllTokens(k, tokens) ==
  LET disk == [q \in Queries |->
                 [changes |-> cache[q].changes \cup k.aggregator[q].pending,
                  token |-> IF q \in Active(k) \/ tokens[q] > cache[q].token THEN tokens[q]
                            ELSE cache[q].token]]
      seen == [k EXCEPT
        !.aggregator = [q \in Queries |->
           [k.aggregator[q] EXCEPT !.changes = IF q \in Active(k) THEN {} ELSE @,
                                   !.pending = {}]],
        !.view = [q \in Queries |->
           IF q \in Active(k) THEN [@[q] EXCEPT !.current = k.aggregator[q].current] ELSE @[q]]]
      changed == {q \in Queries : disk[q].changes # cache[q].changes}
  IN  /\ cache' = disk
      /\ c' = OnViewSnapshots(seen, Active(k) \cup changed, disk)

RaiseWatchSnapshot(k, tokens) ==
  LET disk == [q \in Queries |->
                 [changes |-> cache[q].changes \cup k.aggregator[q].pending,
                  token |-> IF q \in Active(k) THEN tokens[q] ELSE cache[q].token]]
      seen == [k EXCEPT
        !.aggregator = [q \in Queries |->
           [k.aggregator[q] EXCEPT !.changes = IF q \in Active(k) THEN {} ELSE @,
                                   !.pending = {}]],
        !.view = [q \in Queries |->
           IF q \in Active(k) THEN [@[q] EXCEPT !.current = k.aggregator[q].current] ELSE @[q]]]
      changed == {q \in Queries : disk[q].changes # cache[q].changes}
  IN  /\ cache' = disk
      /\ c' = OnViewSnapshots(seen, Active(k) \cup changed, disk)

(* Any answer shows that the client is online.                             *)
OnWatchStreamChange ==
  /\ c.call.answers # <<>>
  /\ LET a == Head(c.call.answers)
         k == Becomes([c EXCEPT !.call.answers = Tail(@)], "online")
     IN  CASE a.kind = "added" -> c' = HandleAdded(k, a.query) /\ UNCHANGED cache
           [] a.kind = "removed" -> c' = HandleRemoved(k, a.query) /\ UNCHANGED cache
           [] a.kind = "current" -> c' = HandleCurrent(k, a.query) /\ UNCHANGED cache
           [] a.kind = "change" ->
                c' = HandleDocumentChange(k, a.query, a.change) /\ UNCHANGED cache
           [] a.kind = "refused" -> c' = ProcessTargetError(k, a.query) /\ UNCHANGED cache
           [] a.kind = "snapshot" -> RaiseWatchSnapshot(k, a.tokens)
  /\ UNCHANGED <<server, listens, faults>>

StreamEnds ==
  /\ c.call.broken /\ c.call.answers = <<>>
  /\ c' = EndStream(c, FALSE)
  /\ UNCHANGED <<server, cache, listens, faults>>

(* The app, or a change of the network or of the user.                     *)
TurnNetworkOff ==
  /\ c.enabled /\ c' = DisableNetwork(c) /\ Fault
  /\ UNCHANGED <<server, cache, listens>>

TurnNetworkOn ==
  /\ ~c.enabled /\ c' = EnableNetwork(c)
  /\ UNCHANGED <<server, cache, listens, faults>>

NetworkRestarts ==
  /\ c.enabled /\ c' = RestartNetwork(c) /\ Fault
  /\ UNCHANGED <<server, cache, listens>>

ProcessRestart ==
  /\ c' = EnableNetwork(NewClient) /\ Fault
  /\ UNCHANGED <<server, cache, listens>>

-----------------------------------------------------------------------------
(* The server.  A change is committed to the result of a query.            *)
ServerCommits(q) ==
  /\ server[q] < MaxChanges
  /\ server' = [server EXCEPT ![q] = @ + 1]
  /\ UNCHANGED <<cache, c, listens, faults>>

(* It takes the requests in order and answers each.                        *)
ServerTakes ==
  /\ c.call.requests # <<>>
  /\ LET r == Head(c.call.requests)
         call == [c.call EXCEPT !.requests = Tail(@)]
     IN  \/ /\ r.kind = "watch"
            /\ c' = [c EXCEPT !.call =
                 [call EXCEPT !.answers = Append(@, [kind |-> "added", query |-> r.query]),
                              !.watched[r.query] = [on |-> TRUE, sent |-> r.token,
                                                    since |-> server[r.query],
                                                    current |-> FALSE],
                              !.news = TRUE]]
            /\ UNCHANGED faults
         \/ /\ r.kind = "watch" /\ r.query \in Refusable
            /\ c' = [c EXCEPT !.call =
                 [call EXCEPT !.answers = Append(@, [kind |-> "refused", query |-> r.query])]]
            /\ Fault
         \/ /\ r.kind = "unwatch"
            /\ c' = [c EXCEPT !.call =
                 [call EXCEPT !.answers = Append(@, [kind |-> "removed", query |-> r.query]),
                              !.watched[r.query] = Unwatched]]
            /\ UNCHANGED faults
  /\ UNCHANGED <<server, cache, listens>>

ServerSendsChange(q) ==
  LET w == c.call.watched[q]
  IN  /\ w.on /\ ~c.call.broken /\ w.sent < server[q]
      /\ c' = [c EXCEPT
           !.call.watched[q].sent = w.sent + 1, !.call.news = TRUE,
           !.call.answers = Append(@, [kind |-> "change", query |-> q, change |-> w.sent + 1])]
      /\ UNCHANGED <<server, cache, listens, faults>>

(* A target is current once every change up to the one that was the last   *)
(* when it was added has been sent.                                        *)
ServerMarksCurrent(q) ==
  LET w == c.call.watched[q]
  IN  /\ w.on /\ ~c.call.broken /\ ~w.current /\ w.sent >= w.since
      /\ c' = [c EXCEPT !.call.watched[q].current = TRUE, !.call.news = TRUE,
                        !.call.answers = Append(@, [kind |-> "current", query |-> q])]
      /\ UNCHANGED <<server, cache, listens, faults>>

ServerSendsSnapshot ==
  LET w == c.call.watched
  IN  /\ c.call.news /\ ~c.call.broken
      /\ \A q \in Queries : w[q].current => w[q].sent = server[q]
      /\ c' = [c EXCEPT !.call.news = FALSE,
                        !.call.answers = Append(@, [kind |-> "snapshot",
                           tokens |-> [q \in Queries |-> w[q].sent]])]
      /\ UNCHANGED <<server, cache, listens, faults>>

(* The connection breaks; the last answers may be lost.                    *)
CallBreaks ==
  /\ IsOpen(c.stream) /\ ~c.call.broken
  /\ \E n \in 0..Len(c.call.answers) :
       c' = [c EXCEPT !.call = [NoCall EXCEPT !.answers = SubSeq(c.call.answers, 1, n),
                                              !.broken = TRUE]]
  /\ Fault
  /\ UNCHANGED <<server, cache, listens>>

-----------------------------------------------------------------------------
ServerSteps ==
  \/ ServerTakes \/ ServerSendsSnapshot
  \/ \E q \in Queries : ServerSendsChange(q) \/ ServerMarksCurrent(q)

Next ==
  \/ \E l \in Listeners : RemoveQueryListener(l) \/ \E q \in Queries : AddQueryListener(l, q)
  \/ Connect \/ NoCredentials \/ LateCredentials \/ BackoffElapses
  \/ IdleTimeout \/ OnlineStateTimeout \/ OnWatchStreamChange \/ StreamEnds
  \/ TurnNetworkOff \/ TurnNetworkOn \/ NetworkRestarts \/ ProcessRestart
  \/ ServerSteps \/ CallBreaks \/ \E q \in Queries : ServerCommits(q)

Spec == Init /\ [][Next]_vars

(* Credentials come, timers run, and a call is answered or breaks.         *)
Fairness ==
  /\ WF_vars(Connect) /\ WF_vars(BackoffElapses) /\ WF_vars(OnWatchStreamChange)
  /\ WF_vars(StreamEnds) /\ WF_vars(ServerTakes) /\ WF_vars(ServerSendsSnapshot)
  /\ \A q \in Queries : WF_vars(ServerSendsChange(q)) /\ WF_vars(ServerMarksCurrent(q))

FairSpec == Spec /\ Fairness

-----------------------------------------------------------------------------
(* The assertions of the client hold: none of the tracker's has failed,    *)
(* and the timer of the online state runs only in the unknown state and    *)
(* for a stream, so that none runs when the next begins with no failure    *)
(* behind it; credentials and timers of an attempt that ended do nothing   *)
(* to the next; a stream that may end for want of targets has none, so     *)
(* that it is never "stopped gracefully while still needed"; and a target  *)
(* is never left without a stream that will ask for it.                    *)
OnlineIsSound == TrackerIsSound(c.online)
TimerHasStream == c.online.timer /\ c.online.failures = 0 => IsStarted(c.stream)
CallbacksAreCurrent == CallbacksFindTheirState(c.stream)
IdleOnlyWithoutTargets == c.stream.idle => c.targets = {}
NeededStreamRuns == c.enabled /\ c.targets # {} => IsStarted(c.stream)

(* The listeners, the views and the targets of the watch stream agree on   *)
(* which queries are of interest ("StopListening: target not currently     *)
(* watched" cannot happen).                                                *)
AllAgreeOnQueries ==
  \A q \in Queries : /\ c.view[q].on <=> Heard(c, q) # {}
                     /\ c.view[q].on <=> q \in c.targets

(* Offline, no view passes for current and no listener waits for its first *)
(* event.                                                                  *)
OfflineIsShown ==
  c.online.state = "offline" =>
    /\ \A q \in Queries : ~c.view[q].current
    /\ \A l \in Listeners : c.listener[l].phase # "waiting"

(* All of it together is preserved by every step, whatever the server and  *)
(* the network do: callbacks, timers, answers and calls of the app in any  *)
(* order find the listeners, the views, the targets, the stream and the    *)
(* online state in a combination the code was written for.                 *)
ClientIsSound ==
  TypeOK /\ OnlineIsSound /\ TimerHasStream /\ CallbacksAreCurrent /\ IdleOnlyWithoutTargets
    /\ NeededStreamRuns /\ AllAgreeOnQueries /\ OfflineIsShown

(* The answers a target is waiting for are those on their way: "the number *)
(* of outstanding responses (adds or removes) that we are waiting on"      *)
(* (remote_event.h:215).  One too many and the target is deaf for the rest *)
(* of the stream, one too few and it hears what was said to another life.  *)
(* A refusal resets its own target while other answers may be due, so this *)
(* and the next two are about targets the server does not refuse, on       *)
(* whatever stream they share with others.                                 *)
Closing == {"added", "removed", "refused"}
OnTheWay(q) ==
  Cardinality({i \in DOMAIN c.call.requests : c.call.requests[i].query = q})
  + Cardinality({i \in DOMAIN c.call.answers :
                   c.call.answers[i].kind \in Closing /\ c.call.answers[i].query = q})
DueIsOnTheWay ==
  IsOpen(c.stream) /\ ~c.call.broken =>
    \A q \in Queries \ Refusable : c.aggregator[q].due = OnTheWay(q)

(* The server's word that a target is current counts only when it is about *)
(* this life of the target: what is on disk or gathered then holds every   *)
(* change that was committed before the view was made.  Current "implies   *)
(* that the Watch backend has sent us all changes up to the point at which *)
(* the target was added" (remote_event.h:165).                             *)
CurrentIsEarned ==
  \A q \in Queries \ Refusable :
    /\ c.call.answers # <<>> /\ Head(c.call.answers) = [kind |-> "current", query |-> q]
    /\ IsActiveTarget(c, q)
    => 1..c.view[q].since \subseteq cache[q].changes \cup c.aggregator[q].changes

(* The same of every view that passes for synced.  It does not hold: a     *)
(* target that is removed and added again on one stream keeps current from *)
(* its earlier life, though "we need to reset any state that we had        *)
(* previously" (remote_event.cc:161), and a snapshot before the server     *)
(* says current again makes the new view pass for synced.                  *)
SyncedHasSeen ==
  \A q \in Queries \ Refusable :
    c.view[q].current => 1..c.view[q].since \subseteq cache[q].changes

(* The token hides no change from the client: all that it stands for are   *)
(* on disk, and what is gathered for the next snapshot continues it and    *)
(* will be on disk with the next token.                                    *)
NoHoles ==
  \A q \in Queries \ Refusable :
    /\ 1..cache[q].token \subseteq cache[q].changes
    /\ LET new == c.aggregator[q].changes
       IN  /\ new = (cache[q].token + 1)..(cache[q].token + Cardinality(new))
           /\ new \subseteq cache[q].changes \cup c.aggregator[q].pending

(* A listener hears something, once faults end, or stops listening.        *)
EveryListenerHears ==
  \A l \in Listeners : c.listener[l].phase = "waiting" ~> c.listener[l].phase # "waiting"

(* A query that is listened to catches up with every change, unless it is  *)
(* dropped or the network turned off.                                      *)
CatchesUp ==
  \A q \in Queries, n \in Changes :
    (c.view[q].on /\ c.enabled /\ n <= server[q])
      ~> (n \in cache[q].changes \/ ~c.view[q].on \/ ~c.enabled)
=============================================================================
