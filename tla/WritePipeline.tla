----------------------------- MODULE WritePipeline -----------------------------
(***************************************************************************)
(* How the Firestore client gets the writes of the app to the server       *)
(* (sync_engine.cc, the second half of remote_store.cc, write_stream.cc    *)
(* and the mutation queue).  Every write is a batch in a queue on disk, one*)
(* queue per user.  The oldest batches of the current user make up the     *)
(* pipeline; they are sent over a stream as soon as its handshake is done, *)
(* and answered in that order without a name: an answer is taken to be for *)
(* the head of the pipeline.  When the stream breaks all is sent again.    *)
(*                                                                         *)
(* All of it runs on one worker queue, so a callback is one action.  The   *)
(* server decides on a write the first time it sees it.  Writes are        *)
(* numbered in the order the app makes them, 0 is the handshake; the id of *)
(* a batch is another number, which may be given again.                    *)
(***************************************************************************)
EXTENDS Naturals, Sequences, FiniteSetsExt, Streams

CONSTANTS
  Users,            \* who may be signed in
  PipelineSize,     \* kMaxPendingWrites
  MaxWrites,        \* bound: writes
  MaxFaults         \* bound: broken calls, failed credentials, restarts, changes
                    \* of user and network

ASSUME SizeAssumption == PipelineSize \in Nat \ {0}
ASSUME BoundsAssumption == MaxWrites \in Nat /\ MaxFaults \in Nat

VARIABLES
  user,       \* current_user_
  made,       \* who made each write so far
  queue,      \* on disk: the batches of each user, by id
  nextId,     \* next_batch_id_ of the mutation queue
  callbacks,  \* mutation_callbacks_
  told,       \* what the callback of each write was called with
  fate,       \* how each write left the queue
  rs,         \* the remote store and its write stream
  verdict,    \* what the server decided on each write
  faults

vars == <<user, made, queue, nextId, callbacks, told, fate, rs, verdict, faults>>

Writes == 1..MaxWrites
Ends == {"none", "stored", "refused"}
Batches == [id : 1..MaxWrites, write : Writes]

(* The call of an open stream: requests the server has not taken, answers  *)
(* the client has not read, and how the call ended.  Requests on a call    *)
(* that has ended are lost, and the writes of them fail.                   *)
NoCall == [requests |-> <<>>, answers |-> <<>>, status |-> "none"]
Calls == [requests : Seq(0..MaxWrites), answers : Seq(0..MaxWrites),
          status : {"none", "transient", "permanent"}]

TypeOK ==
  /\ user \in Users
  /\ made \in Seq(Users) /\ Len(made) <= MaxWrites
  /\ queue \in [Users -> Seq(Batches)]
  /\ nextId \in 1..(MaxWrites + 1)
  /\ callbacks \subseteq [user : Users, id : 1..MaxWrites, write : Writes]
  /\ told \in [Writes -> Ends] /\ fate \in [Writes -> Ends] /\ verdict \in [Writes -> Ends]
  /\ rs \in [enabled : BOOLEAN, pipeline : Seq(Batches), stream : Streams,
             handshake : BOOLEAN, call : Calls]
  /\ faults \in 0..MaxFaults

-----------------------------------------------------------------------------
(* A definition named X_Y beside a definition X is X with a plausible slip *)
(* in it.  No specification uses it: it stands for the mistake that some   *)
(* property below is there to notice.                                      *)

WritesOf(batches) == [i \in DOMAIN batches |-> batches[i].write]

Shorter(n, m) == IF n < m THEN n ELSE m

(* Messages on the stream.                                                 *)
Send(r, messages) ==
  IF messages = <<>> THEN r
  ELSE [r EXCEPT !.stream = CancelIdleCheck(@), !.call.requests = @ \o messages]

ShouldStartWriteStream(r) == r.enabled /\ ~IsStarted(r.stream) /\ r.pipeline # <<>>

StartIfNeeded(r) ==
  IF ShouldStartWriteStream(r) THEN [r EXCEPT !.stream = Start(@)] ELSE r

AddToPipeline_SendsUnshaken(r, batches) ==
  LET p == [r EXCEPT !.pipeline = @ \o batches]
  IN  IF IsOpen(r.stream) THEN Send(p, WritesOf(batches)) ELSE p

AddToPipeline(r, batches) ==
  LET p == [r EXCEPT !.pipeline = @ \o batches]
  IN  IF IsOpen(r.stream) /\ r.handshake THEN Send(p, WritesOf(batches)) ELSE p

FillWritePipeline_FromTheStart(r, q) ==
  LET next == IF r.enabled THEN SubSeq(q, 1, Shorter(Len(q), PipelineSize - Len(r.pipeline)))
                           ELSE <<>>
      p == AddToPipeline(r, next)
  IN  StartIfNeeded(IF r.enabled /\ p.pipeline = <<>> THEN [p EXCEPT !.stream = MarkIdle(@)] ELSE p)

(* The queue is in the order of its ids.                                   *)
AfterBatchId(q, id) == SubSeq(q, Cardinality({i \in DOMAIN q : q[i].id <= id}) + 1, Len(q))

(* Batches with a higher id than the last one in the pipeline follow it    *)
(* until it is full; a stream without work is marked idle.                 *)
FillWritePipeline(r, q) ==
  LET last == IF r.pipeline = <<>> THEN 0 ELSE r.pipeline[Len(r.pipeline)].id
      later == AfterBatchId(q, last)
      next == IF r.enabled
              THEN SubSeq(later, 1, Shorter(Len(later), PipelineSize - Len(r.pipeline)))
              ELSE <<>>
      p == AddToPipeline(r, next)
  IN  StartIfNeeded(IF r.enabled /\ p.pipeline = <<>> THEN [p EXCEPT !.stream = MarkIdle(@)] ELSE p)

DisableNetwork_KeepsPipeline(r) ==
  [r EXCEPT !.enabled = FALSE, !.stream = Stop(@), !.handshake = FALSE, !.call = NoCall]

(* The streams stop, with the network off, so that nothing restarts them.  *)
DisableNetwork(r) ==
  [r EXCEPT !.enabled = FALSE, !.stream = Stop(@), !.handshake = FALSE, !.call = NoCall,
            !.pipeline = <<>>]

EnableNetwork(r, q) == FillWritePipeline([r EXCEPT !.enabled = TRUE], q)

RestartNetwork(r, q) ==
  LET off == DisableNetwork(r)
  IN  EnableNetwork([off EXCEPT !.stream = InhibitBackoff(@)], q)

(* A batch leaves the queue on disk.                                       *)
Without(q, b) ==
  IF \E i \in DOMAIN q : q[i].id = b.id
  THEN LET i == CHOOSE i \in DOMAIN q : q[i].id = b.id
       IN  SubSeq(q, 1, i - 1) \o SubSeq(q, i + 1, Len(q))
  ELSE q

(* One more than the highest id of the batches of all users.               *)
LoadNextBatchId(q) ==
  1 + Max({0} \cup UNION {{q[u][i].id : i \in DOMAIN q[u]} : u \in Users})

(* NotifyUser and what the two callers of it do to the queue.              *)
Answered(b) == {c \in callbacks : c.user = user /\ c.id = b.id}

SettleHead(b, end) ==
  /\ told' = [w \in Writes |-> IF \E c \in Answered(b) : c.write = w THEN end ELSE told[w]]
  /\ callbacks' = callbacks \ Answered(b)
  /\ fate' = [fate EXCEPT ![b.write] = end]
  /\ queue' = [queue EXCEPT ![user] = Without(@, b)]

NothingSettled == UNCHANGED <<told, callbacks, fate, queue>>

Fault == faults < MaxFaults /\ faults' = faults + 1

NewRemoteStore == [enabled |-> FALSE, pipeline |-> <<>>, stream |-> NewStream,
                   handshake |-> FALSE, call |-> NoCall]

Init ==
  /\ user \in Users
  /\ made = <<>> /\ queue = [u \in Users |-> <<>>] /\ nextId = 1
  /\ callbacks = {} /\ faults = 0
  /\ told = [w \in Writes |-> "none"]
  /\ fate = [w \in Writes |-> "none"] /\ verdict = [w \in Writes |-> "none"]
  /\ rs = EnableNetwork(NewRemoteStore, <<>>)

-----------------------------------------------------------------------------
(* The app writes.                                                         *)
WriteMutations ==
  /\ Len(made) < MaxWrites
  /\ LET w == Len(made) + 1
         q == Append(queue[user], [id |-> nextId, write |-> w])
     IN  /\ queue' = [queue EXCEPT ![user] = q]
         /\ callbacks' = callbacks \cup {[user |-> user, id |-> nextId, write |-> w]}
         /\ rs' = FillWritePipeline(rs, q)
  /\ made' = Append(made, user)
  /\ nextId' = nextId + 1
  /\ UNCHANGED <<user, told, fate, verdict, faults>>

(* A stream ends with an error.  A permanent one after the handshake is    *)
(* the end of the head of the pipeline; any other is retried.              *)
Finish_AllRejected(status) ==
  LET closed == [rs EXCEPT !.stream = Close(@, FALSE), !.call = NoCall]
      head == rs.pipeline[1]
      rejected == [closed EXCEPT !.pipeline = Tail(@), !.stream = InhibitBackoff(@)]
  IN  IF rs.handshake /\ rs.pipeline # <<>>
      THEN /\ SettleHead(head, "refused")
           /\ rs' = [StartIfNeeded(FillWritePipeline(rejected, Without(queue[user], head)))
                       EXCEPT !.handshake = FALSE]
      ELSE /\ rs' = [StartIfNeeded(closed) EXCEPT !.handshake = FALSE]
           /\ NothingSettled

Finish_NoRetry(status) ==
  LET closed == [rs EXCEPT !.stream = Close(@, FALSE), !.call = NoCall]
      head == rs.pipeline[1]
      rejected == [closed EXCEPT !.pipeline = Tail(@), !.stream = InhibitBackoff(@)]
  IN  IF status = "permanent" /\ rs.handshake /\ rs.pipeline # <<>>
      THEN /\ SettleHead(head, "refused")
           /\ rs' = [FillWritePipeline(rejected, Without(queue[user], head))
                       EXCEPT !.handshake = FALSE]
      ELSE /\ rs' = [closed EXCEPT !.handshake = FALSE]
           /\ NothingSettled

Finish(status) ==
  LET closed == [rs EXCEPT !.stream = Close(@, FALSE), !.call = NoCall]
      head == rs.pipeline[1]
      rejected == [closed EXCEPT !.pipeline = Tail(@), !.stream = InhibitBackoff(@)]
  IN  IF status = "permanent" /\ rs.handshake /\ rs.pipeline # <<>>
      THEN /\ SettleHead(head, "refused")
           /\ rs' = [StartIfNeeded(FillWritePipeline(rejected, Without(queue[user], head)))
                       EXCEPT !.handshake = FALSE]
      ELSE /\ rs' = [StartIfNeeded(closed) EXCEPT !.handshake = FALSE]
           /\ NothingSettled

(* Credentials for the attempt under way: the call is made and the         *)
(* handshake sent.                                                         *)
Connect ==
  /\ "current" \in rs.stream.asked
  /\ rs' = Send([rs EXCEPT !.stream = Opened(@), !.call = NoCall], <<0>>)
  /\ UNCHANGED <<user, made, nextId, verdict, faults>> /\ NothingSettled

NoCredentials ==
  /\ "current" \in rs.stream.asked
  /\ Finish("transient") /\ Fault
  /\ UNCHANGED <<user, made, nextId, verdict>>

(* Credentials for an attempt that has ended.                              *)
LateCredentials ==
  /\ "stale" \in rs.stream.asked
  /\ rs' = [rs EXCEPT !.stream.asked = @ \ {"stale"}]
  /\ UNCHANGED <<user, made, nextId, verdict, faults>> /\ NothingSettled

(* The stream reads an answer: the first one of a call is the handshake    *)
(* and lets the pipeline go; every other one settles its head.             *)
Read ==
  /\ rs.call.answers # <<>>
  /\ LET r == [rs EXCEPT !.call.answers = Tail(@)]
     IN  IF ~rs.handshake
         THEN /\ rs' = Send([r EXCEPT !.handshake = TRUE], WritesOf(r.pipeline))
              /\ NothingSettled
         ELSE LET head == rs.pipeline[1]
              IN  /\ SettleHead(head, "stored")
                  /\ rs' = FillWritePipeline([r EXCEPT !.pipeline = Tail(@)],
                                             Without(queue[user], head))
  /\ UNCHANGED <<user, made, nextId, verdict, faults>>

(* An answer that cannot be decoded ends the stream from this side, with   *)
(* a status that is permanent: data loss.                                  *)
Garbled ==
  /\ rs.call.answers # <<>>
  /\ Finish("permanent") /\ Fault
  /\ UNCHANGED <<user, made, nextId, verdict>>

(* The end of the call reaches the stream by the first operation that      *)
(* fails.  The pending read fails when all answers are read; the write of  *)
(* a request that was lost fails at any time, and then the read is         *)
(* cancelled, so that the answers still there are never read.              *)
StreamEnds ==
  /\ rs.call.status # "none"
  /\ rs.call.answers = <<>> \/ rs.call.requests # <<>>
  /\ Finish(rs.call.status)
  /\ UNCHANGED <<user, made, nextId, verdict, faults>>

BackoffElapses ==
  /\ rs.stream.delay
  /\ rs' = [rs EXCEPT !.stream = BackoffDone(@)]
  /\ UNCHANGED <<user, made, nextId, verdict, faults>> /\ NothingSettled

(* A minute without work.                                                  *)
IdleTimeout ==
  /\ rs.stream.idle
  /\ rs' = StartIfNeeded([rs EXCEPT !.stream = Stop(@), !.handshake = FALSE, !.call = NoCall])
  /\ UNCHANGED <<user, made, nextId, verdict, faults>> /\ NothingSettled

(* The app, or a change of the network.                                    *)
TurnNetworkOff ==
  /\ rs.enabled /\ rs' = DisableNetwork(rs) /\ Fault
  /\ UNCHANGED <<user, made, nextId, verdict>> /\ NothingSettled

TurnNetworkOn ==
  /\ ~rs.enabled /\ rs' = EnableNetwork(rs, queue[user])
  /\ UNCHANGED <<user, made, nextId, verdict, faults>> /\ NothingSettled

ConnectivityChanges ==
  /\ rs.enabled /\ rs' = RestartNetwork(rs, queue[user]) /\ Fault
  /\ UNCHANGED <<user, made, nextId, verdict>> /\ NothingSettled

CredentialChange_KeepsStreams(u) ==
  /\ user' = u
  /\ nextId' = IF u # user THEN LoadNextBatchId(queue) ELSE nextId
  /\ rs' = FillWritePipeline(rs, queue[u])
  /\ Fault
  /\ UNCHANGED <<made, verdict>> /\ NothingSettled

(* Another user has another queue; the same one, signed in again, restarts *)
(* the streams too.                                                        *)
CredentialChange(u) ==
  /\ user' = u
  /\ nextId' = IF u # user THEN LoadNextBatchId(queue) ELSE nextId
  /\ rs' = IF rs.enabled THEN RestartNetwork(rs, queue[u]) ELSE rs
  /\ Fault
  /\ UNCHANGED <<made, verdict>> /\ NothingSettled

(* The process ends and starts: what is on disk remains.                   *)
ProcessRestart ==
  /\ callbacks' = {}
  /\ nextId' = LoadNextBatchId(queue)
  /\ rs' = EnableNetwork(NewRemoteStore, queue[user])
  /\ Fault
  /\ UNCHANGED <<user, made, queue, told, fate, verdict>>

-----------------------------------------------------------------------------
(* The server takes the requests of a call in order.  It answers each, or  *)
(* ends the call with an error about it and takes no more.                 *)
NextRequest(w) ==
  rs.call.status = "none" /\ rs.call.requests # <<>> /\ Head(rs.call.requests) = w

Answer(w) == [rs EXCEPT !.call.requests = Tail(@), !.call.answers = Append(@, w)]

ServerShakes ==
  /\ NextRequest(0)
  /\ rs' = Answer(0)
  /\ UNCHANGED <<user, made, nextId, verdict, faults>> /\ NothingSettled

ServerDecides(w) ==
  /\ NextRequest(w)
  /\ \/ /\ verdict[w] # "refused"
        /\ rs' = Answer(w)
        /\ verdict' = [verdict EXCEPT ![w] = "stored"]
     \/ /\ verdict[w] # "stored"
        /\ rs' = [rs EXCEPT !.call.requests = Tail(@), !.call.status = "permanent"]
        /\ verdict' = [verdict EXCEPT ![w] = "refused"]
  /\ UNCHANGED <<user, made, nextId, faults>> /\ NothingSettled

ServerTakes == ServerShakes \/ \E w \in Writes : ServerDecides(w)

(* The connection breaks, or the server has enough of it; it may also      *)
(* refuse the handshake for good.  The last answers may be lost on the way.*)
CallBreaks ==
  /\ IsOpen(rs.stream) /\ rs.call.status = "none"
  /\ \E n \in 0..Len(rs.call.answers), s \in {"transient", "permanent"} :
       /\ s = "permanent" => NextRequest(0)
       /\ rs' = [rs EXCEPT !.call.answers = SubSeq(@, 1, n), !.call.status = s]
  /\ Fault
  /\ UNCHANGED <<user, made, nextId, verdict>> /\ NothingSettled

-----------------------------------------------------------------------------
Next ==
  \/ WriteMutations \/ Connect \/ NoCredentials \/ LateCredentials
  \/ Read \/ Garbled \/ StreamEnds \/ BackoffElapses \/ IdleTimeout
  \/ TurnNetworkOff \/ TurnNetworkOn \/ ConnectivityChanges \/ ProcessRestart
  \/ \E u \in Users : CredentialChange(u)
  \/ ServerTakes \/ CallBreaks

Spec == Init /\ [][Next]_vars

(* Credentials come, timers run, and the server answers what it is sent.   *)
Fairness ==
  /\ WF_vars(Connect) /\ WF_vars(Read) /\ WF_vars(StreamEnds)
  /\ WF_vars(BackoffElapses) /\ WF_vars(ServerTakes)

FairSpec == Spec /\ Fairness

-----------------------------------------------------------------------------
(* While the network is on, the pipeline is the oldest batches of the      *)
(* user's queue, as many as fit: every path that makes room or work fills  *)
(* it, and no batch is skipped or doubled.                                 *)
PipelineIsOldest ==
  rs.pipeline = IF rs.enabled
                THEN SubSeq(queue[user], 1, Shorter(Len(queue[user]), PipelineSize))
                ELSE <<>>

(* On a call that is alive, the answers to come and the requests to be     *)
(* answered are the pipeline, in order, so the head of the pipeline is the *)
(* batch that the next answer is about ("Got result for empty write        *)
(* pipeline" cannot happen either).  Answers left on a call that the       *)
(* server has ended are still for its first batches.                       *)
OnTheWay ==
  IF rs.call.status = "none" THEN rs.call.answers \o rs.call.requests ELSE rs.call.answers

AnswersMeetTheirBatch ==
  /\ IsOpen(rs.stream) /\ ~rs.handshake =>
       IF rs.call.status = "none" THEN OnTheWay = <<0>> ELSE rs.call.answers \in {<<>>, <<0>>}
  /\ rs.handshake =>
       LET sent == WritesOf(rs.pipeline)
       IN  /\ IsOpen(rs.stream)
           /\ Len(OnTheWay) <= Len(sent) /\ OnTheWay = SubSeq(sent, 1, Len(OnTheWay))
           /\ rs.call.status = "none" => OnTheWay = sent

(* The stream serves the pipeline, whatever callbacks, timers and faults   *)
(* come between: an attempt's credentials and timers find the state they   *)
(* were for; a stream that may end for want of work has none, so that it   *)
(* is never "stopped gracefully while still needed"; work is never without *)
(* a stream that will do it; nothing runs with the network off; and the    *)
(* handshake and the call are those of an open stream.                     *)
StreamServesPipeline ==
  /\ CallbacksFindTheirState(rs.stream)
  /\ rs.stream.idle => rs.pipeline = <<>>
  /\ rs.enabled /\ rs.pipeline # <<>> => IsStarted(rs.stream)
  /\ IsStarted(rs.stream) => rs.enabled /\ (rs.handshake \/ rs.pipeline # <<>>)
  /\ rs.handshake => IsOpen(rs.stream)
  /\ ~IsOpen(rs.stream) => rs.call = NoCall

(* A write leaves the device only after the server decided on it, and as   *)
(* stored only if the server stored it; who made it is told the end that   *)
(* the device recorded, and until the end it is once in its user's queue.  *)
(* It needs more than a good answer: a status or a lost connection that    *)
(* came before the server saw the head must not end it.                    *)
EndsAreDecided ==
  \A w \in Writes :
    /\ fate[w] # "none" => verdict[w] # "none"
    /\ fate[w] = "stored" => verdict[w] = "stored"
    /\ told[w] # "none" => told[w] = fate[w]
    /\ w \in DOMAIN made /\ fate[w] = "none" =>
         Cardinality({i \in DOMAIN queue[made[w]] : queue[made[w]][i].write = w}) = 1

(* A write that the device gives up, and its app hears has failed, is one  *)
(* that the server refused: "the request itself was the problem so it's    *)
(* not going to succeed if we resend it" (remote_store.cc:538-539).  The   *)
(* code does not see to it: see StreamEnds and Garbled.                    *)
FailedWasRefused == \A w \in Writes : fate[w] = "refused" => verdict[w] = "refused"

(* Who waits for a write is told when it leaves the queue.                 *)
ToldWhenSettled == \A c \in callbacks : fate[c.write] = "none" /\ told[c.write] = "none"

(* The device keeps its promise to every user's writes.                    *)
Promise == INSTANCE Outbox WITH line <- [u \in Users |-> WritesOf(queue[u])]
KeepsPromise == Promise!Spec

(* A write in the queue of who is signed in ends, once faults do, unless   *)
(* the network is turned off or the user changes first.                    *)
Due(w) == w \in DOMAIN made /\ fate[w] = "none" /\ made[w] = user /\ rs.enabled
EveryWriteEnds == \A w \in Writes : Due(w) ~> ~Due(w)
=============================================================================
