-------------------------- MODULE WritePipelineProofs --------------------------
(***************************************************************************)
(* Proofs about WritePipeline, in three parts, for every instance.         *)
(*                                                                         *)
(* The first: the stream serves the pipeline, and every answer meets its   *)
(* batch.  The two are inductive together, with the types of what they     *)
(* speak of (Typed).  The remote store is a record, and the operations     *)
(* that the actions are made of have a lemma each.  What an id is does not *)
(* matter: it is a member of some set.                                     *)
(*                                                                         *)
(* The second: the pipeline is the oldest batches of the user's queue.  It *)
(* is filled by id, so the proof needs that the queue of every user        *)
(* ascends and that the next id is above all of them, those of other users *)
(* and of earlier processes included (Ordered).                            *)
(*                                                                         *)
(* The third: a write ends when the server has decided on it, as stored    *)
(* only if the server did, whoever waits for it is told its end, and until *)
(* then it is once in the queue of who made it.  That needs the second, by *)
(* which the batch that is settled is the oldest of the queue, that each   *)
(* queue holds what is left of its user's writes (Left), that a callback   *)
(* is for a batch still queued (Awaited), and that the answers and the end *)
(* on their way to the client are what the server decided on the batches   *)
(* they are about (Faithful): even an end that comes before the answers    *)
(* finds a head that was decided on.                                       *)
(*                                                                         *)
(* What the outbox promises is proved of the outbox, between the second    *)
(* and the third, and the types at the end, with the count of the ids      *)
(* (Counted).                                                              *)
(***************************************************************************)
EXTENDS WritePipeline, StreamsProofs, FiniteSetTheorems, SequenceTheorems,
        WellFoundedInduction

BatchesOf(I) == [id : I, write : Writes]

Messages == 0..MaxWrites

CallRecords == [requests : Seq(Messages), answers : Seq(Messages),
                status : {"none", "transient", "permanent"}]

Stores(I) == [enabled : BOOLEAN, pipeline : Seq(BatchesOf(I)), stream : Streams,
              handshake : BOOLEAN, call : CallRecords]

Known(I) == rs \in Stores(I) /\ user \in Users /\ queue \in [Users -> Seq(BatchesOf(I))]

Typed == made \in Seq(Users) /\ \E I : Known(I)

Serves(r) ==
  /\ CallbacksFindTheirState(r.stream)
  /\ r.stream.idle => r.pipeline = <<>>
  /\ r.enabled /\ r.pipeline # <<>> => IsStarted(r.stream)
  /\ IsStarted(r.stream) => r.enabled /\ (r.handshake \/ r.pipeline # <<>>)
  /\ r.handshake => IsOpen(r.stream)
  /\ ~IsOpen(r.stream) => r.call = NoCall

(* The requests that will be taken: none of a call that has ended.         *)
Pending(r) == IF r.call.status = "none" THEN r.call.requests ELSE <<>>

Sent(r) == r.call.answers \o Pending(r)

Meets(r) ==
  /\ IsOpen(r.stream) /\ ~r.handshake =>
       IF r.call.status = "none" THEN Sent(r) = <<0>> ELSE r.call.answers \in {<<>>, <<0>>}
  /\ r.handshake =>
       /\ Len(Sent(r)) <= Len(r.pipeline)
       /\ \A i \in 1..Len(Sent(r)) : Sent(r)[i] = r.pipeline[i].write
       /\ r.call.status = "none" => Len(Sent(r)) = Len(r.pipeline)

Sound == Typed /\ Serves(rs) /\ Meets(rs)

(* A stream that has ended, with its call: what the paths that close it    *)
(* have in common, before its handshake is reset.                          *)
Ended(r) ==
  /\ CallbacksFindTheirState(r.stream) /\ ~IsStarted(r.stream) /\ ~r.stream.idle
  /\ r.call = NoCall

-----------------------------------------------------------------------------
(* The messages of batches are their writes.                               *)
LEMMA WritesOfTyped ==
  ASSUME NEW I, NEW bs \in Seq(BatchesOf(I))
  PROVE  /\ WritesOf(bs) \in Seq(Messages) /\ Len(WritesOf(bs)) = Len(bs)
         /\ \A i \in 1..Len(bs) : WritesOf(bs)[i] = bs[i].write
         /\ bs = <<>> <=> WritesOf(bs) = <<>>
<1>1. \A i \in 1..Len(bs) : bs[i].write \in Messages
  <2>1. \A i \in 1..Len(bs) : bs[i] \in BatchesOf(I)
    OBVIOUS
  <2>2. \A b \in BatchesOf(I) : b.write \in Messages
    BY BoundsAssumption DEF BatchesOf, Writes, Messages
  <2>3. QED BY <2>1, <2>2
<1>2. DOMAIN bs = 1..Len(bs) /\ Len(bs) \in Nat
  OBVIOUS
<1>3. WritesOf(bs) = [i \in 1..Len(bs) |-> bs[i].write]
  BY <1>2 DEF WritesOf
<1>4. WritesOf(bs) \in Seq(Messages) /\ Len(WritesOf(bs)) = Len(bs)
  BY <1>1, <1>2, <1>3
<1>5. QED BY <1>3, <1>4

(* The batches after an id are a part of the queue.                        *)
LEMMA AfterBatchIdTyped ==
  ASSUME NEW B, NEW q \in Seq(B), NEW id
  PROVE  AfterBatchId(q, id) \in Seq(B)
<1> DEFINE n == Cardinality({i \in DOMAIN q : q[i].id <= id})
<1>1. Len(q) \in Nat /\ DOMAIN q = 1..Len(q)
  OBVIOUS
<1>2. n \in Nat
  <2> DEFINE earlier == {i \in DOMAIN q : q[i].id <= id}
  <2>1. IsFiniteSet(1..Len(q)) /\ earlier \subseteq 1..Len(q)
    BY <1>1, FS_Interval
  <2>2. IsFiniteSet(earlier)
    BY <2>1, FS_Subset
  <2>3. QED BY <2>2, FS_CardinalityType
<1>3. SubSeq(q, n + 1, Len(q)) \in Seq(B)
  <2> HIDE DEF n
  <2>1. QED BY <1>1, <1>2
<1>4. QED BY <1>3 DEF AfterBatchId

(* So is the queue without one of them.                                    *)
LEMMA WithoutTyped ==
  ASSUME NEW B, NEW q \in Seq(B), NEW b
  PROVE  Without(q, b) \in Seq(B)
<1> DEFINE i == CHOOSE i \in DOMAIN q : q[i].id = b.id
<1>1. CASE \E j \in DOMAIN q : q[j].id = b.id
  <2>1. i \in 1..Len(q) /\ Len(q) \in Nat
    BY <1>1
  <2> HIDE DEF i
  <2>2. SubSeq(q, 1, i - 1) \in Seq(B) /\ SubSeq(q, i + 1, Len(q)) \in Seq(B)
    BY <2>1
  <2>3. SubSeq(q, 1, i - 1) \o SubSeq(q, i + 1, Len(q)) \in Seq(B)
    BY <2>2
  <2>4. QED BY <1>1, <2>3 DEF Without, i
<1>2. CASE ~\E j \in DOMAIN q : q[j].id = b.id
  BY <1>2 DEF Without
<1>3. QED BY <1>1, <1>2

(* What fits of a sequence.                                                *)
LEMMA FirstOf ==
  ASSUME NEW B, NEW q \in Seq(B), NEW n \in Int
  PROVE  SubSeq(q, 1, Shorter(Len(q), n)) \in Seq(B)
<1>1. Len(q) \in Nat /\ Shorter(Len(q), n) \in Int /\ Shorter(Len(q), n) <= Len(q)
  BY DEF Shorter
<1>2. QED BY <1>1

-----------------------------------------------------------------------------
(* A message on a stream: it stays what it is, but it is idle no longer;   *)
(* the message joins the requests unless the call has ended.               *)
LEMMA SendKeeps ==
  ASSUME NEW I, NEW r \in Stores(I), CallbacksFindTheirState(r.stream),
         NEW ms \in Seq(Messages)
  PROVE  LET t == Send(r, ms)
         IN  /\ t \in Stores(I) /\ CallbacksFindTheirState(t.stream)
             /\ t.enabled = r.enabled /\ t.pipeline = r.pipeline /\ t.handshake = r.handshake
             /\ t.call.answers = r.call.answers /\ t.call.status = r.call.status
             /\ IsStarted(t.stream) <=> IsStarted(r.stream)
             /\ IsOpen(t.stream) <=> IsOpen(r.stream)
             /\ Pending(t) = IF r.call.status = "none" THEN Pending(r) \o ms ELSE Pending(r)
             /\ t.stream.idle => r.stream.idle /\ ms = <<>>
<1>1. /\ r.call \in CallRecords /\ r.stream \in Streams /\ r.call.requests \in Seq(Messages)
  BY DEF Stores, CallRecords
<1>2. CASE ms = <<>>
  <2>1. Send(r, ms) = r
    BY <1>2 DEF Send
  <2>2. Pending(r) \in Seq(Messages)
    BY <1>1 DEF Pending
  <2>3. Pending(r) \o ms = Pending(r)
    BY <1>2, <2>2, ConcatEmptySeq
  <2>4. QED BY <1>2, <2>1, <2>3
<1>3. CASE ms # <<>>
  <2> DEFINE requests == r.call.requests \o ms
             d == [r.call EXCEPT !.requests = requests]
             s == CancelIdleCheck(r.stream)
  <2>1. requests \in Seq(Messages)
    BY <1>1
  <2>2. d \in CallRecords /\ d.requests = requests /\ d.answers = r.call.answers /\ d.status = r.call.status
    <3> HIDE DEF requests
    <3>1. QED BY <1>1, <2>1 DEF CallRecords
  <2>3. /\ s \in Streams /\ CallbacksFindTheirState(s) /\ ~s.idle
        /\ IsStarted(s) <=> IsStarted(r.stream)
    BY <1>1, StreamSteps
  <2>4. IsOpen(s) <=> IsOpen(r.stream)
    BY <1>1 DEF CancelIdleCheck, IsOpen, Streams
  <2>5. Send(r, ms) = [r EXCEPT !.stream = s, !.call = d]
    BY <1>1, <1>3 DEF Send, Stores, CallRecords
  <2> HIDE DEF s, d
  <2>6. /\ Send(r, ms) \in Stores(I) /\ Send(r, ms).enabled = r.enabled
        /\ Send(r, ms).pipeline = r.pipeline /\ Send(r, ms).handshake = r.handshake
        /\ Send(r, ms).stream = s /\ Send(r, ms).call = d
    BY <2>2, <2>3, <2>5 DEF Stores
  <2>7. Pending(Send(r, ms)) = IF r.call.status = "none" THEN Pending(r) \o ms ELSE Pending(r)
    BY <2>2, <2>6 DEF Pending
  <2>8. QED BY <2>2, <2>3, <2>4, <2>6, <2>7
<1>4. QED BY <1>2, <1>3

(* A stream that has ended is started if there is work for it.             *)
LEMMA StartIfNeededServes ==
  ASSUME NEW I, NEW r \in Stores(I), Ended(r)
  PROVE  LET t == StartIfNeeded(r)
         IN  /\ t \in Stores(I)
             /\ t.pipeline = r.pipeline /\ t.enabled = r.enabled /\ t.handshake = r.handshake
             /\ t.call = NoCall /\ CallbacksFindTheirState(t.stream)
             /\ ~t.stream.idle /\ ~IsOpen(t.stream)
             /\ IsStarted(t.stream) <=> r.enabled /\ r.pipeline # <<>>
<1>1. r.stream \in Streams /\ ~IsOpen(r.stream)
  BY DEF Stores, Ended, IsOpen, IsStarted
<1>2. CASE ShouldStartWriteStream(r)
  <2> DEFINE s == Start(r.stream)
  <2>1. s \in Streams /\ CallbacksFindTheirState(s) /\ IsStarted(s) /\ ~s.idle
    BY <1>1, StartSound DEF Ended
  <2>2. ~IsOpen(s)
    BY <1>1 DEF Start, IsOpen, Streams
  <2>3. StartIfNeeded(r) = [r EXCEPT !.stream = s]
    BY <1>2 DEF StartIfNeeded
  <2> HIDE DEF s
  <2>4. /\ StartIfNeeded(r) \in Stores(I) /\ StartIfNeeded(r).pipeline = r.pipeline
        /\ StartIfNeeded(r).enabled = r.enabled /\ StartIfNeeded(r).handshake = r.handshake
        /\ StartIfNeeded(r).call = r.call /\ StartIfNeeded(r).stream = s
    BY <2>1, <2>3 DEF Stores
  <2>5. QED BY <1>2, <2>1, <2>2, <2>4 DEF ShouldStartWriteStream, Ended
<1>3. CASE ~ShouldStartWriteStream(r)
  BY <1>1, <1>3 DEF StartIfNeeded, ShouldStartWriteStream, Ended, Stores
<1>4. QED BY <1>2, <1>3

(* What follows the pipeline in the queue and fits.                        *)
Following(r, q) ==
  LET last == IF r.pipeline = <<>> THEN 0 ELSE r.pipeline[Len(r.pipeline)].id
      later == AfterBatchId(q, last)
  IN  IF r.enabled THEN SubSeq(later, 1, Shorter(Len(later), PipelineSize - Len(r.pipeline)))
                   ELSE <<>>

LEMMA FollowingTyped ==
  ASSUME NEW I, NEW r \in Stores(I), NEW q \in Seq(BatchesOf(I))
  PROVE  Following(r, q) \in Seq(BatchesOf(I)) /\ r.pipeline \o Following(r, q) \in Seq(BatchesOf(I))
<1> DEFINE last == IF r.pipeline = <<>> THEN 0 ELSE r.pipeline[Len(r.pipeline)].id
           later == AfterBatchId(q, last)
           room == PipelineSize - Len(r.pipeline)
<1>1. r.pipeline \in Seq(BatchesOf(I)) /\ room \in Int
  BY SizeAssumption DEF Stores
<1>2. later \in Seq(BatchesOf(I))
  BY AfterBatchIdTyped
<1> HIDE DEF later, room, last
<1>3. SubSeq(later, 1, Shorter(Len(later), room)) \in Seq(BatchesOf(I))
  BY <1>1, <1>2, FirstOf
<1>4. Following(r, q) \in Seq(BatchesOf(I))
  BY <1>3 DEF Following, later, last, room
<1>5. QED BY <1>1, <1>4

LEMMA FillIs ==
  ASSUME NEW r, NEW q
  PROVE  LET p == AddToPipeline(r, Following(r, q))
         IN  FillWritePipeline(r, q) =
               StartIfNeeded(IF r.enabled /\ p.pipeline = <<>>
                             THEN [p EXCEPT !.stream = MarkIdle(@)] ELSE p)
BY DEF FillWritePipeline, Following

(* Filling the pipeline of a stream that has ended starts it if there is   *)
(* work.                                                                   *)
LEMMA FillEnded ==
  ASSUME NEW I, NEW r \in Stores(I), Ended(r), NEW q \in Seq(BatchesOf(I))
  PROVE  LET t == FillWritePipeline(r, q)
         IN  /\ t \in Stores(I)
             /\ t.enabled = r.enabled /\ t.handshake = r.handshake
             /\ t.call = NoCall /\ CallbacksFindTheirState(t.stream)
             /\ ~t.stream.idle /\ ~IsOpen(t.stream)
             /\ IsStarted(t.stream) <=> r.enabled /\ t.pipeline # <<>>
<1> DEFINE p == [r EXCEPT !.pipeline = r.pipeline \o Following(r, q)]
<1>1. ~IsOpen(r.stream) /\ r.stream \in Streams
  BY DEF Ended, IsOpen, IsStarted, Stores
<1>2. AddToPipeline(r, Following(r, q)) = p
  BY <1>1 DEF AddToPipeline
<1>3. /\ p \in Stores(I) /\ p.enabled = r.enabled /\ p.handshake = r.handshake
      /\ p.call = r.call /\ p.stream = r.stream
  <2>1. r.pipeline \o Following(r, q) \in Seq(BatchesOf(I))
    BY FollowingTyped
  <2>2. QED BY <2>1 DEF Stores
<1> HIDE DEF p
<1>4. [p EXCEPT !.stream = MarkIdle(@)] = p
  BY <1>1, <1>3 DEF MarkIdle, Stores
<1>5. FillWritePipeline(r, q) = StartIfNeeded(p)
  BY <1>2, <1>4, FillIs
<1>6. Ended(p)
  BY <1>3 DEF Ended
<1>7. QED BY <1>3, <1>5, <1>6, StartIfNeededServes

(* With its handshake reset, that is a store whose stream serves it.       *)
LEMMA EndedServes ==
  ASSUME NEW r, r.call = NoCall, CallbacksFindTheirState(r.stream),
         ~r.stream.idle, ~IsOpen(r.stream), ~r.handshake,
         IsStarted(r.stream) <=> r.enabled /\ r.pipeline # <<>>
  PROVE  Serves(r) /\ Meets(r)
BY DEF Serves, Meets, NoCall

(* Where an element of a concatenation comes from.                         *)
LEMMA Concatenated ==
  \A S : \A s, t \in Seq(S) :
    /\ s \o t \in Seq(S) /\ Len(s) \in Nat /\ Len(t) \in Nat
    /\ Len(s \o t) = Len(s) + Len(t)
    /\ \A i \in 1..Len(s) + Len(t) :
         (s \o t)[i] = IF i <= Len(s) THEN s[i] ELSE t[i - Len(s)]
BY ConcatProperties, LenProperties, Zenon

(* Two sequences that are alike stay so with alike ones appended.          *)
Alike(a, p) == Len(a) = Len(p) /\ \A i \in 1..Len(a) : a[i] = p[i].write

LEMMA AlikeGrow ==
  ASSUME NEW B, NEW p \in Seq(B), NEW bs \in Seq(B),
         NEW M, NEW a \in Seq(M), NEW ws \in Seq(M)
  PROVE  Alike(a, p) /\ Alike(ws, bs) => Alike(a \o ws, p \o bs)
<1>1. /\ Len(a) \in Nat /\ Len(ws) \in Nat
      /\ Len(a \o ws) = Len(a) + Len(ws)
      /\ \A i \in 1..Len(a) + Len(ws) :
           (a \o ws)[i] = IF i <= Len(a) THEN a[i] ELSE ws[i - Len(a)]
  BY Concatenated, Zenon
<1>2. /\ Len(p \o bs) = Len(p) + Len(bs)
      /\ \A i \in 1..Len(p) + Len(bs) :
           (p \o bs)[i] = IF i <= Len(p) THEN p[i] ELSE bs[i - Len(p)]
  BY Concatenated, Zenon
<1>3. SUFFICES ASSUME Alike(a, p), Alike(ws, bs), NEW i \in 1..Len(a) + Len(ws)
               PROVE  (a \o ws)[i] = (p \o bs)[i].write
  BY <1>1, <1>2 DEF Alike
<1>4. CASE i <= Len(a)
  BY <1>1, <1>2, <1>3, <1>4 DEF Alike
<1>5. CASE ~(i <= Len(a))
  <2>1. i - Len(a) \in 1..Len(ws)
    BY <1>1, <1>5
  <2>2. QED BY <1>1, <1>2, <1>3, <1>5, <2>1 DEF Alike
<1>6. QED BY <1>4, <1>5

(* Appending to what was sent and to the pipeline keeps them alike.        *)
LEMMA MoreMeets ==
  ASSUME NEW I, NEW r \in Stores(I), NEW t \in Stores(I), NEW bs \in Seq(BatchesOf(I)),
         Meets(r), r.handshake, t.handshake,
         t.pipeline = r.pipeline \o bs, t.call.answers = r.call.answers,
         t.call.status = r.call.status,
         Pending(t) = IF r.call.status = "none" THEN Pending(r) \o WritesOf(bs) ELSE Pending(r)
  PROVE  Meets(t)
<1> DEFINE ws == WritesOf(bs)
           a == r.call.answers
           b == Pending(r)
           p == r.pipeline
<1>1. b \in Seq(Messages) /\ a \in Seq(Messages) /\ p \in Seq(BatchesOf(I))
  BY DEF Stores, CallRecords, Pending
<1>2. /\ ws \in Seq(Messages) /\ Len(ws) = Len(bs)
      /\ \A i \in 1..Len(ws) : ws[i] = bs[i].write
  BY WritesOfTyped
<1>3. a \o b \in Seq(Messages) /\ Len(a \o b) \in Nat /\ Len(p) \in Nat /\ Len(bs) \in Nat
  BY <1>1, ConcatProperties, LenProperties
<1>4. /\ Len(a \o b) <= Len(p)
      /\ \A i \in 1..Len(a \o b) : (a \o b)[i] = p[i].write
      /\ r.call.status = "none" => Len(a \o b) = Len(p)
      /\ r.call.status # "none" => b = <<>>
  BY DEF Meets, Sent, Pending
<1>5. CASE r.call.status = "none"
  <2>1. Sent(t) = (a \o b) \o ws
    <3>1. t.call.answers = a /\ Pending(t) = b \o ws
      BY <1>5
    <3> HIDE DEF ws, a, b
    <3>2. (a \o b) \o ws = a \o (b \o ws)
      BY <1>1, <1>2, ConcatAssociative
    <3>3. QED BY <3>1, <3>2 DEF Sent
  <2> HIDE DEF ws, a, b, p
  <2>2. /\ Len((a \o b) \o ws) = Len(p \o bs)
        /\ \A i \in 1..Len((a \o b) \o ws) : ((a \o b) \o ws)[i] = (p \o bs)[i].write
    <3>1. Alike(a \o b, p) /\ Alike(ws, bs)
      BY <1>2, <1>4, <1>5 DEF Alike
    <3>2. Alike((a \o b) \o ws, p \o bs)
      BY <1>1, <1>2, <1>3, <3>1, AlikeGrow
    <3>3. QED BY <3>2 DEF Alike
  <2>3. t.pipeline = p \o bs /\ Len(p \o bs) \in Nat
    BY <1>1, ConcatProperties, LenProperties DEF p
  <2>4. QED BY <1>5, <2>1, <2>2, <2>3 DEF Meets
<1>6. CASE r.call.status # "none"
  <2>1. Sent(t) = a \o b
    BY <1>6 DEF Sent
  <2>2. /\ Len(p \o bs) = Len(p) + Len(bs) /\ Len(a \o b) <= Len(p \o bs)
        /\ \A i \in 1..Len(p) : (p \o bs)[i] = p[i]
    <3>1. /\ Len(p \o bs) = Len(p) + Len(bs)
          /\ \A i \in 1..Len(p) + Len(bs) : (p \o bs)[i] = IF i <= Len(p) THEN p[i] ELSE bs[i - Len(p)]
      BY <1>1, ConcatProperties
    <3> HIDE DEF a, b, p
    <3>2. QED BY <1>3, <1>4, <3>1
  <2>3. t.pipeline = p \o bs /\ t.call.status # "none"
    BY <1>6
  <2> HIDE DEF ws, a, b, p
  <2>4. \A i \in 1..Len(a \o b) : (a \o b)[i] = (p \o bs)[i].write
    BY <1>3, <1>4, <2>2
  <2>5. QED BY <2>1, <2>2, <2>3, <2>4 DEF Meets
<1>7. QED BY <1>5, <1>6

-----------------------------------------------------------------------------
(* Filling the pipeline of a stream that runs: what is added is sent if    *)
(* the handshake is done, and ends the idleness.                           *)
LEMMA AddStarted ==
  ASSUME NEW I, NEW r \in Stores(I), Serves(r), Meets(r), IsStarted(r.stream),
         NEW bs \in Seq(BatchesOf(I))
  PROVE  LET t == AddToPipeline(r, bs)
         IN  t \in Stores(I) /\ Serves(t) /\ Meets(t) /\ IsStarted(t.stream)
<1> DEFINE p == [r EXCEPT !.pipeline = r.pipeline \o bs]
           ws == WritesOf(bs)
           t == AddToPipeline(r, bs)
<1>1. /\ r.pipeline \in Seq(BatchesOf(I)) /\ r.stream \in Streams
      /\ r.pipeline \o bs \in Seq(BatchesOf(I))
      /\ r.pipeline \o bs = <<>> <=> r.pipeline = <<>> /\ bs = <<>>
      /\ CallbacksFindTheirState(r.stream) /\ r.enabled
  <2>1. r.pipeline \in Seq(BatchesOf(I)) /\ r.stream \in Streams
    BY DEF Stores
  <2>2. r.pipeline \o bs \in Seq(BatchesOf(I))
    BY <2>1, ConcatProperties
  <2>3. r.pipeline \o bs = <<>> <=> r.pipeline = <<>> /\ bs = <<>>
    BY <2>1, ConcatEqualIffEmpty
  <2>4. QED BY <2>1, <2>2, <2>3 DEF Serves
<1>2. /\ p \in Stores(I) /\ p.enabled = r.enabled /\ p.handshake = r.handshake
      /\ p.call = r.call /\ p.stream = r.stream /\ p.pipeline = r.pipeline \o bs
  BY <1>1 DEF Stores
<1>3. ws \in Seq(Messages) /\ (ws = <<>> <=> bs = <<>>)
  BY WritesOfTyped
<1> HIDE DEF p, ws, t
<1>4. CASE r.handshake
  <2>1. IsOpen(r.stream)
    BY <1>4 DEF Serves
  <2>2. t = Send(p, ws)
    BY <1>4, <2>1 DEF AddToPipeline, t, p, ws
  <2>3. /\ t \in Stores(I) /\ CallbacksFindTheirState(t.stream)
        /\ t.enabled = r.enabled /\ t.pipeline = r.pipeline \o bs /\ t.handshake
        /\ t.call.answers = r.call.answers /\ t.call.status = r.call.status
        /\ IsStarted(t.stream) /\ IsOpen(t.stream)
        /\ Pending(t) = IF r.call.status = "none" THEN Pending(r) \o ws ELSE Pending(r)
        /\ t.stream.idle => r.stream.idle /\ ws = <<>>
    <3>1. CallbacksFindTheirState(p.stream)
      BY <1>1, <1>2
    <3>2. /\ t \in Stores(I) /\ CallbacksFindTheirState(t.stream)
          /\ t.enabled = p.enabled /\ t.pipeline = p.pipeline /\ t.handshake = p.handshake
          /\ t.call.answers = p.call.answers /\ t.call.status = p.call.status
          /\ IsStarted(t.stream) <=> IsStarted(p.stream)
          /\ IsOpen(t.stream) <=> IsOpen(p.stream)
          /\ Pending(t) = IF p.call.status = "none" THEN Pending(p) \o ws ELSE Pending(p)
          /\ t.stream.idle => p.stream.idle /\ ws = <<>>
      BY <1>2, <1>3, <2>2, <3>1, SendKeeps
    <3>3. Pending(p) = Pending(r)
      BY <1>2 DEF Pending
    <3>4. QED BY <1>2, <1>4, <2>1, <3>2, <3>3
  <2>4. Meets(t)
    BY <1>4, <2>3, MoreMeets DEF ws
  <2>5. Serves(t)
    BY <1>1, <1>3, <2>3 DEF Serves
  <2>6. QED BY <2>3, <2>4, <2>5 DEF t
<1>5. CASE ~r.handshake
  <2>1. t = p
    BY <1>5 DEF AddToPipeline, t, p
  <2>2. r.pipeline # <<>> /\ ~r.stream.idle
    BY <1>5 DEF Serves
  <2>3. Serves(p)
    BY <1>1, <1>2, <1>5, <2>2 DEF Serves
  <2>4. Meets(p)
    BY <1>2, <1>5 DEF Meets, Sent, Pending
  <2>5. QED BY <1>2, <2>1, <2>3, <2>4 DEF t
<1>6. QED BY <1>4, <1>5

LEMMA FillStarted ==
  ASSUME NEW I, NEW r \in Stores(I), Serves(r), Meets(r), IsStarted(r.stream),
         NEW q \in Seq(BatchesOf(I))
  PROVE  LET t == FillWritePipeline(r, q)
         IN  t \in Stores(I) /\ Serves(t) /\ Meets(t)
<1> DEFINE p == AddToPipeline(r, Following(r, q))
           m == [p EXCEPT !.stream = MarkIdle(@)]
           f == IF r.enabled /\ p.pipeline = <<>> THEN m ELSE p
<1>1. p \in Stores(I) /\ Serves(p) /\ Meets(p) /\ IsStarted(p.stream)
  BY FollowingTyped, AddStarted
<1>2. FillWritePipeline(r, q) = StartIfNeeded(f)
  BY FillIs
<1> HIDE DEF p
<1>3. CASE r.enabled /\ p.pipeline = <<>>
  <2> DEFINE s == MarkIdle(p.stream)
  <2>1. p.stream \in Streams /\ CallbacksFindTheirState(p.stream)
    BY <1>1 DEF Stores, Serves
  <2>2. /\ s \in Streams /\ CallbacksFindTheirState(s) /\ IsStarted(s)
        /\ IsOpen(s) <=> IsOpen(p.stream)
    BY <1>1, <2>1, StreamSteps DEF MarkIdle, IsOpen, Streams
  <2> HIDE DEF s
  <2>3. m = [p EXCEPT !.stream = s]
    BY DEF s
  <2>4. /\ m \in Stores(I) /\ m.enabled = p.enabled /\ m.handshake = p.handshake
        /\ m.call = p.call /\ m.stream = s /\ m.pipeline = p.pipeline
    BY <1>1, <2>2, <2>3 DEF Stores
  <2> HIDE DEF m
  <2>5. Serves(m) /\ Meets(m)
    <3>1. Serves(m)
      BY <1>1, <1>3, <2>2, <2>4 DEF Serves
    <3>2. Sent(m) = Sent(p)
      BY <2>4 DEF Sent, Pending
    <3>3. Meets(m)
      BY <1>1, <2>2, <2>4, <3>2 DEF Meets
    <3>4. QED BY <3>1, <3>3
  <2>6. StartIfNeeded(f) = m
    BY <1>3, <2>2, <2>4 DEF StartIfNeeded, ShouldStartWriteStream
  <2>7. QED BY <1>2, <2>4, <2>5, <2>6
<1>4. CASE ~(r.enabled /\ p.pipeline = <<>>)
  BY <1>1, <1>2, <1>4 DEF StartIfNeeded, ShouldStartWriteStream
<1>5. QED BY <1>3, <1>4

-----------------------------------------------------------------------------
(* The network goes off: nothing is left of the stream, the call and the   *)
(* pipeline.                                                               *)
LEMMA DisableNetworkEnds ==
  ASSUME NEW I, NEW r \in Stores(I), CallbacksFindTheirState(r.stream)
  PROVE  LET t == DisableNetwork(r)
         IN  t \in Stores(I) /\ Ended(t) /\ ~t.handshake /\ ~t.enabled
<1> DEFINE s == Stop(r.stream)
<1>1. s \in Streams /\ CallbacksFindTheirState(s) /\ ~IsStarted(s) /\ ~s.idle
  <2>1. r.stream \in Streams
    BY DEF Stores
  <2>2. CASE IsStarted(r.stream)
    BY <2>1, <2>2, CloseSound DEF Stop
  <2>3. CASE ~IsStarted(r.stream)
    BY <2>1, <2>3 DEF Stop, CallbacksFindTheirState, IsStarted, IsOpen
  <2>4. QED BY <2>2, <2>3
<1>2. NoCall \in CallRecords /\ <<>> \in Seq(BatchesOf(I))
  BY DEF NoCall, CallRecords
<1> HIDE DEF s
<1>3. DisableNetwork(r) = [r EXCEPT !.enabled = FALSE, !.stream = s, !.handshake = FALSE,
                                    !.call = NoCall, !.pipeline = <<>>]
  BY DEF DisableNetwork, s
<1>4. QED BY <1>1, <1>2, <1>3 DEF Stores, Ended

LEMMA EnableNetworkServes ==
  ASSUME NEW I, NEW r \in Stores(I), Ended(r), ~r.handshake, NEW q \in Seq(BatchesOf(I))
  PROVE  LET t == EnableNetwork(r, q)
         IN  t \in Stores(I) /\ Serves(t) /\ Meets(t)
<1> DEFINE on == [r EXCEPT !.enabled = TRUE]
<1>1. on \in Stores(I) /\ Ended(on) /\ ~on.handshake
  BY DEF Stores, Ended
<1>2. EnableNetwork(r, q) = FillWritePipeline(on, q)
  BY DEF EnableNetwork
<1> HIDE DEF on
<1>3. QED BY <1>1, <1>2, FillEnded, EndedServes

LEMMA RestartNetworkServes ==
  ASSUME NEW I, NEW r \in Stores(I), CallbacksFindTheirState(r.stream),
         NEW q \in Seq(BatchesOf(I))
  PROVE  LET t == RestartNetwork(r, q)
         IN  t \in Stores(I) /\ Serves(t) /\ Meets(t)
<1> DEFINE off == DisableNetwork(r)
           s == InhibitBackoff(off.stream)
           o == [off EXCEPT !.stream = s]
<1>1. off \in Stores(I) /\ Ended(off) /\ ~off.handshake
  BY DisableNetworkEnds
<1> HIDE DEF off
<1>2. s \in Streams /\ CallbacksFindTheirState(s) /\ ~IsStarted(s) /\ ~s.idle
  <2>1. off.stream \in Streams /\ CallbacksFindTheirState(off.stream) /\ ~IsStarted(off.stream)
    BY <1>1 DEF Stores, Ended
  <2>2. QED BY <2>1, StreamSteps
<1>3. RestartNetwork(r, q) = EnableNetwork(o, q)
  BY DEF RestartNetwork, off
<1> HIDE DEF s
<1>4. o \in Stores(I) /\ Ended(o) /\ ~o.handshake
  BY <1>1, <1>2 DEF Stores, Ended
<1> HIDE DEF o
<1>5. QED BY <1>3, <1>4, EnableNetworkServes

LEMMA NewRemoteStoreEnded ==
  ASSUME NEW I
  PROVE  NewRemoteStore \in Stores(I) /\ Ended(NewRemoteStore) /\ ~NewRemoteStore.handshake
<1>1. NoCall \in CallRecords /\ <<>> \in Seq(BatchesOf(I))
  BY DEF NoCall, CallRecords
<1>2. /\ NewStream \in Streams /\ CallbacksFindTheirState(NewStream)
      /\ ~IsStarted(NewStream) /\ ~NewStream.idle
  BY DEF NewStream, Streams, States, CallbacksFindTheirState, IsStarted, IsOpen
<1>3. QED BY <1>1, <1>2 DEF NewRemoteStore, Stores, Ended

-----------------------------------------------------------------------------
(* The network, the user and the process.                                  *)
LEMMA NetworkSteps ==
  ASSUME NEW I, Known(I), Serves(rs), Meets(rs),
         \/ TurnNetworkOff \/ TurnNetworkOn \/ ConnectivityChanges \/ ProcessRestart
         \/ \E u \in Users : CredentialChange(u)
  PROVE  Known(I)' /\ Serves(rs') /\ Meets(rs')
<1>1. /\ rs \in Stores(I) /\ CallbacksFindTheirState(rs.stream) /\ user \in Users
      /\ \A u \in Users : queue[u] \in Seq(BatchesOf(I))
      /\ queue \in [Users -> Seq(BatchesOf(I))]
  BY DEF Known, Serves
<1>2. user' \in Users /\ queue' = queue
  BY <1>1 DEF TurnNetworkOff, TurnNetworkOn, ConnectivityChanges, ProcessRestart,
     CredentialChange, NothingSettled
<1>3. SUFFICES rs' \in Stores(I) /\ Serves(rs') /\ Meets(rs')
  BY <1>1, <1>2 DEF Known
<1>4. CASE TurnNetworkOff
  <2>1. rs' = DisableNetwork(rs)
    BY <1>4 DEF TurnNetworkOff
  <2>2. rs' \in Stores(I) /\ Ended(rs') /\ ~rs'.handshake /\ ~rs'.enabled
    BY <1>1, <2>1, DisableNetworkEnds
  <2>3. QED BY <2>2, EndedServes DEF Ended, IsOpen, IsStarted
<1>5. CASE TurnNetworkOn
  <2>1. rs' = EnableNetwork(rs, queue[user]) /\ ~rs.enabled
    BY <1>5 DEF TurnNetworkOn
  <2>2. Ended(rs) /\ ~rs.handshake
    BY <2>1 DEF Serves, Ended, CallbacksFindTheirState, IsOpen, IsStarted
  <2>3. QED BY <1>1, <2>1, <2>2, EnableNetworkServes
<1>6. CASE ConnectivityChanges
  BY <1>1, <1>6, RestartNetworkServes DEF ConnectivityChanges
<1>7. CASE \E u \in Users : CredentialChange(u)
  BY <1>1, <1>7, RestartNetworkServes DEF CredentialChange
<1>8. CASE ProcessRestart
  BY <1>1, <1>8, NewRemoteStoreEnded, EnableNetworkServes DEF ProcessRestart
<1>9. QED BY <1>4, <1>5, <1>6, <1>7, <1>8

-----------------------------------------------------------------------------
(* A batch that is settled leaves the queue.                               *)
LEMMA SettleHeadTyped ==
  ASSUME NEW I, Known(I), NEW b, NEW end, SettleHead(b, end)
  PROVE  queue' \in [Users -> Seq(BatchesOf(I))]
<1>1. queue[user] \in Seq(BatchesOf(I)) /\ queue \in [Users -> Seq(BatchesOf(I))] /\ user \in Users
  BY DEF Known
<1>2. Without(queue[user], b) \in Seq(BatchesOf(I))
  BY <1>1, WithoutTyped
<1>3. queue' = [queue EXCEPT ![user] = Without(queue[user], b)]
  BY DEF SettleHead
<1>4. QED BY <1>1, <1>2, <1>3

LEMMA TailTyped ==
  ASSUME NEW B, NEW s \in Seq(B), s # <<>>
  PROVE  /\ Tail(s) \in Seq(B) /\ Len(s) \in Nat /\ Len(Tail(s)) = Len(s) - 1 /\ Len(s) > 0
         /\ \A i \in 1..Len(s) - 1 : Tail(s)[i] = s[i + 1]
         /\ Head(s) = s[1] /\ Head(s) \in B
OBVIOUS

(* The stream ends with an error: whatever becomes of the head of the      *)
(* pipeline, the stream starts again if there is work.                     *)
LEMMA FinishStep ==
  ASSUME NEW I, Known(I), Serves(rs), NEW status, Finish(status), user' = user
  PROVE  Known(I)' /\ Serves(rs') /\ Meets(rs')
<1> DEFINE s == Close(rs.stream, FALSE)
           closed == [rs EXCEPT !.stream = s, !.call = NoCall]
           head == rs.pipeline[1]
           rejected == [closed EXCEPT !.pipeline = Tail(@), !.stream = InhibitBackoff(@)]
           q == Without(queue[user], head)
           filled == FillWritePipeline(rejected, q)
<1>1. /\ rs \in Stores(I) /\ rs.stream \in Streams /\ rs.pipeline \in Seq(BatchesOf(I))
      /\ user \in Users /\ queue \in [Users -> Seq(BatchesOf(I))]
      /\ CallbacksFindTheirState(rs.stream)
  BY DEF Known, Serves, Stores
<1>2. s \in Streams /\ CallbacksFindTheirState(s) /\ ~IsStarted(s) /\ ~s.idle
  BY <1>1, CloseSound
<1>3. NoCall \in CallRecords
  BY DEF NoCall, CallRecords
<1> HIDE DEF s
<1>4. /\ closed \in Stores(I) /\ Ended(closed) /\ closed.pipeline = rs.pipeline
      /\ closed.enabled = rs.enabled /\ closed.stream = s
  BY <1>1, <1>2, <1>3 DEF Stores, Ended
<1>5. \/ /\ rs.pipeline # <<>> /\ SettleHead(head, "refused")
         /\ rs' = [StartIfNeeded(filled) EXCEPT !.handshake = FALSE]
      \/ rs' = [StartIfNeeded(closed) EXCEPT !.handshake = FALSE] /\ NothingSettled
  BY DEF Finish, s
<1> HIDE DEF closed
<1>6. CASE /\ rs.pipeline # <<>> /\ SettleHead(head, "refused")
           /\ rs' = [StartIfNeeded(filled) EXCEPT !.handshake = FALSE]
  <2>1. queue' \in [Users -> Seq(BatchesOf(I))] /\ q \in Seq(BatchesOf(I))
    BY <1>1, <1>6, SettleHeadTyped, WithoutTyped
  <2> HIDE DEF q, head
  <2>2. Tail(rs.pipeline) \in Seq(BatchesOf(I))
    BY <1>1, <1>6, TailTyped
  <2>3. /\ InhibitBackoff(s) \in Streams /\ CallbacksFindTheirState(InhibitBackoff(s))
        /\ ~IsStarted(InhibitBackoff(s)) /\ ~InhibitBackoff(s).idle
    BY <1>2, StreamSteps
  <2>4. rejected \in Stores(I) /\ Ended(rejected) /\ rejected.enabled = rs.enabled
    BY <1>4, <2>2, <2>3 DEF Stores, Ended
  <2> HIDE DEF rejected
  <2>5. /\ filled \in Stores(I)
        /\ filled.call = NoCall /\ CallbacksFindTheirState(filled.stream)
        /\ ~filled.stream.idle /\ ~IsOpen(filled.stream)
        /\ IsStarted(filled.stream) <=> filled.enabled /\ filled.pipeline # <<>>
    <3>1. /\ filled \in Stores(I) /\ filled.enabled = rejected.enabled
          /\ filled.call = NoCall /\ CallbacksFindTheirState(filled.stream)
          /\ ~filled.stream.idle /\ ~IsOpen(filled.stream)
          /\ IsStarted(filled.stream) <=> rejected.enabled /\ filled.pipeline # <<>>
      BY <2>1, <2>4, FillEnded
    <3>2. QED BY <3>1
  <2> HIDE DEF filled
  <2>6. StartIfNeeded(filled) = filled
    BY <2>5 DEF StartIfNeeded, ShouldStartWriteStream
  <2>7. /\ rs' \in Stores(I) /\ ~rs'.handshake /\ rs'.enabled = filled.enabled
        /\ rs'.call = filled.call /\ rs'.stream = filled.stream /\ rs'.pipeline = filled.pipeline
    BY <1>6, <2>5, <2>6 DEF Stores
  <2>8. Serves(rs') /\ Meets(rs')
    BY <2>5, <2>7, EndedServes
  <2>9. QED BY <1>1, <2>1, <2>7, <2>8 DEF Known
<1>7. CASE rs' = [StartIfNeeded(closed) EXCEPT !.handshake = FALSE] /\ NothingSettled
  <2> DEFINE t == StartIfNeeded(closed)
  <2>1. /\ t \in Stores(I) /\ t.pipeline = closed.pipeline /\ t.enabled = closed.enabled
        /\ t.call = NoCall /\ CallbacksFindTheirState(t.stream)
        /\ ~t.stream.idle /\ ~IsOpen(t.stream)
        /\ IsStarted(t.stream) <=> closed.enabled /\ closed.pipeline # <<>>
    BY <1>4, StartIfNeededServes
  <2> HIDE DEF t
  <2>2. /\ rs' \in Stores(I) /\ ~rs'.handshake /\ rs'.enabled = t.enabled
        /\ rs'.call = t.call /\ rs'.stream = t.stream /\ rs'.pipeline = t.pipeline
    BY <1>7, <2>1 DEF Stores, t
  <2>3. Serves(rs') /\ Meets(rs')
    BY <2>1, <2>2, EndedServes
  <2>4. QED BY <1>1, <1>7, <2>2, <2>3 DEF Known, NothingSettled
<1>8. QED BY <1>5, <1>6, <1>7

(* The timers and the credentials of a stream.                             *)
LEMMA CallbackSteps ==
  ASSUME NEW I, Known(I), Serves(rs), Meets(rs),
         \/ NoCredentials \/ StreamEnds \/ Garbled \/ LateCredentials \/ BackoffElapses
         \/ IdleTimeout \/ Connect
  PROVE  Known(I)' /\ Serves(rs') /\ Meets(rs')
<1>1. /\ rs \in Stores(I) /\ rs.stream \in Streams /\ rs.call \in CallRecords
      /\ CallbacksFindTheirState(rs.stream)
      /\ user \in Users /\ queue \in [Users -> Seq(BatchesOf(I))]
  BY DEF Known, Serves, Stores
<1>2. CASE NoCredentials \/ StreamEnds \/ Garbled
  BY <1>2, FinishStep DEF NoCredentials, StreamEnds, Garbled
<1>3. ASSUME LateCredentials \/ BackoffElapses \/ IdleTimeout \/ Connect,
             rs' \in Stores(I), Serves(rs'), Meets(rs')
      PROVE  Known(I)' /\ Serves(rs') /\ Meets(rs')
  BY <1>1, <1>3 DEF Known, LateCredentials, BackoffElapses, IdleTimeout, Connect, NothingSettled
<1>4. CASE LateCredentials
  <2> DEFINE s == [rs.stream EXCEPT !.asked = @ \ {"stale"}]
  <2>1. /\ s \in Streams /\ CallbacksFindTheirState(s) /\ s.idle = rs.stream.idle
        /\ IsStarted(s) <=> IsStarted(rs.stream)
        /\ IsOpen(s) <=> IsOpen(rs.stream)
    BY <1>1 DEF Streams, CallbacksFindTheirState, IsStarted, IsOpen
  <2>2. rs' = [rs EXCEPT !.stream = s]
    BY <1>1, <1>4 DEF LateCredentials, Stores
  <2> HIDE DEF s
  <2>3. /\ rs' \in Stores(I) /\ rs'.enabled = rs.enabled /\ rs'.handshake = rs.handshake
        /\ rs'.call = rs.call /\ rs'.stream = s /\ rs'.pipeline = rs.pipeline
    BY <1>1, <2>1, <2>2 DEF Stores
  <2>4. Serves(rs') /\ Meets(rs')
    <3>1. Serves(rs')
      BY <1>1, <2>1, <2>3 DEF Serves
    <3>2. Sent(rs') = Sent(rs)
      BY <2>3 DEF Sent, Pending
    <3>3. Meets(rs')
      BY <1>1, <2>1, <2>3, <3>2 DEF Meets
    <3>4. QED BY <3>1, <3>3
  <2>5. QED BY <1>3, <1>4, <2>3, <2>4
<1>5. CASE BackoffElapses
  <2> DEFINE s == BackoffDone(rs.stream)
  <2>1. s \in Streams /\ CallbacksFindTheirState(s) /\ IsStarted(s) /\ ~s.idle
    BY <1>1, <1>5, StreamSteps DEF BackoffElapses
  <2>2. ~IsOpen(s) /\ ~IsOpen(rs.stream) /\ IsStarted(rs.stream)
    BY <1>1, <1>5 DEF BackoffElapses, BackoffDone, Start, Streams, CallbacksFindTheirState,
       IsOpen, IsStarted
  <2>3. rs' = [rs EXCEPT !.stream = s]
    BY <1>5 DEF BackoffElapses
  <2> HIDE DEF s
  <2>4. /\ rs' \in Stores(I) /\ rs'.enabled = rs.enabled /\ rs'.handshake = rs.handshake
        /\ rs'.call = rs.call /\ rs'.stream = s /\ rs'.pipeline = rs.pipeline
    BY <1>1, <2>1, <2>3 DEF Stores
  <2>5. Serves(rs') /\ Meets(rs')
    BY <2>1, <2>2, <2>4, EndedServes DEF Serves
  <2>6. QED BY <1>3, <1>5, <2>4, <2>5
<1>6. CASE IdleTimeout
  <2> DEFINE s == Stop(rs.stream)
             stopped == [rs EXCEPT !.stream = s, !.handshake = FALSE, !.call = NoCall]
             t == StartIfNeeded(stopped)
  <2>1. s \in Streams /\ CallbacksFindTheirState(s) /\ ~IsStarted(s) /\ ~s.idle
    BY <1>1, <1>6, CloseSound DEF IdleTimeout, Stop, CallbacksFindTheirState, IsStarted, IsOpen
  <2>2. rs' = t
    BY <1>6 DEF IdleTimeout
  <2>3. NoCall \in CallRecords
    BY DEF NoCall, CallRecords
  <2> HIDE DEF s
  <2>4. stopped \in Stores(I) /\ Ended(stopped) /\ ~stopped.handshake
    BY <1>1, <2>1, <2>3 DEF Stores, Ended
  <2> HIDE DEF stopped
  <2>5. /\ t \in Stores(I)
        /\ t.pipeline = stopped.pipeline /\ t.enabled = stopped.enabled
        /\ t.handshake = stopped.handshake
        /\ t.call = NoCall /\ CallbacksFindTheirState(t.stream)
        /\ ~t.stream.idle /\ ~IsOpen(t.stream)
        /\ IsStarted(t.stream) <=> stopped.enabled /\ stopped.pipeline # <<>>
    BY <2>4, StartIfNeededServes
  <2> HIDE DEF t
  <2>6. Serves(t) /\ Meets(t)
    BY <2>4, <2>5, EndedServes
  <2>7. QED BY <1>3, <1>6, <2>2, <2>5, <2>6
<1>7. CASE Connect
  <2> DEFINE s == Opened(rs.stream)
             open == [rs EXCEPT !.stream = s, !.call = NoCall]
  <2>1. /\ s \in Streams /\ CallbacksFindTheirState(s) /\ IsStarted(s) /\ ~s.idle /\ IsOpen(s)
        /\ ~IsOpen(rs.stream) /\ IsStarted(rs.stream)
    BY <1>1, <1>7, StreamSteps DEF Connect, Opened, IsOpen, IsStarted, Streams,
       CallbacksFindTheirState
  <2>2. NoCall \in CallRecords /\ <<0>> \in Seq(Messages)
    BY BoundsAssumption DEF NoCall, CallRecords, Messages
  <2>3. rs' = Send(open, <<0>>)
    BY <1>7 DEF Connect
  <2> HIDE DEF s
  <2>4. /\ open \in Stores(I) /\ open.enabled = rs.enabled /\ open.handshake = rs.handshake
        /\ open.call = NoCall /\ open.stream = s /\ open.pipeline = rs.pipeline
    BY <1>1, <2>1, <2>2 DEF Stores
  <2> HIDE DEF open
  <2>5. /\ rs' \in Stores(I) /\ CallbacksFindTheirState(rs'.stream)
        /\ rs'.enabled = open.enabled /\ rs'.pipeline = open.pipeline
        /\ rs'.handshake = open.handshake
        /\ rs'.call.answers = open.call.answers /\ rs'.call.status = open.call.status
        /\ IsStarted(rs'.stream) <=> IsStarted(open.stream)
        /\ IsOpen(rs'.stream) <=> IsOpen(open.stream)
        /\ Pending(rs') = IF open.call.status = "none" THEN Pending(open) \o <<0>> ELSE Pending(open)
        /\ rs'.stream.idle => open.stream.idle /\ <<0>> = <<>>
    <3> DEFINE ms == <<0>>
    <3>1. /\ open \in Stores(I) /\ CallbacksFindTheirState(open.stream)
          /\ ms \in Seq(Messages) /\ rs' = Send(open, ms)
      BY <2>1, <2>2, <2>3, <2>4
    <3> HIDE DEF ms
    <3>2. /\ rs' \in Stores(I) /\ CallbacksFindTheirState(rs'.stream)
          /\ rs'.enabled = open.enabled /\ rs'.pipeline = open.pipeline
          /\ rs'.handshake = open.handshake
          /\ rs'.call.answers = open.call.answers /\ rs'.call.status = open.call.status
          /\ IsStarted(rs'.stream) <=> IsStarted(open.stream)
          /\ IsOpen(rs'.stream) <=> IsOpen(open.stream)
          /\ Pending(rs') = IF open.call.status = "none" THEN Pending(open) \o ms ELSE Pending(open)
          /\ rs'.stream.idle => open.stream.idle /\ ms = <<>>
      BY <3>1, SendKeeps
    <3>3. QED BY <3>2 DEF ms
  <2>6. rs'.call.answers = <<>> /\ Pending(rs') = <<0>> /\ rs'.call.status = "none"
    BY <2>4, <2>5 DEF NoCall, Pending
  <2>7. Sent(rs') = <<0>>
    BY <2>6 DEF Sent
  <2>8. Serves(rs') /\ Meets(rs')
    BY <2>1, <2>4, <2>5, <2>6, <2>7 DEF Serves, Meets
  <2>9. QED BY <1>3, <1>7, <2>5, <2>8
<1>8. QED BY <1>2, <1>4, <1>5, <1>6, <1>7

-----------------------------------------------------------------------------
(* An answer read, or given, and what is on its way.                       *)
LEMMA AnswerRead ==
  ASSUME NEW M, NEW a \in Seq(M), NEW b \in Seq(M), a # <<>>
  PROVE  /\ Tail(a) \in Seq(M)
         /\ Len(Tail(a) \o b) = Len(a \o b) - 1 /\ Len(a \o b) \in Nat /\ Len(a \o b) > 0
         /\ \A i \in 1..Len(a \o b) - 1 : (Tail(a) \o b)[i] = (a \o b)[i + 1]
<1>1. /\ Tail(a) \in Seq(M) /\ Len(a) \in Nat /\ Len(Tail(a)) = Len(a) - 1 /\ Len(a) > 0
      /\ \A i \in 1..Len(a) - 1 : Tail(a)[i] = a[i + 1]
  BY TailTyped
<1>2. /\ Len(b) \in Nat /\ Len(a \o b) = Len(a) + Len(b)
      /\ \A i \in 1..Len(a) + Len(b) : (a \o b)[i] = IF i <= Len(a) THEN a[i] ELSE b[i - Len(a)]
  BY Concatenated, Zenon
<1>3. /\ Len(Tail(a) \o b) = Len(Tail(a)) + Len(b)
      /\ \A i \in 1..Len(Tail(a)) + Len(b) :
           (Tail(a) \o b)[i] = IF i <= Len(Tail(a)) THEN Tail(a)[i] ELSE b[i - Len(Tail(a))]
  BY <1>1, Concatenated, Zenon
<1>4. SUFFICES ASSUME NEW i \in 1..Len(a) + Len(b) - 1
               PROVE  (Tail(a) \o b)[i] = (a \o b)[i + 1]
  BY <1>1, <1>2, <1>3
<1>5. i + 1 \in 1..Len(a) + Len(b) /\ i \in 1..Len(Tail(a)) + Len(b)
  BY <1>1, <1>2
<1>6. CASE i <= Len(a) - 1
  BY <1>1, <1>2, <1>3, <1>5, <1>6
<1>7. CASE ~(i <= Len(a) - 1)
  <2>1. i - Len(Tail(a)) = (i + 1) - Len(a) /\ ~(i + 1 <= Len(a)) /\ ~(i <= Len(Tail(a)))
    BY <1>1, <1>2, <1>7
  <2>2. QED BY <1>2, <1>3, <1>5, <2>1
<1>8. QED BY <1>6, <1>7

LEMMA AnswerGiven ==
  ASSUME NEW M, NEW a \in Seq(M), NEW b \in Seq(M), b # <<>>
  PROVE  /\ Append(a, Head(b)) \in Seq(M) /\ Tail(b) \in Seq(M)
         /\ Append(a, Head(b)) \o Tail(b) = a \o b
<1>1. Head(b) \in M /\ Tail(b) \in Seq(M)
  BY TailTyped
<1>2. Append(a, Head(b)) \in Seq(M) /\ Append(a, Head(b)) = a \o <<Head(b)>>
  BY <1>1
<1>3. <<Head(b)>> \in Seq(M) /\ <<Head(b)>> \o Tail(b) = b
  BY <1>1
<1>4. (a \o <<Head(b)>>) \o Tail(b) = a \o (<<Head(b)>> \o Tail(b))
  BY <1>1, <1>3, ConcatAssociative
<1>5. QED BY <1>1, <1>2, <1>3, <1>4

(* A call that is over leaves some of the answers: they are still for the  *)
(* first batches.                                                          *)
LEMMA CutMeets ==
  ASSUME NEW I, NEW r \in Stores(I), NEW t \in Stores(I), Meets(r), IsOpen(r.stream),
         NEW n \in 0..Len(r.call.answers),
         t.pipeline = r.pipeline, t.handshake = r.handshake,
         t.call.answers = SubSeq(r.call.answers, 1, n),
         t.call.status # "none",
         ~r.handshake => r.call.answers \in {<<>>, << 0 >>}
  PROVE  Meets(t)
<1> DEFINE a == r.call.answers
           b == Pending(r)
           c == SubSeq(a, 1, n)
<1>1. a \in Seq(Messages) /\ b \in Seq(Messages) /\ Len(a) \in Nat
  BY DEF Stores, CallRecords, Pending
<1>2. c \in Seq(Messages) /\ Len(c) = n /\ \A i \in 1..n : c[i] = a[i]
  BY <1>1
<1>3. Len(a \o b) = Len(a) + Len(b) /\ Len(b) \in Nat /\ \A i \in 1..Len(a) : (a \o b)[i] = a[i]
  <2> HIDE DEF a, b
  <2>1. /\ Len(b) \in Nat /\ Len(a \o b) = Len(a) + Len(b)
        /\ \A i \in 1..Len(a) + Len(b) : (a \o b)[i] = IF i <= Len(a) THEN a[i] ELSE b[i - Len(a)]
    BY <1>1, Concatenated, Zenon
  <2>2. QED BY <1>1, <2>1
<1>4. Sent(t) = c
  BY <1>2, ConcatEmptySeq DEF Sent, Pending
<1>5. CASE ~r.handshake
  <2>1. a = <<>> => c = <<>>
    BY <1>1
  <2>2. a = <<0>> => c \in {<<>>, <<0>>}
    <3>1. SUFFICES ASSUME a = << 0 >> PROVE c \in {<<>>, <<0>>}
      OBVIOUS
    <3>2. n = 0 \/ n = 1
      BY <3>1
    <3>3. n = 0 => c = <<>>
      BY <1>1
    <3> HIDE DEF a, c
    <3>4. n = 1 => c = <<0>>
      <4>1. ASSUME n = 1 PROVE Len(c) = 1 /\ c[1] = 0 /\ c \in Seq(Messages)
        BY <1>2, <3>1, <4>1
      <4>2. QED BY <4>1
    <3>5. QED BY <3>2, <3>3, <3>4
  <2>3. QED BY <1>5, <2>1, <2>2 DEF Meets
<1>6. CASE r.handshake
  <2>1. Len(a \o b) <= Len(r.pipeline) /\ \A i \in 1..Len(a \o b) : (a \o b)[i] = r.pipeline[i].write
    BY <1>6 DEF Meets, Sent
  <2>2. Len(r.pipeline) \in Nat
    BY DEF Stores
  <2> HIDE DEF a, b, c
  <2>3. n <= Len(r.pipeline) /\ \A i \in 1..n : c[i] = r.pipeline[i].write
    <3>1. n \in Nat /\ n <= Len(a) /\ Len(a) <= Len(a \o b) /\ Len(a \o b) \in Nat
      BY <1>1, <1>3 DEF a
    <3>2. \A i \in 1..n : c[i] = (a \o b)[i]
      BY <1>1, <1>2, <1>3, <3>1
    <3>3. QED BY <2>1, <2>2, <3>1, <3>2
  <2>4. QED BY <1>2, <1>4, <1>6, <2>3 DEF Meets
<1>7. QED BY <1>5, <1>6

(* The handshake is done: the pipeline follows it.                         *)
LEMMA ShakenMeets ==
  ASSUME NEW I, NEW h \in Stores(I), CallbacksFindTheirState(h.stream), IsOpen(h.stream),
         h.pipeline # <<>>
  PROVE  LET t == Send(h, WritesOf(h.pipeline))
         IN  /\ t \in Stores(I)
             /\ h.enabled /\ h.handshake /\ h.call.answers = <<>> /\ Pending(h) = <<>> =>
                  Serves(t) /\ Meets(t)
<1> DEFINE ws == WritesOf(h.pipeline)
           t == Send(h, ws)
<1>1. h.pipeline \in Seq(BatchesOf(I)) /\ Len(h.pipeline) \in Nat
  BY DEF Stores
<1>2. /\ ws \in Seq(Messages) /\ Len(ws) = Len(h.pipeline) /\ ws # <<>>
      /\ \A i \in 1..Len(ws) : ws[i] = h.pipeline[i].write
  BY <1>1, WritesOfTyped
<1> HIDE DEF ws, t
<1>3. t = Send(h, ws) /\ IsStarted(h.stream) /\ ws \in Seq(Messages)
  BY <1>2 DEF t, IsOpen, IsStarted
<1>4. /\ t \in Stores(I) /\ CallbacksFindTheirState(t.stream)
      /\ t.enabled = h.enabled /\ t.pipeline = h.pipeline /\ t.handshake = h.handshake
      /\ t.call.answers = h.call.answers /\ t.call.status = h.call.status
      /\ IsStarted(t.stream) <=> IsStarted(h.stream)
      /\ IsOpen(t.stream) <=> IsOpen(h.stream)
      /\ Pending(t) = IF h.call.status = "none" THEN Pending(h) \o ws ELSE Pending(h)
      /\ t.stream.idle => h.stream.idle /\ ws = <<>>
  BY <1>3, SendKeeps
<1>5. SUFFICES ASSUME h.enabled, h.handshake, h.call.answers = <<>>, Pending(h) = <<>>
               PROVE  Serves(t) /\ Meets(t)
  BY <1>4 DEF t, ws
<1>6. Serves(t)
  BY <1>2, <1>3, <1>4, <1>5 DEF Serves
<1>7. CASE h.call.status = "none"
  <2>1. <<>> \o ws = ws /\ <<>> \o (<<>> \o ws) = ws
    BY <1>2, ConcatEmptySeq
  <2>2. Sent(t) = ws
    BY <1>4, <1>5, <1>7, <2>1 DEF Sent
  <2>3. QED BY <1>1, <1>2, <1>4, <1>5, <1>6, <1>7, <2>2 DEF Meets
<1>8. CASE h.call.status # "none"
  <2>1. Sent(t) = <<>>
    BY <1>4, <1>5, <1>8 DEF Sent
  <2>2. QED BY <1>1, <1>4, <1>5, <1>6, <1>8, <2>1 DEF Meets
<1>9. QED BY <1>7, <1>8

(* What is on the way without its first answer is for the pipeline         *)
(* without its head.                                                       *)
LEMMA TailMeets ==
  ASSUME NEW I, NEW r \in Stores(I), NEW t \in Stores(I), Serves(r), Meets(r), r.handshake,
         r.call.answers # <<>>, r.pipeline # <<>>,
         t.enabled = r.enabled, t.stream = r.stream, t.handshake = r.handshake,
         t.pipeline = Tail(r.pipeline), t.call.answers = Tail(r.call.answers),
         Pending(t) = Pending(r), t.call.status = r.call.status
  PROVE  Serves(t) /\ Meets(t) /\ IsStarted(t.stream)
<1> DEFINE a == r.call.answers
           b == Pending(r)
           p == r.pipeline
<1>1. a \in Seq(Messages) /\ b \in Seq(Messages) /\ p \in Seq(BatchesOf(I)) /\ a # <<>> /\ p # <<>>
  BY DEF Stores, CallRecords, Pending
<1>2. /\ Len(a \o b) <= Len(p) /\ \A i \in 1..Len(a \o b) : (a \o b)[i] = p[i].write
      /\ r.call.status = "none" => Len(a \o b) = Len(p)
  BY DEF Meets, Sent
<1>3. Sent(t) = Tail(a) \o b /\ t.pipeline = Tail(p)
  BY DEF Sent
<1>4. Serves(t) /\ IsStarted(t.stream)
  <2>1. IsOpen(r.stream) /\ IsStarted(r.stream) /\ ~r.stream.idle
    BY DEF Serves, IsOpen, IsStarted
  <2>2. QED BY <2>1 DEF Serves
<1> HIDE DEF a, b, p
<1>5. /\ Len(Tail(a) \o b) = Len(a \o b) - 1 /\ Len(a \o b) \in Nat /\ Len(a \o b) > 0
      /\ \A i \in 1..Len(a \o b) - 1 : (Tail(a) \o b)[i] = (a \o b)[i + 1]
  BY <1>1, AnswerRead
<1>6. /\ Len(p) \in Nat /\ Len(Tail(p)) = Len(p) - 1
      /\ \A i \in 1..Len(p) - 1 : Tail(p)[i] = p[i + 1]
  BY <1>1, TailTyped
<1>7. \A i \in 1..Len(Tail(a) \o b) : (Tail(a) \o b)[i] = Tail(p)[i].write
  <2>1. SUFFICES ASSUME NEW i \in 1..Len(a \o b) - 1
                 PROVE  (Tail(a) \o b)[i] = Tail(p)[i].write
    BY <1>5
  <2>2. i + 1 \in 1..Len(a \o b) /\ i \in 1..Len(p) - 1
    BY <1>2, <1>5, <1>6
  <2>3. QED BY <1>2, <1>5, <1>6, <2>2
<1>8. /\ Len(Sent(t)) <= Len(t.pipeline)
      /\ \A i \in 1..Len(Sent(t)) : Sent(t)[i] = t.pipeline[i].write
      /\ t.call.status = "none" => Len(Sent(t)) = Len(t.pipeline)
  <2>1. /\ Len(Tail(a) \o b) <= Len(Tail(p))
        /\ r.call.status = "none" => Len(Tail(a) \o b) = Len(Tail(p))
    BY <1>2, <1>5, <1>6
  <2>2. QED BY <1>3, <1>7, <2>1
<1>9. QED BY <1>4, <1>8 DEF Meets

(* The stream reads an answer.                                             *)
LEMMA ReadStep ==
  ASSUME NEW I, Known(I), Serves(rs), Meets(rs), Read
  PROVE  Known(I)' /\ Serves(rs') /\ Meets(rs')
<1> DEFINE a == rs.call.answers
           b == Pending(rs)
           d == [rs.call EXCEPT !.answers = Tail(a)]
           r == [rs EXCEPT !.call = d]
<1>1. /\ rs \in Stores(I) /\ rs.stream \in Streams /\ rs.call \in CallRecords
      /\ CallbacksFindTheirState(rs.stream) /\ rs.pipeline \in Seq(BatchesOf(I))
      /\ user \in Users /\ queue \in [Users -> Seq(BatchesOf(I))]
      /\ a \in Seq(Messages) /\ b \in Seq(Messages)
  BY DEF Known, Serves, Stores, CallRecords, Pending
<1>2. a # <<>> /\ user' = user
  BY DEF Read
<1>3. IsOpen(rs.stream) /\ IsStarted(rs.stream)
  BY <1>2 DEF Serves, NoCall, IsOpen, IsStarted
<1>4. [rs EXCEPT !.call.answers = Tail(@)] = r
  BY <1>1 DEF Stores, CallRecords
<1>5. /\ Tail(a) \in Seq(Messages)
      /\ Len(Tail(a) \o b) = Len(a \o b) - 1 /\ Len(a \o b) \in Nat /\ Len(a \o b) > 0
  <2> HIDE DEF a, b
  <2>1. QED BY <1>1, <1>2, AnswerRead
<1>6. /\ d \in CallRecords /\ d.answers = Tail(a) /\ d.requests = rs.call.requests
      /\ d.status = rs.call.status
  <2>1. /\ d \in [requests : Seq(Messages), answers : Seq(Messages),
                  status : {"none", "transient", "permanent"}]
        /\ d.answers = Tail(a) /\ d.requests = rs.call.requests /\ d.status = rs.call.status
    BY <1>1, <1>5 DEF CallRecords
  <2>2. QED BY <2>1 DEF CallRecords
<1> HIDE DEF d
<1>7. /\ r \in Stores(I) /\ r.enabled = rs.enabled /\ r.handshake = rs.handshake
      /\ r.call = d /\ r.stream = rs.stream /\ r.pipeline = rs.pipeline
  BY <1>1, <1>6 DEF Stores
<1> HIDE DEF r
<1>8. CASE ~rs.handshake
  <2> DEFINE h == [r EXCEPT !.handshake = TRUE]
  <2>1. rs' = Send(h, WritesOf(r.pipeline)) /\ queue' = queue
    BY <1>4, <1>8 DEF Read, NothingSettled
  <2>2. /\ h \in Stores(I) /\ h.enabled = r.enabled /\ h.handshake
        /\ h.call = d /\ h.stream = rs.stream /\ h.pipeline = rs.pipeline
    BY <1>7 DEF Stores
  <2> HIDE DEF h
  <2>3. rs.enabled /\ rs.pipeline # <<>>
    BY <1>3, <1>8 DEF Serves
  <2>4. Tail(a) = <<>> /\ b = <<>>
    <3>1. CASE rs.call.status = "none"
      <4>1. a \o b = <<0>>
        BY <1>3, <1>8, <3>1 DEF Meets, Sent
      <4> HIDE DEF a, b
      <4>2. Len(a \o b) = 1
        BY <4>1
      <4>3. Tail(a) \o b = <<>>
        BY <1>1, <1>5, <4>2, ConcatProperties, EmptySeq
      <4>4. QED BY <1>1, <1>5, <4>3, ConcatEqualIffEmpty
    <3>2. CASE rs.call.status # "none"
      <4>1. b = <<>> /\ a \in {<<>>, <<0>>}
        BY <1>3, <1>8, <3>2 DEF Meets, Pending
      <4> HIDE DEF a, b
      <4>2. a = <<0>>
        BY <1>2, <4>1
      <4>3. QED BY <4>1, <4>2
    <3>3. QED BY <3>1, <3>2
  <2>5. h.call.answers = <<>> /\ Pending(h) = <<>>
    BY <1>6, <2>2, <2>4 DEF Pending
  <2> HIDE DEF a, b
  <2>6. rs' = Send(h, WritesOf(h.pipeline))
    BY <1>7, <2>1, <2>2
  <2>7. rs' \in Stores(I) /\ Serves(rs') /\ Meets(rs')
    BY <1>1, <1>3, <1>7, <2>2, <2>3, <2>5, <2>6, ShakenMeets
  <2>8. QED BY <1>1, <1>2, <2>1, <2>7 DEF Known
<1>9. CASE rs.handshake
  <2> DEFINE head == rs.pipeline[1]
             q == Without(queue[user], head)
             t == [r EXCEPT !.pipeline = Tail(@)]
  <2>1. SettleHead(head, "stored") /\ rs' = FillWritePipeline(t, q)
    BY <1>4, <1>9 DEF Read
  <2>2. rs.pipeline # <<>>
    <3>1. Len(a \o b) <= Len(rs.pipeline)
      BY <1>9 DEF Meets, Sent
    <3> HIDE DEF a, b
    <3>2. Len(rs.pipeline) > 0
      BY <1>1, <1>5, <3>1
    <3>3. QED BY <3>2
  <2>3. queue' \in [Users -> Seq(BatchesOf(I))] /\ q \in Seq(BatchesOf(I))
    BY <1>1, <2>1, SettleHeadTyped, WithoutTyped
  <2> HIDE DEF q, head
  <2>4. Tail(rs.pipeline) \in Seq(BatchesOf(I))
    BY <1>1, <2>2, TailTyped
  <2>5. /\ t \in Stores(I) /\ t.enabled = rs.enabled /\ t.handshake = rs.handshake
        /\ t.call = d /\ t.stream = rs.stream /\ t.pipeline = Tail(rs.pipeline)
    BY <1>7, <2>4 DEF Stores
  <2> HIDE DEF t
  <2>6. /\ t.call.answers = Tail(rs.call.answers) /\ Pending(t) = Pending(rs)
        /\ t.call.status = rs.call.status /\ rs.call.answers # <<>>
    BY <1>2, <1>6, <2>5 DEF Pending
  <2> HIDE DEF a, b
  <2>7. Serves(t) /\ Meets(t) /\ IsStarted(t.stream)
    BY <1>1, <1>9, <2>2, <2>5, <2>6, TailMeets
  <2>8. rs' \in Stores(I) /\ Serves(rs') /\ Meets(rs')
    BY <2>1, <2>3, <2>5, <2>7, FillStarted
  <2>9. QED BY <1>1, <1>2, <2>3, <2>8 DEF Known
<1>10. QED BY <1>8, <1>9

(* A write joins the queue, with an id that the set of ids may not have    *)
(* yet.                                                                    *)
LEMMA StoresGrow ==
  ASSUME NEW I, NEW J, I \subseteq J, Known(I)
  PROVE  Known(J)
<1>1. BatchesOf(I) \subseteq BatchesOf(J)
  BY DEF BatchesOf
<1> DEFINE A == BatchesOf(I)
           B == BatchesOf(J)
<1> HIDE DEF A, B
<1>2. Seq(A) \subseteq Seq(B)
  BY <1>1, SeqMonotonic DEF A, B
<1>3. [enabled : BOOLEAN, pipeline : Seq(A), stream : Streams, handshake : BOOLEAN, call : CallRecords]
      \subseteq
      [enabled : BOOLEAN, pipeline : Seq(B), stream : Streams, handshake : BOOLEAN, call : CallRecords]
  BY <1>2
<1>4. [Users -> Seq(A)] \subseteq [Users -> Seq(B)]
  BY <1>2
<1>5. QED BY <1>3, <1>4 DEF Known, Stores, A, B

LEMMA WriteStep ==
  ASSUME NEW I, Known(I), Serves(rs), Meets(rs), WriteMutations, made \in Seq(Users)
  PROVE  \E J : Known(J)' /\ Serves(rs') /\ Meets(rs')
<1> DEFINE w == Len(made) + 1
           b == [id |-> nextId, write |-> w]
           q == Append(queue[user], b)
<1>0. PICK J : J = I \cup {nextId}
  OBVIOUS
<1>1. Known(J)
  BY <1>0, StoresGrow
<1>2. w \in Writes /\ b \in BatchesOf(J)
  BY <1>0, BoundsAssumption DEF WriteMutations, Writes, BatchesOf
<1>3. /\ queue' = [queue EXCEPT ![user] = q] /\ rs' = FillWritePipeline(rs, q)
      /\ user' = user
  BY DEF WriteMutations
<1> HIDE DEF b
<1>4. /\ rs \in Stores(J) /\ user \in Users /\ queue \in [Users -> Seq(BatchesOf(J))]
      /\ CallbacksFindTheirState(rs.stream)
  BY <1>1 DEF Known, Serves
<1>5. q \in Seq(BatchesOf(J))
  BY <1>2, <1>4
<1> HIDE DEF q
<1>6. queue' \in [Users -> Seq(BatchesOf(J))] /\ user' \in Users
  BY <1>3, <1>4, <1>5
<1>7. rs' \in Stores(J) /\ Serves(rs') /\ Meets(rs')
  <2>1. CASE IsStarted(rs.stream)
    BY <1>3, <1>4, <1>5, <2>1, FillStarted
  <2>2. CASE ~IsStarted(rs.stream)
    <3>1. Ended(rs) /\ ~rs.handshake
      BY <2>2 DEF Serves, Ended, CallbacksFindTheirState, IsOpen, IsStarted
    <3>2. QED BY <1>3, <1>4, <1>5, <3>1, FillEnded, EndedServes
  <2>3. QED BY <2>1, <2>2
<1>8. Known(J)'
  BY <1>6, <1>7 DEF Known
<1>9. QED BY <1>7, <1>8

-----------------------------------------------------------------------------
(* What the server, or the network, does to a call leaves the stream and   *)
(* the pipeline as they are.                                               *)
LEMMA CallStep ==
  ASSUME NEW I, Known(I), Serves(rs), IsOpen(rs.stream),
         NEW d \in CallRecords, rs' = [rs EXCEPT !.call = d],
         user' = user, queue' = queue
  PROVE  /\ Known(I)' /\ Serves(rs')
         /\ rs' \in Stores(I) /\ rs'.call = d /\ rs'.pipeline = rs.pipeline
         /\ rs'.handshake = rs.handshake /\ rs'.stream = rs.stream
<1>1. rs \in Stores(I)
  BY DEF Known
<1>2. /\ rs' \in Stores(I) /\ rs'.enabled = rs.enabled /\ rs'.handshake = rs.handshake
      /\ rs'.call = d /\ rs'.stream = rs.stream /\ rs'.pipeline = rs.pipeline
  BY <1>1 DEF Stores
<1>3. Serves(rs')
  BY <1>2 DEF Serves
<1>4. QED BY <1>2, <1>3 DEF Known

LEMMA AnswerStep ==
  ASSUME NEW I, Known(I), Serves(rs), Meets(rs), rs.call.status = "none",
         rs.call.requests # <<>>,
         rs' = Answer(Head(rs.call.requests)), user' = user, queue' = queue
  PROVE  Known(I)' /\ Serves(rs') /\ Meets(rs')
<1> DEFINE a == rs.call.answers
           b == rs.call.requests
           d == [rs.call EXCEPT !.requests = Tail(b), !.answers = Append(a, Head(b))]
<1>1. /\ rs \in Stores(I) /\ rs.call \in CallRecords
      /\ a \in Seq(Messages) /\ b \in Seq(Messages)
  BY DEF Known, Stores, CallRecords
<1>2. IsOpen(rs.stream)
  BY DEF Serves, NoCall
<1>3. rs' = [rs EXCEPT !.call = d]
  BY <1>1 DEF Answer, Stores, CallRecords
<1>4. /\ Append(a, Head(b)) \in Seq(Messages) /\ Tail(b) \in Seq(Messages)
      /\ Append(a, Head(b)) \o Tail(b) = a \o b
  <2> HIDE DEF a, d
  <2>1. b # <<>>
    OBVIOUS
  <2> HIDE DEF b
  <2>2. QED BY <1>1, <2>1, AnswerGiven
<1>5. /\ d \in CallRecords /\ d.answers = Append(a, Head(b)) /\ d.requests = Tail(b)
      /\ d.status = "none"
  BY <1>1, <1>4 DEF CallRecords
<1> HIDE DEF d
<1>6. /\ Known(I)' /\ Serves(rs')
      /\ rs' \in Stores(I) /\ rs'.call = d /\ rs'.pipeline = rs.pipeline
      /\ rs'.handshake = rs.handshake /\ rs'.stream = rs.stream
  BY <1>2, <1>3, <1>5, CallStep
<1>7. Sent(rs') = Sent(rs)
  BY <1>4, <1>5, <1>6 DEF Sent, Pending
<1>8. Meets(rs')
  BY <1>2, <1>5, <1>6, <1>7 DEF Meets
<1>9. QED BY <1>6, <1>8

LEMMA PartOfOne ==
  ASSUME NEW M, NEW a \in Seq(M), NEW b \in Seq(M), NEW x
  PROVE  a \o b = <<x>> => a \in {<<>>, <<x>>}
<1>1. SUFFICES ASSUME a \o b = <<x>> PROVE a \in {<<>>, <<x>>}
  OBVIOUS
<1>2. /\ Len(b) \in Nat /\ Len(a) \in Nat /\ Len(a \o b) = Len(a) + Len(b)
      /\ \A i \in 1..Len(a) + Len(b) : (a \o b)[i] = IF i <= Len(a) THEN a[i] ELSE b[i - Len(a)]
  BY Concatenated, Zenon
<1>3. Len(a \o b) = 1 /\ (a \o b)[1] = x
  BY <1>1
<1>4. Len(a) = 0 \/ Len(a) = 1
  <2>1. Len(b) \in Nat /\ Len(a) \in Nat /\ Len(a) + Len(b) = 1
    BY <1>2, <1>3, Zenon
  <2>2. QED BY <2>1
<1>5. CASE Len(a) = 0
  BY <1>5
<1>6. CASE Len(a) = 1
  <2>1. a[1] = x
    BY <1>2, <1>3, <1>6
  <2>2. QED BY <1>6, <2>1
<1>7. QED BY <1>4, <1>5, <1>6

(* The call ends, with some of its answers still to be read.               *)
LEMMA CutStep ==
  ASSUME NEW I, Known(I), Serves(rs), Meets(rs), IsOpen(rs.stream), rs.call.status = "none",
         NEW n \in 0..Len(rs.call.answers), NEW d \in CallRecords,
         d.answers = SubSeq(rs.call.answers, 1, n), d.status # "none",
         rs' = [rs EXCEPT !.call = d], user' = user, queue' = queue
  PROVE  Known(I)' /\ Serves(rs') /\ Meets(rs')
<1> DEFINE a == rs.call.answers
<1>1. rs \in Stores(I) /\ a \in Seq(Messages) /\ rs.call.requests \in Seq(Messages)
  BY DEF Known, Stores, CallRecords
<1>2. /\ Known(I)' /\ Serves(rs')
      /\ rs' \in Stores(I) /\ rs'.call = d /\ rs'.pipeline = rs.pipeline
      /\ rs'.handshake = rs.handshake /\ rs'.stream = rs.stream
  BY CallStep
<1>3. ~rs.handshake => a \in {<<>>, <<0>>}
  <2>1. SUFFICES ASSUME ~rs.handshake PROVE a \in {<<>>, <<0>>}
    OBVIOUS
  <2>2. a \o rs.call.requests = <<0>>
    BY <2>1 DEF Meets, Sent, Pending
  <2>3. QED BY <1>1, <2>2, PartOfOne
<1>4. Meets(rs')
  BY <1>1, <1>2, <1>3, CutMeets
<1>5. QED BY <1>2, <1>4

LEMMA ServerSteps ==
  ASSUME NEW I, Known(I), Serves(rs), Meets(rs), ServerTakes \/ CallBreaks
  PROVE  Known(I)' /\ Serves(rs') /\ Meets(rs')
<1>1. user' = user /\ queue' = queue
  BY DEF ServerTakes, ServerShakes, ServerDecides, CallBreaks, NothingSettled
<1>2. ASSUME rs.call.requests # <<>>
      PROVE  IsOpen(rs.stream)
  BY <1>2 DEF Serves, NoCall
<1>3. CASE ServerShakes
  <2>1. /\ rs.call.requests # <<>> /\ rs.call.status = "none"
        /\ rs' = Answer(Head(rs.call.requests))
    BY <1>3 DEF ServerShakes, NextRequest
  <2>2. QED BY <1>1, <2>1, AnswerStep
<1>4. ASSUME NEW w \in Writes, ServerDecides(w)
      PROVE  Known(I)' /\ Serves(rs') /\ Meets(rs')
  <2>1. rs.call.requests # <<>> /\ rs.call.status = "none" /\ Head(rs.call.requests) = w
    BY <1>4 DEF ServerDecides, NextRequest
  <2>2. CASE rs' = Answer(w)
    BY <1>1, <2>1, <2>2, AnswerStep
  <2>3. CASE rs' = [rs EXCEPT !.call.requests = Tail(@), !.call.status = "permanent"]
    <3> DEFINE a == rs.call.answers
               b == Tail(rs.call.requests)
               d == [rs.call EXCEPT !.requests = b, !.status = "permanent"]
    <3>1. /\ rs.call \in CallRecords /\ rs \in Stores(I) /\ a \in Seq(Messages)
          /\ rs.call.requests \in Seq(Messages)
      BY DEF Known, Stores, CallRecords
    <3>2. d \in CallRecords /\ d.answers = a /\ d.status # "none"
      <4>1. b \in Seq(Messages)
        BY <2>1, <3>1, TailTyped
      <4> HIDE DEF b
      <4>2. d.requests = b /\ d.answers = a /\ d.status = "permanent"
        BY <3>1 DEF CallRecords
      <4>3. QED BY <3>1, <4>1, <4>2 DEF CallRecords
    <3>3. rs' = [rs EXCEPT !.call = d]
      BY <2>3, <3>1 DEF Stores, CallRecords
    <3> HIDE DEF d
    <3>4. Len(a) \in 0..Len(a) /\ SubSeq(a, 1, Len(a)) = a
      <4> HIDE DEF a
      <4>1. QED BY <3>1
    <3>5. QED BY <1>1, <1>2, <2>1, <3>2, <3>3, <3>4, CutStep
  <2>4. QED BY <1>4, <2>2, <2>3 DEF ServerDecides
<1>5. CASE CallBreaks
  <2>1. PICK n \in 0..Len(rs.call.answers), s \in {"transient", "permanent"} :
          rs' = [rs EXCEPT !.call.answers = SubSeq(@, 1, n), !.call.status = s]
    BY <1>5 DEF CallBreaks
  <2> DEFINE a == SubSeq(rs.call.answers, 1, n)
             d == [rs.call EXCEPT !.answers = a, !.status = s]
  <2>2. /\ IsOpen(rs.stream) /\ rs.call.status = "none" /\ rs.call.answers \in Seq(Messages)
        /\ rs \in Stores(I) /\ rs.call \in CallRecords
    BY <1>5 DEF CallBreaks, Known, Stores, CallRecords
  <2>3. a \in Seq(Messages)
    BY <2>2
  <2>4. rs' = [rs EXCEPT !.call = d]
    BY <2>1, <2>2 DEF Stores, CallRecords
  <2>5. d.answers = a /\ d.status = s /\ d \in CallRecords
    <3> HIDE DEF a
    <3>1. QED BY <2>2, <2>3 DEF CallRecords
  <2> HIDE DEF d
  <2>6. QED BY <1>1, <2>2, <2>4, <2>5, CutStep
<1>6. QED BY <1>3, <1>4, <1>5 DEF ServerTakes

-----------------------------------------------------------------------------
LEMMA InitSound == Init => Sound
<1>1. SUFFICES ASSUME Init PROVE Sound
  OBVIOUS
<1>2. NewRemoteStore \in Stores(Nat) /\ Ended(NewRemoteStore) /\ ~NewRemoteStore.handshake
  BY NewRemoteStoreEnded
<1>3. <<>> \in Seq(BatchesOf(Nat)) /\ made \in Seq(Users)
  BY <1>1 DEF Init
<1>4. rs \in Stores(Nat) /\ Serves(rs) /\ Meets(rs)
  BY <1>1, <1>2, <1>3, EnableNetworkServes DEF Init
<1>5. Known(Nat)
  BY <1>1, <1>3, <1>4 DEF Init, Known
<1>6. QED BY <1>3, <1>4, <1>5 DEF Sound, Typed

LEMMA MadeStep ==
  ASSUME made \in Seq(Users), user \in Users, [Next]_vars
  PROVE  made' \in Seq(Users)
<1>1. CASE WriteMutations
  BY <1>1 DEF WriteMutations
<1>2. CASE ~WriteMutations
  BY <1>2 DEF Next, vars, Connect, NoCredentials, LateCredentials, Read, Garbled, StreamEnds,
     BackoffElapses, IdleTimeout, TurnNetworkOff, TurnNetworkOn, ConnectivityChanges,
     ProcessRestart, CredentialChange, ServerTakes, ServerShakes, ServerDecides, CallBreaks
<1>3. QED BY <1>1, <1>2

LEMMA NextSound == Sound /\ [Next]_vars => Sound'
<1>1. SUFFICES ASSUME Sound, [Next]_vars PROVE Sound'
  OBVIOUS
<1>2. PICK I : Known(I)
  BY <1>1 DEF Sound, Typed
<1>3. Serves(rs) /\ Meets(rs) /\ made \in Seq(Users) /\ user \in Users
  BY <1>1, <1>2 DEF Sound, Typed, Known
<1>4. made' \in Seq(Users)
  BY <1>1, <1>3, MadeStep
<1>5. SUFFICES \E J : Known(J)' /\ Serves(rs') /\ Meets(rs')
  <2>1. (\E J : Known(J)' /\ Serves(rs') /\ Meets(rs')) => (\E J : Known(J)')
    OBVIOUS
  <2>2. QED BY <1>4, <2>1 DEF Sound, Typed
<1>6. CASE WriteMutations
  BY <1>2, <1>3, <1>6, WriteStep
<1>7. CASE \/ NoCredentials \/ StreamEnds \/ Garbled \/ LateCredentials \/ BackoffElapses
           \/ IdleTimeout \/ Connect
  BY <1>2, <1>3, <1>7, CallbackSteps
<1>8. CASE Read
  BY <1>2, <1>3, <1>8, ReadStep
<1>9. CASE \/ TurnNetworkOff \/ TurnNetworkOn \/ ConnectivityChanges \/ ProcessRestart
           \/ \E u \in Users : CredentialChange(u)
  BY <1>2, <1>3, <1>9, NetworkSteps
<1>10. CASE ServerTakes \/ CallBreaks
  BY <1>2, <1>3, <1>10, ServerSteps
<1>11. CASE UNCHANGED vars
  <2>1. Known(I)' /\ rs' = rs
    BY <1>2, <1>11 DEF vars, Known
  <2>2. QED BY <1>3, <2>1
<1>12. QED BY <1>1, <1>6, <1>7, <1>8, <1>9, <1>10, <1>11 DEF Next

(* The stream serves the pipeline: no callback of stream.cc finds a state  *)
(* that its assertions exclude, no stream stops while it is needed, and    *)
(* none is missing where there is work.                                    *)
THEOREM StreamServes == Spec => []StreamServesPipeline
<1>1. Sound => StreamServesPipeline
  BY DEF Sound, Serves, StreamServesPipeline
<1>2. QED BY InitSound, NextSound, <1>1, PTL DEF Spec

(* Every answer is for the head of the pipeline: OnMutationResult of       *)
(* remote_store.cc is never given the result of another batch, nor one for *)
(* an empty pipeline, whatever breaks or restarts.                         *)
THEOREM AnswersMeet == Spec => []AnswersMeetTheirBatch
<1>1. ASSUME Sound PROVE AnswersMeetTheirBatch
  <2>1. PICK I : Known(I)
    BY <1>1 DEF Sound, Typed
  <2>2. /\ rs \in Stores(I) /\ rs.pipeline \in Seq(BatchesOf(I)) /\ Len(rs.pipeline) \in Nat
        /\ rs.call.answers \in Seq(Messages) /\ rs.call.requests \in Seq(Messages)
    BY <2>1 DEF Known, Stores, CallRecords
  <2> DEFINE way == OnTheWay
             sent == WritesOf(rs.pipeline)
  <2>3. way \in Seq(Messages) /\ way = Sent(rs) /\ Len(way) \in Nat
    BY <2>2, ConcatProperties, LenProperties, ConcatEmptySeq DEF OnTheWay, Sent, Pending
  <2>4. /\ sent \in Seq(Messages) /\ Len(sent) = Len(rs.pipeline)
        /\ \A i \in 1..Len(sent) : sent[i] = rs.pipeline[i].write
    BY <2>2, WritesOfTyped
  <2>5. ASSUME rs.handshake
        PROVE  /\ Len(way) <= Len(sent) /\ \A i \in 1..Len(way) : way[i] = sent[i]
               /\ rs.call.status = "none" => Len(way) = Len(sent)
    <3>1. /\ Len(way) <= Len(rs.pipeline)
          /\ \A i \in 1..Len(way) : way[i] = rs.pipeline[i].write
          /\ rs.call.status = "none" => Len(way) = Len(rs.pipeline)
      BY <1>1, <2>3, <2>5 DEF Sound, Meets
    <3> HIDE DEF way, sent
    <3>2. \A i \in 1..Len(way) : i \in 1..Len(sent)
      BY <2>2, <2>3, <2>4, <3>1
    <3>3. QED BY <2>4, <3>1, <3>2
  <2> HIDE DEF way, sent
  <2>6. ASSUME rs.handshake
        PROVE  /\ Len(way) <= Len(sent) /\ way = SubSeq(sent, 1, Len(way))
               /\ rs.call.status = "none" => way = sent
    <3>1. SubSeq(sent, 1, Len(way)) \in Seq(Messages) /\ Len(SubSeq(sent, 1, Len(way))) = Len(way)
          /\ \A i \in 1..Len(way) : SubSeq(sent, 1, Len(way))[i] = sent[i]
      BY <2>2, <2>3, <2>4, <2>5, <2>6
    <3>2. way = SubSeq(sent, 1, Len(way))
      BY <2>3, <2>5, <2>6, <3>1, SeqEqual
    <3>3. rs.call.status = "none" => way = sent
      BY <2>3, <2>4, <2>5, <2>6, SeqEqual
    <3>4. QED BY <2>5, <2>6, <3>2, <3>3
  <2>7. rs.handshake => IsOpen(rs.stream)
    BY <1>1 DEF Sound, Serves
  <2>8. IsOpen(rs.stream) /\ ~rs.handshake =>
          IF rs.call.status = "none" THEN way = <<0>> ELSE rs.call.answers \in {<<>>, <<0>>}
    BY <1>1, <2>3 DEF Sound, Meets
  <2>9. QED BY <2>6, <2>7, <2>8 DEF AnswersMeetTheirBatch, way, sent
<1>2. QED BY InitSound, NextSound, <1>1, PTL DEF Spec

-----------------------------------------------------------------------------
(* The order of the writes.                                                *)

Ascending(q) ==
  \A i \in 1..Len(q) : q[i].id \in Nat /\ q[i].id > 0 /\ \A j \in 1..i-1 : q[j].id < q[i].id

Below(q, n) == \A i \in 1..Len(q) : q[i].id < n

Oldest(q) == SubSeq(q, 1, Shorter(Len(q), PipelineSize))

Ordered ==
  /\ nextId \in Nat /\ nextId > 0
  /\ \A u \in Users : Ascending(queue[u]) /\ Below(queue[u], nextId)

Complete == Sound /\ Ordered /\ PipelineIsOldest

-----------------------------------------------------------------------------
(* A set of numbers with a bound has a maximum.                            *)
LEMMA MaxIs ==
  ASSUME NEW S \in SUBSET Nat, S # {}, NEW n \in Nat, \A x \in S : x < n
  PROVE  Max(S) \in S /\ \A x \in S : x <= Max(S)
<1> DEFINE T == {m \in Nat : \A x \in S : x <= m}
<1>1. T \subseteq Nat /\ n \in T
  OBVIOUS
<1>2. PICK m \in T : \A y \in T : ~(<<y, m>> \in OpToRel(<, Nat))
  BY <1>1, NatLessThanWellFounded, WFMin
<1>3. \A y \in T : ~(y < m)
  BY <1>1, <1>2 DEF OpToRel
<1>4. m \in S
  <2>1. SUFFICES ASSUME m \notin S PROVE FALSE
    OBVIOUS
  <2>2. \A x \in S : x <= m /\ x # m /\ x \in Nat
    BY <2>1
  <2>3. PICK x \in S : TRUE
    OBVIOUS
  <2>4. m \in Nat /\ m > 0
    BY <2>2, <2>3
  <2>5. m - 1 \in T
    BY <2>2, <2>4
  <2>6. QED BY <1>3, <2>4, <2>5
<1>5. \E x \in S : \A y \in S : x >= y
  BY <1>4
<1>6. Max(S) \in S /\ \A y \in S : Max(S) >= y
  BY <1>5, Zenon DEF Max
<1>7. QED BY <1>6

(* The id a process or a user begins with is above all that are on disk,   *)
(* and not above the next one of before.                                   *)
LEMMA NextIdAbove ==
  ASSUME NEW I, Known(I), Ordered
  PROVE  /\ LoadNextBatchId(queue) \in Nat /\ LoadNextBatchId(queue) > 0
         /\ LoadNextBatchId(queue) <= nextId
         /\ \A u \in Users : Below(queue[u], LoadNextBatchId(queue))
<1> DEFINE ids == {0} \cup UNION {{queue[u][i].id : i \in DOMAIN queue[u]} : u \in Users}
<1>1. \A u \in Users : DOMAIN queue[u] = 1..Len(queue[u])
  BY DEF Known
<1>2. \A u \in Users : \A i \in 1..Len(queue[u]) :
        queue[u][i].id \in Nat /\ queue[u][i].id < nextId /\ queue[u][i].id \in ids
  BY <1>1 DEF Ordered, Ascending, Below
<1>3. \A x \in ids : x = 0 \/ \E u \in Users : \E i \in 1..Len(queue[u]) : x = queue[u][i].id
  BY <1>1
<1>4. ids \in SUBSET Nat /\ ids # {} /\ nextId \in Nat /\ \A x \in ids : x < nextId
  <2> HIDE DEF ids
  <2>1. nextId \in Nat /\ nextId > 0
    BY DEF Ordered
  <2>2. 0 \in ids
    BY DEF ids
  <2>3. QED BY <1>2, <1>3, <2>1, <2>2
<1> HIDE DEF ids
<1>5. Max(ids) \in Nat /\ Max(ids) < nextId /\ \A x \in ids : x <= Max(ids)
  BY <1>4, MaxIs
<1>6. LoadNextBatchId(queue) = 1 + Max(ids)
  BY DEF LoadNextBatchId, ids
<1>7. \A u \in Users : Below(queue[u], 1 + Max(ids))
  BY <1>2, <1>5 DEF Below
<1>8. QED BY <1>4, <1>5, <1>6, <1>7

-----------------------------------------------------------------------------
(* In an ascending queue, what follows the first k by id follows them in   *)
(* the queue.                                                              *)
LEMMA AfterPrefix ==
  ASSUME NEW B, NEW q \in Seq(B), Ascending(q), NEW k \in 0..Len(q)
  PROVE  AfterBatchId(q, IF k = 0 THEN 0 ELSE q[k].id) = SubSeq(q, k + 1, Len(q))
<1> DEFINE id == IF k = 0 THEN 0 ELSE q[k].id
           earlier == {i \in DOMAIN q : q[i].id <= id}
<1>1. Len(q) \in Nat /\ DOMAIN q = 1..Len(q)
  OBVIOUS
<1>2. \A i \in 1..Len(q) : q[i].id <= id <=> i <= k
  <2>1. SUFFICES ASSUME NEW i \in 1..Len(q) PROVE q[i].id <= id <=> i <= k
    OBVIOUS
  <2>2. q[i].id \in Nat /\ q[i].id > 0
    BY DEF Ascending
  <2>3. CASE k = 0
    BY <2>2, <2>3
  <2>4. CASE k # 0
    <3>1. k \in 1..Len(q) /\ q[k].id \in Nat
      BY <2>4 DEF Ascending
    <3>2. i < k => q[i].id < q[k].id
      BY <3>1 DEF Ascending
    <3>3. i > k => q[k].id < q[i].id
      BY <3>1 DEF Ascending
    <3>4. QED BY <2>2, <2>4, <3>1, <3>2, <3>3
  <2>5. QED BY <2>3, <2>4
<1> HIDE DEF id
<1>3. earlier = 1..k
  BY <1>1, <1>2
<1>4. Cardinality(1..k) = k
  BY FS_Interval
<1>5. QED BY <1>3, <1>4 DEF AfterBatchId, id

(* The first k and what then fits are what fits.                           *)
LEMMA Joined ==
  ASSUME NEW B, NEW q \in Seq(B), NEW k \in 0..Len(q), k <= PipelineSize
  PROVE  LET later == SubSeq(q, k + 1, Len(q))
         IN  SubSeq(q, 1, k) \o SubSeq(later, 1, Shorter(Len(later), PipelineSize - k)) = Oldest(q)
<1> DEFINE later == SubSeq(q, k + 1, Len(q))
           n == Shorter(Len(later), PipelineSize - k)
           a == SubSeq(q, 1, k)
           b == SubSeq(later, 1, n)
<1>1. Len(q) \in Nat /\ PipelineSize \in Nat
  BY SizeAssumption
<1>2. /\ later \in Seq(B) /\ Len(later) = Len(q) - k
      /\ \A i \in 1..Len(q) - k : later[i] = q[k + i]
  BY <1>1
<1>3. /\ n \in 0..Len(q) - k /\ k + n = Shorter(Len(q), PipelineSize)
  <2> HIDE DEF later
  <2>1. QED BY <1>1, <1>2 DEF Shorter
<1> HIDE DEF n, later
<1>4. a \in Seq(B) /\ Len(a) = k /\ \A i \in 1..k : a[i] = q[i]
  BY <1>1
<1>5. b \in Seq(B) /\ Len(b) = n /\ \A i \in 1..n : b[i] = q[k + i]
  BY <1>1, <1>2, <1>3
<1>6. /\ Oldest(q) \in Seq(B) /\ Len(Oldest(q)) = k + n
      /\ \A i \in 1..k + n : Oldest(q)[i] = q[i]
  BY <1>1, <1>3 DEF Oldest
<1> HIDE DEF a, b
<1>7. /\ a \o b \in Seq(B) /\ Len(a \o b) = k + n
      /\ \A i \in 1..k + n : (a \o b)[i] = IF i <= k THEN a[i] ELSE b[i - k]
  <2>1. /\ a \o b \in Seq(B) /\ Len(a \o b) = Len(a) + Len(b)
        /\ \A i \in 1..Len(a) + Len(b) : (a \o b)[i] = IF i <= Len(a) THEN a[i] ELSE b[i - Len(a)]
    <3>1. a \in Seq(B) /\ b \in Seq(B)
      BY <1>4, <1>5
    <3>2. QED BY <3>1, Concatenated, Zenon
  <2>2. Len(a) = k /\ Len(b) = n
    BY <1>4, <1>5
  <2>3. QED BY <2>1, <2>2, Zenon
<1>8. \A i \in 1..k + n : (a \o b)[i] = Oldest(q)[i]
  <2>1. SUFFICES ASSUME NEW i \in 1..k + n PROVE (a \o b)[i] = q[i]
    BY <1>6
  <2>2. CASE i <= k
    BY <1>4, <1>7, <2>2
  <2>3. CASE ~(i <= k)
    <3>1. i - k \in 1..n /\ k + (i - k) = i
      BY <1>3, <2>3
    <3>2. QED BY <1>5, <1>7, <2>3, <3>1
  <2>4. QED BY <2>2, <2>3
<1>9. a \o b = Oldest(q)
  BY <1>6, <1>7, <1>8, SeqEqual
<1>10. QED BY <1>9 DEF a, b, n, later

-----------------------------------------------------------------------------
(* Starting the stream and filling change the pipeline by what follows it  *)
(* and nothing else of it.                                                 *)
LEMMA StartKeepsPipeline ==
  ASSUME NEW I, NEW r \in Stores(I)
  PROVE  StartIfNeeded(r).pipeline = r.pipeline /\ StartIfNeeded(r).enabled = r.enabled
BY DEF StartIfNeeded, Stores

LEMMA FillPipeline ==
  ASSUME NEW I, NEW r \in Stores(I), NEW q
  PROVE  /\ FillWritePipeline(r, q).pipeline = r.pipeline \o Following(r, q)
         /\ FillWritePipeline(r, q).enabled = r.enabled
         /\ DOMAIN FillWritePipeline(r, q) = DOMAIN r
<1> DEFINE bs == Following(r, q)
           p == [r EXCEPT !.pipeline = r.pipeline \o bs]
           t == AddToPipeline(r, bs)
           m == IF r.enabled /\ t.pipeline = <<>> THEN [t EXCEPT !.stream = MarkIdle(@)] ELSE t
<1> HIDE DEF bs
<1>1. DOMAIN r = {"enabled", "pipeline", "stream", "handshake", "call"}
  BY DEF Stores
<1>2. p.pipeline = r.pipeline \o bs /\ p.enabled = r.enabled /\ DOMAIN p = DOMAIN r
  BY <1>1
<1> HIDE DEF p
<1>3. t = p \/ t = Send(p, WritesOf(bs))
  BY DEF AddToPipeline, p
<1>4. t.pipeline = p.pipeline /\ t.enabled = p.enabled /\ DOMAIN t = DOMAIN r
  BY <1>1, <1>2, <1>3 DEF Send
<1> HIDE DEF t
<1>5. m.pipeline = t.pipeline /\ m.enabled = t.enabled /\ DOMAIN m = DOMAIN r
  BY <1>1, <1>4
<1> HIDE DEF m
<1>6. /\ StartIfNeeded(m).pipeline = m.pipeline /\ StartIfNeeded(m).enabled = m.enabled
      /\ DOMAIN StartIfNeeded(m) = DOMAIN m
  BY <1>1, <1>5 DEF StartIfNeeded
<1>7. FillWritePipeline(r, q) = StartIfNeeded(m)
  BY FillIs DEF m, t, bs
<1>8. QED BY <1>2, <1>4, <1>5, <1>6, <1>7 DEF bs

(* A pipeline that is the beginning of the queue becomes the oldest.       *)
LEMMA FillOldest ==
  ASSUME NEW I, NEW r \in Stores(I), r.enabled, NEW q \in Seq(BatchesOf(I)), Ascending(q),
         NEW k \in 0..Len(q), k <= PipelineSize, r.pipeline = SubSeq(q, 1, k)
  PROVE  FillWritePipeline(r, q).pipeline = Oldest(q) /\ FillWritePipeline(r, q).enabled
<1>1. Len(q) \in Nat /\ Len(r.pipeline) = k /\ (r.pipeline = <<>> <=> k = 0)
      /\ (k > 0 => r.pipeline[k] = q[k])
  OBVIOUS
<1>2. (IF r.pipeline = <<>> THEN 0 ELSE r.pipeline[Len(r.pipeline)].id)
        = IF k = 0 THEN 0 ELSE q[k].id
  BY <1>1
<1>3. AfterBatchId(q, IF k = 0 THEN 0 ELSE q[k].id) = SubSeq(q, k + 1, Len(q))
  BY AfterPrefix
<1>4. Following(r, q) = LET later == SubSeq(q, k + 1, Len(q))
                        IN  SubSeq(later, 1, Shorter(Len(later), PipelineSize - k))
  BY <1>1, <1>2, <1>3 DEF Following
<1>5. r.pipeline \o Following(r, q) = Oldest(q)
  BY <1>4, Joined
<1>6. QED BY <1>5, FillPipeline

(* An empty one too.                                                       *)
LEMMA FillEmpty ==
  ASSUME NEW I, NEW r \in Stores(I), r.enabled, r.pipeline = <<>>,
         NEW q \in Seq(BatchesOf(I)), Ascending(q)
  PROVE  FillWritePipeline(r, q).pipeline = Oldest(q) /\ FillWritePipeline(r, q).enabled
<1>1. SubSeq(q, 1, 0) = <<>> /\ 0 \in 0..Len(q) /\ 0 <= PipelineSize
  BY SizeAssumption
<1>2. QED BY <1>1, FillOldest

(* Switched on, or off and on again, the client fills its pipeline anew.   *)
LEMMA EnableOldest ==
  ASSUME NEW I, NEW r \in Stores(I), r.pipeline = <<>>, NEW q \in Seq(BatchesOf(I)), Ascending(q)
  PROVE  EnableNetwork(r, q).pipeline = Oldest(q) /\ EnableNetwork(r, q).enabled
<1> DEFINE on == [r EXCEPT !.enabled = TRUE]
<1>1. on \in Stores(I) /\ on.enabled /\ on.pipeline = <<>>
  BY DEF Stores
<1> HIDE DEF on
<1>2. QED BY <1>1, FillEmpty DEF EnableNetwork, on

LEMMA RestartOldest ==
  ASSUME NEW I, NEW r \in Stores(I), CallbacksFindTheirState(r.stream),
         NEW q \in Seq(BatchesOf(I)), Ascending(q)
  PROVE  RestartNetwork(r, q).pipeline = Oldest(q) /\ RestartNetwork(r, q).enabled
<1> DEFINE off == DisableNetwork(r)
           o == [off EXCEPT !.stream = InhibitBackoff(@)]
<1>1. off \in Stores(I) /\ Ended(off)
  BY DisableNetworkEnds
<1>2. off.pipeline = <<>>
  BY DEF DisableNetwork, Stores
<1> HIDE DEF off
<1>3. InhibitBackoff(off.stream) \in Streams
  <2>1. off.stream \in Streams /\ CallbacksFindTheirState(off.stream) /\ ~IsStarted(off.stream)
    BY <1>1 DEF Stores, Ended
  <2>2. QED BY <2>1, StreamSteps
<1>4. o \in Stores(I) /\ o.pipeline = <<>>
  BY <1>1, <1>2, <1>3 DEF Stores
<1> HIDE DEF o
<1>5. RestartNetwork(r, q) = EnableNetwork(o, q)
  BY DEF RestartNetwork, off, o
<1>6. QED BY <1>4, <1>5, EnableOldest

-----------------------------------------------------------------------------
(* The head of the pipeline is the oldest batch; without it the queue is   *)
(* its tail, and what is left of the pipeline its beginning.               *)
LEMMA HeadSettled ==
  ASSUME NEW B, NEW q \in Seq(B), Ascending(q), NEW n \in Nat, Below(q, n), Oldest(q) # <<>>
  PROVE  /\ Without(q, Oldest(q)[1]) = Tail(q) /\ Tail(q) \in Seq(B)
         /\ Ascending(Tail(q)) /\ Below(Tail(q), n)
         /\ \E k \in 0..Len(Tail(q)) : k <= PipelineSize /\ Tail(Oldest(q)) = SubSeq(Tail(q), 1, k)
<1> DEFINE m == Shorter(Len(q), PipelineSize)
<1>1. Len(q) \in Nat /\ PipelineSize \in Nat
  BY SizeAssumption
<1>2. m \in 1..Len(q) /\ m <= PipelineSize
  <2>1. m \in 0..Len(q) /\ m <= PipelineSize
    BY <1>1 DEF Shorter
  <2> HIDE DEF m
  <2>2. m = 0 => SubSeq(q, 1, m) = <<>>
    OBVIOUS
  <2>3. QED BY <2>1, <2>2 DEF Oldest, m
<1> HIDE DEF m
<1>3. Oldest(q) = SubSeq(q, 1, m)
  BY DEF Oldest, m
<1>4. Oldest(q)[1] = q[1] /\ q # <<>>
  BY <1>1, <1>2, <1>3
<1>5. /\ Tail(q) \in Seq(B) /\ Len(Tail(q)) = Len(q) - 1
      /\ \A i \in 1..Len(q) - 1 : Tail(q)[i] = q[i + 1]
  BY <1>4, TailTyped
<1>6. Without(q, q[1]) = Tail(q)
  <2>1. \A i \in DOMAIN q : q[i].id = q[1].id <=> i = 1
    BY <1>1, <1>2 DEF Ascending
  <2>2. 1 \in DOMAIN q
    BY <1>1, <1>2
  <2>3. (CHOOSE i \in DOMAIN q : q[i].id = q[1].id) = 1
    BY <2>1, <2>2
  <2>4. Without(q, q[1]) = SubSeq(q, 1, 0) \o SubSeq(q, 2, Len(q))
    BY <2>1, <2>2, <2>3 DEF Without
  <2>5. SubSeq(q, 1, 0) \o SubSeq(q, 2, Len(q)) = Tail(q)
    <3>1. SubSeq(q, 2, Len(q)) = Tail(q)
      BY <1>1, <1>4
    <3>2. SubSeq(q, 1, 0) = <<>>
      OBVIOUS
    <3>3. <<>> \o Tail(q) = Tail(q)
      BY <1>5
    <3>4. QED BY <3>1, <3>2, <3>3
  <2>6. QED BY <2>4, <2>5
<1>7. Ascending(Tail(q))
  <2>1. SUFFICES ASSUME NEW i \in 1..Len(q) - 1
                 PROVE  /\ q[i + 1].id \in Nat /\ q[i + 1].id > 0
                        /\ \A j \in 1..i-1 : q[j + 1].id < q[i + 1].id
    BY <1>1, <1>5 DEF Ascending
  <2>2. i + 1 \in 1..Len(q) /\ \A j \in 1..i-1 : j + 1 \in 1..i
    BY <1>1
  <2>3. QED BY <2>2 DEF Ascending
<1>8. Below(Tail(q), n)
  BY <1>1, <1>5 DEF Below
<1>9. m - 1 \in 0..Len(Tail(q)) /\ m - 1 <= PipelineSize
  BY <1>1, <1>2, <1>5
<1>10. Tail(Oldest(q)) = SubSeq(Tail(q), 1, m - 1)
  <2> DEFINE a == SubSeq(q, 1, m)
             b == SubSeq(Tail(q), 1, m - 1)
  <2>1. a \in Seq(B) /\ Len(a) = m /\ a # <<>> /\ \A i \in 1..m : a[i] = q[i]
    BY <1>1, <1>2
  <2>2. b \in Seq(B) /\ Len(b) = m - 1 /\ \A i \in 1..m - 1 : b[i] = Tail(q)[i]
    BY <1>1, <1>2, <1>5, <1>9
  <2> HIDE DEF a, b
  <2>3. Tail(a) \in Seq(B) /\ Len(Tail(a)) = m - 1 /\ \A i \in 1..m - 1 : Tail(a)[i] = a[i + 1]
    BY <2>1, TailTyped
  <2>4. \A i \in 1..m - 1 : Tail(a)[i] = b[i]
    BY <1>1, <1>2, <1>5, <2>1, <2>2, <2>3
  <2>5. Tail(a) = b
    BY <2>2, <2>3, <2>4, SeqEqual
  <2>6. QED BY <1>3, <2>5 DEF a, b
<1>11. QED BY <1>4, <1>5, <1>6, <1>7, <1>8, <1>9, <1>10

-----------------------------------------------------------------------------
(* What the pipeline has to be.                                            *)
LEMMA OldestIs ==
  PipelineIsOldest <=> rs.pipeline = IF rs.enabled THEN Oldest(queue[user]) ELSE <<>>
BY DEF PipelineIsOldest, Oldest

(* Steps of the stream and of the server that settle nothing.              *)
LEMMA NothingMoves ==
  ASSUME Complete, UNCHANGED <<queue, nextId, user>>,
         rs'.pipeline = rs.pipeline, rs'.enabled = rs.enabled
  PROVE  Ordered' /\ PipelineIsOldest'
BY DEF Complete, Ordered, PipelineIsOldest

(* The head of the pipeline is settled and the rest filled up.             *)
LEMMA Settles ==
  ASSUME NEW I, Known(I), Complete, rs.enabled, rs.pipeline # <<>>,
         NEW r \in Stores(I), r.enabled, r.pipeline = Tail(rs.pipeline),
         NEW end, SettleHead(rs.pipeline[1], end), UNCHANGED <<nextId, user>>,
         rs'.pipeline = FillWritePipeline(r, Without(queue[user], rs.pipeline[1])).pipeline,
         rs'.enabled = rs.enabled
  PROVE  Ordered' /\ PipelineIsOldest'
<1> DEFINE q == queue[user]
<1>1. /\ q \in Seq(BatchesOf(I)) /\ Ascending(q) /\ nextId \in Nat /\ nextId > 0
      /\ Below(q, nextId) /\ rs.pipeline = Oldest(q)
      /\ user \in Users /\ queue \in [Users -> Seq(BatchesOf(I))]
      /\ \A u \in Users : Ascending(queue[u]) /\ Below(queue[u], nextId)
  BY OldestIs DEF Complete, Known, Ordered
<1> HIDE DEF q
<1>2. /\ Without(q, rs.pipeline[1]) = Tail(q) /\ Tail(q) \in Seq(BatchesOf(I))
      /\ Ascending(Tail(q)) /\ Below(Tail(q), nextId)
      /\ \E k \in 0..Len(Tail(q)) : k <= PipelineSize /\ r.pipeline = SubSeq(Tail(q), 1, k)
  BY <1>1, HeadSettled
<1>3. FillWritePipeline(r, Tail(q)).pipeline = Oldest(Tail(q))
  BY <1>2, FillOldest
<1>4. queue' = [queue EXCEPT ![user] = Tail(q)]
  BY <1>2 DEF SettleHead, q
<1>5. \A u \in Users : queue'[u] = IF u = user THEN Tail(q) ELSE queue[u]
  BY <1>1, <1>4
<1>6. Ordered'
  BY <1>1, <1>2, <1>5 DEF Ordered
<1>7. rs'.pipeline = Oldest(queue'[user'])
  BY <1>1, <1>2, <1>3, <1>5 DEF q
<1>8. QED BY <1>6, <1>7, OldestIs DEF PipelineIsOldest, Oldest

(* The stream ends with an error.                                          *)
LEMMA FinishOrder ==
  ASSUME NEW I, Known(I), Complete, NEW status, Finish(status), UNCHANGED <<nextId, user>>
  PROVE  Ordered' /\ PipelineIsOldest'
<1> DEFINE s == Close(rs.stream, FALSE)
           closed == [rs EXCEPT !.stream = s, !.call = NoCall]
           head == rs.pipeline[1]
           rejected == [closed EXCEPT !.pipeline = Tail(@), !.stream = InhibitBackoff(@)]
           q == Without(queue[user], head)
           filled == FillWritePipeline(rejected, q)
<1>1. /\ rs \in Stores(I) /\ rs.stream \in Streams /\ rs.pipeline \in Seq(BatchesOf(I))
      /\ Serves(rs) /\ user \in Users /\ queue \in [Users -> Seq(BatchesOf(I))]
  BY DEF Known, Complete, Sound, Stores
<1>2. s \in Streams /\ CallbacksFindTheirState(s) /\ ~IsStarted(s)
  BY <1>1, CloseSound
<1>3. NoCall \in CallRecords
  BY DEF NoCall, CallRecords
<1> HIDE DEF s
<1>4. /\ closed \in Stores(I) /\ closed.pipeline = rs.pipeline
      /\ closed.enabled = rs.enabled /\ closed.stream = s
  BY <1>1, <1>2, <1>3 DEF Stores
<1>5. \/ /\ rs.handshake /\ rs.pipeline # <<>> /\ SettleHead(head, "refused")
         /\ rs' = [StartIfNeeded(filled) EXCEPT !.handshake = FALSE]
      \/ rs' = [StartIfNeeded(closed) EXCEPT !.handshake = FALSE] /\ NothingSettled
  BY DEF Finish, s
<1> HIDE DEF closed
<1>6. CASE /\ rs.handshake /\ rs.pipeline # <<>> /\ SettleHead(head, "refused")
           /\ rs' = [StartIfNeeded(filled) EXCEPT !.handshake = FALSE]
  <2>1. rs.enabled
    BY <1>1, <1>6 DEF Serves, IsOpen, IsStarted
  <2>2. Tail(rs.pipeline) \in Seq(BatchesOf(I)) /\ InhibitBackoff(s) \in Streams
    BY <1>1, <1>2, <1>6, TailTyped, StreamSteps
  <2>3. /\ rejected \in Stores(I) /\ rejected.enabled
        /\ rejected.pipeline = Tail(rs.pipeline)
    BY <1>4, <2>1, <2>2 DEF Stores
  <2>4. rs'.pipeline = filled.pipeline /\ rs'.enabled = rs.enabled
    <3>1. q \in Seq(BatchesOf(I))
      BY <1>1, WithoutTyped
    <3> HIDE DEF q, rejected
    <3>2. filled.enabled /\ DOMAIN filled = {"enabled", "pipeline", "stream", "handshake", "call"}
      BY <2>3, FillPipeline DEF Stores
    <3> HIDE DEF filled
    <3>3. QED BY <1>6, <2>1, <3>2 DEF StartIfNeeded
  <2>5. QED BY <1>6, <2>1, <2>3, <2>4, Settles
<1>7. CASE rs' = [StartIfNeeded(closed) EXCEPT !.handshake = FALSE] /\ NothingSettled
  <2>1. rs'.pipeline = rs.pipeline /\ rs'.enabled = rs.enabled
    BY <1>4, <1>7 DEF StartIfNeeded, Stores
  <2>2. QED BY <1>7, <2>1, NothingMoves DEF NothingSettled
<1>8. QED BY <1>5, <1>6, <1>7

(* The network, the user and the process: the pipeline is filled anew.     *)
LEMMA NetworkOrder ==
  ASSUME NEW I, Known(I), Complete,
         \/ TurnNetworkOff \/ TurnNetworkOn \/ ConnectivityChanges \/ ProcessRestart
         \/ \E u \in Users : CredentialChange(u)
  PROVE  Ordered' /\ PipelineIsOldest'
<1>1. /\ rs \in Stores(I) /\ CallbacksFindTheirState(rs.stream) /\ user \in Users
      /\ \A u \in Users : queue[u] \in Seq(BatchesOf(I)) /\ Ascending(queue[u])
      /\ rs.pipeline = IF rs.enabled THEN Oldest(queue[user]) ELSE <<>>
  BY OldestIs DEF Known, Complete, Sound, Serves, Ordered
<1>2. queue' = queue /\ nextId' \in {nextId, LoadNextBatchId(queue)}
  BY DEF TurnNetworkOff, TurnNetworkOn, ConnectivityChanges, ProcessRestart,
     CredentialChange, NothingSettled
<1>3. Ordered'
  BY <1>2, NextIdAbove DEF Complete, Ordered
<1>4. SUFFICES rs'.pipeline = IF rs'.enabled THEN Oldest(queue[user']) ELSE <<>>
  BY <1>2, <1>3, OldestIs DEF PipelineIsOldest, Oldest
<1>5. CASE TurnNetworkOff
  BY <1>1, <1>5 DEF TurnNetworkOff, DisableNetwork, Stores
<1>6. CASE TurnNetworkOn
  BY <1>1, <1>6, EnableOldest DEF TurnNetworkOn
<1>7. CASE ConnectivityChanges
  BY <1>1, <1>7, RestartOldest DEF ConnectivityChanges
<1>8. CASE ProcessRestart
  <2>1. NewRemoteStore \in Stores(I) /\ NewRemoteStore.pipeline = <<>>
    BY NewRemoteStoreEnded DEF NewRemoteStore
  <2>2. QED BY <1>1, <1>8, <2>1, EnableOldest DEF ProcessRestart
<1>9. ASSUME NEW u \in Users, CredentialChange(u)
      PROVE  rs'.pipeline = IF rs'.enabled THEN Oldest(queue[user']) ELSE <<>>
  <2>1. user' = u
    BY <1>9 DEF CredentialChange
  <2>2. CASE rs.enabled
    <3>1. rs' = RestartNetwork(rs, queue[u])
      BY <1>9, <2>2 DEF CredentialChange
    <3>2. QED BY <1>1, <2>1, <3>1, RestartOldest
  <2>3. CASE ~rs.enabled
    BY <1>1, <1>9, <2>3 DEF CredentialChange
  <2>4. QED BY <2>2, <2>3
<1>10. QED BY <1>5, <1>6, <1>7, <1>8, <1>9

(* A new batch is the last of its queue.                                   *)
LEMMA WriteOrder ==
  ASSUME NEW I, Known(I), Complete, WriteMutations
  PROVE  Ordered' /\ PipelineIsOldest'
<1> DEFINE b == [id |-> nextId, write |-> Len(made) + 1]
           q == Append(queue[user], b)
           J == I \cup {nextId}
<1>1. /\ queue[user] \in Seq(BatchesOf(J)) /\ rs \in Stores(J) /\ user \in Users
      /\ queue \in [Users -> Seq(BatchesOf(J))]
  <2>1. Known(J)
    BY StoresGrow
  <2>2. QED BY <2>1 DEF Known
<1>2. b \in BatchesOf(J)
  BY BoundsAssumption DEF WriteMutations, BatchesOf, Writes, Complete, Sound, Typed
<1>3. /\ nextId \in Nat /\ nextId > 0 /\ nextId' = nextId + 1
      /\ \A u \in Users : Ascending(queue[u]) /\ Below(queue[u], nextId)
      /\ rs.pipeline = IF rs.enabled THEN Oldest(queue[user]) ELSE <<>>
      /\ queue' = [queue EXCEPT ![user] = q] /\ user' = user
      /\ rs' = FillWritePipeline(rs, q)
  BY OldestIs DEF Complete, Ordered, WriteMutations
<1>4. b.id = nextId
  OBVIOUS
<1> HIDE DEF b, J
<1>5. /\ q \in Seq(BatchesOf(J)) /\ Len(q) = Len(queue[user]) + 1 /\ Len(queue[user]) \in Nat
      /\ \A i \in 1..Len(queue[user]) : q[i] = queue[user][i]
      /\ q[Len(queue[user]) + 1] = b
  BY <1>1, <1>2
<1> HIDE DEF q
<1>6. Ascending(q) /\ Below(q, nextId + 1)
  <2> DEFINE n == Len(queue[user])
  <2>1. /\ \A i \in 1..n : queue[user][i].id \in Nat /\ queue[user][i].id < nextId
                            /\ queue[user][i].id > 0
      /\ \A i \in 1..n : \A j \in 1..i-1 : queue[user][j].id < queue[user][i].id
    BY <1>1, <1>3 DEF Ascending, Below
  <2>2. /\ \A i \in 1..n : q[i].id = queue[user][i].id
        /\ q[n + 1].id = nextId /\ Len(q) = n + 1 /\ n \in Nat
    BY <1>4, <1>5
  <2> HIDE DEF n
  <2>3. ASSUME NEW i \in 1..n + 1
        PROVE  /\ q[i].id \in Nat /\ q[i].id > 0 /\ q[i].id < nextId + 1
               /\ \A j \in 1..i-1 : q[j].id < q[i].id
    <3>1. CASE i = n + 1
      BY <1>3, <2>1, <2>2, <3>1
    <3>2. CASE i # n + 1
      <4>1. i \in 1..n /\ \A j \in 1..i-1 : j \in 1..n
        BY <2>2, <3>2
      <4>2. q[i].id = queue[user][i].id /\ \A j \in 1..i-1 : q[j].id = queue[user][j].id
        BY <2>2, <4>1
      <4>3. /\ queue[user][i].id \in Nat /\ queue[user][i].id > 0
            /\ queue[user][i].id < nextId
            /\ \A j \in 1..i-1 : queue[user][j].id < queue[user][i].id
        BY <2>1, <4>1
      <4>4. QED BY <1>3, <4>2, <4>3
    <3>3. QED BY <3>1, <3>2
  <2>4. QED BY <2>2, <2>3 DEF Ascending, Below
<1>7. \A u \in Users : queue'[u] = IF u = user THEN q ELSE queue[u]
  BY <1>1, <1>3
<1>8. \A u \in Users : Below(queue[u], nextId + 1)
  <2>1. ASSUME NEW u \in Users, NEW i \in 1..Len(queue[u])
        PROVE  queue[u][i].id < nextId + 1
    <3>1. queue[u][i].id \in Nat /\ queue[u][i].id < nextId
      BY <1>3 DEF Ascending, Below
    <3>2. QED BY <1>3, <3>1
  <2>2. QED BY <2>1 DEF Below
<1>9. Ordered'
  BY <1>3, <1>6, <1>7, <1>8 DEF Ordered
<1>10. rs'.enabled = rs.enabled /\ rs'.pipeline = rs.pipeline \o Following(rs, q)
  BY <1>1, <1>3, FillPipeline
<1>11. CASE rs.enabled
  <2> DEFINE k == Shorter(Len(queue[user]), PipelineSize)
  <2>1. k \in 0..Len(queue[user]) /\ k <= PipelineSize
    BY <1>5, SizeAssumption DEF Shorter
  <2>2. rs.pipeline = SubSeq(queue[user], 1, k)
    BY <1>3, <1>11 DEF Oldest
  <2> HIDE DEF k
  <2>3. k \in 0..Len(q)
    BY <1>5, <2>1
  <2>4. SubSeq(queue[user], 1, k) = SubSeq(q, 1, k)
    BY <1>1, <1>5, <2>1, <2>3
  <2>5. rs'.pipeline = Oldest(q)
    BY <1>1, <1>3, <1>5, <1>6, <1>11, <2>1, <2>2, <2>3, <2>4, FillOldest
  <2>6. QED BY <1>1, <1>3, <1>7, <1>9, <1>10, <1>11, <2>5, OldestIs DEF PipelineIsOldest, Oldest
<1>12. CASE ~rs.enabled
  <2>1. Following(rs, q) = <<>> /\ rs.pipeline = <<>>
    BY <1>3, <1>12 DEF Following
  <2>2. rs'.pipeline = <<>> /\ ~rs'.enabled
    BY <1>10, <1>12, <2>1
  <2>3. QED BY <1>9, <2>2 DEF PipelineIsOldest
<1>13. QED BY <1>11, <1>12

(* After the handshake, an answer finds a batch it is for.                 *)
LEMMA AnswerHasBatch ==
  ASSUME NEW I, Known(I), Meets(rs), rs.handshake, rs.call.answers # <<>>
  PROVE  rs.pipeline # <<>>
<1> DEFINE a == rs.call.answers
           b == Pending(rs)
<1>1. a \in Seq(Messages) /\ b \in Seq(Messages) /\ a # <<>> /\ rs.pipeline \in Seq(BatchesOf(I))
  BY DEF Known, Stores, CallRecords, Pending
<1>2. Len(a \o b) <= Len(rs.pipeline)
  BY DEF Meets, Sent
<1> HIDE DEF a, b
<1>3. Len(a \o b) = Len(a) + Len(b) /\ Len(a) \in Nat /\ Len(b) \in Nat
  BY <1>1, Concatenated, Zenon
<1>4. Len(a) > 0
  BY <1>1
<1>5. QED BY <1>1, <1>2, <1>3, <1>4

(* An answer is read.                                                      *)
LEMMA ReadOrder ==
  ASSUME NEW I, Known(I), Complete, Read
  PROVE  Ordered' /\ PipelineIsOldest'
<1> DEFINE r == [rs EXCEPT !.call.answers = Tail(@)]
           h == [r EXCEPT !.handshake = TRUE]
           p == [r EXCEPT !.pipeline = Tail(@)]
           head == rs.pipeline[1]
<1>1. /\ rs \in Stores(I) /\ rs.pipeline \in Seq(BatchesOf(I)) /\ Serves(rs) /\ Meets(rs)
      /\ rs.call.answers # <<>> /\ rs.call.answers \in Seq(Messages)
      /\ rs.call.requests \in Seq(Messages)
  BY DEF Known, Complete, Sound, Stores, CallRecords, Read
<1>2. UNCHANGED <<nextId, user>>
  BY DEF Read
<1>3. Tail(rs.call.answers) \in Seq(Messages)
  BY <1>1, TailTyped
<1>4. r \in Stores(I) /\ r.pipeline = rs.pipeline /\ r.enabled = rs.enabled
  BY <1>1, <1>3 DEF Stores, CallRecords
<1>5. \/ ~rs.handshake /\ rs' = Send(h, WritesOf(r.pipeline)) /\ NothingSettled
      \/ /\ rs.handshake /\ SettleHead(head, "stored")
         /\ rs' = FillWritePipeline(p, Without(queue[user], head))
  BY DEF Read
<1> HIDE DEF r
<1>6. CASE ~rs.handshake /\ rs' = Send(h, WritesOf(r.pipeline)) /\ NothingSettled
  <2>1. rs'.pipeline = rs.pipeline /\ rs'.enabled = rs.enabled
    BY <1>4, <1>6 DEF Send, Stores
  <2>2. QED BY <1>2, <1>6, <2>1, NothingMoves DEF NothingSettled
<1>7. CASE /\ rs.handshake /\ SettleHead(head, "stored")
           /\ rs' = FillWritePipeline(p, Without(queue[user], head))
  <2>1. rs.enabled
    BY <1>1, <1>7 DEF Serves, IsOpen, IsStarted
  <2>2. rs.pipeline # <<>>
    BY <1>1, <1>7, AnswerHasBatch
  <2>3. p \in Stores(I) /\ p.enabled /\ p.pipeline = Tail(rs.pipeline)
    <3>1. Tail(rs.pipeline) \in Seq(BatchesOf(I))
      BY <1>1, <2>2, TailTyped
    <3>2. QED BY <1>4, <2>1, <3>1 DEF Stores
  <2> HIDE DEF p
  <2>4. rs'.enabled = rs.enabled
    BY <1>7, <2>1, <2>3, FillPipeline
  <2>5. QED BY <1>2, <1>7, <2>1, <2>2, <2>3, <2>4, Settles
<1>8. QED BY <1>5, <1>6, <1>7

(* The other steps leave the pipeline as it is.                            *)
LEMMA StillOrder ==
  ASSUME NEW I, Known(I), Complete,
         \/ Connect \/ LateCredentials \/ BackoffElapses \/ IdleTimeout
         \/ ServerTakes \/ CallBreaks \/ UNCHANGED vars
  PROVE  Ordered' /\ PipelineIsOldest'
<1>1. rs \in Stores(I)
  BY DEF Known
<1>2. UNCHANGED <<queue, nextId, user>>
  BY DEF Connect, LateCredentials, BackoffElapses, IdleTimeout, ServerTakes, ServerShakes,
     ServerDecides, CallBreaks, NothingSettled, vars
<1>3. rs'.pipeline = rs.pipeline /\ rs'.enabled = rs.enabled
  <2>1. CASE Connect
    BY <1>1, <2>1 DEF Connect, Send, Stores
  <2>2. CASE IdleTimeout
    BY <1>1, <2>2 DEF IdleTimeout, StartIfNeeded, Stores
  <2>3. CASE LateCredentials \/ BackoffElapses
    BY <1>1, <2>3 DEF LateCredentials, BackoffElapses, Stores
  <2>4. CASE ServerTakes
    BY <1>1, <2>4 DEF ServerTakes, ServerShakes, ServerDecides, Answer, Stores
  <2>5. CASE CallBreaks
    BY <1>1, <2>5 DEF CallBreaks, Stores
  <2>6. CASE UNCHANGED vars
    BY <2>6 DEF vars
  <2>7. QED BY <2>1, <2>2, <2>3, <2>4, <2>5, <2>6
<1>4. QED BY <1>2, <1>3, NothingMoves

-----------------------------------------------------------------------------
(* The invariant holds at first, and every step keeps it.                  *)
LEMMA InitComplete == Init => Complete
<1>1. SUFFICES ASSUME Init PROVE Complete
  OBVIOUS
<1>2. Sound
  BY <1>1, InitSound
<1>3. <<>> \in Seq(BatchesOf(Nat)) /\ Len(<<>>) = 0
  OBVIOUS
<1>4. Ascending(<<>>) /\ \A n : Below(<<>>, n)
  BY <1>3 DEF Ascending, Below
<1>5. Ordered
  BY <1>1, <1>4 DEF Init, Ordered
<1>6. NewRemoteStore \in Stores(Nat) /\ NewRemoteStore.pipeline = <<>>
  BY NewRemoteStoreEnded DEF NewRemoteStore
<1>7. rs.pipeline = Oldest(<<>>) /\ rs.enabled
  BY <1>1, <1>3, <1>4, <1>6, EnableOldest DEF Init
<1>8. queue[user] = <<>>
  BY <1>1 DEF Init
<1>9. QED BY <1>2, <1>5, <1>7, <1>8, OldestIs DEF Complete

LEMMA NextComplete == Complete /\ [Next]_vars => Complete'
<1>1. SUFFICES ASSUME Complete, [Next]_vars PROVE Complete'
  OBVIOUS
<1>2. Sound'
  BY <1>1, NextSound DEF Complete
<1>3. PICK I : Known(I)
  BY <1>1 DEF Complete, Sound, Typed
<1>4. SUFFICES Ordered' /\ PipelineIsOldest'
  BY <1>2 DEF Complete
<1>5. CASE WriteMutations
  BY <1>1, <1>3, <1>5, WriteOrder
<1>6. CASE NoCredentials \/ StreamEnds \/ Garbled
  BY <1>1, <1>3, <1>6, FinishOrder DEF NoCredentials, StreamEnds, Garbled
<1>7. CASE Read
  BY <1>1, <1>3, <1>7, ReadOrder
<1>8. CASE \/ TurnNetworkOff \/ TurnNetworkOn \/ ConnectivityChanges \/ ProcessRestart
           \/ \E u \in Users : CredentialChange(u)
  BY <1>1, <1>3, <1>8, NetworkOrder
<1>9. CASE \/ Connect \/ LateCredentials \/ BackoffElapses \/ IdleTimeout
           \/ ServerTakes \/ CallBreaks \/ UNCHANGED vars
  BY <1>1, <1>3, <1>9, StillOrder
<1>10. QED BY <1>1, <1>5, <1>6, <1>7, <1>8, <1>9 DEF Next

(* The pipeline of remote_store.cc is always the oldest batches of the     *)
(* queue of who is signed in, as many as fit: no write is skipped, doubled *)
(* or sent for another user.                                               *)
THEOREM OldestFirst == Spec => []PipelineIsOldest
<1>1. Complete => PipelineIsOldest
  BY DEF Complete
<1>2. QED BY InitComplete, NextComplete, <1>1, PTL DEF Spec

-----------------------------------------------------------------------------
(* The device's promise.  A write is numbered above all that were made     *)
(* before, and none ends before it is made.                                *)
Numbered ==
  /\ DOMAIN fate = Writes
  /\ \A u \in Users : \A i \in 1..Len(queue[u]) : queue[u][i].write <= Len(made)
  /\ \A w \in Writes : w > Len(made) => fate[w] = "none"

(* The only thing that ends is the oldest batch of who is signed in.       *)
OldestEnds ==
  /\ queue[user] # <<>> /\ queue' = [queue EXCEPT ![user] = Tail(queue[user])]
  /\ \E e \in {"stored", "refused"} : fate' = [fate EXCEPT ![Head(queue[user]).write] = e]
  /\ UNCHANGED made

(* Settling the head of the pipeline ends the oldest batch.                *)
LEMMA SettlesOldest ==
  ASSUME NEW I, Known(I), Complete, rs.handshake, rs.pipeline # <<>>,
         NEW e \in {"stored", "refused"}, SettleHead(rs.pipeline[1], e), UNCHANGED made
  PROVE  OldestEnds
<1> DEFINE q == queue[user]
<1>1. rs.enabled
  BY DEF Complete, Sound, Serves, IsOpen, IsStarted
<1>2. /\ q \in Seq(BatchesOf(I)) /\ Ascending(q) /\ nextId \in Nat /\ Below(q, nextId)
      /\ rs.pipeline = Oldest(q)
  BY <1>1, OldestIs DEF Complete, Known, Ordered
<1> HIDE DEF q
<1>3. Without(q, rs.pipeline[1]) = Tail(q)
  BY <1>2, HeadSettled
<1>4. q # <<>> /\ rs.pipeline[1] = Head(q)
  <2>1. Len(q) \in Nat /\ Shorter(Len(q), PipelineSize) <= Len(q) /\ Shorter(Len(q), PipelineSize) \in Int
    BY <1>2, SizeAssumption DEF Shorter
  <2>2. Shorter(Len(q), PipelineSize) > 0
    BY <1>2, <2>1 DEF Oldest
  <2>3. QED BY <1>2, <2>1, <2>2 DEF Oldest
<1>5. QED BY <1>3, <1>4 DEF OldestEnds, SettleHead, q

(* What a step does to the queues on disk.                                 *)
LEMMA QueueSteps ==
  ASSUME NEW I, Known(I), Complete, [Next]_vars
  PROVE  WriteMutations \/ OldestEnds \/ UNCHANGED <<queue, fate, made>>
<1>1. CASE NoCredentials \/ StreamEnds \/ Garbled
  <2>1. PICK status : Finish(status) /\ UNCHANGED made
    BY <1>1 DEF NoCredentials, StreamEnds, Garbled
  <2>2. CASE rs.handshake /\ rs.pipeline # <<>> /\ SettleHead(rs.pipeline[1], "refused")
    BY <2>1, <2>2, SettlesOldest
  <2>3. CASE NothingSettled
    BY <2>1, <2>3 DEF NothingSettled
  <2>4. QED BY <2>1, <2>2, <2>3 DEF Finish
<1>2. CASE Read
  <2>1. CASE rs.handshake
    <3>1. rs.pipeline # <<>>
      BY <1>2, <2>1, AnswerHasBatch DEF Complete, Sound, Read
    <3>2. SettleHead(rs.pipeline[1], "stored") /\ UNCHANGED made
      BY <1>2, <2>1 DEF Read
    <3>3. QED BY <2>1, <3>1, <3>2, SettlesOldest
  <2>2. CASE ~rs.handshake
    BY <1>2, <2>2 DEF Read, NothingSettled
  <2>3. QED BY <2>1, <2>2
<1>3. CASE ~(WriteMutations \/ Read \/ NoCredentials \/ StreamEnds \/ Garbled)
  BY <1>3 DEF Next, vars, Connect, LateCredentials, BackoffElapses, IdleTimeout,
     TurnNetworkOff, TurnNetworkOn, ConnectivityChanges, ProcessRestart, CredentialChange,
     ServerTakes, ServerShakes, ServerDecides, CallBreaks, NothingSettled
<1>4. QED BY <1>1, <1>2, <1>3

(* Every step keeps the writes numbered.                                   *)
LEMMA NumberedStep ==
  ASSUME NEW I, Known(I), Complete, Numbered, [Next]_vars
  PROVE  Numbered'
<1>1. /\ queue \in [Users -> Seq(BatchesOf(I))] /\ user \in Users /\ made \in Seq(Users)
      /\ Len(made) \in Nat
  BY DEF Known, Complete, Sound, Typed
<1>2. CASE WriteMutations
  <2> DEFINE b == [id |-> nextId, write |-> Len(made) + 1]
             q == Append(queue[user], b)
  <2>1. /\ fate' = fate /\ made' = Append(made, user) /\ queue' = [queue EXCEPT ![user] = q]
    BY <1>2 DEF WriteMutations
  <2>2. Len(made') = Len(made) + 1
    BY <1>1, <2>1
  <2>3. b.write = Len(made) + 1
    OBVIOUS
  <2> HIDE DEF b
  <2>4. /\ Len(q) = Len(queue[user]) + 1 /\ Len(queue[user]) \in Nat
        /\ \A i \in 1..Len(queue[user]) : q[i] = queue[user][i]
        /\ q[Len(queue[user]) + 1] = b
    <3>1. queue[user] \in Seq(BatchesOf(I))
      BY <1>1
    <3>2. QED BY <3>1
  <2> HIDE DEF q
  <2>5. \A u \in Users : \A i \in 1..Len(queue[u]) :
          queue[u][i].write \in Nat /\ queue[u][i].write <= Len(made)
    <3>1. \A u \in Users : \A i \in 1..Len(queue[u]) : queue[u][i] \in BatchesOf(I)
      BY <1>1
    <3>2. \A b1 \in BatchesOf(I) : b1.write \in Nat
      BY DEF BatchesOf, Writes
    <3>3. QED BY <3>1, <3>2 DEF Numbered
  <2>6. \A i \in 1..Len(q) : q[i].write <= Len(made) + 1
    <3>1. SUFFICES ASSUME NEW i \in 1..Len(q) PROVE q[i].write <= Len(made) + 1
      OBVIOUS
    <3>2. CASE i \in 1..Len(queue[user])
      BY <1>1, <2>4, <2>5, <3>2
    <3>3. CASE i = Len(queue[user]) + 1
      BY <1>1, <2>3, <2>4, <3>3
    <3>4. QED BY <2>4, <3>2, <3>3
  <2>7. \A u \in Users : \A i \in 1..Len(queue'[u]) : queue'[u][i].write <= Len(made')
    BY <1>1, <2>1, <2>2, <2>5, <2>6
  <2>8. \A w \in Writes : w > Len(made') => fate'[w] = "none"
    BY <1>1, <2>1, <2>2 DEF Numbered, Writes
  <2>9. QED BY <2>1, <2>7, <2>8 DEF Numbered, Writes
<1>3. CASE OldestEnds
  <2> DEFINE q == queue[user]
  <2>1. q \in Seq(BatchesOf(I)) /\ q # <<>> /\ made' = made
        /\ queue' = [queue EXCEPT ![user] = Tail(q)]
    BY <1>1, <1>3 DEF OldestEnds
  <2>2. PICK e : fate' = [fate EXCEPT ![Head(q).write] = e]
    BY <1>3 DEF OldestEnds
  <2>3. Head(q).write <= Len(made) /\ Head(q).write \in Nat
    <3>1. Head(q) = q[1] /\ 1 \in 1..Len(q) /\ q[1] \in BatchesOf(I)
      BY <2>1
    <3>2. QED BY <1>1, <3>1 DEF Numbered, BatchesOf, Writes
  <2>4. \A i \in 1..Len(Tail(q)) : Tail(q)[i].write <= Len(made)
    <3>1. Len(Tail(q)) = Len(q) - 1 /\ Len(q) \in Nat /\ \A i \in 1..Len(q) - 1 : Tail(q)[i] = q[i + 1]
      BY <2>1, TailTyped
    <3>2. \A i \in 1..Len(q) - 1 : i + 1 \in 1..Len(q)
      BY <3>1
    <3>3. QED BY <1>1, <3>1, <3>2 DEF Numbered
  <2> HIDE DEF q
  <2>5. \A u \in Users : queue'[u] = IF u = user THEN Tail(q) ELSE queue[u]
    BY <1>1, <2>1
  <2>6. \A w \in Writes : w > Len(made) => fate'[w] = fate[w]
    BY <1>1, <2>2, <2>3 DEF Numbered, Writes
  <2>7. QED BY <2>1, <2>2, <2>4, <2>5, <2>6 DEF Numbered, Writes
<1>4. CASE UNCHANGED <<queue, fate, made>>
  BY <1>4 DEF Numbered, Writes
<1>5. QED BY <1>2, <1>3, <1>4, QueueSteps

(* A step of the client is a step of the outbox, or none.                  *)
LEMMA PromiseStep ==
  ASSUME NEW I, Known(I), Complete, Numbered, [Next]_vars
  PROVE  Promise!Next \/ UNCHANGED <<[u \in Users |-> WritesOf(queue[u])], fate>>
<1> DEFINE line == [u \in Users |-> WritesOf(queue[u])]
<1>1. /\ queue \in [Users -> Seq(BatchesOf(I))] /\ user \in Users /\ Len(made) \in Nat
  BY DEF Known, Complete, Sound, Typed
<1>2. \A u \in Users : /\ line[u] = WritesOf(queue[u]) /\ line[u] \in Seq(Messages)
                       /\ Len(line[u]) = Len(queue[u])
                       /\ \A i \in 1..Len(queue[u]) : line[u][i] = queue[u][i].write
  BY <1>1, WritesOfTyped
<1>3. CASE WriteMutations
  <2> DEFINE w == Len(made) + 1
             b == [id |-> nextId, write |-> w]
  <2>1. w \in Writes /\ fate[w] = "none" /\ fate' = fate
        /\ queue' = [queue EXCEPT ![user] = Append(queue[user], b)]
    BY <1>1, <1>3, BoundsAssumption DEF WriteMutations, Numbered, Writes
  <2>2. \A v \in Users : \A i \in DOMAIN line[v] : line[v][i] < w
    <3>1. SUFFICES ASSUME NEW v \in Users, NEW i \in DOMAIN line[v] PROVE line[v][i] < w
      OBVIOUS
    <3>2. line[v][i] = queue[v][i].write /\ i \in 1..Len(queue[v]) /\ line[v][i] \in Messages
      <4>1. DOMAIN line[v] = 1..Len(queue[v]) /\ line[v] \in Seq(Messages)
        BY <1>2
      <4> HIDE DEF line
      <4>2. QED BY <1>2, <4>1
    <3> HIDE DEF line
    <3>3. QED BY <1>1, <3>2 DEF Numbered, Messages
  <2>3. WritesOf(Append(queue[user], b)) = Append(WritesOf(queue[user]), w)
    <3> DEFINE q == queue[user]
               n == Len(q)
    <3>1. q \in Seq(BatchesOf(I)) /\ DOMAIN Append(q, b) = 1..n + 1 /\ DOMAIN q = 1..n
          /\ n \in Nat
      BY <1>1
    <3>2. b.write = w
      OBVIOUS
    <3> HIDE DEF b, w
    <3>3. /\ \A i \in 1..n : Append(q, b)[i] = q[i]
          /\ Append(q, b)[n + 1] = b
      BY <3>1
    <3> HIDE DEF q, n
    <3>4. WritesOf(Append(q, b)) = [i \in 1..n + 1 |-> IF i = n + 1 THEN w ELSE q[i].write]
      BY <3>1, <3>2, <3>3 DEF WritesOf
    <3>5. WritesOf(q) \in Seq({q[i].write : i \in 1..n}) /\ Len(WritesOf(q)) = n
          /\ WritesOf(q) = [i \in 1..n |-> q[i].write]
      BY <3>1 DEF WritesOf
    <3>6. Append(WritesOf(q), w) = [i \in 1..n + 1 |-> IF i = n + 1 THEN w ELSE q[i].write]
      BY <3>1, <3>5
    <3>7. QED BY <3>4, <3>6 DEF q
  <2> HIDE DEF w, b
  <2>4. line' = [line EXCEPT ![user] = Append(line[user], w)]
    BY <1>1, <2>1, <2>3
  <2>5. Promise!Accept(user, w)
    BY <2>1, <2>2, <2>4 DEF Promise!Accept
  <2>6. QED BY <1>1, <2>1, <2>5 DEF Promise!Next
<1>4. CASE OldestEnds
  <2> DEFINE q == queue[user]
  <2>1. q \in Seq(BatchesOf(I)) /\ q # <<>> /\ queue' = [queue EXCEPT ![user] = Tail(q)]
    BY <1>1, <1>4 DEF OldestEnds
  <2>2. PICK e \in {"stored", "refused"} : fate' = [fate EXCEPT ![Head(q).write] = e]
    BY <1>4 DEF OldestEnds
  <2> HIDE DEF q
  <2>3. /\ WritesOf(q) # <<>> /\ Head(WritesOf(q)) = Head(q).write
        /\ WritesOf(Tail(q)) = Tail(WritesOf(q))
    <3>1. /\ Tail(q) \in Seq(BatchesOf(I)) /\ Len(q) \in Nat /\ Len(Tail(q)) = Len(q) - 1
          /\ Len(q) > 0 /\ Head(q) = q[1]
          /\ \A i \in 1..Len(q) - 1 : Tail(q)[i] = q[i + 1]
      BY <2>1, TailTyped
    <3>2. /\ WritesOf(q) \in Seq(Messages) /\ Len(WritesOf(q)) = Len(q)
          /\ \A i \in 1..Len(q) : WritesOf(q)[i] = q[i].write
          /\ WritesOf(Tail(q)) \in Seq(Messages) /\ Len(WritesOf(Tail(q))) = Len(Tail(q))
          /\ \A i \in 1..Len(Tail(q)) : WritesOf(Tail(q))[i] = Tail(q)[i].write
          /\ WritesOf(q) # <<>>
      BY <2>1, <3>1, WritesOfTyped
    <3>3. /\ Tail(WritesOf(q)) \in Seq(Messages) /\ Len(Tail(WritesOf(q))) = Len(q) - 1
          /\ Head(WritesOf(q)) = WritesOf(q)[1]
          /\ \A i \in 1..Len(q) - 1 : Tail(WritesOf(q))[i] = WritesOf(q)[i + 1]
      BY <3>2, TailTyped
    <3>4. \A i \in 1..Len(q) - 1 : Tail(WritesOf(q))[i] = WritesOf(Tail(q))[i]
      BY <3>1, <3>2, <3>3
    <3>5. WritesOf(Tail(q)) = Tail(WritesOf(q))
      BY <3>1, <3>2, <3>3, <3>4, SeqEqual
    <3>6. QED BY <3>1, <3>2, <3>3, <3>5
  <2>4. line[user] = WritesOf(q)
    BY <1>1 DEF q
  <2>5. line' = [line EXCEPT ![user] = Tail(line[user])]
    BY <1>1, <2>1, <2>3, <2>4
  <2>6. Promise!End(user)
    BY <2>2, <2>3, <2>4, <2>5 DEF Promise!End
  <2>7. QED BY <1>1, <2>6 DEF Promise!Next
<1>5. CASE UNCHANGED <<queue, fate, made>>
  BY <1>5
<1>6. QED BY <1>3, <1>4, <1>5, QueueSteps

(* The mutation queue, the pipeline and the write stream implement the     *)
(* outbox: each write the app makes stays on the device until it ends,     *)
(* oldest first, and ends once.                                            *)
THEOREM Keeps == Spec => KeepsPromise
<1>1. Init => Complete /\ Numbered /\ Promise!Init
  <2>1. SUFFICES ASSUME Init PROVE Complete /\ Numbered /\ Promise!Init
    OBVIOUS
  <2>2. \A u \in Users : queue[u] = <<>>
    BY <2>1 DEF Init
  <2>3. WritesOf(<<>>) = <<>>
    BY DEF WritesOf
  <2>4. Numbered
    BY <2>1, <2>2 DEF Init, Numbered
  <2>5. Promise!Init
    BY <2>1, <2>2, <2>3 DEF Init, Promise!Init
  <2>6. QED BY <2>1, <2>4, <2>5, InitComplete
<1>2. Complete /\ Numbered /\ [Next]_vars
        => Complete' /\ Numbered'
           /\ (Promise!Next \/ UNCHANGED <<[u \in Users |-> WritesOf(queue[u])], fate>>)
  <2>1. SUFFICES ASSUME Complete, Numbered, [Next]_vars
                 PROVE  /\ Complete' /\ Numbered'
                        /\ (Promise!Next \/ UNCHANGED <<[u \in Users |-> WritesOf(queue[u])], fate>>)
    OBVIOUS
  <2>2. PICK I : Known(I)
    BY <2>1 DEF Complete, Sound, Typed
  <2>3. QED BY <2>1, <2>2, NextComplete, NumberedStep, PromiseStep
<1>3. QED BY <1>1, <1>2, PTL DEF Spec, KeepsPromise, Promise!Spec

(* What the outbox gives to whoever implements it, in terms of the lines l *)
(* and the fates f.                                                        *)
Owed(l, f) ==
  /\ l \in [Users -> Seq(Writes)] /\ f \in [Writes -> {"none", "stored", "refused"}]
  /\ \A u \in Users : \A i \in 1..Len(l[u]) : f[l[u][i]] = "none"
  /\ \A u, v \in Users : \A i \in 1..Len(l[u]), j \in 1..Len(l[v]) :
       l[u][i] = l[v][j] => u = v /\ i = j
  /\ \A u \in Users : \A i, j \in 1..Len(l[u]) : i < j => l[u][i] < l[u][j]

(* A write newer than all those in line joins it last.                     *)
LEMMA AcceptOwes ==
  ASSUME NEW l, NEW f, Owed(l, f), NEW u \in Users, NEW w \in Writes, f[w] = "none",
         \A v \in Users : \A i \in 1..Len(l[v]) : l[v][i] < w
  PROVE  Owed([l EXCEPT ![u] = Append(@, w)], f)
<1> DEFINE m == [l EXCEPT ![u] = Append(@, w)]
           n == Len(l[u])
<1>1. l \in [Users -> Seq(Writes)] /\ l[u] \in Seq(Writes) /\ n \in Nat /\ w \in Int
  BY LenProperties DEF Owed, Writes
<1>2. /\ Append(l[u], w) \in Seq(Writes) /\ Len(Append(l[u], w)) = n + 1
      /\ \A i \in 1..n : Append(l[u], w)[i] = l[u][i]
      /\ Append(l[u], w)[n + 1] = w
  BY <1>1, AppendProperties
<1>3. /\ m \in [Users -> Seq(Writes)] /\ m[u] = Append(l[u], w)
      /\ \A v \in Users : v # u => m[v] = l[v]
  BY <1>1, <1>2
<1> HIDE DEF m, n
(* An entry of a line is an old one, or the new write.                     *)
<1>4. ASSUME NEW v \in Users, NEW i \in 1..Len(m[v])
      PROVE  \/ i \in 1..Len(l[v]) /\ m[v][i] = l[v][i]
             \/ v = u /\ i = n + 1 /\ m[v][i] = w
  BY <1>1, <1>2, <1>3 DEF n
<1>5. \A v \in Users : \A i \in 1..Len(m[v]) : f[m[v][i]] = "none"
  BY <1>4 DEF Owed
<1>6. ASSUME NEW v \in Users, NEW x \in Users, NEW i \in 1..Len(m[v]), NEW j \in 1..Len(m[x]),
             m[v][i] = m[x][j]
      PROVE  v = x /\ i = j
  <2>1. CASE i \in 1..Len(l[v]) /\ m[v][i] = l[v][i] /\ j \in 1..Len(l[x]) /\ m[x][j] = l[x][j]
    <3>1. l[v][i] = l[x][j]
      BY <1>6, <2>1
    <3>2. \A a, b \in Users : \A c \in 1..Len(l[a]), d \in 1..Len(l[b]) :
            l[a][c] = l[b][d] => a = b /\ c = d
      BY DEF Owed
    <3>3. \A c \in 1..Len(l[v]), d \in 1..Len(l[x]) : l[v][c] = l[x][d] => v = x /\ c = d
      BY <3>2
    <3>4. i \in 1..Len(l[v]) /\ j \in 1..Len(l[x])
      BY <2>1
    <3>5. l[v][i] = l[x][j] => v = x /\ i = j
      BY <3>3, <3>4
    <3>6. QED BY <3>1, <3>5
  <2>2. ASSUME NEW y \in Users, NEW k \in 1..Len(l[y]) PROVE l[y][k] # w
    <3>1. l[y][k] < w
      OBVIOUS
    <3>2. l[y] \in Seq(Writes)
      BY <1>1
    <3>3. l[y][k] \in Writes
      BY <3>2, ElementOfSeq
    <3>4. QED BY <1>1, <3>1, <3>3 DEF Writes
  <2>3. CASE i \in 1..Len(l[v]) /\ m[v][i] = l[v][i] /\ m[x][j] = w
    BY <1>6, <2>2, <2>3
  <2>4. CASE m[v][i] = w /\ j \in 1..Len(l[x]) /\ m[x][j] = l[x][j]
    BY <1>6, <2>2, <2>4
  <2>5. CASE v = u /\ i = n + 1 /\ x = u /\ j = n + 1
    BY <2>5
  <2>6. /\ \/ i \in 1..Len(l[v]) /\ m[v][i] = l[v][i]
           \/ v = u /\ i = n + 1 /\ m[v][i] = w
        /\ \/ j \in 1..Len(l[x]) /\ m[x][j] = l[x][j]
           \/ x = u /\ j = n + 1 /\ m[x][j] = w
    BY <1>4
  <2>7. QED BY <2>1, <2>3, <2>4, <2>5, <2>6
<1>7. ASSUME NEW v \in Users, NEW i \in 1..Len(m[v]), NEW j \in 1..Len(m[v]), i < j
      PROVE  m[v][i] < m[v][j]
  <2>1. CASE j \in 1..Len(l[v]) /\ m[v][j] = l[v][j]
    <3>1. i \in 1..Len(l[v]) /\ m[v][i] = l[v][i]
      <4>1. v = u /\ i = n + 1 => i \notin 1..Len(l[v]) /\ ~(i < j)
        BY <1>1, <2>1 DEF n
      <4>2. QED BY <1>4, <1>7, <4>1
    <3>2. QED BY <1>7, <2>1, <3>1 DEF Owed
  <2>2. CASE v = u /\ j = n + 1 /\ m[v][j] = w
    <3>1. i # n + 1
      BY <1>1, <1>7, <2>2
    <3>2. i \in 1..Len(l[v]) /\ m[v][i] = l[v][i]
      BY <1>4, <3>1
    <3>3. QED BY <2>2, <3>2
  <2>3. QED BY <1>4, <2>1, <2>2
<1>8. QED BY <1>3, <1>5, <1>6, <1>7 DEF Owed, m

(* The oldest write of a user leaves the line with its end.                *)
LEMMA EndOwes ==
  ASSUME NEW l, NEW f, Owed(l, f), NEW u \in Users, l[u] # <<>>, NEW e \in {"stored", "refused"}
  PROVE  /\ Owed([l EXCEPT ![u] = Tail(@)], [f EXCEPT ![Head(l[u])] = e])
         /\ f[Head(l[u])] = "none"
<1> DEFINE m == [l EXCEPT ![u] = Tail(@)]
           g == [f EXCEPT ![Head(l[u])] = e]
           n == Len(l[u])
<1>1. /\ l \in [Users -> Seq(Writes)] /\ f \in [Writes -> {"none", "stored", "refused"}]
      /\ l[u] \in Seq(Writes)
  BY DEF Owed
<1>2. /\ Tail(l[u]) \in Seq(Writes) /\ n \in Nat /\ Len(Tail(l[u])) = n - 1 /\ n > 0
      /\ \A i \in 1..n - 1 : Tail(l[u])[i] = l[u][i + 1]
      /\ Head(l[u]) = l[u][1] /\ Head(l[u]) \in Writes
  BY <1>1, TailTyped
<1>3. /\ m \in [Users -> Seq(Writes)] /\ m[u] = Tail(l[u])
      /\ \A v \in Users : v # u => m[v] = l[v]
      /\ g \in [Writes -> {"none", "stored", "refused"}]
      /\ \A w \in Writes : w # Head(l[u]) => g[w] = f[w]
  BY <1>1, <1>2
<1> HIDE DEF m, g, n
(* An entry of a line now was one before, of another user or further back. *)
<1>4. ASSUME NEW v \in Users, NEW i \in 1..Len(m[v])
      PROVE  \/ v # u /\ i \in 1..Len(l[v]) /\ m[v][i] = l[v][i]
             \/ v = u /\ i + 1 \in 1..Len(l[v]) /\ i + 1 # 1 /\ m[v][i] = l[v][i + 1]
  <2>1. CASE v # u
    BY <1>3, <1>4, <2>1
  <2>2. CASE v = u
    <3>1. m[v] = Tail(l[u])
      BY <1>3, <2>2
    <3>2. i \in 1..n - 1
      BY <1>2, <1>4, <3>1
    <3>3. i + 1 \in 1..n /\ i + 1 # 1
      BY <1>2, <3>2
    <3>4. m[v][i] = l[v][i + 1]
      BY <1>2, <2>2, <3>1, <3>2
    <3>5. QED BY <2>2, <3>3, <3>4 DEF n
  <2>3. QED BY <2>1, <2>2
<1>5. 1 \in 1..Len(l[u])
  BY <1>2 DEF n
<1>6. f[Head(l[u])] = "none"
  BY <1>2, <1>5 DEF Owed
<1>7. ASSUME NEW v \in Users, NEW i \in 1..Len(m[v])
      PROVE  g[m[v][i]] = "none"
  <2>1. m[v][i] # Head(l[u]) /\ f[m[v][i]] = "none"
    <3>1. CASE v # u /\ i \in 1..Len(l[v]) /\ m[v][i] = l[v][i]
      BY <1>2, <1>5, <3>1 DEF Owed
    <3>2. CASE v = u /\ i + 1 \in 1..Len(l[v]) /\ i + 1 # 1 /\ m[v][i] = l[v][i + 1]
      <4>1. l[u][i + 1] # l[u][1]
        BY <1>5, <3>2 DEF Owed
      <4>2. QED BY <1>2, <3>2, <4>1 DEF Owed
    <3>3. QED BY <1>4, <3>1, <3>2
  <2>2. m[v][i] \in Writes
    <3>1. m[v] \in Seq(Writes)
      BY <1>3
    <3>2. QED BY <3>1, LenProperties, ElementOfSeq
  <2>3. QED BY <1>3, <2>1, <2>2
<1>8. ASSUME NEW v \in Users, NEW x \in Users, NEW i \in 1..Len(m[v]), NEW j \in 1..Len(m[x]),
             m[v][i] = m[x][j]
      PROVE  v = x /\ i = j
  <2>1. i \in Int /\ j \in Int
    OBVIOUS
  <2>2. CASE v # u /\ x # u
    BY <1>4, <1>8, <2>2 DEF Owed
  <2>3. CASE v = u /\ x = u
    <3>1. i + 1 = j + 1
      BY <1>4, <1>8, <2>3 DEF Owed
    <3>2. QED BY <2>1, <2>3, <3>1
  <2>4. CASE (v = u) # (x = u)
    BY <1>4, <1>8, <2>4 DEF Owed
  <2>5. QED BY <2>2, <2>3, <2>4
<1>9. ASSUME NEW v \in Users, NEW i \in 1..Len(m[v]), NEW j \in 1..Len(m[v]), i < j
      PROVE  m[v][i] < m[v][j]
  <2>1. i + 1 < j + 1
    BY <1>9
  <2>2. QED BY <1>4, <1>9, <2>1 DEF Owed
<1>10. Owed(m, g)
  BY <1>3, <1>7, <1>8, <1>9 DEF Owed
<1>11. QED BY <1>6, <1>10 DEF m, g

Lines == [u \in Users |-> WritesOf(queue[u])]

(* A step of the outbox keeps what it owes and the ends it has told.       *)
LEMMA OutboxSteps ==
  ASSUME Owed(Lines, fate), [Promise!Next]_<<Lines, fate>>
  PROVE  /\ Owed(Lines, fate)'
         /\ \A w \in Writes : fate[w] # "none" => fate'[w] = fate[w]
<1>1. /\ Lines \in [Users -> Seq(Writes)] /\ fate \in [Writes -> {"none", "stored", "refused"}]
      /\ \A u \in Users : DOMAIN Lines[u] = 1..Len(Lines[u])
  <2>1. Lines \in [Users -> Seq(Writes)] /\ fate \in [Writes -> {"none", "stored", "refused"}]
    BY DEF Owed
  <2>2. QED BY <2>1, LenProperties
<1>2. SUFFICES /\ Owed(Lines', fate')
               /\ \A w \in Writes : fate[w] # "none" => fate'[w] = fate[w]
  BY DEF Owed
<1>3. CASE UNCHANGED <<Lines, fate>>
  BY <1>3
<1>4. ASSUME NEW u \in Users, NEW w \in Writes, Promise!Accept(u, w)
      PROVE  /\ Owed(Lines', fate')
             /\ \A x \in Writes : fate[x] # "none" => fate'[x] = fate[x]
  <2>1. /\ fate[w] = "none" /\ fate' = fate /\ Lines' = [Lines EXCEPT ![u] = Append(@, w)]
        /\ \A v \in Users : \A i \in DOMAIN Lines[v] : Lines[v][i] < w
    BY <1>4 DEF Promise!Accept, Lines
  <2> HIDE DEF Lines
  <2>2. QED BY <1>1, <2>1, AcceptOwes
<1>5. ASSUME NEW u \in Users, Promise!End(u)
      PROVE  /\ Owed(Lines', fate')
             /\ \A x \in Writes : fate[x] # "none" => fate'[x] = fate[x]
  <2>1. PICK e \in {"stored", "refused"} :
          /\ Lines[u] # <<>> /\ fate' = [fate EXCEPT ![Head(Lines[u])] = e]
          /\ Lines' = [Lines EXCEPT ![u] = Tail(@)]
    BY <1>5 DEF Promise!End, Lines
  <2> HIDE DEF Lines
  <2>2. Owed(Lines', fate') /\ fate[Head(Lines[u])] = "none"
    BY <2>1, EndOwes
  <2>3. QED BY <1>1, <2>1, <2>2
<1>6. QED BY <1>3, <1>4, <1>5 DEF Promise!Next

(* What the device still owes a user is in the line once and in order, and *)
(* what has ended, stored or refused, never ends another way: of the       *)
(* outbox, and so of the mutation queue through every fault.               *)
THEOREM OwedOnce == Spec => []Promise!LineIsOwed /\ Promise!EndsOnce
<1>1. Promise!Init => Owed(Lines, fate)
  <2>1. SUFFICES ASSUME Promise!Init PROVE Owed(Lines, fate)
    OBVIOUS
  <2>2. Lines = [u \in Users |-> <<>>] /\ fate = [w \in Writes |-> "none"]
    BY <2>1 DEF Promise!Init, Lines
  <2> HIDE DEF Lines
  <2>3. <<>> \in Seq(Writes) /\ Len(<<>>) = 0
    OBVIOUS
  <2>4. QED BY <2>2, <2>3 DEF Owed
<1>2. Owed(Lines, fate) => Promise!LineIsOwed
  <2>1. SUFFICES ASSUME Owed(Lines, fate) PROVE Promise!LineIsOwed
    OBVIOUS
  <2>2. \A u \in Users : Lines[u] \in Seq(Writes) /\ DOMAIN Lines[u] = 1..Len(Lines[u])
    BY <2>1, LenProperties DEF Owed
  <2>3. QED BY <2>1, <2>2 DEF Owed, Promise!LineIsOwed, Lines
<1>3. Owed(Lines, fate) /\ [Promise!Next]_<<Lines, fate>>
        => /\ Owed(Lines, fate)'
           /\ [\A w \in Writes : fate[w] # "none" => fate'[w] = fate[w]]_<<Lines, fate>>
  BY OutboxSteps
<1>4. KeepsPromise => []Promise!LineIsOwed /\ Promise!EndsOnce
  BY <1>1, <1>2, <1>3, PTL DEF KeepsPromise, Promise!Spec, Promise!EndsOnce, Lines
<1>5. QED BY <1>4, Keeps

-----------------------------------------------------------------------------
(* The fate of the writes.                                                 *)

Left ==
  /\ \A u \in Users : \A i \in 1..Len(queue[u]) :
       LET w == queue[u][i].write
       IN  /\ w \in 1..Len(made) /\ made[w] = u /\ fate[w] = "none"
           /\ \A j \in 1..i-1 : queue[u][j].write # w
  /\ \A w \in 1..Len(made) :
       fate[w] = "none" => \E i \in 1..Len(queue[made[w]]) : queue[made[w]][i].write = w

Awaited ==
  \A c \in callbacks :
    /\ c.user \in Users
    /\ \E i \in 1..Len(queue[c.user]) :
         queue[c.user][i].id = c.id /\ queue[c.user][i].write = c.write

Agreed ==
  /\ told \in [Writes -> Ends] /\ fate \in [Writes -> Ends] /\ verdict \in [Writes -> Ends]
  /\ \A w \in Writes :
       /\ fate[w] # "none" => verdict[w] # "none"
       /\ fate[w] = "stored" => verdict[w] = "stored"
  /\ \A w \in Writes : told[w] # "none" => told[w] = fate[w]

Faithful(r, v) ==
  LET n == Len(r.call.answers)
  IN  /\ r.handshake =>
           /\ n <= Len(r.pipeline)
           /\ \A i \in 1..n : v[r.pipeline[i].write] = "stored"
           /\ r.call.status = "permanent" =>
                n < Len(r.pipeline) /\ v[r.pipeline[n + 1].write] = "refused"
      /\ ~r.handshake /\ r.call.status = "permanent" => n = 0

Accounted == Left /\ Awaited /\ Agreed

Decided == Complete /\ Numbered /\ Accounted /\ Faithful(rs, verdict)

-----------------------------------------------------------------------------
(* The oldest batch is settled when the server has decided on it: its      *)
(* callback, if any, is told so and no other, and the rest stays accounted *)
(* for.                                                                    *)
LEMMA SettledAccounted ==
  ASSUME NEW I, Known(I), Complete, Accounted, rs.enabled, rs.pipeline # <<>>,
         NEW e \in {"stored", "refused"}, verdict[rs.pipeline[1].write] # "none",
         e = "stored" => verdict[rs.pipeline[1].write] = "stored",
         SettleHead(rs.pipeline[1], e), UNCHANGED <<made, verdict>>
  PROVE  Accounted'
<1> DEFINE q == queue[user]
           b == rs.pipeline[1]
           x == b.write
<1>1. /\ q \in Seq(BatchesOf(I)) /\ Ascending(q) /\ nextId \in Nat /\ Below(q, nextId)
      /\ rs.pipeline = Oldest(q) /\ user \in Users
      /\ queue \in [Users -> Seq(BatchesOf(I))] /\ made \in Seq(Users)
  BY OldestIs DEF Complete, Sound, Typed, Known, Ordered
<1> HIDE DEF q
<1>2. Without(q, b) = Tail(q)
  BY <1>1, HeadSettled
<1>3. Len(q) \in Nat /\ Len(q) > 0 /\ b = q[1]
  <2>1. Len(q) \in Nat /\ Shorter(Len(q), PipelineSize) <= Len(q) /\ Shorter(Len(q), PipelineSize) \in Int
    BY <1>1, SizeAssumption DEF Shorter
  <2>2. Shorter(Len(q), PipelineSize) > 0
    BY <1>1, <2>1 DEF Oldest
  <2>3. QED BY <1>1, <2>1, <2>2 DEF Oldest
<1> HIDE DEF b
<1>4. /\ q # <<>> /\ Len(Tail(q)) = Len(q) - 1
      /\ \A i \in 1..Len(q) - 1 : Tail(q)[i] = q[i + 1]
  <2>1. q # <<>>
    BY <1>3
  <2>2. QED BY <1>1, <2>1, TailTyped
<1>5. \A u \in Users : queue'[u] = IF u = user THEN Tail(q) ELSE queue[u]
  BY <1>1, <1>2 DEF SettleHead, b, q
<1>6. /\ x \in 1..Len(made) /\ x \in Writes /\ made[x] = user /\ fate[x] = "none"
      /\ \A i \in 1..Len(q) - 1 : q[i + 1].write # x
  <2>1. 1 \in 1..Len(q) /\ q[1] \in BatchesOf(I)
    BY <1>1, <1>3
  <2>2. \A i \in 1..Len(q) - 1 : i + 1 \in 1..Len(q) /\ 1 \in 1..(i+1)-1
    BY <1>3
  <2>3. x \in Writes
    BY <1>3, <2>1 DEF BatchesOf
  <2>4. QED BY <1>1, <1>3, <2>1, <2>2, <2>3 DEF Accounted, Left, q
<1>7. /\ fate' \in [Writes -> Ends]
      /\ \A w \in Writes : fate'[w] = IF w = x THEN e ELSE fate[w]
  BY <1>6 DEF SettleHead, b, Accounted, Agreed, Ends
<1> HIDE DEF x
<1>8. ASSUME NEW c \in callbacks
      PROVE  \/ c \in Answered(b) /\ c.write = x
             \/ /\ c \notin Answered(b)
                /\ c.user \in Users
                /\ \E i \in 1..Len(queue'[c.user]) :
                     queue'[c.user][i].id = c.id /\ queue'[c.user][i].write = c.write
  <2>1. c.user \in Users
    BY DEF Accounted, Awaited
  <2>2. PICK i \in 1..Len(queue[c.user]) :
          queue[c.user][i].id = c.id /\ queue[c.user][i].write = c.write
    BY DEF Accounted, Awaited
  <2>3. CASE c.user # user
    BY <1>5, <2>1, <2>2, <2>3 DEF Answered
  <2>4. CASE c.user = user /\ i = 1
    BY <1>3, <2>2, <2>4 DEF Answered, q, x
  <2>5. CASE c.user = user /\ i # 1
    <3>1. i \in 1..Len(q) /\ q[i].id = c.id /\ q[i].write = c.write
      BY <2>2, <2>5 DEF q
    <3>2. i - 1 \in 1..Len(Tail(q)) /\ Tail(q)[i - 1] = q[i]
      <4>1. i - 1 \in 1..Len(q) - 1 /\ (i - 1) + 1 = i
        BY <1>3, <2>5, <3>1
      <4>2. QED BY <1>4, <4>1
    <3>3. q[1].id # q[i].id
      <4>1. 1 \in 1..i-1
        BY <1>3, <2>5, <3>1
      <4>2. q[1].id < q[i].id /\ q[1].id \in Nat /\ q[i].id \in Nat
        BY <1>1, <1>3, <3>1, <4>1 DEF Ascending
      <4>3. QED BY <4>2
    <3>4. c \notin Answered(b)
      BY <1>3, <3>1, <3>3 DEF Answered
    <3>5. queue'[c.user] = Tail(q)
      BY <1>1, <1>5, <2>5
    <3>6. QED BY <2>1, <3>1, <3>2, <3>4, <3>5
  <2>6. QED BY <2>3, <2>4, <2>5
<1>9. Awaited'
  BY <1>8 DEF Awaited, SettleHead, b
<1>10. \A w \in Writes : told'[w] \in {told[w], IF w = x THEN e ELSE told[w]}
  <2>1. ASSUME NEW w \in Writes PROVE told'[w] \in {told[w], IF w = x THEN e ELSE told[w]}
    <3>1. told'[w] = IF \E c \in Answered(b) : c.write = w THEN e ELSE told[w]
      BY DEF SettleHead, b
    <3>2. \A c \in Answered(b) : c.write = x
      BY <1>8 DEF Answered
    <3>3. QED BY <3>1, <3>2
  <2>2. QED BY <2>1
<1>11. Agreed'
  <2>1. told' \in [Writes -> Ends]
    <3>1. told' = [w \in Writes |-> IF \E c \in Answered(b) : c.write = w THEN e ELSE told[w]]
      BY DEF SettleHead, b
    <3>2. \A w \in Writes : told[w] \in Ends /\ e \in Ends
      BY DEF Accounted, Agreed, Ends
    <3>3. QED BY <3>1, <3>2
  <2>2. \A w \in Writes :
          /\ fate'[w] # "none" => verdict'[w] # "none"
          /\ fate'[w] = "stored" => verdict'[w] = "stored"
    BY <1>7 DEF Accounted, Agreed, x, b
  <2>3. \A w \in Writes : told'[w] # "none" => told'[w] = fate'[w]
    BY <1>6, <1>7, <1>10 DEF Accounted, Agreed
  <2>4. QED BY <1>7, <2>1, <2>2, <2>3 DEF Accounted, Agreed
<1>12. \A w \in 1..Len(made) : made[w] \in Users /\ w \in Nat
  BY <1>1
<1>13. Left'
  <2>1. ASSUME NEW u \in Users, NEW i \in 1..Len(queue'[u])
        PROVE  LET w == queue'[u][i].write
               IN  /\ w \in 1..Len(made) /\ made[w] = u /\ fate'[w] = "none"
                   /\ \A j \in 1..i-1 : queue'[u][j].write # w
    <3>1. CASE u = user
      <4>1. queue'[u] = Tail(q) /\ i \in 1..Len(q) - 1 /\ i + 1 \in 1..Len(q)
        <5>1. queue'[u] = Tail(q)
          BY <1>5, <3>1
        <5>2. i \in 1..Len(q) - 1
          BY <1>4, <5>1
        <5>3. QED BY <1>3, <5>1, <5>2
      <4>2. queue'[u][i] = q[i + 1] /\ \A j \in 1..i-1 : queue'[u][j] = q[j + 1]
        <5>1. \A j \in 1..i-1 : j \in 1..Len(q) - 1
          BY <1>3, <4>1
        <5>2. QED BY <1>4, <4>1, <5>1
      <4>3. \A j \in 1..i-1 : j + 1 \in 1..(i + 1)-1
        BY <4>1
      <4>4. LET w == q[i + 1].write
            IN  /\ w \in 1..Len(made) /\ made[w] = user /\ fate[w] = "none"
                /\ \A j \in 1..i-1 : q[j + 1].write # w
        BY <1>1, <4>1, <4>3 DEF Accounted, Left, q
      <4>5. q[i + 1].write \in Writes /\ q[i + 1].write # x
        <5>1. q[i + 1] \in BatchesOf(I)
          BY <1>1, <4>1
        <5>2. QED BY <1>6, <4>1, <5>1 DEF BatchesOf
      <4>6. /\ queue'[u][i].write = q[i + 1].write
            /\ \A j \in 1..i-1 : queue'[u][j].write = q[j + 1].write
        BY <4>2, Zenon
      <4>7. fate'[q[i + 1].write] = fate[q[i + 1].write]
        BY <1>7, <4>5, Zenon
      <4>8. made[q[i + 1].write] = u
        BY <3>1, <4>4, Zenon
      <4>9. QED BY <4>4, <4>6, <4>7, <4>8, Zenon
    <3>2. CASE u # user
      <4>1. queue'[u] = queue[u] /\ i \in 1..Len(queue[u])
        BY <1>5, <2>1, <3>2
      <4>2. queue[u][i].write \in Writes
        <5>1. queue[u] \in Seq(BatchesOf(I))
          BY <1>1
        <5>2. queue[u][i] \in BatchesOf(I)
          BY <4>1, <5>1
        <5>3. QED BY <5>2 DEF BatchesOf
      <4>3. LET w == queue[u][i].write
            IN  /\ w \in 1..Len(made) /\ made[w] = u /\ fate[w] = "none"
                /\ \A j \in 1..i-1 : queue[u][j].write # w
        BY <4>1 DEF Accounted, Left
      <4>4. QED BY <1>6, <1>7, <3>2, <4>1, <4>2, <4>3
    <3>3. QED BY <3>1, <3>2
  <2>2. ASSUME NEW w \in 1..Len(made), fate'[w] = "none"
        PROVE  \E i \in 1..Len(queue'[made[w]]) : queue'[made[w]][i].write = w
    <3>1. w # x /\ fate[w] = "none"
      <4>1. CASE w = x
        BY <1>6, <1>7, <2>2, <4>1
      <4>2. CASE w # x
        BY <2>2, <4>2 DEF SettleHead, b, x
      <4>3. QED BY <4>1, <4>2
    <3>2. PICK i \in 1..Len(queue[made[w]]) : queue[made[w]][i].write = w
      BY <3>1 DEF Accounted, Left
    <3>3. CASE made[w] # user
      BY <1>5, <1>12, <3>2, <3>3
    <3>4. CASE made[w] = user
      <4>1. i \in 1..Len(q) /\ q[i].write = w
        BY <3>2, <3>4 DEF q
      <4>2. i # 1
        BY <1>3, <3>1, <4>1 DEF x
      <4>3. i - 1 \in 1..Len(Tail(q)) /\ Tail(q)[i - 1] = q[i]
        <5>1. i - 1 \in 1..Len(q) - 1 /\ (i - 1) + 1 = i
          BY <1>3, <4>1, <4>2
        <5>2. QED BY <1>4, <5>1
      <4>4. QED BY <1>1, <1>5, <3>4, <4>1, <4>3
    <3>5. QED BY <3>3, <3>4
  <2>3. QED BY <2>1, <2>2 DEF Left
<1>14. QED BY <1>9, <1>11, <1>13 DEF Accounted

(* What leaves the queues and the ends alone keeps the account; a process  *)
(* that ends loses its callbacks.                                          *)
LEMMA SameAccounted ==
  ASSUME Accounted, UNCHANGED <<queue, fate, made, told>>, callbacks' \subseteq callbacks,
         verdict' \in [Writes -> Ends],
         \A w \in Writes : verdict'[w] = verdict[w] \/ fate[w] = "none"
  PROVE  Accounted'
<1>1. Left'
  BY DEF Accounted, Left
<1>2. Awaited'
  BY DEF Accounted, Awaited
<1>3. Agreed'
  BY DEF Accounted, Agreed, Ends
<1>4. QED BY <1>1, <1>2, <1>3 DEF Accounted

(* A new write is the last of its maker's queue, with its callback.        *)
LEMMA WriteAccounted ==
  ASSUME NEW I, Known(I), Complete, Numbered, Accounted, WriteMutations
  PROVE  Accounted'
<1> DEFINE q == queue[user]
           n == Len(q)
           x == Len(made) + 1
           b == [id |-> nextId, write |-> x]
           a == Append(q, b)
<1>1. /\ q \in Seq(BatchesOf(I)) /\ user \in Users /\ queue \in [Users -> Seq(BatchesOf(I))]
      /\ made \in Seq(Users)
  BY DEF Complete, Sound, Typed, Known
<1>2. /\ queue' = [queue EXCEPT ![user] = a] /\ made' = Append(made, user)
      /\ callbacks' = callbacks \cup {[user |-> user, id |-> nextId, write |-> x]}
      /\ UNCHANGED <<told, fate, verdict>> /\ Len(made) < MaxWrites
  BY DEF WriteMutations
<1>3. b.id = nextId /\ b.write = x
  OBVIOUS
<1>4. x \in Writes /\ Len(made) \in Nat /\ fate[x] = "none"
  BY <1>1, <1>2, BoundsAssumption DEF Numbered, Writes
<1>5. /\ Len(made') = x /\ made'[x] = user
      /\ \A w \in 1..Len(made) : made'[w] = made[w] /\ made[w] \in Users
  BY <1>1, <1>2
<1> HIDE DEF b, q
<1>6. n \in Nat /\ Len(a) = n + 1 /\ a[n + 1] = b /\ \A i \in 1..n : a[i] = q[i]
  BY <1>1
<1> HIDE DEF a, n
<1>7. \A u \in Users : queue'[u] = IF u = user THEN a ELSE queue[u]
  BY <1>1, <1>2
<1>8. \A u \in Users : \A i \in 1..Len(queue[u]) :
        i \in 1..Len(queue'[u]) /\ queue'[u][i] = queue[u][i]
  BY <1>6, <1>7 DEF n, q
<1>9. n + 1 \in 1..Len(queue'[user]) /\ queue'[user][n + 1] = b
  BY <1>1, <1>6, <1>7
<1>10. Left'
  <2>1. ASSUME NEW u \in Users, NEW i \in 1..Len(queue'[u])
        PROVE  LET w == queue'[u][i].write
               IN  /\ w \in 1..Len(made') /\ made'[w] = u /\ fate'[w] = "none"
                   /\ \A j \in 1..i-1 : queue'[u][j].write # w
    <3>1. CASE u = user /\ i = n + 1
      <4>1. queue'[u][i].write = x
        BY <1>3, <1>9, <3>1
      <4>2. \A j \in 1..i-1 : queue'[u][j].write \in 1..Len(made)
        <5>1. \A j \in 1..i-1 : j \in 1..Len(queue[u])
          BY <1>6, <3>1 DEF n, q
        <5>2. QED BY <1>8, <5>1 DEF Accounted, Left
      <4>3. \A j \in 1..i-1 : queue'[u][j].write # x
        BY <1>4, <4>2
      <4>4. QED BY <1>2, <1>4, <1>5, <3>1, <4>1, <4>3
    <3>2. CASE ~(u = user /\ i = n + 1)
      <4>1. i \in 1..Len(queue[u])
        <5>1. CASE u = user
          <6>1. i \in 1..n + 1 /\ i # n + 1
            BY <1>6, <1>7, <2>1, <3>2, <5>1
          <6>2. QED BY <1>6, <5>1, <6>1 DEF n, q
        <5>2. CASE u # user
          BY <1>7, <5>2
        <5>3. QED BY <5>1, <5>2
      <4>2. \A j \in 1..i-1 : j \in 1..Len(queue[u])
        BY <1>1, <4>1
      <4>3. LET w == queue[u][i].write
            IN  /\ w \in 1..Len(made) /\ made[w] = u /\ fate[w] = "none"
                /\ \A j \in 1..i-1 : queue[u][j].write # w
        BY <4>1 DEF Accounted, Left
      <4>4. queue[u][i].write \in 1..Len(made')
        BY <1>4, <1>5, <4>3
      <4>5. QED BY <1>2, <1>5, <1>8, <4>1, <4>2, <4>3, <4>4
    <3>3. QED BY <3>1, <3>2
  <2>2. ASSUME NEW w \in 1..Len(made'), fate'[w] = "none"
        PROVE  \E i \in 1..Len(queue'[made'[w]]) : queue'[made'[w]][i].write = w
    <3>1. CASE w = x
      BY <1>3, <1>5, <1>9, <3>1
    <3>2. CASE w # x
      <4>1. w \in 1..Len(made) /\ fate[w] = "none"
        BY <1>2, <1>4, <1>5, <2>2, <3>2
      <4>2. PICK i \in 1..Len(queue[made[w]]) : queue[made[w]][i].write = w
        BY <4>1 DEF Accounted, Left
      <4>3. QED BY <1>5, <1>8, <4>1, <4>2
    <3>3. QED BY <3>1, <3>2
  <2>3. QED BY <2>1, <2>2 DEF Left
<1>11. Awaited'
  <2>1. ASSUME NEW c \in callbacks'
        PROVE  /\ c.user \in Users
               /\ \E i \in 1..Len(queue'[c.user]) :
                    queue'[c.user][i].id = c.id /\ queue'[c.user][i].write = c.write
    <3>1. CASE c \in callbacks
      BY <1>8, <3>1 DEF Accounted, Awaited
    <3>2. CASE c = [user |-> user, id |-> nextId, write |-> x]
      BY <1>1, <1>3, <1>9, <3>2
    <3>3. QED BY <1>2, <3>1, <3>2
  <2>2. QED BY <2>1 DEF Awaited
<1>12. Agreed'
  BY <1>2 DEF Accounted, Agreed
<1>13. QED BY <1>10, <1>11, <1>12 DEF Accounted

-----------------------------------------------------------------------------
(* Filling the pipeline and starting the stream leave what comes from the  *)
(* server alone, and the batches it is about where they are.               *)
LEMMA FillCall ==
  ASSUME NEW I, NEW r \in Stores(I), NEW q
  PROVE  LET t == FillWritePipeline(r, q)
         IN  /\ t.handshake = r.handshake
             /\ t.call.answers = r.call.answers /\ t.call.status = r.call.status
<1> DEFINE bs == Following(r, q)
           p == [r EXCEPT !.pipeline = r.pipeline \o bs]
           t == AddToPipeline(r, bs)
           m == IF r.enabled /\ t.pipeline = <<>> THEN [t EXCEPT !.stream = MarkIdle(@)] ELSE t
<1> HIDE DEF bs
<1>1. /\ DOMAIN r = {"enabled", "pipeline", "stream", "handshake", "call"}
      /\ DOMAIN r.call = {"requests", "answers", "status"}
  BY DEF Stores, CallRecords
<1>2. p.handshake = r.handshake /\ p.call = r.call /\ DOMAIN p = DOMAIN r
  BY <1>1
<1> HIDE DEF p
<1>3. t = p \/ t = Send(p, WritesOf(bs))
  BY DEF AddToPipeline, p
<1>4. /\ t.handshake = p.handshake /\ DOMAIN t = DOMAIN r
      /\ t.call.answers = p.call.answers /\ t.call.status = p.call.status
  <2>1. CASE t = p
    BY <1>2, <2>1, Zenon
  <2>2. CASE t = Send(p, WritesOf(bs))
    <3>1. /\ {"handshake", "stream", "call"} \subseteq DOMAIN p
          /\ DOMAIN p.call = {"requests", "answers", "status"} /\ DOMAIN p = DOMAIN r
      BY <1>1, <1>2
    <3> DEFINE ms == WritesOf(bs)
    <3>2. t = Send(p, ms)
      BY <2>2
    <3> HIDE DEF t, ms
    <3>3. QED BY <3>1, <3>2 DEF Send
  <2>3. QED BY <1>3, <2>1, <2>2
<1> HIDE DEF t
<1>5. m.handshake = t.handshake /\ m.call = t.call /\ DOMAIN m = DOMAIN r
  BY <1>1, <1>4
<1> HIDE DEF m
<1>6. StartIfNeeded(m).handshake = m.handshake /\ StartIfNeeded(m).call = m.call
  BY <1>1, <1>5 DEF StartIfNeeded
<1>7. FillWritePipeline(r, q) = StartIfNeeded(m)
  BY FillIs DEF m, t, bs
<1>8. QED BY <1>2, <1>4, <1>5, <1>6, <1>7

(* So filling keeps what is said about the pipeline true.                  *)
LEMMA FillFaithful ==
  ASSUME NEW I, NEW r \in Stores(I), NEW q \in Seq(BatchesOf(I)), NEW v, Faithful(r, v)
  PROVE  Faithful(FillWritePipeline(r, q), v)
<1> DEFINE t == FillWritePipeline(r, q)
           bs == Following(r, q)
           n == Len(r.call.answers)
<1>1. /\ r.pipeline \in Seq(BatchesOf(I)) /\ bs \in Seq(BatchesOf(I))
      /\ r.call.answers \in Seq(Messages)
  BY FollowingTyped DEF Stores, CallRecords
<1>2. n \in Nat
  BY <1>1
<1> HIDE DEF bs
<1>3. /\ t.handshake = r.handshake /\ t.pipeline = r.pipeline \o bs
      /\ t.call.answers = r.call.answers /\ t.call.status = r.call.status
  BY FillCall, FillPipeline DEF bs
<1> HIDE DEF t
<1>4. /\ Len(r.pipeline) \in Nat /\ Len(r.pipeline) <= Len(t.pipeline) /\ Len(t.pipeline) \in Nat
      /\ \A i \in 1..Len(r.pipeline) : t.pipeline[i] = r.pipeline[i]
  <2>1. /\ Len(r.pipeline) \in Nat /\ Len(bs) \in Nat
        /\ Len(r.pipeline \o bs) = Len(r.pipeline) + Len(bs)
        /\ \A i \in 1..Len(r.pipeline) + Len(bs) :
             (r.pipeline \o bs)[i] = IF i <= Len(r.pipeline) THEN r.pipeline[i]
                                     ELSE bs[i - Len(r.pipeline)]
    BY <1>1, Concatenated, Zenon
  <2>2. QED BY <1>3, <2>1
<1> HIDE DEF n
<1>5. ASSUME r.handshake PROVE Faithful(t, v)
  <2>1. /\ n <= Len(r.pipeline)
        /\ \A i \in 1..n : v[r.pipeline[i].write] = "stored"
        /\ r.call.status = "permanent" =>
             n < Len(r.pipeline) /\ v[r.pipeline[n + 1].write] = "refused"
    BY <1>5 DEF Faithful, n
  <2>2. \A i \in 1..n : t.pipeline[i] = r.pipeline[i]
    BY <1>2, <1>4, <2>1
  <2>3. n < Len(r.pipeline) => t.pipeline[n + 1] = r.pipeline[n + 1]
    BY <1>2, <1>4
  <2>4. n <= Len(t.pipeline) /\ (n < Len(r.pipeline) => n < Len(t.pipeline))
    BY <1>2, <1>4, <2>1
  <2>5. \A i \in 1..n : v[t.pipeline[i].write] = "stored"
    BY <2>1, <2>2, Zenon
  <2>6. r.call.status = "permanent" =>
          n < Len(t.pipeline) /\ v[t.pipeline[n + 1].write] = "refused"
    BY <2>1, <2>3, <2>4, Zenon
  <2>7. t.handshake /\ n = Len(t.call.answers) /\ t.call.status = r.call.status
    BY <1>3, <1>5 DEF n
  <2>8. QED BY <2>4, <2>5, <2>6, <2>7, Zenon DEF Faithful
<1>6. ASSUME ~r.handshake PROVE Faithful(t, v)
  BY <1>3, <1>6 DEF Faithful
<1>7. QED BY <1>5, <1>6 DEF t

(* A call that has not begun says nothing.                                 *)
LEMMA QuietFaithful ==
  ASSUME NEW r, ~r.handshake, r.call.answers = <<>> \/ r.call.status # "permanent", NEW v
  PROVE  Faithful(r, v)
BY DEF Faithful

(* The steps that end the call and start another.                          *)
LEMMA EnableQuiet ==
  ASSUME NEW I, NEW r \in Stores(I), r.call = NoCall, ~r.handshake, NEW q, NEW v
  PROVE  Faithful(EnableNetwork(r, q), v)
<1> DEFINE on == [r EXCEPT !.enabled = TRUE]
<1>1. on \in Stores(I) /\ on.call = NoCall /\ ~on.handshake
  BY DEF Stores
<1> HIDE DEF on
<1>2. /\ ~FillWritePipeline(on, q).handshake
      /\ FillWritePipeline(on, q).call.answers = <<>>
  BY <1>1, FillCall DEF NoCall
<1>3. Faithful(FillWritePipeline(on, q), v)
  BY <1>2, QuietFaithful
<1>4. QED BY <1>3 DEF EnableNetwork, on

(* A restart of the network does both.                                     *)
LEMMA RestartQuiet ==
  ASSUME NEW I, NEW r \in Stores(I), CallbacksFindTheirState(r.stream), NEW q, NEW v
  PROVE  Faithful(RestartNetwork(r, q), v)
<1> DEFINE off == DisableNetwork(r)
           o == [off EXCEPT !.stream = InhibitBackoff(@)]
<1>1. off \in Stores(I) /\ Ended(off) /\ ~off.handshake
  BY DisableNetworkEnds
<1> HIDE DEF off
<1>2. InhibitBackoff(off.stream) \in Streams
  <2>1. off.stream \in Streams /\ CallbacksFindTheirState(off.stream) /\ ~IsStarted(off.stream)
    BY <1>1 DEF Stores, Ended
  <2>2. QED BY <2>1, StreamSteps
<1>3. o \in Stores(I) /\ o.call = NoCall /\ ~o.handshake
  BY <1>1, <1>2 DEF Stores, Ended
<1> HIDE DEF o
<1>4. RestartNetwork(r, q) = EnableNetwork(o, q)
  BY DEF RestartNetwork, off, o
<1>5. QED BY <1>3, <1>4, EnableQuiet

(* The network, the user and the process: the call is over.                *)
LEMMA NetworkFaithful ==
  ASSUME NEW I, Known(I), Complete,
         \/ TurnNetworkOff \/ TurnNetworkOn \/ ConnectivityChanges \/ ProcessRestart
         \/ \E u \in Users : CredentialChange(u),
         Faithful(rs, verdict)
  PROVE  Faithful(rs, verdict)'
<1>1. /\ rs \in Stores(I) /\ Serves(rs) /\ CallbacksFindTheirState(rs.stream)
  BY DEF Known, Complete, Sound, Serves
<1>2. verdict' = verdict
  BY DEF TurnNetworkOff, TurnNetworkOn, ConnectivityChanges, ProcessRestart, CredentialChange
<1>3. SUFFICES Faithful(rs', verdict)
  BY <1>2 DEF Faithful
<1>4. CASE TurnNetworkOff
  <2>1. rs' = DisableNetwork(rs)
    BY <1>4 DEF TurnNetworkOff
  <2>2. ~rs'.handshake /\ rs'.call = NoCall
    BY <1>1, <2>1, DisableNetworkEnds DEF Ended
  <2>3. QED BY <2>2, QuietFaithful DEF NoCall
<1>5. CASE TurnNetworkOn
  <2>1. rs' = EnableNetwork(rs, queue[user]) /\ ~rs.enabled
    BY <1>5 DEF TurnNetworkOn
  <2>2. rs.call = NoCall /\ ~rs.handshake
    BY <1>1, <2>1 DEF Serves, IsOpen, IsStarted
  <2>3. QED BY <1>1, <2>1, <2>2, EnableQuiet
<1>6. CASE ConnectivityChanges
  BY <1>1, <1>6, RestartQuiet DEF ConnectivityChanges
<1>7. CASE ProcessRestart
  <2>1. rs' = EnableNetwork(NewRemoteStore, queue[user])
    BY <1>7 DEF ProcessRestart
  <2>2. /\ NewRemoteStore \in Stores(I) /\ NewRemoteStore.call = NoCall
        /\ ~NewRemoteStore.handshake
    BY NewRemoteStoreEnded DEF Ended
  <2>3. QED BY <2>1, <2>2, EnableQuiet
<1>8. ASSUME NEW u \in Users, CredentialChange(u) PROVE Faithful(rs', verdict)
  <2>1. rs' = IF rs.enabled THEN RestartNetwork(rs, queue[u]) ELSE rs
    BY <1>8 DEF CredentialChange
  <2>2. QED BY <1>1, <2>1, RestartQuiet
<1>9. QED BY <1>4, <1>5, <1>6, <1>7, <1>8

(* The stream ends with an error.  A permanent one after the handshake is  *)
(* the server's answer to the head of the pipeline.                        *)
LEMMA FinishFaithful ==
  ASSUME NEW I, Known(I), Complete, NEW status, Finish(status), UNCHANGED verdict
  PROVE  Faithful(rs, verdict)'
<1> DEFINE s == Close(rs.stream, FALSE)
           closed == [rs EXCEPT !.stream = s, !.call = NoCall]
           head == rs.pipeline[1]
           rejected == [closed EXCEPT !.pipeline = Tail(@), !.stream = InhibitBackoff(@)]
           q == Without(queue[user], head)
           filled == FillWritePipeline(rejected, q)
<1>1. /\ rs \in Stores(I) /\ rs.stream \in Streams /\ rs.pipeline \in Seq(BatchesOf(I))
      /\ Serves(rs)
  BY DEF Known, Complete, Sound, Stores
<1>2. s \in Streams /\ CallbacksFindTheirState(s) /\ ~IsStarted(s)
  BY <1>1, CloseSound DEF Serves
<1>3. NoCall \in CallRecords
  BY DEF NoCall, CallRecords
<1> HIDE DEF s
<1>4. closed \in Stores(I) /\ closed.pipeline = rs.pipeline /\ closed.stream = s
      /\ closed.call = NoCall
  BY <1>1, <1>2, <1>3 DEF Stores
<1>5. \/ rs.pipeline # <<>> /\ rs' = [StartIfNeeded(filled) EXCEPT !.handshake = FALSE]
      \/ rs' = [StartIfNeeded(closed) EXCEPT !.handshake = FALSE]
  BY DEF Finish, s
<1> HIDE DEF closed
<1>6. ~rs'.handshake /\ rs'.call.answers = <<>>
  <2>1. CASE rs.pipeline # <<>> /\ rs' = [StartIfNeeded(filled) EXCEPT !.handshake = FALSE]
    <3>1. Tail(rs.pipeline) \in Seq(BatchesOf(I)) /\ InhibitBackoff(s) \in Streams
      BY <1>1, <1>2, <2>1, TailTyped, StreamSteps
    <3>2. rejected \in Stores(I) /\ rejected.call = NoCall
      BY <1>4, <3>1 DEF Stores
    <3> HIDE DEF q, rejected
    <3>3. /\ filled.call.answers = <<>>
          /\ DOMAIN filled = {"enabled", "pipeline", "stream", "handshake", "call"}
      BY <3>2, FillCall, FillPipeline DEF Stores, NoCall
    <3> HIDE DEF filled
    <3>4. QED BY <2>1, <3>3 DEF StartIfNeeded
  <2>2. CASE rs' = [StartIfNeeded(closed) EXCEPT !.handshake = FALSE]
    BY <1>4, <2>2 DEF StartIfNeeded, Stores, NoCall
  <2>3. QED BY <1>5, <2>1, <2>2
<1>7. QED BY <1>6, QuietFaithful DEF Faithful

(* Before the handshake is answered there is nothing else to read.         *)
LEMMA BeforeHandshake ==
  ASSUME NEW I, Known(I), Meets(rs), IsOpen(rs.stream), ~rs.handshake
  PROVE  rs.call.answers \in {<<>>, << 0 >>}
<1> DEFINE a == rs.call.answers
           b == Pending(rs)
<1>1. a \in Seq(Messages) /\ b \in Seq(Messages)
  BY DEF Known, Stores, CallRecords, Pending
<1>2. CASE rs.call.status = "none"
  <2>1. a \o b = <<0>>
    BY <1>2 DEF Meets, Sent
  <2> HIDE DEF a, b
  <2>2. a \in {<<>>, <<0>>}
    BY <1>1, <2>1, PartOfOne
  <2>3. QED BY <2>2 DEF a
<1>3. CASE rs.call.status # "none"
  BY <1>3 DEF Meets
<1>4. QED BY <1>2, <1>3

(* An answer is read: what comes after it is about what comes after.       *)
LEMMA ReadFaithful ==
  ASSUME NEW I, Known(I), Complete, Read, Faithful(rs, verdict)
  PROVE  Faithful(rs, verdict)'
<1> DEFINE r == [rs EXCEPT !.call.answers = Tail(@)]
           h == [r EXCEPT !.handshake = TRUE]
           p == [r EXCEPT !.pipeline = Tail(@)]
           q == Without(queue[user], rs.pipeline[1])
           a == rs.call.answers
<1>1. /\ rs \in Stores(I) /\ rs.pipeline \in Seq(BatchesOf(I)) /\ Serves(rs) /\ Meets(rs)
      /\ a # <<>> /\ a \in Seq(Messages) /\ user \in Users
      /\ queue \in [Users -> Seq(BatchesOf(I))]
  BY DEF Known, Complete, Sound, Stores, CallRecords, Read
<1>2. verdict' = verdict
  BY DEF Read
<1>3. Tail(a) \in Seq(Messages) /\ Len(a) \in Nat /\ Len(a) > 0 /\ Len(Tail(a)) = Len(a) - 1
  BY <1>1, TailTyped
<1>4. /\ r \in Stores(I) /\ r.pipeline = rs.pipeline /\ r.handshake = rs.handshake
      /\ r.call.answers = Tail(a) /\ r.call.status = rs.call.status
  BY <1>1, <1>3 DEF Stores, CallRecords
<1>5. \/ ~rs.handshake /\ rs' = Send(h, WritesOf(r.pipeline))
      \/ rs.handshake /\ rs' = FillWritePipeline(p, q)
  BY DEF Read
<1> HIDE DEF r
<1>6. CASE ~rs.handshake /\ rs' = Send(h, WritesOf(r.pipeline))
  <2>1. IsOpen(rs.stream)
    BY <1>1 DEF Serves, NoCall
  <2>2. a = <<0>>
    BY <1>1, <1>6, <2>1, BeforeHandshake
  <2>3. Tail(a) = <<>>
    BY <2>2
  <2>4. rs.call.status # "permanent"
    BY <1>3, <1>6 DEF Faithful
  <2>5. h.call.answers = <<>> /\ h.call.status # "permanent" /\ h.pipeline = rs.pipeline
        /\ h \in Stores(I)
    BY <1>4, <2>3, <2>4 DEF Stores
  <2> HIDE DEF h
  <2>6. /\ rs'.call.answers = <<>> /\ rs'.call.status # "permanent"
        /\ rs'.pipeline = rs.pipeline
    BY <1>6, <2>5 DEF Send, Stores, CallRecords
  <2>7. Len(rs'.call.answers) = 0 /\ Len(rs'.pipeline) \in Nat
    BY <1>1, <2>6
  <2>8. QED BY <2>6, <2>7 DEF Faithful
<1>7. CASE rs.handshake /\ rs' = FillWritePipeline(p, q)
  <2> DEFINE n == Len(a)
             k == Len(rs.pipeline)
             t == Tail(rs.pipeline)
  <2>1. rs.pipeline # <<>>
    BY <1>1, <1>7, AnswerHasBatch
  <2>2. /\ t \in Seq(BatchesOf(I)) /\ Len(t) = k - 1 /\ k \in Nat
        /\ \A i \in 1..k - 1 : t[i] = rs.pipeline[i + 1]
    BY <1>1, <2>1, TailTyped
  <2> HIDE DEF t
  <2>3. /\ p \in Stores(I) /\ p.pipeline = t /\ p.handshake
        /\ p.call.answers = Tail(a) /\ p.call.status = rs.call.status
    BY <1>4, <1>7, <2>2 DEF Stores, t
  <2>4. /\ n <= k /\ \A i \in 1..n : verdict[rs.pipeline[i].write] = "stored"
        /\ rs.call.status = "permanent" =>
             n < k /\ verdict[rs.pipeline[n + 1].write] = "refused"
    BY <1>7 DEF Faithful
  <2> HIDE DEF p
  <2>5. /\ n - 1 <= Len(t)
        /\ \A i \in 1..n - 1 : verdict[t[i].write] = "stored"
        /\ rs.call.status = "permanent" =>
             n - 1 < Len(t) /\ verdict[t[(n - 1) + 1].write] = "refused"
    <3> HIDE DEF a, n, k
    <3>1. n \in Nat /\ n > 0
      BY <1>3 DEF n
    <3>2. ASSUME NEW i \in 1..n - 1 PROVE verdict[t[i].write] = "stored"
      <4>1. i \in 1..k - 1 /\ i + 1 \in 1..n
        BY <2>2, <2>4, <3>1
      <4>2. QED BY <2>2, <2>4, <4>1
    <3>3. ASSUME rs.call.status = "permanent"
          PROVE  n - 1 < Len(t) /\ verdict[t[(n - 1) + 1].write] = "refused"
      <4>1. n \in 1..k - 1 /\ (n - 1) + 1 = n
        BY <2>2, <2>4, <3>1, <3>3
      <4>2. t[n] = rs.pipeline[n + 1]
        BY <2>2, <4>1
      <4>3. QED BY <2>2, <2>4, <3>1, <3>3, <4>1, <4>2
    <3>4. QED BY <2>2, <2>4, <3>1, <3>2, <3>3
  <2>6. Faithful(p, verdict)
    BY <1>3, <2>3, <2>5 DEF Faithful
  <2>7. q \in Seq(BatchesOf(I))
    BY <1>1, WithoutTyped
  <2>8. Faithful(rs', verdict)
    BY <1>7, <2>3, <2>6, <2>7, FillFaithful
  <2>9. QED BY <1>2, <2>8 DEF Faithful
<1>8. QED BY <1>5, <1>6, <1>7

(* The oldest request is about the batch that the next answer will meet.   *)
LEMMA RequestIsNext ==
  ASSUME NEW I, Known(I), Serves(rs), Meets(rs),
         rs.call.status = "none", rs.call.requests # <<>>
  PROVE  LET n == Len(rs.call.answers)
         IN  /\ n \in Nat /\ Len(rs.pipeline) \in Nat
             /\ ~rs.handshake => n = 0
             /\ rs.handshake => /\ n < Len(rs.pipeline)
                                /\ rs.pipeline[n + 1].write = Head(rs.call.requests)
                                /\ rs.pipeline[n + 1].write \in Writes
<1> DEFINE a == rs.call.answers
           b == rs.call.requests
           n == Len(a)
           k == Len(rs.pipeline)
<1>1. /\ a \in Seq(Messages) /\ b \in Seq(Messages) /\ b # <<>>
      /\ rs.pipeline \in Seq(BatchesOf(I))
  BY DEF Known, Stores, CallRecords
<1>2. IsOpen(rs.stream)
  BY DEF Serves, NoCall
<1>3. Sent(rs) = a \o b
  BY DEF Sent, Pending
<1> HIDE DEF a, b
<1>4. /\ n \in Nat /\ Len(b) \in Nat /\ Len(a \o b) = n + Len(b)
      /\ \A i \in 1..n + Len(b) : (a \o b)[i] = IF i <= n THEN a[i] ELSE b[i - n]
  BY <1>1, Concatenated, Zenon
<1>5. Len(b) > 0 /\ Head(b) = b[1] /\ k \in Nat
  BY <1>1, TailTyped
<1> HIDE DEF n, k
<1>6. n + 1 \in 1..n + Len(b) /\ ~(n + 1 <= n) /\ (n + 1) - n = 1
  BY <1>4, <1>5
<1>7. (a \o b)[n + 1] = Head(b)
  BY <1>4, <1>5, <1>6
<1>8. ASSUME ~rs.handshake PROVE n = 0
  <2>1. a \o b = <<0>>
    BY <1>2, <1>3, <1>8 DEF Meets
  <2>2. Len(a \o b) = 1
    BY <2>1
  <2>3. QED BY <1>4, <1>5, <2>2
<1>9. ASSUME rs.handshake
      PROVE  n < k /\ rs.pipeline[n + 1].write = Head(b) /\ rs.pipeline[n + 1].write \in Writes
  <2>1. /\ Len(a \o b) <= k
        /\ \A i \in 1..Len(a \o b) : (a \o b)[i] = rs.pipeline[i].write
    BY <1>3, <1>9 DEF Meets, k
  <2>2. n < k /\ n + 1 \in 1..k
    BY <1>4, <1>5, <2>1
  <2>3. rs.pipeline[n + 1] \in BatchesOf(I)
    BY <1>1, <2>2 DEF k
  <2>4. QED BY <1>4, <1>6, <1>7, <2>1, <2>2, <2>3 DEF BatchesOf
<1>10. QED BY <1>2, <1>4, <1>5, <1>8, <1>9 DEF a, b, n, k

(* The server shakes hands, or decides: it answers, or ends the call.      *)
LEMMA ServerFaithful ==
  ASSUME NEW I, Known(I), Complete, Agreed, Faithful(rs, verdict), ServerTakes
  PROVE  Faithful(rs, verdict)'
<1> DEFINE a == rs.call.answers
           n == Len(a)
           next == rs.pipeline[n + 1]
<1>1. /\ rs \in Stores(I) /\ Serves(rs) /\ Meets(rs) /\ a \in Seq(Messages)
      /\ verdict \in [Writes -> Ends]
  BY DEF Known, Complete, Sound, Agreed, Stores, CallRecords
<1>2. rs.call.requests # <<>> /\ rs.call.status = "none"
  BY DEF ServerTakes, ServerShakes, ServerDecides, NextRequest
<1>3. /\ n \in Nat /\ Len(rs.pipeline) \in Nat
      /\ ~rs.handshake => n = 0
      /\ rs.handshake => /\ n < Len(rs.pipeline) /\ next.write = Head(rs.call.requests)
                         /\ next.write \in Writes
  BY <1>1, <1>2, RequestIsNext
<1>4. rs.handshake => \A i \in 1..n : verdict[rs.pipeline[i].write] = "stored"
  BY DEF Faithful
<1>5. ASSUME NEW w, rs' = Answer(w), rs.handshake => verdict'[next.write] = "stored",
             \A x : verdict[x] = "stored" => verdict'[x] = "stored"
      PROVE  Faithful(rs, verdict)'
  <2>1. /\ rs'.handshake = rs.handshake /\ rs'.pipeline = rs.pipeline
        /\ rs'.call.answers = Append(a, w) /\ rs'.call.status = "none"
    BY <1>1, <1>2, <1>5 DEF Answer, Stores, CallRecords
  <2>2. Len(Append(a, w)) = n + 1
    BY <1>1
  <2> HIDE DEF a, n
  <2>3. rs.handshake => \A i \in 1..n + 1 : verdict'[rs.pipeline[i].write] = "stored"
    <3>1. SUFFICES ASSUME rs.handshake, NEW i \in 1..n + 1
                   PROVE  verdict'[rs.pipeline[i].write] = "stored"
      OBVIOUS
    <3>2. CASE i = n + 1
      BY <1>5, <3>1, <3>2
    <3>3. CASE i # n + 1
      <4>1. i \in 1..n
        BY <1>3, <3>3
      <4>2. QED BY <1>4, <1>5, <3>1, <4>1
    <3>4. QED BY <3>2, <3>3
  <2>4. rs.handshake => n + 1 <= Len(rs.pipeline)
    BY <1>3
  <2>5. QED BY <2>1, <2>2, <2>3, <2>4 DEF Faithful
<1>6. CASE ServerShakes
  <2>1. rs' = Answer(0) /\ Head(rs.call.requests) = 0 /\ verdict' = verdict
    BY <1>6 DEF ServerShakes, NextRequest
  <2>2. ~rs.handshake
    BY <1>3, <2>1 DEF Writes
  <2>3. QED BY <1>5, <2>1, <2>2
<1>7. ASSUME NEW w \in Writes, ServerDecides(w) PROVE Faithful(rs, verdict)'
  <2>1. Head(rs.call.requests) = w
    BY <1>7 DEF ServerDecides, NextRequest
  <2>2. CASE rs' = Answer(w) /\ verdict' = [verdict EXCEPT ![w] = "stored"]
    <3>1. verdict'[w] = "stored" /\ \A x : verdict[x] = "stored" => verdict'[x] = "stored"
      <4>1. verdict'[w] = "stored"
        BY <1>1, <2>2
      <4>2. ASSUME NEW x, verdict[x] = "stored" PROVE verdict'[x] = "stored"
        <5>1. CASE x \in Writes
          BY <1>1, <2>2, <4>2, <5>1
        <5>2. CASE x \notin Writes
          BY <1>1, <2>2, <4>2, <5>2
        <5>3. QED BY <5>1, <5>2
      <4>3. QED BY <4>1, <4>2
    <3>2. QED BY <1>3, <1>5, <2>1, <2>2, <3>1
  <2>3. CASE /\ verdict[w] # "stored" /\ verdict' = [verdict EXCEPT ![w] = "refused"]
             /\ rs' = [rs EXCEPT !.call.requests = Tail(@), !.call.status = "permanent"]
    <3>1. /\ rs'.handshake = rs.handshake /\ rs'.pipeline = rs.pipeline
          /\ rs'.call.answers = a
      BY <1>1, <2>3 DEF Stores, CallRecords
    <3>2. verdict'[w] = "refused"
      BY <1>1, <2>3
    <3>3. rs.handshake => \A i \in 1..n : verdict'[rs.pipeline[i].write] = "stored"
      <4>1. SUFFICES ASSUME rs.handshake, NEW i \in 1..n
                     PROVE  verdict'[rs.pipeline[i].write] = "stored"
        OBVIOUS
      <4>2. verdict[rs.pipeline[i].write] = "stored"
        BY <1>4, <4>1
      <4>3. rs.pipeline[i].write # w /\ rs.pipeline[i].write \in Writes
        <5>1. i \in 1..Len(rs.pipeline) /\ rs.pipeline \in Seq(BatchesOf(I))
          BY <1>1, <1>3, <4>1 DEF Stores
        <5>2. rs.pipeline[i] \in BatchesOf(I)
          BY <5>1
        <5>3. QED BY <2>3, <4>2, <5>2 DEF BatchesOf
      <4>4. QED BY <1>1, <2>3, <4>2, <4>3
    <3>4. QED BY <1>3, <2>1, <3>1, <3>2, <3>3 DEF Faithful
  <2>4. QED BY <1>7, <2>2, <2>3 DEF ServerDecides
<1>8. QED BY <1>6, <1>7 DEF ServerTakes

(* The connection breaks: no permanent error is about a write.             *)
LEMMA BreakFaithful ==
  ASSUME NEW I, Known(I), Complete, Faithful(rs, verdict), CallBreaks
  PROVE  Faithful(rs, verdict)'
<1> DEFINE a == rs.call.answers
<1>1. /\ rs \in Stores(I) /\ Serves(rs) /\ Meets(rs) /\ a \in Seq(Messages) /\ Len(a) \in Nat
      /\ verdict' = verdict
  BY DEF Known, Complete, Sound, Stores, CallRecords, CallBreaks
<1>2. PICK m \in 0..Len(a), s \in {"transient", "permanent"} :
        /\ s = "permanent" => NextRequest(0)
        /\ rs' = [rs EXCEPT !.call.answers = SubSeq(@, 1, m), !.call.status = s]
  BY DEF CallBreaks
<1>3. /\ rs'.handshake = rs.handshake /\ rs'.pipeline = rs.pipeline
      /\ rs'.call.answers = SubSeq(a, 1, m) /\ rs'.call.status = s
  BY <1>1, <1>2 DEF Stores, CallRecords
<1>4. Len(SubSeq(a, 1, m)) = m
  <2> HIDE DEF a
  <2>1. QED BY <1>1, <1>2
<1>5. s = "permanent" => ~rs.handshake /\ Len(a) = 0
  <2>1. SUFFICES ASSUME s = "permanent" PROVE ~rs.handshake /\ Len(a) = 0
    OBVIOUS
  <2>2. /\ rs.call.status = "none" /\ rs.call.requests # <<>>
        /\ Head(rs.call.requests) = 0
    BY <1>2, <2>1 DEF NextRequest
  <2>3. /\ ~rs.handshake => Len(a) = 0
        /\ rs.handshake => Head(rs.call.requests) \in Writes
    BY <1>1, <2>2, RequestIsNext
  <2>4. QED BY <2>2, <2>3 DEF Writes
<1>6. rs.handshake => /\ Len(a) <= Len(rs.pipeline)
                      /\ \A i \in 1..Len(a) : verdict[rs.pipeline[i].write] = "stored"
  BY DEF Faithful
<1>7. Len(rs.pipeline) \in Nat
  BY <1>1 DEF Stores
<1> HIDE DEF a
<1>8. rs.handshake => m <= Len(rs.pipeline) /\ \A i \in 1..m : verdict[rs.pipeline[i].write] = "stored"
  BY <1>1, <1>6, <1>7
<1>9. ~rs.handshake /\ s = "permanent" => m = 0
  BY <1>1, <1>5
<1>10. QED BY <1>1, <1>3, <1>4, <1>5, <1>8, <1>9 DEF Faithful

(* The other steps.                                                        *)
LEMMA OtherFaithful ==
  ASSUME NEW I, Known(I), Complete, Faithful(rs, verdict),
         Connect \/ LateCredentials \/ BackoffElapses \/ IdleTimeout \/ UNCHANGED vars
  PROVE  Faithful(rs, verdict)'
<1>1. /\ rs \in Stores(I) /\ Serves(rs) /\ CallbacksFindTheirState(rs.stream)
  BY DEF Known, Complete, Sound, Serves
<1>2. verdict' = verdict
  BY DEF Connect, LateCredentials, BackoffElapses, IdleTimeout, vars
<1>3. CASE Connect
  <2>1. ~rs.handshake
    BY <1>1, <1>3 DEF Connect, Serves, CallbacksFindTheirState, IsOpen
  <2>2. ~rs'.handshake /\ rs'.call.answers = <<>>
    BY <1>1, <1>3, <2>1 DEF Connect, Send, Stores, NoCall
  <2>3. QED BY <2>2, QuietFaithful DEF Faithful
<1>4. CASE IdleTimeout
  <2>1. ~rs'.handshake /\ rs'.call.answers = <<>>
    BY <1>1, <1>4 DEF IdleTimeout, StartIfNeeded, Stores, NoCall
  <2>2. QED BY <2>1, QuietFaithful DEF Faithful
<1>5. CASE LateCredentials \/ BackoffElapses
  <2>1. rs'.handshake = rs.handshake /\ rs'.call = rs.call /\ rs'.pipeline = rs.pipeline
    BY <1>1, <1>5 DEF LateCredentials, BackoffElapses, Stores
  <2>2. QED BY <1>2, <2>1 DEF Faithful
<1>6. CASE UNCHANGED vars
  BY <1>6 DEF vars, Faithful
<1>7. QED BY <1>3, <1>4, <1>5, <1>6

(* A new batch comes after those the call is about.                        *)
LEMMA WriteFaithful ==
  ASSUME NEW I, Known(I), Complete, Faithful(rs, verdict), WriteMutations
  PROVE  Faithful(rs, verdict)'
<1> DEFINE b == [id |-> nextId, write |-> Len(made) + 1]
           J == I \cup {nextId}
           q == Append(queue[user], b)
<1>1. queue[user] \in Seq(BatchesOf(J)) /\ rs \in Stores(J)
  <2>1. Known(J)
    BY StoresGrow
  <2>2. QED BY <2>1 DEF Known
<1>2. b \in BatchesOf(J)
  BY BoundsAssumption DEF WriteMutations, BatchesOf, Writes, Complete, Sound, Typed
<1> HIDE DEF b, J
<1>3. q \in Seq(BatchesOf(J))
  BY <1>1, <1>2
<1>4. rs' = FillWritePipeline(rs, q) /\ verdict' = verdict
  BY DEF WriteMutations, b
<1> HIDE DEF q
<1>5. Faithful(rs', verdict)
  BY <1>1, <1>3, <1>4, FillFaithful
<1>6. QED BY <1>4, <1>5 DEF Faithful

-----------------------------------------------------------------------------
(* What a batch is settled with is what the server decided on it: an       *)
(* answer read after the handshake, or a permanent end of the call.        *)
LEMMA ReadAccounted ==
  ASSUME NEW I, Known(I), Complete, Accounted, Faithful(rs, verdict), Read
  PROVE  Accounted'
<1>1. CASE rs.handshake
  <2>1. rs.pipeline # <<>> /\ rs.enabled
    BY <1>1, AnswerHasBatch DEF Read, Complete, Sound, Serves, IsOpen, IsStarted
  <2>2. 1 \in 1..Len(rs.call.answers)
    <3>1. rs.call.answers \in Seq(Messages) /\ rs.call.answers # <<>>
      BY DEF Known, Stores, CallRecords, Read
    <3>2. QED BY <3>1
  <2>3. verdict[rs.pipeline[1].write] = "stored"
    BY <1>1, <2>2 DEF Faithful
  <2>4. SettleHead(rs.pipeline[1], "stored") /\ UNCHANGED <<made, verdict>>
    BY <1>1 DEF Read
  <2>5. QED BY <2>1, <2>3, <2>4, SettledAccounted
<1>2. CASE ~rs.handshake
  BY <1>2, SameAccounted DEF Read, NothingSettled, Accounted, Agreed
<1>3. QED BY <1>1, <1>2

(* The stream ends with an error.                                          *)
LEMMA FinishAccounted ==
  ASSUME NEW I, Known(I), Complete, Accounted, Faithful(rs, verdict), NEW status, Finish(status),
         status = "permanent" => rs.call.status = status \/ rs.call.answers # <<>>,
         UNCHANGED <<made, verdict>>
  PROVE  Accounted'
<1>1. CASE status = "permanent" /\ rs.handshake /\ rs.pipeline # <<>>
  <2>1. rs.enabled
    BY <1>1 DEF Complete, Sound, Serves, IsOpen, IsStarted
  <2>2. verdict[rs.pipeline[1].write] # "none"
    <3>1. rs.call.answers \in Seq(Messages)
      BY DEF Known, Stores, CallRecords
    <3>2. CASE rs.call.answers # <<>>
      <4>1. 1 \in 1..Len(rs.call.answers)
        BY <3>1, <3>2
      <4>2. verdict[rs.pipeline[1].write] = "stored"
        BY <1>1, <4>1 DEF Faithful
      <4>3. QED BY <4>2
    <3>3. CASE rs.call.answers = <<>>
      <4>1. Len(rs.call.answers) = 0
        BY <3>3
      <4>2. verdict[rs.pipeline[1].write] = "refused"
        BY <1>1, <3>3, <4>1 DEF Faithful
      <4>3. QED BY <4>2
    <3>4. QED BY <3>2, <3>3
  <2>3. SettleHead(rs.pipeline[1], "refused")
    BY <1>1 DEF Finish
  <2>4. QED BY <1>1, <2>1, <2>2, <2>3, SettledAccounted
<1>2. CASE ~(status = "permanent" /\ rs.handshake /\ rs.pipeline # <<>>)
  <2>1. NothingSettled
    BY <1>2 DEF Finish
  <2>2. QED BY <2>1, SameAccounted DEF NothingSettled, Accounted, Agreed
<1>3. QED BY <1>1, <1>2

(* Every step keeps the account of writes, callbacks and ends.             *)
LEMMA AccountedStep ==
  ASSUME NEW I, Known(I), Complete, Numbered, Accounted, Faithful(rs, verdict), [Next]_vars
  PROVE  Accounted'
<1>1. verdict \in [Writes -> Ends]
  BY DEF Accounted, Agreed
<1>2. CASE WriteMutations
  BY <1>2, WriteAccounted
<1>3. CASE Read
  BY <1>3, ReadAccounted
<1>4. CASE NoCredentials
  BY <1>4, FinishAccounted DEF NoCredentials
<1>5. CASE StreamEnds \/ Garbled
  BY <1>5, FinishAccounted DEF StreamEnds, Garbled
<1>6. CASE ServerTakes
  <2>1. UNCHANGED <<queue, fate, made, told, callbacks>>
    BY <1>6 DEF ServerTakes, ServerShakes, ServerDecides, NothingSettled
  <2>2. CASE ServerShakes
    BY <1>1, <2>1, <2>2, SameAccounted DEF ServerShakes
  <2>3. ASSUME NEW w \in Writes, ServerDecides(w) PROVE Accounted'
    <3>1. PICK e \in {"stored", "refused"} :
            verdict' = [verdict EXCEPT ![w] = e] /\ verdict[w] \in {"none", e}
      <4>1. verdict[w] \in {"none", "stored", "refused"}
        BY <1>1 DEF Ends
      <4>2. QED BY <2>3, <4>1 DEF ServerDecides
    <3>2. verdict' \in [Writes -> Ends]
      BY <1>1, <3>1 DEF Ends
    <3>3. \A x \in Writes : verdict'[x] = verdict[x] \/ fate[x] = "none"
      BY <1>1, <3>1 DEF Accounted, Agreed
    <3>4. QED BY <2>1, <3>2, <3>3, SameAccounted
  <2>4. QED BY <1>6, <2>2, <2>3 DEF ServerTakes
<1>7. CASE \/ Connect \/ LateCredentials \/ BackoffElapses \/ IdleTimeout \/ CallBreaks
           \/ TurnNetworkOff \/ TurnNetworkOn \/ ConnectivityChanges \/ ProcessRestart
           \/ (\E u \in Users : CredentialChange(u)) \/ UNCHANGED vars
  <2>1. UNCHANGED <<queue, fate, made, told, verdict>> /\ callbacks' \subseteq callbacks
    BY <1>7 DEF Connect, LateCredentials, BackoffElapses, IdleTimeout, CallBreaks,
       TurnNetworkOff, TurnNetworkOn, ConnectivityChanges, ProcessRestart, CredentialChange,
       NothingSettled, vars
  <2>2. QED BY <1>1, <2>1, SameAccounted
<1>8. QED BY <1>2, <1>3, <1>4, <1>5, <1>6, <1>7 DEF Next

(* Every step keeps the call true to the server.                           *)
LEMMA FaithfulStep ==
  ASSUME NEW I, Known(I), Complete, Accounted, Faithful(rs, verdict), [Next]_vars
  PROVE  Faithful(rs, verdict)'
<1>1. CASE WriteMutations
  BY <1>1, WriteFaithful
<1>2. CASE Read
  BY <1>2, ReadFaithful
<1>3. CASE NoCredentials \/ StreamEnds \/ Garbled
  BY <1>3, FinishFaithful DEF NoCredentials, StreamEnds, Garbled
<1>4. CASE ServerTakes
  BY <1>4, ServerFaithful DEF Accounted
<1>5. CASE CallBreaks
  BY <1>5, BreakFaithful
<1>6. CASE \/ TurnNetworkOff \/ TurnNetworkOn \/ ConnectivityChanges \/ ProcessRestart
           \/ \E u \in Users : CredentialChange(u)
  BY <1>6, NetworkFaithful
<1>7. CASE Connect \/ LateCredentials \/ BackoffElapses \/ IdleTimeout \/ UNCHANGED vars
  BY <1>7, OtherFaithful
<1>8. QED BY <1>1, <1>2, <1>3, <1>4, <1>5, <1>6, <1>7 DEF Next

-----------------------------------------------------------------------------
(* The invariant holds at first, and every step keeps it.                  *)
LEMMA InitDecided == Init => Decided
<1>1. SUFFICES ASSUME Init PROVE Decided
  OBVIOUS
<1>2. \A u \in Users : queue[u] = <<>> /\ Len(queue[u]) = 0
  BY <1>1 DEF Init
<1>3. made = <<>> /\ Len(made) = 0
  BY <1>1 DEF Init
<1>4. Numbered
  BY <1>1, <1>2, <1>3 DEF Init, Numbered
<1>5. Left
  BY <1>2, <1>3 DEF Left
<1>6. Awaited /\ Agreed
  BY <1>1 DEF Init, Awaited, Agreed, Ends
<1>7. Faithful(rs, verdict)
  <2>1. /\ NewRemoteStore \in Stores(Nat) /\ NewRemoteStore.call = NoCall
        /\ ~NewRemoteStore.handshake
    BY NewRemoteStoreEnded DEF Ended
  <2>2. QED BY <1>1, <2>1, EnableQuiet DEF Init
<1>8. QED BY <1>1, <1>4, <1>5, <1>6, <1>7, InitComplete DEF Decided, Accounted

LEMMA NextDecided == Decided /\ [Next]_vars => Decided'
<1>1. SUFFICES ASSUME Decided, [Next]_vars PROVE Decided'
  OBVIOUS
<1>2. PICK I : Known(I)
  BY <1>1 DEF Decided, Complete, Sound, Typed
<1>3. Complete' /\ Numbered'
  BY <1>1, <1>2, NextComplete, NumberedStep DEF Decided
<1>4. Accounted'
  BY <1>1, <1>2, AccountedStep DEF Decided
<1>5. Faithful(rs, verdict)'
  BY <1>1, <1>2, FaithfulStep DEF Decided
<1>6. QED BY <1>3, <1>4, <1>5 DEF Decided

(* remote_store.cc and sync_engine.cc let a write go only after the server *)
(* decided on it, and as stored only if it stored it, whatever breaks,     *)
(* restarts or changes; the app that waits is told the same; and a write   *)
(* that has not ended is once, and no more, in the queue of who made it.   *)
THEOREM DecidedFirst == Spec => []EndsAreDecided
<1>1. Decided => EndsAreDecided
  <2>1. SUFFICES ASSUME Decided, NEW w \in Writes
                 PROVE  /\ fate[w] # "none" => verdict[w] # "none"
                        /\ fate[w] = "stored" => verdict[w] = "stored"
                        /\ told[w] # "none" => told[w] = fate[w]
                        /\ w \in DOMAIN made /\ fate[w] = "none" =>
                             Cardinality({i \in DOMAIN queue[made[w]] :
                                            queue[made[w]][i].write = w}) = 1
    BY DEF EndsAreDecided
  <2>2. ASSUME w \in DOMAIN made, fate[w] = "none"
        PROVE  Cardinality({i \in DOMAIN queue[made[w]] : queue[made[w]][i].write = w}) = 1
    <3> DEFINE q == queue[made[w]]
               places == {i \in DOMAIN q : q[i].write = w}
    <3>1. PICK I : Known(I) /\ made \in Seq(Users)
      BY <2>1 DEF Decided, Complete, Sound, Typed
    <3>2. w \in 1..Len(made) /\ made[w] \in Users
      BY <2>2, <3>1
    <3>3. q \in Seq(BatchesOf(I))
      BY <3>1, <3>2 DEF Known
    <3>4. PICK i \in 1..Len(q) : q[i].write = w
      BY <2>1, <2>2, <3>2 DEF Decided, Accounted, Left
    <3>5. ASSUME NEW k \in 1..Len(q), q[k].write = w PROVE k = i
      <4>1. \A j \in 1..Len(q) : \A l \in 1..j-1 : q[l].write # q[j].write
        BY <2>1, <3>2 DEF Decided, Accounted, Left
      <4> HIDE DEF q
      <4>2. ~(k < i) /\ ~(i < k)
        BY <3>3, <3>4, <3>5, <4>1
      <4>3. QED BY <3>3, <4>2
    <3> HIDE DEF q
    <3>6. DOMAIN q = 1..Len(q)
      BY <3>3
    <3>7. places = {i}
      BY <3>4, <3>5, <3>6
    <3>8. QED BY <3>7, FS_Singleton DEF q
  <2>3. QED BY <2>1, <2>2 DEF Decided, Accounted, Agreed
<1>2. QED BY InitDecided, NextDecided, <1>1, PTL DEF Spec

(* A callback of sync_engine.cc is for a write that has not ended: none is *)
(* left behind when its write leaves the queue, and none is called twice.  *)
THEOREM Told == Spec => []ToldWhenSettled
<1>1. Decided => ToldWhenSettled
  <2>1. SUFFICES ASSUME Decided, NEW c \in callbacks
                 PROVE  fate[c.write] = "none" /\ told[c.write] = "none"
    BY DEF ToldWhenSettled
  <2>2. PICK I : Known(I)
    BY <2>1 DEF Decided, Complete, Sound, Typed
  <2>3. PICK i \in 1..Len(queue[c.user]) : c.user \in Users /\ queue[c.user][i].write = c.write
    BY <2>1 DEF Decided, Accounted, Awaited
  <2>4. fate[c.write] = "none"
    BY <2>1, <2>3 DEF Decided, Accounted, Left
  <2>5. c.write \in Writes
    <3>1. queue[c.user] \in Seq(BatchesOf(I))
      BY <2>2, <2>3 DEF Known
    <3>2. queue[c.user][i] \in BatchesOf(I)
      BY <2>3, <3>1
    <3>3. QED BY <2>3, <3>2 DEF BatchesOf
  <2>6. QED BY <2>1, <2>4, <2>5 DEF Decided, Accounted, Agreed
<1>2. QED BY InitDecided, NextDecided, <1>1, PTL DEF Spec

-----------------------------------------------------------------------------
(* The types.  An id is given again, but never one above the number of     *)
(* writes so far: what a process or a user begins with is no more than     *)
(* where the count stood.                                                  *)
Counted ==
  /\ Len(made) <= MaxWrites /\ nextId <= Len(made) + 1
  /\ callbacks \subseteq [user : Users, id : 1..MaxWrites, write : Writes]
  /\ faults \in 0..MaxFaults

LEMMA CountedStep ==
  ASSUME NEW I, Known(I), Complete, Counted, [Next]_vars
  PROVE  Counted'
<1>1. /\ made \in Seq(Users) /\ Len(made) \in Nat /\ user \in Users
      /\ nextId \in Nat /\ nextId > 0 /\ LoadNextBatchId(queue) \in Nat
      /\ LoadNextBatchId(queue) <= nextId
  BY NextIdAbove DEF Complete, Sound, Typed, Known, Ordered
<1>2. CASE WriteMutations
  <2> DEFINE b == [user |-> user, id |-> nextId, write |-> Len(made) + 1]
  <2>1. /\ Len(made) < MaxWrites /\ made' = Append(made, user) /\ nextId' = nextId + 1
        /\ callbacks' = callbacks \cup {b} /\ faults' = faults
    BY <1>2 DEF WriteMutations
  <2>2. b \in [user : Users, id : 1..MaxWrites, write : Writes]
    BY <1>1, <2>1, BoundsAssumption DEF Counted, Writes
  <2> HIDE DEF b
  <2>3. Len(made') = Len(made) + 1
    BY <1>1, <2>1
  <2>4. QED BY <1>1, <2>1, <2>2, <2>3, BoundsAssumption DEF Counted
<1>3. CASE ~WriteMutations
  <2>1. /\ made' = made
        /\ nextId' \in {nextId, LoadNextBatchId(queue)}
        /\ callbacks' \subseteq callbacks
        /\ faults' = faults \/ Fault
    BY <1>3 DEF Next, vars, Connect, NoCredentials, LateCredentials, Read, Garbled, StreamEnds,
       BackoffElapses, IdleTimeout, TurnNetworkOff, TurnNetworkOn, ConnectivityChanges,
       ProcessRestart, CredentialChange, ServerTakes, ServerShakes, ServerDecides, CallBreaks,
       Finish, SettleHead, NothingSettled
  <2>2. faults' \in 0..MaxFaults
    BY <2>1, BoundsAssumption DEF Counted, Fault
  <2>3. QED BY <1>1, <2>1, <2>2 DEF Counted
<1>4. QED BY <1>2, <1>3

LEMMA InitCounted == Init => Counted
BY BoundsAssumption DEF Init, Counted

(* Type correctness: whatever is on disk, in the pipeline, on a call or    *)
(* with a callback is a batch, an answer or a callback of a write that was *)
(* made, for any users, pipeline size, writes and faults.                  *)
THEOREM TypeCorrect == Spec => []TypeOK
<1>1. Decided /\ Counted => TypeOK
  <2>1. SUFFICES ASSUME Decided, Counted PROVE TypeOK
    OBVIOUS
  <2>2. PICK I : Known(I)
    BY <2>1 DEF Decided, Complete, Sound, Typed
  <2>3. /\ user \in Users /\ made \in Seq(Users) /\ Len(made) <= MaxWrites /\ Len(made) \in Nat
        /\ nextId \in 1..MaxWrites + 1
    BY <2>1, <2>2, BoundsAssumption DEF Decided, Complete, Sound, Typed, Known, Ordered, Counted
  <2>4. ASSUME NEW u \in Users PROVE queue[u] \in Seq(Batches)
    <3> DEFINE q == queue[u]
    <3>1. q \in Seq(BatchesOf(I)) /\ Ascending(q) /\ Below(q, nextId)
      BY <2>1, <2>2 DEF Known, Decided, Complete, Ordered
    <3> HIDE DEF q
    <3>2. ASSUME NEW i \in 1..Len(q) PROVE q[i] \in Batches
      <4>1. q[i] \in BatchesOf(I)
        BY <3>1
      <4>2. q[i].id \in 1..MaxWrites
        BY <2>3, <3>1, BoundsAssumption DEF Ascending, Below
      <4>3. QED BY <4>1, <4>2 DEF BatchesOf, Batches
    <3>3. QED BY <3>1, <3>2, IsASeq DEF q
  <2>5. queue \in [Users -> Seq(Batches)]
    BY <2>2, <2>4 DEF Known
  <2>6. rs.pipeline \in Seq(Batches)
    <3>1. /\ queue[user] \in Seq(Batches)
          /\ rs.pipeline = IF rs.enabled THEN Oldest(queue[user]) ELSE <<>>
      BY <2>1, <2>3, <2>4, OldestIs DEF Decided, Complete
    <3>2. Oldest(queue[user]) \in Seq(Batches)
      <4>1. Shorter(Len(queue[user]), PipelineSize) \in Nat
            /\ Shorter(Len(queue[user]), PipelineSize) <= Len(queue[user])
        BY <3>1, SizeAssumption DEF Shorter
      <4>2. QED BY <3>1, <4>1, SubSeqProperties DEF Oldest
    <3>3. QED BY <3>1, <3>2
  <2>7. rs \in [enabled : BOOLEAN, pipeline : Seq(Batches), stream : Streams,
                handshake : BOOLEAN, call : Calls]
    BY <2>2, <2>6 DEF Known, Stores, CallRecords, Calls, Messages
  <2>8. QED BY <2>1, <2>3, <2>5, <2>7 DEF TypeOK, Decided, Accounted, Agreed, Counted
<1>2. Decided /\ Counted /\ [Next]_vars => Decided' /\ Counted'
  <2>1. SUFFICES ASSUME Decided, Counted, [Next]_vars PROVE Decided' /\ Counted'
    OBVIOUS
  <2>2. PICK I : Known(I)
    BY <2>1 DEF Decided, Complete, Sound, Typed
  <2>3. QED BY <2>1, <2>2, NextDecided, CountedStep DEF Decided
<1>3. QED BY InitDecided, InitCounted, <1>1, <1>2, PTL DEF Spec
================================================================================
