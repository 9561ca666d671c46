----------------------------- MODULE StreamsProofs -----------------------------
(***************************************************************************)
(* What the operations of Streams do to the state of a stream and to the   *)
(* callbacks that are still to come: the lemmas that the proofs about the  *)
(* write path and about listening share.                                   *)
(***************************************************************************)
EXTENDS Streams, TLAPS

(* Starting a stream that has ended, from stream.cc: it is started, and    *)
(* its callbacks find what they expect.                                    *)
LEMMA StartSound ==
  ASSUME NEW s \in Streams, CallbacksFindTheirState(s), ~IsStarted(s)
  PROVE  /\ Start(s) \in Streams /\ CallbacksFindTheirState(Start(s))
         /\ IsStarted(Start(s)) /\ ~Start(s).idle
<1>1. s.state \in {"initial", "error"} /\ ~s.idle /\ ~s.delay /\ "current" \notin s.asked
  BY DEF CallbacksFindTheirState, IsStarted, IsOpen, Streams, States
<1>2. CASE s.state = "error"
  BY <1>1, <1>2 DEF Start, CallbacksFindTheirState, IsStarted, IsOpen, Streams, States
<1>3. CASE s.state = "initial"
  BY <1>1, <1>3 DEF Start, CallbacksFindTheirState, IsStarted, IsOpen, Streams, States
<1>4. QED BY <1>1, <1>2, <1>3

(* Closing a stream: nothing of the attempt is left but outdated           *)
(* credentials.                                                            *)
LEMMA CloseSound ==
  ASSUME NEW s \in Streams, NEW g \in BOOLEAN
  PROVE  /\ Close(s, g) \in Streams /\ CallbacksFindTheirState(Close(s, g))
         /\ ~IsStarted(Close(s, g)) /\ ~Close(s, g).idle
<1>1. Outdated(s.asked) \subseteq {"stale"} \cup (s.asked \ {"current"})
  BY DEF Outdated, Streams
<1>2. Outdated(s.asked) \in SUBSET {"current", "stale"} /\ "current" \notin Outdated(s.asked)
  BY <1>1 DEF Streams
<1>3. QED
  BY <1>2 DEF Close, CallbacksFindTheirState, IsStarted, IsOpen, Streams, States

(* The other operations of a stream, each where the code calls it.         *)
LEMMA StreamSteps ==
  ASSUME NEW s \in Streams, CallbacksFindTheirState(s)
  PROVE  /\ s.delay => /\ BackoffDone(s) \in Streams /\ CallbacksFindTheirState(BackoffDone(s))
                       /\ IsStarted(BackoffDone(s)) /\ ~BackoffDone(s).idle
         /\ "current" \in s.asked => /\ Opened(s) \in Streams /\ CallbacksFindTheirState(Opened(s))
                                     /\ IsStarted(Opened(s)) /\ ~Opened(s).idle
         /\ ~IsStarted(s) => /\ InhibitBackoff(s) \in Streams
                             /\ CallbacksFindTheirState(InhibitBackoff(s))
                             /\ ~IsStarted(InhibitBackoff(s)) /\ ~InhibitBackoff(s).idle
         /\ MarkIdle(s) \in Streams /\ CallbacksFindTheirState(MarkIdle(s))
         /\ IsStarted(MarkIdle(s)) <=> IsStarted(s)
         /\ CancelIdleCheck(s) \in Streams /\ CallbacksFindTheirState(CancelIdleCheck(s))
         /\ IsStarted(CancelIdleCheck(s)) <=> IsStarted(s)
         /\ ~CancelIdleCheck(s).idle
<1>1. ASSUME s.delay
      PROVE  /\ BackoffDone(s) \in Streams /\ CallbacksFindTheirState(BackoffDone(s))
             /\ IsStarted(BackoffDone(s)) /\ ~BackoffDone(s).idle
  <2> DEFINE t == [s EXCEPT !.state = "initial", !.delay = FALSE]
  <2>1. t \in Streams /\ CallbacksFindTheirState(t) /\ ~IsStarted(t)
    BY <1>1 DEF CallbacksFindTheirState, IsStarted, IsOpen, Streams, States
  <2>2. QED BY <2>1, StartSound DEF BackoffDone
<1>2. ASSUME "current" \in s.asked
      PROVE  /\ Opened(s) \in Streams /\ CallbacksFindTheirState(Opened(s))
             /\ IsStarted(Opened(s)) /\ ~Opened(s).idle
  BY <1>2 DEF Opened, CallbacksFindTheirState, IsStarted, IsOpen, Streams, States
<1>3. ASSUME ~IsStarted(s)
      PROVE  /\ InhibitBackoff(s) \in Streams /\ CallbacksFindTheirState(InhibitBackoff(s))
             /\ ~IsStarted(InhibitBackoff(s)) /\ ~InhibitBackoff(s).idle
  BY <1>3 DEF InhibitBackoff, CallbacksFindTheirState, IsStarted, IsOpen, Streams, States
<1>4. /\ MarkIdle(s) \in Streams /\ CallbacksFindTheirState(MarkIdle(s))
      /\ IsStarted(MarkIdle(s)) <=> IsStarted(s)
  BY DEF MarkIdle, CallbacksFindTheirState, IsStarted, IsOpen, Streams, States
<1>5. /\ CancelIdleCheck(s) \in Streams /\ CallbacksFindTheirState(CancelIdleCheck(s))
      /\ IsStarted(CancelIdleCheck(s)) <=> IsStarted(s)
      /\ ~CancelIdleCheck(s).idle
  BY DEF CancelIdleCheck, CallbacksFindTheirState, IsStarted, IsOpen, Streams, States
<1>6. QED BY <1>1, <1>2, <1>3, <1>4, <1>5
=============================================================================
