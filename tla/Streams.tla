-------------------------------- MODULE Streams --------------------------------
(***************************************************************************)
(* The life of a stream between the Firestore client and its backend       *)
(* (stream.cc), common to the watch stream and the write stream.           *)
(*                                                                         *)
(* A stream is a record: its state (Open and Healthy differ only for a     *)
(* rejected token and are one here), the timers that are set, and the      *)
(* credentials it asked for and has not got.  A request for credentials is *)
(* "current" while close_count_ is what it was when it was made, "stale"   *)
(* after.                                                                  *)
(***************************************************************************)
EXTENDS FiniteSets

States == {"initial", "starting", "open", "error", "backoff"}

Streams == [state : States, asked : SUBSET {"current", "stale"}, delay : BOOLEAN, idle : BOOLEAN]

NewStream == [state |-> "initial", asked |-> {}, delay |-> FALSE, idle |-> FALSE]

IsOpen(s) == s.state = "open"

IsStarted(s) == s.state \in {"starting", "backoff", "open"}

(* A stream that ended in an error waits first.                            *)
Start(s) ==
  IF s.state = "error"
  THEN [s EXCEPT !.state = "backoff", !.delay = TRUE]
  ELSE [s EXCEPT !.state = "starting", !.asked = @ \cup {"current"}]

(* The wait is over.                                                       *)
BackoffDone(s) == Start([s EXCEPT !.state = "initial", !.delay = FALSE])

(* The credentials are there and the call is made; OnStreamStart follows   *)
(* at once.                                                                *)
Opened(s) == [s EXCEPT !.state = "open", !.asked = @ \ {"current"}]

Outdated(asked) == IF "current" \in asked THEN {"stale"} ELSE asked

Close_SameCount(s, graceful) ==
  [s EXCEPT !.state = IF graceful THEN "initial" ELSE "error", !.delay = FALSE, !.idle = FALSE]

(* Both kinds of end cancel the timers and count, so that credentials      *)
(* still to come are for nothing.                                          *)
Close(s, graceful) ==
  [state |-> IF graceful THEN "initial" ELSE "error",
   asked |-> Outdated(s.asked), delay |-> FALSE, idle |-> FALSE]

Stop(s) == IF IsStarted(s) THEN Close(s, TRUE) ELSE s

InhibitBackoff(s) == [s EXCEPT !.state = "initial"]

MarkIdle(s) == IF IsOpen(s) THEN [s EXCEPT !.idle = TRUE] ELSE s

CancelIdleCheck_None(s) == s

CancelIdleCheck(s) == [s EXCEPT !.idle = FALSE]

-----------------------------------------------------------------------------
(* What the assertions of the code ask of the callbacks that run later:    *)
(* credentials that count find the stream starting, the delay of a backoff *)
(* ends in that state, and the idle timer stops a stream that is open.     *)
CallbacksFindTheirState(s) ==
  /\ "current" \in s.asked => s.state = "starting"
  /\ s.delay <=> s.state = "backoff"
  /\ s.idle => IsOpen(s)
=============================================================================
