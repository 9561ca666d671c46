------------------------------ MODULE OnlineState ------------------------------
(***************************************************************************)
(* Whether the Firestore client takes itself to be connected               *)
(* (online_state_tracker.cc).  Unknown counts as connected: a timer, or    *)
(* the failures of the watch stream, turn it to offline.  The tracker is a *)
(* record, and every operation of it gives the next one; it is broken when *)
(* an assertion in one of its operations has failed.                       *)
(***************************************************************************)
EXTENDS Naturals

CONSTANTS
  MaxWatchStreamFailures, \* kMaxWatchStreamFailures
  FailureBound            \* bound: the count of failures stops here

ASSUME FailuresAssumption ==
  /\ MaxWatchStreamFailures \in Nat \ {0}
  /\ FailureBound \in Nat /\ FailureBound >= MaxWatchStreamFailures

Trackers == [state : {"unknown", "online", "offline"}, failures : 0..FailureBound,
             timer : BOOLEAN, broken : BOOLEAN]

NewTracker == [state |-> "unknown", failures |-> 0, timer |-> FALSE, broken |-> FALSE]

HardAssert(o, holds) == [o EXCEPT !.broken = @ \/ ~holds]

(* "online_state_timer_ shouldn't be started yet"                          *)
HandleWatchStreamStart(o) ==
  IF o.failures = 0
  THEN [HardAssert(o, ~o.timer) EXCEPT !.state = "unknown", !.timer = TRUE]
  ELSE o

(* "Timer should be canceled if we transitioned to a different state."     *)
TimerFires(o) ==
  [HardAssert(o, o.state = "unknown") EXCEPT !.state = "offline", !.timer = FALSE]

OneMore(n) == IF n < FailureBound THEN n + 1 ELSE n

HandleWatchStreamFailure_TimerRuns(o) ==
  LET n == OneMore(o.failures)
  IN  CASE o.state = "online" -> [o EXCEPT !.state = "unknown"]
        [] o.state # "online" /\ n >= MaxWatchStreamFailures ->
             [o EXCEPT !.state = "offline", !.failures = n]
        [] OTHER -> [o EXCEPT !.failures = n]

(* A connection that worked gets another attempt in good faith.            *)
HandleWatchStreamFailure(o) ==
  LET n == OneMore(o.failures)
  IN  CASE o.state = "online" ->
             [HardAssert(o, o.failures = 0 /\ ~o.timer) EXCEPT !.state = "unknown"]
        [] o.state # "online" /\ n >= MaxWatchStreamFailures ->
             [o EXCEPT !.state = "offline", !.failures = n, !.timer = FALSE]
        [] OTHER -> [o EXCEPT !.failures = n]

UpdateState(o, s) == [o EXCEPT !.state = s, !.failures = 0, !.timer = FALSE]

-----------------------------------------------------------------------------
(* No assertion of the tracker has failed: its timer runs in the unknown   *)
(* state only and before too many failures, and a connection that works    *)
(* has no failures behind it.                                              *)
TrackerIsSound(o) ==
  /\ ~o.broken
  /\ o.timer => o.state = "unknown" /\ o.failures < MaxWatchStreamFailures
  /\ o.state = "online" => o.failures = 0
=============================================================================
