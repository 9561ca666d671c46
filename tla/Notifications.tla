---------------------------- MODULE Notifications ----------------------------
(***************************************************************************)
(* Messages and the notifications a tap on which opens a list              *)
(* (notification_services.dart).                                           *)
(*                                                                         *)
(* In the background the system posts a message itself.  In the foreground *)
(* Android leaves that to the app, which posts it through the local        *)
(* notifications plug-in, always under id 0, one event after it has made   *)
(* the message the one its tap handler opens.  A posted notification       *)
(* outlives the process that posted it; the handler does not.              *)
(*                                                                         *)
(* Messages are numbered as they arrive.  The list that handleMessage      *)
(* opens is named by its message: AppShell and OfferDetails have the rest. *)
(***************************************************************************)
EXTENDS Naturals, Sequences

CONSTANTS
  Platforms,     \* "android", "iOS"
  Routed,        \* messages whose type handleMessage knows
  MaxMessages    \* bound: messages sent

ASSUME PlatformsAssumption == Platforms \subseteq {"android", "iOS"}
ASSUME MessagesAssumption == MaxMessages \in Nat /\ Routed \subseteq 1..MaxMessages

VARIABLES
  platform,   \* never changes
  app,        \* "dead", "starting" (getInitialMessage is awaited), "ready"
  visible,    \* the app is in the foreground
  sent,       \* messages so far
  tray,       \* messages posted by the system
  slot,       \* the message posted by the app under id 0, or 0
  handler,    \* the message the plug-in's tap handler captured, or 0
  toShow,     \* messages whose delayed show has not run
  initial,    \* the message the process was started from, or 0
  tap         \* the last tap: on what, in which state of the app, what it opened

vars == <<platform, app, visible, sent, tray, slot, handler, toShow, initial, tap>>

Messages == 1..MaxMessages
NoTap == [on |-> 0, from |-> "none", opened |-> 0]

TypeOK ==
  /\ platform \in Platforms
  /\ app \in {"dead", "starting", "ready"}
  /\ visible \in BOOLEAN
  /\ sent \in 0..MaxMessages
  /\ tray \subseteq Messages
  /\ slot \in 0..MaxMessages
  /\ handler \in 0..MaxMessages
  /\ toShow \in Seq(Messages)
  /\ initial \in 0..MaxMessages
  /\ tap \in [on : 0..MaxMessages, opened : 0..MaxMessages,
              from : {"none", "terminated", "background", "foreground"}]

Init ==
  /\ platform \in Platforms
  /\ app = "dead" /\ visible = FALSE
  /\ sent = 0 /\ tray = {} /\ slot = 0
  /\ handler = 0 /\ toShow = <<>> /\ initial = 0
  /\ tap = NoTap

-----------------------------------------------------------------------------
(* A definition named X_Y beside a definition X is X with a plausible slip *)
(* in it.  No specification uses it: it stands for the mistake that some   *)
(* property below is there to notice.                                      *)

(* The app is opened from its icon.                                        *)
Launch ==
  /\ app = "dead"
  /\ app' = "starting" /\ visible' = TRUE
  /\ UNCHANGED <<platform, sent, tray, slot, handler, toShow, initial, tap>>

(* What handleMessage opens for message m: nothing for a type it does not  *)
(* know.                                                                   *)
Opens(m) == IF m \in Routed THEN m ELSE 0

Started_OnlyListens ==
  /\ app = "starting"
  /\ app' = "ready" /\ initial' = 0
  /\ UNCHANGED <<platform, visible, sent, tray, slot, handler, toShow, tap>>

(* setupInteractMessage after its await: the message the app was started   *)
(* from is handled, then the listener for taps in the background is        *)
(* registered.                                                             *)
Started ==
  /\ app = "starting"
  /\ app' = "ready" /\ initial' = 0
  /\ tap' = IF initial = 0
               THEN tap
               ELSE [on |-> initial, from |-> "terminated", opened |-> Opens(initial)]
  /\ UNCHANGED <<platform, visible, sent, tray, slot, handler, toShow>>

(* The user leaves the app or comes back to it.                            *)
Switch ==
  /\ app # "dead"
  /\ visible' = ~visible
  /\ UNCHANGED <<platform, app, sent, tray, slot, handler, toShow, initial, tap>>

(* The process ends: posted notifications stay.                            *)
Stop ==
  /\ app # "dead"
  /\ app' = "dead" /\ visible' = FALSE
  /\ handler' = 0 /\ toShow' = <<>> /\ initial' = 0
  /\ tap' = NoTap
  /\ UNCHANGED <<platform, sent, tray, slot>>

-----------------------------------------------------------------------------
(* onMessage on Android: the handler first, the notification one event     *)
(* later.                                                                  *)
OnMessage_ShowOnly(m) ==
  /\ handler' = IF handler = 0 THEN m ELSE handler
  /\ toShow' = Append(toShow, m)
  /\ UNCHANGED tray

OnMessage(m) ==
  /\ handler' = m
  /\ toShow' = Append(toShow, m)
  /\ UNCHANGED tray

Posted(m) ==
  /\ tray' = tray \cup {m}
  /\ UNCHANGED <<handler, toShow>>

Receive ==
  /\ sent < MaxMessages
  /\ sent' = sent + 1
  /\ IF platform = "android" /\ visible THEN OnMessage(sent + 1) ELSE Posted(sent + 1)
  /\ UNCHANGED <<platform, app, visible, slot, initial, tap>>

(* A message without a notification part is not posted by the system; in   *)
(* the foreground the listener throws on it before it does anything.       *)
ReceiveDataOnly ==
  /\ sent < MaxMessages
  /\ sent' = sent + 1
  /\ UNCHANGED <<platform, app, visible, tray, slot, handler, toShow, initial, tap>>

Show_NewestFirst ==
  /\ toShow # <<>>
  /\ slot' = toShow[Len(toShow)]
  /\ toShow' = SubSeq(toShow, 1, Len(toShow) - 1)
  /\ UNCHANGED <<platform, app, visible, sent, tray, handler, initial, tap>>

(* The delayed show: id 0 replaces what the app had posted before.         *)
Show ==
  /\ toShow # <<>>
  /\ slot' = Head(toShow)
  /\ toShow' = Tail(toShow)
  /\ UNCHANGED <<platform, app, visible, sent, tray, handler, initial, tap>>

-----------------------------------------------------------------------------
Situation ==
  IF app = "dead" THEN "terminated" ELSE IF visible THEN "foreground" ELSE "background"

(* A tap brings the app up; started from the tap or not, it is visible.    *)
BringUp ==
  /\ app' = IF app = "dead" THEN "starting" ELSE app
  /\ visible' = TRUE

(* A tap on a notification posted by the system: the process is started    *)
(* from it, or the listener handles it if it is registered already.        *)
TapTray(m) ==
  /\ m \in tray
  /\ tray' = tray \ {m}
  /\ BringUp
  /\ initial' = IF app = "dead" THEN m ELSE initial
  /\ tap' = [on |-> m, from |-> Situation, opened |-> IF app = "ready" THEN Opens(m) ELSE 0]
  /\ UNCHANGED <<platform, sent, slot, handler, toShow>>

(* A tap on the notification posted by the app: the handler, if this       *)
(* process has one, opens the list of the message it captured.  A process  *)
(* started by the tap has none and does not ask what started it.           *)
TapSlot ==
  /\ slot # 0
  /\ slot' = 0
  /\ BringUp
  /\ tap' = [on |-> slot, from |-> Situation,
             opened |-> IF handler = 0 THEN 0 ELSE Opens(handler)]
  /\ UNCHANGED <<platform, sent, tray, handler, toShow, initial>>

(* A notification is swiped away.                                          *)
Dismiss ==
  \/ /\ slot # 0
     /\ slot' = 0
     /\ UNCHANGED <<platform, app, visible, sent, tray, handler, toShow, initial, tap>>
  \/ \E m \in tray :
       /\ tray' = tray \ {m}
       /\ UNCHANGED <<platform, app, visible, sent, slot, handler, toShow, initial, tap>>

Next ==
  \/ Launch \/ Started \/ Switch \/ Stop
  \/ Receive \/ ReceiveDataOnly \/ Show
  \/ TapSlot \/ Dismiss
  \/ \E m \in Messages : TapTray(m)

Spec == Init /\ [][Next]_vars

(* The await of getInitialMessage returns and timers fire.                 *)
FairSpec == Spec /\ WF_vars(Started) /\ WF_vars(Show)

-----------------------------------------------------------------------------
(* Once every delayed show has run, the notification of the app is the one *)
(* its handler opens, or it is gone: they are replaced by two different    *)
(* events, and a notification of an earlier process may be in between.     *)
SlotMatchesHandler ==
  handler # 0 /\ toShow = <<>> => slot \in {0, handler}

(* A tap opens the list of the notification tapped or none, with one       *)
(* exception: while a newer message is still to be shown, a tap on the old *)
(* notification opens the list of the newest.                              *)
OpensTapped ==
  [][tap' # tap /\ tap'.opened \notin {0, tap'.on} =>
       toShow # <<>> /\ tap'.opened = toShow[Len(toShow)] /\ tap'.opened > tap'.on]_vars

(* A process started from a message opens its list, unless it ends first,  *)
(* whatever else is received or tapped while it starts.                    *)
StartedFromMessage ==
  \A m \in Routed : initial = m ~> tap.opened = m \/ app = "dead"

(* The comment above setupInteractMessage: a tap on a notification is      *)
(* handled when the app is terminated.  One posted by the app itself is    *)
(* not.                                                                    *)
TerminatedTapHandled ==
  tap.from = "terminated" /\ app = "ready" => tap.opened = Opens(tap.on)
=============================================================================
