------------------------- MODULE NotificationsProofs -------------------------
(***************************************************************************)
(* Proofs about Notifications for any number of messages: types, the       *)
(* agreement of the app's notification with its tap handler, and what a    *)
(* tap may open.                                                           *)
(***************************************************************************)
EXTENDS Notifications, SequenceTheorems, TLAPS

(* The record kept while nothing was tapped is one of a tap's.             *)
LEMMA NoTapType ==
  NoTap \in [on : 0..MaxMessages, opened : 0..MaxMessages,
             from : {"none", "terminated", "background", "foreground"}]
<1>1. 0 \in 0..MaxMessages
  BY MessagesAssumption
<1> QED
  BY <1>1 DEF NoTap

(* Every step keeps the types.                                             *)
LEMMA TypeStep ==
  ASSUME TypeOK, [Next]_vars
  PROVE  TypeOK'
<1> USE MessagesAssumption
<1>1. CASE Launch
  BY <1>1 DEF Launch, TypeOK
<1>2. CASE Started
  <2>1. Opens(initial) \in 0..MaxMessages
    BY DEF Opens, TypeOK
  <2> QED
    BY <1>2, <2>1 DEF Started, TypeOK
<1>3. CASE Switch
  BY <1>3 DEF Switch, TypeOK
<1>4. CASE Stop
  <2>1. toShow' \in Seq(Messages)
    BY <1>4, EmptySeq DEF Stop
  <2>2. app' = "dead" /\ visible' = FALSE /\ handler' = 0 /\ initial' = 0 /\ tap' = NoTap
    BY <1>4 DEF Stop
  <2>3. UNCHANGED <<platform, sent, tray, slot>>
    BY <1>4 DEF Stop
  <2>4. tap' \in [on : 0..MaxMessages, opened : 0..MaxMessages,
                 from : {"none", "terminated", "background", "foreground"}]
    BY <2>2, NoTapType
  <2>5. handler' \in 0..MaxMessages /\ initial' \in 0..MaxMessages
    BY <2>2
  <2> QED
    BY <2>1, <2>2, <2>3, <2>4, <2>5 DEF TypeOK
<1>5. CASE Receive
  <2>1. sent + 1 \in Messages /\ sent' = sent + 1
    BY <1>5 DEF Receive, TypeOK, Messages
  <2>2. Append(toShow, sent + 1) \in Seq(Messages)
    BY <2>1, AppendProperties DEF TypeOK
  <2>3. UNCHANGED <<platform, app, visible, slot, initial, tap>>
    BY <1>5 DEF Receive
  <2>4. handler' \in 0..MaxMessages /\ toShow' \in Seq(Messages)
    <3>1. handler' \in {handler, sent + 1} /\ toShow' \in {toShow, Append(toShow, sent + 1)}
      BY <1>5 DEF Receive, OnMessage, Posted
    <3>2. sent + 1 \in 0..MaxMessages
      BY <2>1 DEF Messages
    <3> QED
      BY <2>2, <3>1, <3>2 DEF TypeOK
  <2>5. tray' \subseteq Messages
    <3>1. tray' \in {tray, tray \cup {sent + 1}}
      BY <1>5 DEF Receive, OnMessage, Posted
    <3> QED
      BY <2>1, <3>1 DEF TypeOK
  <2>6. sent' \in 0..MaxMessages
    BY <2>1 DEF Messages
  <2> QED
    BY <2>3, <2>4, <2>5, <2>6 DEF TypeOK
<1>6. CASE ReceiveDataOnly
  BY <1>6 DEF ReceiveDataOnly, TypeOK
<1>7. CASE Show
  BY <1>7, HeadTailProperties DEF Show, TypeOK, Messages
<1>8. CASE TapSlot
  <2>1. Opens(handler) \in 0..MaxMessages
    BY DEF Opens, TypeOK
  <2> QED
    BY <1>8, <2>1 DEF TapSlot, BringUp, Situation, TypeOK
<1>9. CASE Dismiss
  BY <1>9 DEF Dismiss, TypeOK
<1>10. ASSUME NEW m \in Messages, TapTray(m)
       PROVE  TypeOK'
  <2>1. m \in 0..MaxMessages /\ Opens(m) \in 0..MaxMessages
    BY DEF Opens, Messages
  <2> QED
    BY <1>10, <2>1 DEF TapTray, BringUp, Situation, TypeOK
<1>11. CASE UNCHANGED vars
  BY <1>11 DEF vars, TypeOK
<1> QED
  BY <1>1, <1>2, <1>3, <1>4, <1>5, <1>6, <1>7, <1>8, <1>9, <1>10, <1>11 DEF Next

-----------------------------------------------------------------------------
(* What makes SlotMatchesHandler inductive: the handler holds the newest   *)
(* of the messages still to be shown, and those are newer than the one     *)
(* shown and in the order they came.                                       *)
HandlerIsNewest == toShow # <<>> => handler = toShow[Len(toShow)]

ShownInOrder ==
  /\ slot <= sent
  /\ \A i \in DOMAIN toShow : slot < toShow[i] /\ toShow[i] <= sent
  /\ \A i, j \in DOMAIN toShow : i < j => toShow[i] < toShow[j]

IInv ==
  /\ TypeOK
  /\ SlotMatchesHandler
  /\ HandlerIsNewest
  /\ ShownInOrder

LEMMA QueueFacts ==
  ASSUME TypeOK
  PROVE  /\ Len(toShow) \in Nat /\ DOMAIN toShow = 1..Len(toShow)
         /\ \A i \in DOMAIN toShow : toShow[i] \in Messages
         /\ toShow # <<>> => Len(toShow) \in DOMAIN toShow /\ 1 \in DOMAIN toShow
         /\ sent \in Nat /\ slot \in Nat /\ handler \in Nat
<1>1. Len(toShow) \in Nat /\ DOMAIN toShow = 1..Len(toShow)
  BY LenProperties DEF TypeOK
<1>2. \A i \in DOMAIN toShow : toShow[i] \in Messages
  BY <1>1, ElementOfSeq DEF TypeOK
<1>3. toShow # <<>> => Len(toShow) \in Nat \ {0}
  BY EmptySeq DEF TypeOK
<1> QED
  BY <1>1, <1>2, <1>3 DEF TypeOK

(* The only steps that touch the slot, the handler or the queue are the    *)
(* ones treated one by one here.                                           *)
LEMMA SafetyStep ==
  ASSUME IInv, [Next]_vars
  PROVE  IInv'
<1>1. TypeOK /\ TypeOK'
  BY TypeStep DEF IInv
<1>2. /\ Len(toShow) \in Nat /\ DOMAIN toShow = 1..Len(toShow)
      /\ \A i \in DOMAIN toShow : toShow[i] \in Nat
      /\ toShow # <<>> => Len(toShow) \in DOMAIN toShow /\ 1 \in DOMAIN toShow
      /\ sent \in Nat /\ slot \in Nat /\ handler \in Nat
  BY <1>1, QueueFacts DEF Messages
<1>3. ASSUME UNCHANGED <<toShow, handler>>, sent' \in {sent, sent + 1}, slot' \in {0, slot}
      PROVE  IInv'
  <2>1. SlotMatchesHandler' /\ HandlerIsNewest'
    BY <1>3 DEF IInv, SlotMatchesHandler, HandlerIsNewest
  <2>2. ShownInOrder'
    <3>1. slot' <= slot /\ sent <= sent' /\ slot' \in Nat /\ sent' \in Nat
      BY <1>2, <1>3
    <3>2. \A i \in DOMAIN toShow : slot' < toShow[i] /\ toShow[i] <= sent'
      BY <1>2, <3>1 DEF IInv, ShownInOrder
    <3> QED
      BY <1>2, <1>3, <3>1, <3>2 DEF IInv, ShownInOrder
  <2> QED
    BY <1>1, <2>1, <2>2 DEF IInv
<1>4. CASE Stop
  <2>1. DOMAIN toShow' = {} /\ toShow' = <<>> /\ handler' = 0 /\ slot' = slot /\ sent' = sent
    BY <1>4 DEF Stop
  <2> QED
    BY <1>1, <2>1 DEF IInv, SlotMatchesHandler, HandlerIsNewest, ShownInOrder
<1>5. CASE Receive
  <2>1. CASE platform = "android" /\ visible
    <3>1. /\ toShow' = Append(toShow, sent + 1) /\ handler' = sent + 1
          /\ sent' = sent + 1 /\ slot' = slot
      BY <1>5, <2>1 DEF Receive, OnMessage
    <3>2. sent + 1 \in Messages
      BY <1>5, <1>2, MessagesAssumption DEF Receive, Messages
    <3>3. /\ toShow' \in Seq(Messages) /\ Len(toShow') = Len(toShow) + 1
          /\ \A i \in 1..Len(toShow) : toShow'[i] = toShow[i]
          /\ toShow'[Len(toShow) + 1] = sent + 1
      BY <1>1, <3>1, <3>2, AppendProperties DEF TypeOK
    <3>4. DOMAIN toShow' = 1..(Len(toShow) + 1) /\ toShow' # <<>>
      BY <1>2, <3>3, LenProperties, EmptySeq
    <3>5. SlotMatchesHandler' /\ HandlerIsNewest'
      BY <3>1, <3>3, <3>4 DEF SlotMatchesHandler, HandlerIsNewest
    <3>6. ShownInOrder'
      BY <1>2, <3>1, <3>3, <3>4 DEF IInv, ShownInOrder
    <3> QED
      BY <1>1, <3>5, <3>6 DEF IInv
  <2>2. CASE ~(platform = "android" /\ visible)
    BY <1>3, <1>5, <2>2 DEF Receive, Posted
  <2> QED
    BY <2>1, <2>2
<1>6. CASE Show
  <2>1. /\ slot' = toShow[1] /\ toShow' = Tail(toShow) /\ toShow # <<>>
        /\ handler' = handler /\ sent' = sent
    BY <1>6 DEF Show
  <2>2. /\ toShow' \in Seq(Messages) /\ Len(toShow') = Len(toShow) - 1
        /\ \A i \in 1..Len(toShow') : toShow'[i] = toShow[i + 1]
    BY <1>1, <2>1, HeadTailProperties DEF TypeOK
  <2>3. DOMAIN toShow' = 1..(Len(toShow) - 1)
    BY <2>2, LenProperties
  <2>4. toShow' = <<>> <=> Len(toShow) = 1
    BY <1>2, <2>1, <2>2, EmptySeq
  <2>5. SlotMatchesHandler'
    BY <1>2, <2>1, <2>4 DEF IInv, SlotMatchesHandler, HandlerIsNewest
  <2>6. HandlerIsNewest'
    <3> SUFFICES ASSUME toShow' # <<>>
                 PROVE  handler' = toShow'[Len(toShow')]
      BY DEF HandlerIsNewest
    <3>1. Len(toShow) - 1 \in 1..Len(toShow')
      BY <1>2, <2>1, <2>2, <2>4
    <3>2. toShow'[Len(toShow')] = toShow[Len(toShow)]
      BY <1>2, <2>2, <3>1
    <3> QED
      BY <2>1, <3>2 DEF IInv, HandlerIsNewest
  <2>7. ShownInOrder'
    <3>1. ASSUME NEW i \in DOMAIN toShow'
          PROVE  /\ i \in DOMAIN toShow /\ i + 1 \in DOMAIN toShow /\ i + 1 > 1
                 /\ toShow'[i] = toShow[i + 1]
      BY <1>2, <2>2, <2>3
    <3>2. slot' <= sent' /\ 1 \in DOMAIN toShow
      BY <1>2, <2>1 DEF IInv, ShownInOrder
    <3>3. \A i \in DOMAIN toShow' : slot' < toShow'[i] /\ toShow'[i] <= sent'
      BY <2>1, <3>1, <3>2 DEF IInv, ShownInOrder
    <3>4. ASSUME NEW i \in DOMAIN toShow', NEW j \in DOMAIN toShow', i < j
          PROVE  toShow'[i] < toShow'[j]
      <4>1. i + 1 < j + 1
        BY <2>3, <1>2, <3>4
      <4> QED
        BY <3>1, <4>1 DEF IInv, ShownInOrder
    <3> QED
      BY <3>2, <3>3, <3>4 DEF ShownInOrder
  <2> QED
    BY <1>1, <2>5, <2>6, <2>7 DEF IInv
<1>7. CASE TapSlot
  BY <1>3, <1>7 DEF TapSlot
<1>8. CASE Dismiss
  BY <1>3, <1>8 DEF Dismiss
<1>9. ASSUME NEW m \in Messages, TapTray(m)
      PROVE  IInv'
  BY <1>3, <1>9 DEF TapTray
<1>10. CASE Launch \/ Started \/ Switch \/ ReceiveDataOnly \/ UNCHANGED vars
  BY <1>3, <1>10 DEF Launch, Started, Switch, ReceiveDataOnly, vars
<1> QED
  BY <1>4, <1>5, <1>6, <1>7, <1>8, <1>9, <1>10 DEF Next

LEMMA InitSafe == Init => IInv
<1> SUFFICES ASSUME Init
             PROVE  IInv
  OBVIOUS
<1>1. TypeOK
  <2>1. toShow \in Seq(Messages)
    BY EmptySeq DEF Init
  <2>2. 0 \in 0..MaxMessages
    BY MessagesAssumption
  <2> QED
    BY <2>1, <2>2, NoTapType DEF Init, TypeOK
<1>2. DOMAIN toShow = {} /\ toShow = <<>>
  BY DEF Init
<1> QED
  BY <1>1, <1>2 DEF Init, IInv, SlotMatchesHandler, HandlerIsNewest, ShownInOrder

(* The variables always have their types.                                  *)
THEOREM TypeCorrect == Spec => []TypeOK
<1>1. Init => TypeOK
  BY InitSafe DEF IInv
<1>2. TypeOK /\ [Next]_vars => TypeOK'
  BY TypeStep
<1> QED
  BY <1>1, <1>2, PTL DEF Spec

(* Once every delayed show has run, the app's notification is the one its  *)
(* handler opens, however many messages came, processes died and           *)
(* notifications of earlier processes were left over.                      *)
THEOREM Agree == Spec => []SlotMatchesHandler
<1>1. IInv /\ [Next]_vars => IInv'
  BY SafetyStep
<1>2. IInv => SlotMatchesHandler
  BY DEF IInv
<1> QED
  BY <1>1, <1>2, InitSafe, PTL DEF Spec

(* A tap opens the list of the notification tapped, none, or, while newer  *)
(* messages wait to be shown, the list of the newest of them.              *)
THEOREM Tapped == Spec => OpensTapped
<1> DEFINE Rule ==
      tap' # tap /\ tap'.opened \notin {0, tap'.on} =>
        toShow # <<>> /\ tap'.opened = toShow[Len(toShow)] /\ tap'.opened > tap'.on
<1>1. IInv /\ [Next]_vars => IInv'
  BY SafetyStep
<1>2. IInv /\ [Next]_vars => Rule
  <2> SUFFICES ASSUME IInv, [Next]_vars, tap' # tap, tap'.opened \notin {0, tap'.on}
               PROVE  toShow # <<>> /\ tap'.opened = toShow[Len(toShow)] /\ tap'.opened > tap'.on
    OBVIOUS
  <2>1. CASE TapSlot
    <3>1. /\ tap'.on = slot /\ slot # 0
          /\ tap'.opened = IF handler = 0 THEN 0 ELSE Opens(handler)
      BY <2>1 DEF TapSlot
    <3>2. tap'.opened = handler /\ handler # 0 /\ handler # slot
      BY <3>1 DEF Opens
    <3>3. toShow # <<>>
      BY <3>1, <3>2 DEF IInv, SlotMatchesHandler
    <3>4. handler = toShow[Len(toShow)] /\ Len(toShow) \in DOMAIN toShow
      BY <3>3, QueueFacts DEF IInv, HandlerIsNewest
    <3>5. handler > slot
      BY <3>4, QueueFacts DEF IInv, ShownInOrder
    <3> QED
      BY <3>1, <3>2, <3>3, <3>4, <3>5
  <2>2. ASSUME NEW m \in Messages, TapTray(m)
        PROVE  FALSE
    BY <2>2 DEF TapTray, Opens
  <2>3. CASE Started
    BY <2>3 DEF Started, Opens
  <2>4. CASE Stop
    BY <2>4 DEF Stop, NoTap
  <2>5. CASE Launch \/ Switch \/ Receive \/ ReceiveDataOnly \/ Show \/ Dismiss \/ UNCHANGED vars
    BY <2>5 DEF Launch, Switch, Receive, ReceiveDataOnly, Show, Dismiss, vars
  <2> QED
    BY <2>1, <2>2, <2>3, <2>4, <2>5 DEF Next
<1>3. IInv /\ [Next]_vars => [Rule]_vars
  BY <1>2
<1> QED
  BY <1>1, <1>3, InitSafe, PTL DEF Spec, OpensTapped
=============================================================================
