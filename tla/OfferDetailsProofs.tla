------------------------- MODULE OfferDetailsProofs -------------------------
(***************************************************************************)
(* Proofs about OfferDetails for every set of lengths and every bound:     *)
(* type correctness, the inductive invariant behind the safety properties, *)
(* the order of the pages of one listener, and the refinement of           *)
(* RouteStack with what RouteStack promises.                               *)
(***************************************************************************)
EXTENDS OfferDetails, SequenceTheorems, TLAPS

(* A function on an initial segment of the naturals is a sequence.         *)
LEMMA FunctionIsSeq ==
  ASSUME NEW S, NEW n \in Nat, NEW f \in [1..n -> S]
  PROVE  f \in Seq(S) /\ Len(f) = n
<1>1. f \in Seq(S)
  BY SeqDef
<1>2. Len(f) \in Nat /\ DOMAIN f = 1..Len(f)
  BY <1>1, LenProperties
<1>3. DOMAIN f = 1..n
  OBVIOUS
<1> QED
  BY <1>1, <1>2, <1>3

(* Unmounting a screen's items leaves the listeners a sequence of the same *)
(* length that differs only in the contexts.                               *)
LEMMA ItemsGoneType ==
  ASSUME subs \in Seq(Subs), NEW sc
  PROVE  /\ ItemsGone(sc) \in Seq(Subs)
         /\ DOMAIN ItemsGone(sc) = DOMAIN subs
         /\ \A s \in DOMAIN subs :
              /\ ItemsGone(sc)[s].screen = subs[s].screen
              /\ ItemsGone(sc)[s].ctx => subs[s].ctx /\ subs[s].screen # sc
<1>1. Len(subs) \in Nat /\ DOMAIN subs = 1..Len(subs)
  BY LenProperties
<1>2. ASSUME NEW s \in DOMAIN subs
      PROVE  subs[s] \in Subs
  BY <1>1, <1>2, ElementOfSeq
<1>3. ASSUME NEW s \in DOMAIN subs
      PROVE  [subs[s] EXCEPT !.ctx = FALSE] \in Subs
  BY <1>2, <1>3 DEF Subs
<1>4. ItemsGone(sc) \in [1..Len(subs) -> Subs]
  BY <1>1, <1>2, <1>3 DEF ItemsGone
<1>5. ItemsGone(sc) \in Seq(Subs)
  BY <1>1, <1>4, FunctionIsSeq
<1>6. ASSUME NEW s \in DOMAIN subs
      PROVE  /\ ItemsGone(sc)[s].screen = subs[s].screen
             /\ ItemsGone(sc)[s].ctx => subs[s].ctx /\ subs[s].screen # sc
  BY <1>2, <1>6 DEF ItemsGone, Subs
<1> QED
  BY <1>1, <1>4, <1>5, <1>6 DEF ItemsGone

(* The effects of the buttons are the names of routes, "dial" and          *)
(* "nothing"; a document that opens something opens a route.               *)
LEMMA OpeningKinds ==
  ASSUME NEW c, NEW b, NEW n \in Opening(c, b)
  PROVE  Effect(c, b, n) \in RouteKinds
  BY DEF Opening

(* The facts about the variables that every step below starts from.        *)
LEMMA TypeFacts ==
  ASSUME TypeOK
  PROVE  /\ Len(class) \in Nat /\ Screens = 1..Len(class)
         /\ Len(stack) \in Nat /\ DOMAIN stack = 1..Len(stack)
         /\ Len(subs) \in Nat /\ DOMAIN subs = 1..Len(subs)
         /\ \A sc \in Screens : class[sc] \in Classes
         /\ \A i \in DOMAIN stack : stack[i] \in Routes
         /\ \A s \in DOMAIN subs : subs[s] \in Subs
         /\ stack # <<>> => Len(stack) \in DOMAIN stack /\ Top \in Routes
<1>1. Len(class) \in Nat /\ Screens = 1..Len(class) /\ \A sc \in Screens : class[sc] \in Classes
  BY LenProperties, ElementOfSeq DEF TypeOK, Screens
<1>2. Len(stack) \in Nat /\ DOMAIN stack = 1..Len(stack)
  BY LenProperties DEF TypeOK
<1>3. \A i \in DOMAIN stack : stack[i] \in Routes
  BY <1>2, ElementOfSeq DEF TypeOK
<1>4. Len(subs) \in Nat /\ DOMAIN subs = 1..Len(subs)
  BY LenProperties DEF TypeOK
<1>5. \A s \in DOMAIN subs : subs[s] \in Subs
  BY <1>4, ElementOfSeq DEF TypeOK
<1>6. stack # <<>> => Len(stack) \in DOMAIN stack
  BY <1>2, EmptySeq DEF TypeOK
<1> QED
  BY <1>1, <1>2, <1>3, <1>4, <1>5, <1>6 DEF Top

(* Pushing a list screen adds its route, its view and its sign-in counter. *)
LEMMA PushListType ==
  ASSUME TypeOK, NEW c \in Classes, PushList(c)
  PROVE  /\ class' \in Seq(Classes) /\ Len(class') = Len(class) + 1
         /\ Screens' = 1..(Len(class) + 1)
         /\ class'[Len(class) + 1] = c
         /\ \A sc \in Screens : class'[sc] = class[sc] /\ view'[sc] = view[sc]
         /\ stack' \in Seq(Routes) /\ Len(stack') = Len(stack) + 1
         /\ DOMAIN stack' = 1..(Len(stack) + 1)
         /\ \A i \in DOMAIN stack : stack'[i] = stack[i]
         /\ stack'[Len(stack) + 1] = ListRoute(Len(class) + 1)
         /\ view' \in [Screens' -> Views]
         /\ signins' \in [Screens' -> Nat]
<1>1. Len(class) \in Nat /\ Screens = 1..Len(class) /\ Len(stack) \in Nat
      /\ DOMAIN stack = 1..Len(stack)
  BY TypeFacts
<1>2. /\ class' \in Seq(Classes) /\ Len(class') = Len(class) + 1
      /\ class'[Len(class) + 1] = c
      /\ \A sc \in Screens : class'[sc] = class[sc]
  BY <1>1, AppendProperties DEF TypeOK, PushList
<1>3. Screens' = 1..(Len(class) + 1)
  BY <1>2, LenProperties DEF Screens
<1>4. ListRoute(Len(class) + 1) \in Routes
  BY <1>1 DEF ListRoute, Routes
<1>5. /\ stack' \in Seq(Routes) /\ Len(stack') = Len(stack) + 1
      /\ \A i \in DOMAIN stack : stack'[i] = stack[i]
      /\ stack'[Len(stack) + 1] = ListRoute(Len(class) + 1)
  BY <1>1, <1>4, AppendProperties DEF TypeOK, PushList
<1>6. DOMAIN stack' = 1..(Len(stack) + 1)
  BY <1>5, LenProperties
<1>7. view \in Seq(Views) /\ Len(view) = Len(class)
  <2>1. view \in [1..Len(class) -> Views]
    BY <1>1 DEF TypeOK
  <2> QED
    BY <1>1, <2>1, FunctionIsSeq
<1>8. /\ view' \in Seq(Views) /\ Len(view') = Len(class) + 1
      /\ \A sc \in Screens : view'[sc] = view[sc]
  BY <1>1, <1>7, AppendProperties DEF PushList, Views
<1>9. signins \in Seq(Nat) /\ Len(signins) = Len(class)
  BY <1>1, FunctionIsSeq DEF TypeOK
<1>10. signins' \in Seq(Nat) /\ Len(signins') = Len(class) + 1
  BY <1>1, <1>9, AppendProperties DEF PushList
<1>11. view' \in [Screens' -> Views]
  BY <1>3, <1>8, LenProperties
<1>12. signins' \in [Screens' -> Nat]
  BY <1>3, <1>10, LenProperties
<1> QED
  BY <1>1, <1>2, <1>3, <1>5, <1>6, <1>8, <1>11, <1>12

(* Popping the top route leaves the others where they are.                 *)
LEMMA PopType ==
  ASSUME TypeOK, stack # <<>>, stack' = SubSeq(stack, 1, Len(stack) - 1)
  PROVE  /\ stack' \in Seq(Routes)
         /\ Len(stack') = Len(stack) - 1
         /\ DOMAIN stack' = 1..(Len(stack) - 1)
         /\ \A i \in DOMAIN stack' : i \in DOMAIN stack /\ stack'[i] = stack[i]
<1>1. Len(stack) \in Nat \ {0} /\ DOMAIN stack = 1..Len(stack)
      /\ \A i \in DOMAIN stack : stack[i] \in Routes
  BY TypeFacts
<1>2. \A i \in 1..(Len(stack) - 1) : stack[i] \in Routes
  BY <1>1
<1>3. /\ stack' \in Seq(Routes)
      /\ Len(stack') = IF 1 <= Len(stack) - 1 THEN Len(stack) - 1 - 1 + 1 ELSE 0
      /\ \A i \in 1..(Len(stack) - 1 - 1 + 1) : stack'[i] = stack[1 + i - 1]
  BY <1>1, <1>2, SubSeqProperties
<1>4. Len(stack') = Len(stack) - 1
  BY <1>1, <1>3
<1>5. DOMAIN stack' = 1..(Len(stack) - 1)
  BY <1>3, <1>4, LenProperties
<1> QED
  BY <1>1, <1>3, <1>4, <1>5

(* Pushing one route.                                                      *)
LEMMA AppendType ==
  ASSUME TypeOK, NEW r \in Routes, stack' = Append(stack, r)
  PROVE  /\ stack' \in Seq(Routes)
         /\ Len(stack') = Len(stack) + 1
         /\ DOMAIN stack' = 1..(Len(stack) + 1)
         /\ \A i \in DOMAIN stack : stack'[i] = stack[i]
         /\ stack'[Len(stack) + 1] = r
<1>1. Len(stack) \in Nat /\ DOMAIN stack = 1..Len(stack)
  BY TypeFacts
<1>2. /\ stack' \in Seq(Routes) /\ Len(stack') = Len(stack) + 1
      /\ \A i \in DOMAIN stack : stack'[i] = stack[i]
      /\ stack'[Len(stack) + 1] = r
  BY <1>1, AppendProperties DEF TypeOK
<1> QED
  BY <1>2, LenProperties

(* The places past the first n of n + k, counted from the end of the n.    *)
LEMMA PastTheEnd ==
  ASSUME NEW n \in Nat, NEW k \in Nat, NEW i \in (n + 1)..(n + k)
  PROVE  i \in 1..(n + k) /\ ~(i <= n) /\ i - n \in 1..k
  OBVIOUS

(* What a snapshot's pages look like: they belong to the listener's        *)
(* screen, none of them is a list, and they are late if it is leaving.     *)
LEMMA SnapshotPages ==
  ASSUME TypeOK, NEW s \in DOMAIN subs, subs[s].pending # <<>>,
         NEW k \in Nat, NEW shown \in [1..k -> Opening(ClassOf(s), subs[s].button)],
         stack' = stack \o Pages(s, shown)
  PROVE  /\ stack' \in Seq(Routes)
         /\ Len(stack') = Len(stack) + k
         /\ DOMAIN stack' = 1..(Len(stack) + k)
         /\ \A i \in DOMAIN stack : stack'[i] = stack[i]
         /\ \A i \in (Len(stack) + 1)..(Len(stack) + k) :
              /\ stack'[i].screen = subs[s].screen
              /\ stack'[i].kind \in RouteKinds
              /\ stack'[i].late = (subs[s].screen \in leaving)
<1> DEFINE pages == Pages(s, shown)
<1>1. Len(stack) \in Nat /\ DOMAIN stack = 1..Len(stack) /\ subs[s] \in Subs /\ s \in Nat
  BY TypeFacts
<1>2. Head(subs[s].pending) \in Nat
  <2>1. subs[s].pending \in Seq(Nat)
    BY <1>1 DEF Subs
  <2> QED
    BY <2>1, HeadTailProperties
<1>3. subs[s].screen \in Nat
  BY <1>1 DEF Subs
<1>4. ASSUME NEW i \in 1..k
      PROVE  pages[i] \in Routes /\ pages[i].screen = subs[s].screen
             /\ pages[i].kind \in RouteKinds
             /\ pages[i].late = (subs[s].screen \in leaving)
  <2>1. shown[i] \in Opening(ClassOf(s), subs[s].button)
    OBVIOUS
  <2>2. Effect(ClassOf(s), subs[s].button, shown[i]) \in RouteKinds
    BY <2>1, OpeningKinds
  <2> QED
    BY <1>1, <1>2, <1>3, <2>2 DEF Routes, Pages, Page
<1>5. pages \in [1..k -> Routes]
  BY <1>4 DEF Pages
<1> HIDE DEF pages
<1>6. pages \in Seq(Routes) /\ Len(pages) = k
  BY <1>5, FunctionIsSeq
<1>7. /\ stack' \in Seq(Routes)
      /\ Len(stack') = Len(stack) + k
      /\ \A i \in 1..(Len(stack) + k) :
           stack'[i] = IF i <= Len(stack) THEN stack[i] ELSE pages[i - Len(stack)]
  <2>1. stack' = stack \o pages /\ stack \in Seq(Routes)
    BY DEF pages, TypeOK
  <2> QED
    BY <1>6, <2>1, ConcatProperties
<1>8. DOMAIN stack' = 1..(Len(stack) + k)
  BY <1>7, LenProperties
<1>9. ASSUME NEW i \in (Len(stack) + 1)..(Len(stack) + k)
      PROVE  /\ stack'[i].screen = subs[s].screen /\ stack'[i].kind \in RouteKinds
             /\ stack'[i].late = (subs[s].screen \in leaving)
  <2>1. /\ i \in 1..(Len(stack) + k)
        /\ ~(i <= Len(stack))
        /\ i - Len(stack) \in 1..k
    BY <1>1, PastTheEnd
  <2>2. stack'[i] = pages[i - Len(stack)]
    BY <1>7, <2>1, Zenon
  <2> QED
    BY <1>4, <2>1, <2>2, Zenon
<1> QED
  BY <1>1, <1>7, <1>8, <1>9

LEMMA DeliverIsOnSnapshot ==
  ASSUME NEW s \in DOMAIN subs, Deliver(s)
  PROVE  /\ subs[s].pending # <<>>
         /\ \E dials \in BOOLEAN, k \in 0..MaxDocs :
              \E shown \in [1..k -> Opening(ClassOf(s), subs[s].button)] :
                OnSnapshot(s, shown, dials)
<1> DEFINE room(dials) == MaxDocs - (IF dials THEN 1 ELSE 0)
<1>1. PICK dials \in IF Dialling(ClassOf(s), subs[s].button) = {} THEN {FALSE} ELSE BOOLEAN :
        \E shown \in SeqUpTo(Opening(ClassOf(s), subs[s].button), room(dials)) :
          OnSnapshot(s, shown, dials)
  BY DEF Deliver
<1>2. dials \in BOOLEAN
  BY <1>1
<1>3. PICK k \in 0..room(dials) :
        \E shown \in [1..k -> Opening(ClassOf(s), subs[s].button)] : OnSnapshot(s, shown, dials)
  BY <1>1 DEF SeqUpTo
<1>4. k \in 0..MaxDocs
  BY <1>3, BoundsAssumption
<1> QED
  BY <1>2, <1>3, <1>4 DEF Deliver

(* Every step keeps the types.                                             *)
LEMMA TypeStep ==
  ASSUME TypeOK, [Next]_vars
  PROVE  TypeOK'
<1> USE TypeFacts
<1>1. ASSUME NEW c \in Classes, OpenList(c)
      PROVE  TypeOK'
  <2>1. PushList(c) /\ UNCHANGED <<leaving, dirty, subs, version>>
    BY <1>1 DEF OpenList
  <2> QED
    BY <2>1, PushListType DEF TypeOK
<1>2. ASSUME NEW c \in Classes, HandleMessage(c)
      PROVE  TypeOK'
  <2>1. dirty' \subseteq Nat /\ UNCHANGED <<leaving, subs, version>>
    BY <1>2 DEF HandleMessage
  <2>2. CASE PushList(c)
    BY <2>1, <2>2, PushListType DEF TypeOK
  <2>3. CASE UNCHANGED <<class, stack, view, signins>>
    BY <2>1, <2>3 DEF TypeOK, Screens
  <2> QED
    BY <1>2, <2>2, <2>3 DEF HandleMessage
<1>3. ASSUME Edit
      PROVE  TypeOK'
  <2>1. PICK touched \in SUBSET {s \in DOMAIN subs : subs[s].attached} :
          subs' = [s \in DOMAIN subs |->
                     IF s \in touched
                       THEN [subs[s] EXCEPT !.pending = Append(@, version + 1)]
                       ELSE subs[s]]
    BY <1>3 DEF Edit
  <2>2. ASSUME NEW s \in DOMAIN subs
        PROVE  [subs[s] EXCEPT !.pending = Append(@, version + 1)] \in Subs
    <3>1. Append(subs[s].pending, version + 1) \in Seq(Nat)
      BY AppendProperties DEF TypeOK, Subs
    <3> QED
      BY <3>1 DEF Subs
  <2>3. subs' \in [1..Len(subs) -> Subs]
    BY <2>1, <2>2
  <2>4. subs' \in Seq(Subs)
    BY <2>3, FunctionIsSeq
  <2> QED
    BY <1>3, <2>4 DEF Edit, TypeOK, Screens
<1>4. ASSUME TapTile
      PROVE  TypeOK'
  <2>1. [Top EXCEPT !.kind = "image"] \in Routes
    BY <1>4 DEF TapTile, Routes, RouteKinds
  <2> QED
    BY <1>4, <2>1, AppendType DEF TapTile, TypeOK, Screens
<1>5. ASSUME Press
      PROVE  TypeOK'
  <2>1. dirty' \subseteq Nat
    BY <1>5 DEF Press, TypeOK, Routes
  <2> QED
    BY <1>5, <2>1 DEF Press, TypeOK, Screens
<1>6. ASSUME Back
      PROVE  TypeOK'
  <2>1. stack' \in Seq(Routes)
    BY <1>6, PopType DEF Back
  <2>2. leaving' \subseteq Nat
    BY <1>6 DEF Back, TypeOK, Routes
  <2> QED
    BY <1>6, <2>1, <2>2 DEF Back, TypeOK, Screens
<1>7. ASSUME NEW sc \in Screens, ListAnswers(sc)
      PROVE  TypeOK'
  <2>1. CASE ListLoaded(sc)
    BY <2>1 DEF ListLoaded, TypeOK, Screens, Views
  <2>2. CASE ListFails(sc)
    BY <2>2, ItemsGoneType DEF ListFails, TypeOK, Screens, Views
  <2> QED
    BY <1>7, <2>1, <2>2 DEF ListAnswers
<1>8. ASSUME NEW sc \in Screens, Frame(sc)
      PROVE  TypeOK'
  <2>1. view' \in [Screens -> Views] /\ dirty' \subseteq Nat
    BY <1>8 DEF Frame, TypeOK, Views
  <2>2. subs' \in Seq(Subs)
    BY <1>8, ItemsGoneType DEF Frame, TypeOK
  <2> QED
    BY <1>8, <2>1, <2>2 DEF Frame, TypeOK, Screens
<1>9. ASSUME NEW sc \in Screens, Type(sc)
      PROVE  TypeOK'
  <2>1. sc \in Nat
    OBVIOUS
  <2>2. dirty' \subseteq Nat
    BY <1>9, <2>1 DEF Type, TypeOK
  <2> QED
    BY <1>9, <2>2 DEF Type, TypeOK, Screens
<1>10. ASSUME NEW sc \in Screens, TapNotes(sc)
       PROVE  TypeOK'
  BY <1>10 DEF TapNotes, TypeOK, Screens
<1>11. ASSUME NEW sc \in Screens, SignedIn(sc)
       PROVE  TypeOK'
  <2>1. [kind |-> "notes", screen |-> sc, sub |-> 0, version |-> 0,
         late |-> sc \in leaving] \in Routes
    BY DEF Routes
  <2>2. stack' \in Seq(Routes)
    BY <1>11, <2>1, AppendType DEF SignedIn, TypeOK
  <2>3. signins' \in [Screens -> Nat]
    BY <1>11 DEF SignedIn, TypeOK
  <2> QED
    BY <1>11, <2>2, <2>3 DEF SignedIn, TypeOK, Screens
<1>12. ASSUME NEW sc \in Screens, SignInFailed(sc)
       PROVE  TypeOK'
  <2>1. signins' \in [Screens -> Nat]
    BY <1>12 DEF SignInFailed, TypeOK
  <2> QED
    BY <1>12, <2>1 DEF SignInFailed, TypeOK, Screens
<1>13. ASSUME NEW sc \in Screens, NEW b \in Buttons(class[sc]), Tap(sc, b)
       PROVE  TypeOK'
  <2>1. [screen |-> sc, button |-> b, ctx |-> TRUE,
         attached |-> FALSE, pending |-> <<>>] \in Subs
    BY EmptySeq DEF Subs
  <2>2. subs' \in Seq(Subs)
    BY <1>13, <2>1, AppendProperties DEF Tap, TypeOK
  <2> QED
    BY <1>13, <2>2 DEF Tap, TypeOK, Screens
<1>14. ASSUME NEW s \in DOMAIN subs, ItemGone(s)
       PROVE  TypeOK'
  <2>1. [subs[s] EXCEPT !.ctx = FALSE] \in Subs
    BY DEF Subs
  <2>2. subs' \in Seq(Subs)
    BY <1>14, <2>1, ExceptSeq DEF ItemGone, TypeOK
  <2> QED
    BY <1>14, <2>2 DEF ItemGone, TypeOK, Screens
<1>15. ASSUME NEW s \in DOMAIN subs, Attach(s)
       PROVE  TypeOK'
  <2>1. subs' = [subs EXCEPT ![s] = [subs[s] EXCEPT !.attached = TRUE, !.pending = <<version>>]]
    BY <1>15 DEF Attach
  <2>2. <<version>> \in Seq(Nat)
    BY DEF TypeOK
  <2>3. [subs[s] EXCEPT !.attached = TRUE, !.pending = <<version>>] \in Subs
    BY <2>2 DEF Subs
  <2>4. subs' \in Seq(Subs)
    BY <2>1, <2>3, ExceptSeq DEF TypeOK
  <2> QED
    BY <1>15, <2>4 DEF Attach, TypeOK, Screens
<1>16. ASSUME NEW s \in DOMAIN subs, Deliver(s)
       PROVE  TypeOK'
  <2> PICK dials \in BOOLEAN, k \in 0..MaxDocs :
        \E shown \in [1..k -> Opening(ClassOf(s), subs[s].button)] :
          OnSnapshot(s, shown, dials) /\ subs[s].pending # <<>>
    BY <1>16, DeliverIsOnSnapshot
  <2>1. PICK shown \in [1..k -> Opening(ClassOf(s), subs[s].button)] :
          OnSnapshot(s, shown, dials) /\ subs[s].pending # <<>>
    OBVIOUS
  <2>2. stack' \in Seq(Routes)
    <3>1. CASE CanPush(s)
      <4>1. stack' = stack \o Pages(s, shown)
        BY <2>1, <3>1 DEF OnSnapshot
      <4>2. k \in Nat
        BY BoundsAssumption
      <4> QED
        BY <2>1, <4>1, <4>2, SnapshotPages
    <3>2. CASE ~CanPush(s)
      BY <2>1, <3>2 DEF OnSnapshot, TypeOK
    <3> QED
      BY <3>1, <3>2
  <2>3. dirty' \subseteq Nat
    BY <2>1 DEF OnSnapshot, TypeOK, Subs
  <2>4. Tail(subs[s].pending) \in Seq(Nat)
    BY <2>1, HeadTailProperties DEF Subs
  <2>5. [subs[s] EXCEPT !.pending = Tail(@)] \in Subs
    BY <2>4 DEF Subs
  <2>6. subs' \in Seq(Subs)
    BY <2>1, <2>5, ExceptSeq DEF OnSnapshot, TypeOK
  <2> QED
    BY <2>1, <2>2, <2>3, <2>6 DEF OnSnapshot, TypeOK, Screens
<1>17. ASSUME NEW sc \in Screens, Disposed(sc)
       PROVE  TypeOK'
  <2>1. view' \in [Screens -> Views] /\ dirty' \subseteq Nat /\ leaving' \subseteq Nat
    BY <1>17 DEF Disposed, TypeOK, Views
  <2>2. subs' \in Seq(Subs)
    BY <1>17, ItemsGoneType DEF Disposed, TypeOK
  <2> QED
    BY <1>17, <2>1, <2>2 DEF Disposed, TypeOK, Screens
<1>18. CASE UNCHANGED vars
  BY <1>18 DEF vars, TypeOK, Screens
<1> QED
  BY <1>1, <1>2, <1>3, <1>4, <1>5, <1>6, <1>7, <1>8, <1>9, <1>10, <1>11, <1>12,
     <1>13, <1>14, <1>15, <1>16, <1>17, <1>18 DEF Next

(* The program starts with its types.                                      *)
LEMMA InitTypes == Init => TypeOK
<1> SUFFICES ASSUME Init
             PROVE  TypeOK
  OBVIOUS
<1>1. view \in [Screens -> Views] /\ signins \in [Screens -> Nat]
  BY EmptySeq DEF Init, Screens
<1> QED
  BY <1>1, EmptySeq DEF Init, TypeOK

(* The variables always have their types.  In particular a captured        *)
(* context, a pending snapshot and a route always name a screen number,    *)
(* and every opened screen keeps exactly one StreamBuilder state.          *)
THEOREM TypeCorrect == Spec => []TypeOK
<1>1. Init => TypeOK
  BY InitTypes
<1>2. TypeOK /\ [Next]_vars => TypeOK'
  BY TypeStep
<1> QED
  BY <1>1, <1>2, PTL DEF Spec

-----------------------------------------------------------------------------
(* What makes the safety properties inductive: every screen that a route,  *)
(* a listener or an exit transition names has been opened; a list screen   *)
(* has one place, on the stack or leaving it; and a listener with a live   *)
(* context has its screen mounted.                                         *)
ScreensKnown ==
  /\ \A i \in DOMAIN stack : stack[i].screen \in Screens
  /\ \A s \in DOMAIN subs : subs[s].screen \in Screens
  /\ leaving \subseteq Screens

RootsApart ==
  /\ \A i \in DOMAIN stack : IsList(stack[i]) => ~stack[i].late
  /\ \A i, j \in DOMAIN stack :
       IsList(stack[i]) /\ IsList(stack[j]) /\ stack[i].screen = stack[j].screen => i = j
  /\ \A sc \in leaving : ~OnStack(sc)

IInv ==
  /\ TypeOK
  /\ ScreensKnown
  /\ RootsApart
  /\ OrphansAreLate
  /\ SilencedByRebuild

(* What is said of the stack and of the screens that leave it.             *)
StackSound ==
  /\ OrphansAreLate
  /\ RootsApart
  /\ \A i \in DOMAIN stack : stack[i].screen \in Screens
  /\ leaving \subseteq Screens

(* A step that leaves the stack alone keeps it, even if a transition ends. *)
LEMMA SameStack ==
  ASSUME IInv, UNCHANGED <<class, stack>>, leaving' \subseteq leaving
  PROVE  /\ StackSound'
         /\ Screens' = Screens
         /\ \A sc : OnStack(sc)' <=> OnStack(sc)
<1>1. Screens' = Screens /\ \A sc : OnStack(sc)' <=> OnStack(sc)
  BY DEF Screens, OnStack, IsList
<1>2. OrphansAreLate'
  BY DEF IInv, OrphansAreLate, IsList
<1>3. RootsApart'
  BY <1>1 DEF IInv, RootsApart, IsList
<1>4. (\A i \in DOMAIN stack : stack[i].screen \in Screens)' /\ leaving' \subseteq Screens'
  BY <1>1 DEF IInv, ScreensKnown
<1> QED
  BY <1>1, <1>2, <1>3, <1>4 DEF StackSound

(* Routes pushed for a screen, marked late exactly if it is not on the     *)
(* stack any more.                                                         *)
LEMMA PushedPages ==
  ASSUME IInv, UNCHANGED <<class, leaving>>, NEW sc \in Screens, NEW k \in Nat,
         stack' \in Seq(Routes), Len(stack') = Len(stack) + k,
         \A i \in DOMAIN stack : stack'[i] = stack[i],
         \A i \in (Len(stack) + 1)..(Len(stack) + k) :
           stack'[i].screen = sc /\ ~IsList(stack'[i]) /\ (stack'[i].late <=> ~OnStack(sc))
  PROVE  /\ StackSound'
         /\ Screens' = Screens
         /\ \A x : OnStack(x)' <=> OnStack(x)
<1>1. Len(stack) \in Nat /\ DOMAIN stack = 1..Len(stack) /\ DOMAIN stack' = 1..(Len(stack) + k)
  BY TypeFacts, LenProperties DEF IInv
<1>2. \A i \in DOMAIN stack' : i \in DOMAIN stack \/ i \in (Len(stack) + 1)..(Len(stack) + k)
  BY <1>1
<1>3. \A i \in DOMAIN stack : i \in DOMAIN stack'
  BY <1>1
<1>4. \A i \in DOMAIN stack' : IsList(stack'[i]) => i \in DOMAIN stack /\ stack'[i] = stack[i]
  BY <1>2
<1>5. ASSUME NEW x
      PROVE  OnStack(x)' <=> OnStack(x)
  BY <1>3, <1>4 DEF OnStack, IsList
<1>6. Screens' = Screens
  BY DEF Screens
<1>7. OrphansAreLate'
  <2> SUFFICES ASSUME NEW i \in DOMAIN stack', ~IsList(stack'[i])
               PROVE  stack'[i].late <=>
                        ~\E j \in 1..(i - 1) :
                           IsList(stack'[j]) /\ stack'[j].screen = stack'[i].screen
    BY DEF OrphansAreLate, IsList
  <2>1. CASE i \in DOMAIN stack
    <3>1. \A j \in 1..(i - 1) : j \in DOMAIN stack /\ stack'[j] = stack[j]
      BY <1>1, <2>1
    <3>2. stack'[i] = stack[i]
      BY <2>1
    <3>3. stack[i].late <=>
            ~\E j \in 1..(i - 1) : IsList(stack[j]) /\ stack[j].screen = stack[i].screen
      BY <2>1, <3>2 DEF IInv, OrphansAreLate, IsList
    <3> QED
      BY <3>1, <3>2, <3>3 DEF IsList
  <2>2. CASE i \in (Len(stack) + 1)..(Len(stack) + k)
    <3>1. \A j \in DOMAIN stack : j \in 1..(i - 1)
      BY <1>1, <2>2
    <3>2. \A j \in 1..(i - 1) : j \in DOMAIN stack'
      BY <1>1, <2>2
    <3>3. (\E j \in 1..(i - 1) : IsList(stack'[j]) /\ stack'[j].screen = sc) <=> OnStack(sc)
      BY <1>4, <3>1, <3>2 DEF OnStack, IsList
    <3> QED
      BY <2>2, <3>3
  <2> QED
    BY <1>2, <2>1, <2>2
<1>8. RootsApart'
  <2>1. \A i \in DOMAIN stack' : IsList(stack'[i]) => ~stack'[i].late
    BY <1>4 DEF IInv, RootsApart
  <2>2. \A i, j \in DOMAIN stack' :
          IsList(stack'[i]) /\ IsList(stack'[j]) /\ stack'[i].screen = stack'[j].screen => i = j
    BY <1>4 DEF IInv, RootsApart
  <2>3. \A x \in leaving : ~OnStack(x)'
    BY <1>5 DEF IInv, RootsApart
  <2> QED
    BY <2>1, <2>2, <2>3 DEF RootsApart, IsList
<1>9. \A i \in DOMAIN stack' : stack'[i].screen \in Screens
  BY <1>2 DEF IInv, ScreensKnown
<1> QED
  BY <1>5, <1>6, <1>7, <1>8, <1>9 DEF StackSound, IInv, ScreensKnown

(* A new list screen on top.                                               *)
LEMMA PushedList ==
  ASSUME IInv, NEW c \in Classes, PushList(c), UNCHANGED leaving
  PROVE  /\ StackSound'
         /\ Screens \subseteq Screens'
         /\ \A sc \in Screens : view'[sc] = view[sc]
         /\ \A x : OnStack(x) => OnStack(x)'
<1> DEFINE n == Len(stack) + 1
           new == Len(class) + 1
<1>1. Len(class) \in Nat /\ Screens = 1..Len(class) /\ Len(stack) \in Nat /\ DOMAIN stack = 1..Len(stack)
  BY TypeFacts DEF IInv
<1>2. /\ Screens' = 1..new
      /\ \A sc \in Screens : view'[sc] = view[sc]
      /\ Len(stack') = n /\ DOMAIN stack' = 1..n
      /\ \A i \in DOMAIN stack : stack'[i] = stack[i]
      /\ stack'[n] = ListRoute(new)
  BY PushListType DEF IInv
<1>3. IsList(stack'[n]) /\ stack'[n].screen = new /\ stack'[n].late = FALSE
  BY <1>2 DEF ListRoute, IsList
<1>4. \A i \in DOMAIN stack' : i \in DOMAIN stack \/ i = n
  BY <1>1, <1>2
<1>5. \A i \in DOMAIN stack : i \in DOMAIN stack' /\ stack[i].screen # new
  BY <1>1, <1>2 DEF IInv, ScreensKnown
<1>6. Screens \subseteq Screens' /\ new \in Screens' /\ new \notin Screens
  BY <1>1, <1>2
<1> HIDE DEF n, new
<1>7. OrphansAreLate'
  <2> SUFFICES ASSUME NEW i \in DOMAIN stack', ~IsList(stack'[i])
               PROVE  stack'[i].late <=>
                        ~\E j \in 1..(i - 1) :
                           IsList(stack'[j]) /\ stack'[j].screen = stack'[i].screen
    BY DEF OrphansAreLate, IsList
  <2>1. i \in DOMAIN stack
    BY <1>3, <1>4
  <2>2. \A j \in 1..(i - 1) : j \in DOMAIN stack
    BY <1>1, <2>1
  <2> QED
    BY <1>2, <2>1, <2>2 DEF IInv, OrphansAreLate, IsList
<1>8. RootsApart'
  <2>1. \A i \in DOMAIN stack' : IsList(stack'[i]) => ~stack'[i].late
    BY <1>2, <1>3, <1>4 DEF IInv, RootsApart, IsList
  <2>2. \A i, j \in DOMAIN stack' :
          IsList(stack'[i]) /\ IsList(stack'[j]) /\ stack'[i].screen = stack'[j].screen => i = j
    BY <1>2, <1>3, <1>4, <1>5 DEF IInv, RootsApart, IsList
  <2>3. ASSUME NEW x \in leaving
        PROVE  ~OnStack(x)'
    <3>1. ~OnStack(x) /\ x # new
      BY <1>6 DEF IInv, RootsApart, ScreensKnown
    <3> QED
      BY <1>2, <1>3, <1>4, <3>1 DEF OnStack, IsList
  <2> QED
    BY <2>1, <2>2, <2>3 DEF RootsApart, IsList
<1>9. (\A i \in DOMAIN stack : stack[i].screen \in Screens)' /\ leaving' \subseteq Screens'
  BY <1>2, <1>3, <1>4, <1>6 DEF IInv, ScreensKnown
<1>10. ASSUME NEW x, OnStack(x)
       PROVE  OnStack(x)'
  BY <1>2, <1>5, <1>10 DEF OnStack, IsList
<1> QED
  BY <1>2, <1>6, <1>7, <1>8, <1>9, <1>10 DEF StackSound

(* Popping the top route: a list screen on top starts to leave, and        *)
(* whatever was mounted stays so.                                          *)
LEMMA Popped ==
  ASSUME IInv, Back
  PROVE  /\ StackSound'
         /\ \A x : Mounted(x) => Mounted(x)'
<1>1. /\ Len(stack) \in Nat /\ DOMAIN stack = 1..Len(stack)
      /\ Len(stack) \in DOMAIN stack /\ Top = stack[Len(stack)]
  BY TypeFacts DEF IInv, Back, Top
<1>2. /\ Len(stack') = Len(stack) - 1 /\ DOMAIN stack' = 1..(Len(stack) - 1)
      /\ \A i \in DOMAIN stack' : i \in DOMAIN stack /\ stack'[i] = stack[i]
  BY PopType DEF IInv, Back
<1>3. \A i \in DOMAIN stack : i \in DOMAIN stack' \/ i = Len(stack)
  BY <1>1, <1>2
<1>4. Len(stack) \notin DOMAIN stack'
  BY <1>1, <1>2
<1>5. leaving' = IF IsList(Top) THEN leaving \cup {Top.screen} ELSE leaving
  BY DEF Back
<1>6. UNCHANGED class /\ Screens' = Screens
  BY DEF Back, Screens
<1>7. OrphansAreLate'
  <2> SUFFICES ASSUME NEW i \in DOMAIN stack', ~IsList(stack'[i])
               PROVE  stack'[i].late <=>
                        ~\E j \in 1..(i - 1) :
                           IsList(stack'[j]) /\ stack'[j].screen = stack'[i].screen
    BY DEF OrphansAreLate, IsList
  <2>1. \A j \in 1..(i - 1) : j \in DOMAIN stack'
    BY <1>1, <1>2
  <2> QED
    BY <1>2, <2>1 DEF IInv, OrphansAreLate, IsList
<1>8. RootsApart'
  <2>1. \A i \in DOMAIN stack' : IsList(stack'[i]) => ~stack'[i].late
    BY <1>2 DEF IInv, RootsApart
  <2>2. \A i, j \in DOMAIN stack' :
          IsList(stack'[i]) /\ IsList(stack'[j]) /\ stack'[i].screen = stack'[j].screen => i = j
    BY <1>2 DEF IInv, RootsApart
  <2>3. ASSUME NEW x \in leaving'
        PROVE  ~OnStack(x)'
    <3>1. CASE x \in leaving
      BY <1>2, <3>1 DEF IInv, RootsApart, OnStack, IsList
    <3>2. CASE IsList(Top) /\ x = Top.screen
      BY <1>1, <1>2, <1>4, <3>2 DEF IInv, RootsApart, OnStack, IsList
    <3> QED
      BY <1>5, <3>1, <3>2
  <2> QED
    BY <2>1, <2>2, <2>3 DEF RootsApart, IsList
<1>9. (\A i \in DOMAIN stack : stack[i].screen \in Screens)' /\ leaving' \subseteq Screens'
  BY <1>1, <1>2, <1>5, <1>6 DEF IInv, ScreensKnown
<1>10. ASSUME NEW x, Mounted(x)
       PROVE  Mounted(x)'
  <2>1. CASE x \in leaving
    BY <1>5, <2>1 DEF Mounted
  <2>2. CASE OnStack(x)
    <3>1. PICK m \in DOMAIN stack : IsList(stack[m]) /\ stack[m].screen = x
      BY <2>2 DEF OnStack
    <3>2. CASE m = Len(stack)
      BY <1>1, <1>5, <3>1, <3>2 DEF Mounted
    <3>3. CASE m \in DOMAIN stack'
      BY <1>2, <3>1, <3>3 DEF Mounted, OnStack, IsList
    <3> QED
      BY <1>3, <3>2, <3>3
  <2> QED
    BY <1>10, <2>1, <2>2 DEF Mounted
<1> QED
  BY <1>7, <1>8, <1>9, <1>10 DEF StackSound

(* A step keeps the silence of the listeners when each context still alive *)
(* belongs to a screen whose list and whose widgets it has not touched.    *)
LEMMA StaysSilent ==
  ASSUME IInv, Screens \subseteq Screens', DOMAIN subs' = DOMAIN subs,
         \A s \in DOMAIN subs :
           /\ subs'[s].screen = subs[s].screen
           /\ subs'[s].ctx =>
                /\ subs[s].ctx
                /\ view[subs[s].screen] = "list" => view'[subs[s].screen] = "list"
                /\ Mounted(subs[s].screen) => Mounted(subs[s].screen)'
  PROVE  /\ SilencedByRebuild'
         /\ \A s \in DOMAIN subs' : subs'[s].screen \in Screens'
<1>1. ASSUME NEW s \in DOMAIN subs, subs'[s].ctx
      PROVE  Mounted(subs[s].screen)' /\ view'[subs'[s].screen] = "list"
  <2>1. subs[s].ctx /\ Mounted(subs[s].screen) /\ view[subs[s].screen] = "list"
    BY <1>1 DEF IInv, SilencedByRebuild
  <2> QED
    BY <1>1, <2>1
<1> QED
  BY <1>1 DEF IInv, SilencedByRebuild, ScreensKnown

(* Every step keeps the inductive invariant.                               *)
LEMMA SafetyStep ==
  ASSUME IInv, [Next]_vars
  PROVE  IInv'
<1>1. TypeOK /\ TypeOK'
  BY TypeStep DEF IInv
<1>2. /\ Len(stack) \in Nat /\ DOMAIN stack = 1..Len(stack)
      /\ stack # <<>> => Len(stack) \in DOMAIN stack
      /\ \A i \in DOMAIN stack : stack[i] \in Routes
      /\ DOMAIN subs = 1..Len(subs) /\ Len(subs) \in Nat
      /\ \A s \in DOMAIN subs : subs[s] \in Subs
      /\ DOMAIN view = Screens
  BY <1>1, TypeFacts DEF TypeOK
<1>3. ASSUME NEW c \in Classes, PushList(c), UNCHANGED <<leaving, subs>>
      PROVE  IInv'
  <2>1. /\ StackSound'
        /\ Screens \subseteq Screens'
        /\ \A sc \in Screens : view'[sc] = view[sc]
        /\ \A x : OnStack(x) => OnStack(x)'
    BY <1>3, PushedList
  <2>2. SilencedByRebuild' /\ \A s \in DOMAIN subs' : subs'[s].screen \in Screens'
    <3>1. \A s \in DOMAIN subs : subs[s].screen \in Screens
      BY DEF IInv, ScreensKnown
    <3>2. \A x : Mounted(x) => Mounted(x)'
      BY <1>3, <2>1 DEF Mounted
    <3> QED
      BY <1>3, <2>1, <3>1, <3>2, StaysSilent
  <2> QED
    BY <1>1, <2>1, <2>2 DEF IInv, ScreensKnown, StackSound
<1>4. ASSUME NEW c \in Classes, OpenList(c)
      PROVE  IInv'
  BY <1>3, <1>4 DEF OpenList
<1>5. ASSUME UNCHANGED <<class, stack, leaving>>, DOMAIN subs' = DOMAIN subs,
             \A s \in DOMAIN subs :
               /\ subs'[s].screen = subs[s].screen
               /\ subs'[s].ctx =>
                    /\ subs[s].ctx
                    /\ view[subs[s].screen] = "list" => view'[subs[s].screen] = "list"
      PROVE  IInv'
  <2>1. /\ StackSound'
        /\ Screens' = Screens
        /\ \A sc : Mounted(sc)' <=> Mounted(sc)
    BY <1>5, SameStack DEF Mounted
  <2>2. SilencedByRebuild' /\ \A s \in DOMAIN subs' : subs'[s].screen \in Screens'
    BY <1>5, <2>1, StaysSilent
  <2> QED
    BY <1>1, <2>1, <2>2 DEF IInv, ScreensKnown, StackSound
<1>6. ASSUME NEW c \in Classes, HandleMessage(c)
      PROVE  IInv'
  <2>1. UNCHANGED <<leaving, subs>>
    BY <1>6 DEF HandleMessage
  <2>2. CASE PushList(c)
    BY <1>3, <2>1, <2>2
  <2>3. CASE UNCHANGED <<class, stack, view, signins>>
    BY <1>5, <2>1, <2>3
  <2> QED
    BY <1>6, <2>2, <2>3 DEF HandleMessage
<1>7. ASSUME Edit
      PROVE  IInv'
  <2>1. PICK touched \in SUBSET {s \in DOMAIN subs : subs[s].attached} :
          subs' = [s \in DOMAIN subs |->
                     IF s \in touched
                       THEN [subs[s] EXCEPT !.pending = Append(@, version + 1)]
                       ELSE subs[s]]
    BY <1>7 DEF Edit
  <2>2. ASSUME NEW s \in DOMAIN subs
        PROVE  subs'[s].screen = subs[s].screen /\ subs'[s].ctx = subs[s].ctx
    BY <1>2, <2>1 DEF Subs
  <2>3. UNCHANGED <<class, stack, leaving, view>> /\ DOMAIN subs' = DOMAIN subs
    BY <1>7, <2>1 DEF Edit
  <2> QED
    BY <1>5, <2>2, <2>3
<1>8. ASSUME NEW sc \in Screens, NEW k \in Nat,
             UNCHANGED <<class, leaving, view>>,
             Len(stack') = Len(stack) + k,
             \A i \in DOMAIN stack : stack'[i] = stack[i],
             \A i \in (Len(stack) + 1)..(Len(stack) + k) :
               /\ stack'[i].screen = sc /\ ~IsList(stack'[i])
               /\ stack'[i].late <=> ~OnStack(sc),
             DOMAIN subs' = DOMAIN subs,
             \A s \in DOMAIN subs : subs'[s].screen = subs[s].screen /\ subs'[s].ctx = subs[s].ctx
      PROVE  IInv'
  <2>1. /\ StackSound'
        /\ Screens' = Screens
        /\ \A x : OnStack(x)' <=> OnStack(x)
    BY <1>1, <1>8, PushedPages DEF TypeOK
  <2>2. \A x : Mounted(x) => Mounted(x)'
    BY <1>8, <2>1 DEF Mounted
  <2>3. SilencedByRebuild' /\ \A s \in DOMAIN subs' : subs'[s].screen \in Screens'
    BY <1>8, <2>1, <2>2, StaysSilent
  <2> QED
    BY <1>1, <2>1, <2>3 DEF IInv, ScreensKnown, StackSound
<1>9. ASSUME NEW sc, Mounted(sc)
      PROVE  sc \in Screens /\ (sc \in leaving <=> ~OnStack(sc))
  BY <1>9 DEF Mounted, OnStack, IInv, ScreensKnown, RootsApart
<1>10. ASSUME TapTile
       PROVE  IInv'
  <2> DEFINE r == [Top EXCEPT !.kind = "image"]
  <2>1. stack # <<>> /\ ~IsList(Top) /\ UNCHANGED <<class, leaving, view, subs>>
        /\ stack' = Append(stack, r)
    BY <1>10 DEF TapTile, IsList
  <2>2. r \in Routes /\ r.screen = Top.screen /\ ~IsList(r) /\ r.late = Top.late
    BY <1>2, <2>1 DEF Top, Routes, RouteKinds, IsList
  <2> HIDE DEF r
  <2>3. /\ Len(stack') = Len(stack) + 1
        /\ \A i \in DOMAIN stack : stack'[i] = stack[i]
        /\ stack'[Len(stack) + 1] = r
    BY <1>1, <2>1, <2>2, AppendType
  <2>4. Top.screen \in Screens /\ (Top.late <=> ~OnStack(Top.screen))
    <3>1. Len(stack) \in DOMAIN stack /\ Top = stack[Len(stack)]
      BY <1>2, <2>1 DEF Top
    <3>2. OnStack(Top.screen) <=> \E j \in 1..(Len(stack) - 1) :
                                    IsList(stack[j]) /\ stack[j].screen = Top.screen
      <4>1. \A j \in DOMAIN stack : j \in 1..(Len(stack) - 1) \/ j = Len(stack)
        BY <1>2
      <4>2. \A j \in 1..(Len(stack) - 1) : j \in DOMAIN stack
        BY <1>2
      <4> QED
        BY <2>1, <3>1, <4>1, <4>2 DEF OnStack
    <3> QED
      BY <2>1, <3>1, <3>2 DEF IInv, OrphansAreLate, ScreensKnown
  <2>5. \A i \in (Len(stack) + 1)..(Len(stack) + 1) :
          /\ stack'[i].screen = Top.screen /\ ~IsList(stack'[i])
          /\ stack'[i].late <=> ~OnStack(Top.screen)
    BY <1>2, <2>2, <2>3, <2>4
  <2> QED
    BY <1>8, <2>1, <2>3, <2>4, <2>5
<1>11. ASSUME Press
       PROVE  IInv'
  <2>1. UNCHANGED <<class, stack, leaving, view, subs>>
    BY <1>11 DEF Press
  <2> QED
    BY <1>5, <2>1
<1>12. ASSUME Back
       PROVE  IInv'
  <2>1. StackSound' /\ \A x : Mounted(x) => Mounted(x)'
    BY <1>12, Popped
  <2>2. UNCHANGED <<class, view, subs>> /\ Screens' = Screens
    BY <1>12 DEF Back, Screens
  <2>3. SilencedByRebuild' /\ \A s \in DOMAIN subs' : subs'[s].screen \in Screens'
    BY <2>1, <2>2, StaysSilent
  <2> QED
    BY <1>1, <2>1, <2>3 DEF IInv, ScreensKnown, StackSound
<1>13. ASSUME NEW sc \in Screens, subs' = ItemsGone(sc),
              \A x \in Screens : x # sc => view'[x] = view[x],
              UNCHANGED <<class, stack>>,
              leaving' = leaving \/ leaving' = leaving \ {sc}
       PROVE  IInv'
  <2>1. /\ DOMAIN subs' = DOMAIN subs
        /\ \A s \in DOMAIN subs :
             /\ subs'[s].screen = subs[s].screen
             /\ subs'[s].ctx => subs[s].ctx /\ subs[s].screen # sc
    BY <1>1, <1>13, ItemsGoneType DEF TypeOK
  <2>2. /\ StackSound'
        /\ Screens' = Screens
        /\ \A x : x # sc => (Mounted(x) => Mounted(x)')
    BY <1>13, SameStack DEF Mounted
  <2>3. SilencedByRebuild' /\ \A s \in DOMAIN subs' : subs'[s].screen \in Screens'
    BY <1>13, <2>1, <2>2, StaysSilent DEF IInv, ScreensKnown
  <2> QED
    BY <1>1, <2>2, <2>3 DEF IInv, ScreensKnown, StackSound
<1>14. ASSUME NEW sc \in Screens, ListAnswers(sc)
       PROVE  IInv'
  <2>1. CASE ListLoaded(sc)
    <3>1. \A x \in Screens : view[x] = "list" => view'[x] = "list"
      BY <1>2, <2>1 DEF ListLoaded
    <3>2. UNCHANGED <<class, stack, leaving, subs>>
      BY <2>1 DEF ListLoaded
    <3> QED
      BY <1>5, <3>1, <3>2 DEF IInv, ScreensKnown
  <2>2. CASE ListFails(sc)
    BY <1>2, <1>13, <2>2 DEF ListFails
  <2> QED
    BY <1>14, <2>1, <2>2 DEF ListAnswers
<1>15. ASSUME NEW sc \in Screens, Frame(sc)
       PROVE  IInv'
  BY <1>2, <1>13, <1>15 DEF Frame
<1>16. ASSUME NEW sc \in Screens, Type(sc) \/ TapNotes(sc) \/ SignInFailed(sc)
       PROVE  IInv'
  <2>1. UNCHANGED <<class, stack, leaving, view, subs>>
    BY <1>16 DEF Type, TapNotes, SignInFailed
  <2> QED
    BY <1>5, <2>1
<1>17. ASSUME NEW sc \in Screens, SignedIn(sc)
       PROVE  IInv'
  <2> DEFINE r == [kind |-> "notes", screen |-> sc, sub |-> 0, version |-> 0,
                   late |-> sc \in leaving]
  <2>1. UNCHANGED <<class, leaving, view, subs>>
    BY <1>17 DEF SignedIn
  <2>2. CASE ~Mounted(sc)
    BY <1>5, <1>17, <2>1, <2>2 DEF SignedIn
  <2>3. CASE Mounted(sc)
    <3>1. stack' = Append(stack, r)
      BY <1>17, <2>3 DEF SignedIn
    <3>0. r \in Routes /\ r.screen = sc /\ ~IsList(r) /\ r.late = (sc \in leaving)
      BY <1>1, TypeFacts DEF Routes, IsList
    <3> HIDE DEF r
    <3>2. r \in Routes /\ r.screen = sc /\ ~IsList(r) /\ (r.late <=> ~OnStack(sc))
      BY <1>9, <2>3, <3>0
    <3>3. /\ Len(stack') = Len(stack) + 1
          /\ \A i \in DOMAIN stack : stack'[i] = stack[i]
          /\ stack'[Len(stack) + 1] = r
      BY <1>1, <3>1, <3>2, AppendType
    <3>4. \A i \in (Len(stack) + 1)..(Len(stack) + 1) :
            /\ stack'[i].screen = sc /\ ~IsList(stack'[i])
            /\ stack'[i].late <=> ~OnStack(sc)
      BY <1>2, <3>2, <3>3
    <3> QED
      BY <1>8, <2>1, <3>3, <3>4
  <2> QED
    BY <2>2, <2>3
<1>18. ASSUME NEW sc \in Screens, NEW b \in Buttons(class[sc]), Tap(sc, b)
       PROVE  IInv'
  <2> DEFINE new == [screen |-> sc, button |-> b, ctx |-> TRUE,
                     attached |-> FALSE, pending |-> <<>>]
  <2>1. /\ UNCHANGED <<class, stack, leaving, view>> /\ subs' = Append(subs, new)
        /\ Showing(sc) /\ view[sc] = "list"
    BY <1>18 DEF Tap
  <2>2. /\ StackSound'
        /\ Screens' = Screens
        /\ \A x : Mounted(x)' <=> Mounted(x)
    BY <2>1, SameStack DEF Mounted
  <2>3. Mounted(sc)
    BY <1>2, <2>1 DEF Showing, Mounted, OnStack, Top
  <2>4. /\ DOMAIN subs' = 1..(Len(subs) + 1)
        /\ \A s \in DOMAIN subs : subs'[s] = subs[s]
        /\ subs'[Len(subs) + 1] = new
    <3>1. subs' \in Seq(Subs) /\ Len(subs') = Len(subs) + 1
      BY <1>1, <1>2, <2>1 DEF TypeOK
    <3> QED
      BY <1>2, <2>1, <3>1, LenProperties
  <2>5. ASSUME NEW s \in DOMAIN subs'
        PROVE  /\ subs'[s].ctx => Mounted(subs[s].screen)' /\ view'[subs'[s].screen] = "list"
               /\ subs'[s].screen \in Screens'
    <3>1. CASE s \in DOMAIN subs
      BY <2>1, <2>2, <2>4, <3>1 DEF IInv, SilencedByRebuild, ScreensKnown
    <3>2. CASE s = Len(subs) + 1
      BY <2>1, <2>2, <2>3, <2>4, <3>2
    <3> QED
      BY <1>2, <2>4, <3>1, <3>2
  <2> QED
    BY <1>1, <2>1, <2>2, <2>5 DEF IInv, ScreensKnown, StackSound, SilencedByRebuild
<1>19. ASSUME NEW s \in DOMAIN subs, ItemGone(s)
       PROVE  IInv'
  <2>1. UNCHANGED <<class, stack, leaving, view>> /\ DOMAIN subs' = DOMAIN subs
    BY <1>19 DEF ItemGone
  <2>2. \A t \in DOMAIN subs : subs'[t].screen = subs[t].screen /\ (subs'[t].ctx => subs[t].ctx)
    BY <1>2, <1>19 DEF ItemGone, Subs
  <2> QED
    BY <1>5, <2>1, <2>2
<1>20. ASSUME NEW s \in DOMAIN subs, Attach(s)
       PROVE  IInv'
  <2>1. UNCHANGED <<class, stack, leaving, view>> /\ DOMAIN subs' = DOMAIN subs
        /\ subs' = [subs EXCEPT ![s] = [subs[s] EXCEPT !.attached = TRUE, !.pending = <<version>>]]
    BY <1>20 DEF Attach
  <2>2. \A t \in DOMAIN subs : subs'[t].screen = subs[t].screen /\ subs'[t].ctx = subs[t].ctx
    BY <1>2, <2>1 DEF Subs
  <2> QED
    BY <1>5, <2>1, <2>2
<1>21. ASSUME NEW s \in DOMAIN subs, Deliver(s)
       PROVE  IInv'
  <2> DEFINE sc == subs[s].screen
  <2>1. PICK dials \in BOOLEAN, k \in 0..MaxDocs :
          \E shown \in [1..k -> Opening(ClassOf(s), subs[s].button)] :
            OnSnapshot(s, shown, dials) /\ subs[s].pending # <<>>
    BY <1>21, DeliverIsOnSnapshot
  <2>2. PICK shown \in [1..k -> Opening(ClassOf(s), subs[s].button)] :
          OnSnapshot(s, shown, dials) /\ subs[s].pending # <<>>
    BY <2>1
  <2>3. UNCHANGED <<class, leaving, view>> /\ DOMAIN subs' = DOMAIN subs
        /\ \A t \in DOMAIN subs : subs'[t].screen = subs[t].screen /\ subs'[t].ctx = subs[t].ctx
    BY <1>2, <2>2 DEF OnSnapshot, Subs
  <2>4. CASE CanPush(s)
    <3>1. Mounted(sc)
      BY <2>4 DEF CanPush, IInv, SilencedByRebuild
    <3>2. k \in Nat
      BY BoundsAssumption
    <3>3. stack' = stack \o Pages(s, shown)
      BY <2>2, <2>4 DEF OnSnapshot
    <3>4. /\ Len(stack') = Len(stack) + k
          /\ \A i \in DOMAIN stack : stack'[i] = stack[i]
          /\ \A i \in (Len(stack) + 1)..(Len(stack) + k) :
               /\ stack'[i].screen = sc /\ stack'[i].kind \in RouteKinds
               /\ stack'[i].late = (sc \in leaving)
      BY <1>1, <2>2, <3>2, <3>3, SnapshotPages
    <3>5. \A i \in (Len(stack) + 1)..(Len(stack) + k) :
            /\ stack'[i].screen = sc /\ ~IsList(stack'[i])
            /\ stack'[i].late <=> ~OnStack(sc)
      BY <1>9, <3>1, <3>4 DEF RouteKinds, IsList
    <3> QED
      BY <1>8, <1>9, <2>3, <3>1, <3>2, <3>4, <3>5
  <2>5. CASE ~CanPush(s)
    <3>1. UNCHANGED stack
      BY <2>2, <2>5 DEF OnSnapshot
    <3> QED
      BY <1>5, <2>3, <3>1
  <2> QED
    BY <2>4, <2>5
<1>22. ASSUME NEW sc \in Screens, Disposed(sc)
       PROVE  IInv'
  BY <1>2, <1>13, <1>22 DEF Disposed
<1>23. CASE UNCHANGED vars
  BY <1>5, <1>23 DEF vars
<1> QED
  BY <1>4, <1>6, <1>7, <1>10, <1>11, <1>12, <1>14, <1>15, <1>16, <1>17, <1>18,
     <1>19, <1>20, <1>21, <1>22, <1>23 DEF Next

LEMMA InitSafe == Init => IInv
<1> SUFFICES ASSUME Init
             PROVE  IInv
  OBVIOUS
<1>1. TypeOK
  BY InitTypes
<1>2. DOMAIN stack = {} /\ DOMAIN subs = {} /\ leaving = {}
  BY EmptySeq DEF Init
<1>3. OrphansAreLate /\ RootsApart /\ SilencedByRebuild /\ ScreensKnown
  BY <1>2 DEF OrphansAreLate, RootsApart, SilencedByRebuild, ScreensKnown
<1> QED
  BY <1>1, <1>3 DEF IInv

LEMMA AlwaysSafe == Spec => []IInv
<1>1. Init => IInv
  BY InitSafe
<1>2. IInv /\ [Next]_vars => IInv'
  BY SafetyStep
<1> QED
  BY <1>1, <1>2, PTL DEF Spec

(* Whatever is tapped, edited, typed or answered, in any order, the pages, *)
(* dialogs and forms that stand without their screen below them are        *)
(* exactly those that were pushed during that screen's exit transition.    *)
THEOREM OnlyLateOrphans == Spec => []OrphansAreLate
<1>1. IInv => OrphansAreLate
  BY DEF IInv
<1> QED
  BY <1>1, AlwaysSafe, PTL

(* A rebuilt, failed or closed list silences its items' listeners.         *)
THEOREM Silenced == Spec => []SilencedByRebuild
<1>1. IInv => SilencedByRebuild
  BY DEF IInv
<1> QED
  BY <1>1, AlwaysSafe, PTL

-----------------------------------------------------------------------------
(* The order of what one listener opens.  The snapshots it has yet to see  *)
(* come in the order of the changes, none of them older than a page that   *)
(* it has opened or newer than the documents.                              *)
PendingAscend ==
  \A s \in DOMAIN subs : \A a \in 1..Len(subs[s].pending) :
    /\ subs[s].pending[a] <= version
    /\ \A b \in 1..a : subs[s].pending[b] <= subs[s].pending[a]

PagesSeen ==
  \A i \in DOMAIN stack :
    /\ stack[i].version <= version
    /\ stack[i].sub = 0 => stack[i].version = 0
    /\ \A s \in DOMAIN subs : stack[i].sub = s =>
         \A a \in 1..Len(subs[s].pending) : stack[i].version <= subs[s].pending[a]

Ordered == TypeOK /\ PendingAscend /\ PagesSeen /\ NewestOnTop

(* The numbers behind these conjuncts.                                     *)
LEMMA Numbers ==
  ASSUME TypeOK
  PROVE  /\ version \in Nat
         /\ \A i \in DOMAIN stack : stack[i].sub \in Nat /\ stack[i].version \in Nat
         /\ \A s \in DOMAIN subs :
              /\ s \in Nat /\ s # 0
              /\ subs[s].pending \in Seq(Nat)
              /\ Len(subs[s].pending) \in Nat
              /\ \A a \in 1..Len(subs[s].pending) : subs[s].pending[a] \in Nat
<1>1. ASSUME NEW i \in DOMAIN stack
      PROVE  stack[i].sub \in Nat /\ stack[i].version \in Nat
  BY <1>1, TypeFacts DEF Routes
<1>2. ASSUME NEW s \in DOMAIN subs
      PROVE  /\ s \in Nat /\ s # 0
             /\ subs[s].pending \in Seq(Nat)
             /\ Len(subs[s].pending) \in Nat
             /\ \A a \in 1..Len(subs[s].pending) : subs[s].pending[a] \in Nat
  <2>1. subs[s] \in Subs /\ s \in Nat /\ s # 0
    BY <1>2, TypeFacts
  <2>2. subs[s].pending \in Seq(Nat)
    BY <2>1 DEF Subs
  <2> QED
    BY <2>1, <2>2, LenProperties, ElementOfSeq
<1> QED
  BY <1>1, <1>2 DEF TypeOK

(* A step that touches neither the documents nor what listeners wait for   *)
(* and pushes nothing, or only routes that no listener opened.             *)
LEMMA NothingShown ==
  ASSUME Ordered, TypeOK', UNCHANGED version,
         \A s \in DOMAIN subs' :
           IF s \in DOMAIN subs THEN subs'[s].pending = subs[s].pending
           ELSE subs'[s].pending = <<>>,
         \A i \in DOMAIN stack' :
           \/ i \in DOMAIN stack /\ stack'[i] = stack[i]
           \/ stack'[i].sub = 0 /\ stack'[i].version = 0
  PROVE  Ordered'
<1>1. /\ Len(<<>>) = 0
      /\ version \in Nat
      /\ \A s \in DOMAIN subs' : s # 0
  BY Numbers DEF Ordered, TypeOK
<1>2. PendingAscend'
  BY <1>1 DEF Ordered, PendingAscend
<1>3. PagesSeen'
  BY <1>1 DEF Ordered, PagesSeen
<1>4. NewestOnTop'
  <2> SUFFICES ASSUME NEW i \in DOMAIN stack', NEW j \in DOMAIN stack', i < j,
                      stack'[i].sub = stack'[j].sub
               PROVE  stack'[i].version <= stack'[j].version
    BY DEF NewestOnTop
  <2>1. CASE stack'[i].sub = 0
    <3>1. stack'[i].version = 0 /\ stack'[j].version = 0
      BY <2>1 DEF Ordered, PagesSeen
    <3> QED
      BY <3>1
  <2>2. CASE stack'[i].sub # 0
    BY <2>2 DEF Ordered, NewestOnTop
  <2> QED
    BY <2>1, <2>2
<1> QED
  BY <1>2, <1>3, <1>4 DEF Ordered

(* What a listener pushes carries its number and the version of the        *)
(* snapshot.                                                               *)
LEMMA PagesOfListener ==
  ASSUME TypeOK, NEW s \in DOMAIN subs, subs[s].pending # <<>>,
         NEW k \in Nat, NEW shown \in [1..k -> Opening(ClassOf(s), subs[s].button)],
         stack' = stack \o Pages(s, shown)
  PROVE  \A i \in DOMAIN stack' :
           \/ i \in DOMAIN stack /\ stack'[i] = stack[i]
           \/ /\ i \notin DOMAIN stack
              /\ stack'[i].sub = s /\ stack'[i].version = Head(subs[s].pending)
<1> DEFINE pages == Pages(s, shown)
<1>1. Len(stack) \in Nat /\ DOMAIN stack = 1..Len(stack) /\ subs[s] \in Subs /\ s \in Nat
  BY TypeFacts
<1>2. Head(subs[s].pending) \in Nat
  BY Numbers, HeadTailProperties
<1>3. ASSUME NEW i \in 1..k
      PROVE  /\ pages[i] \in Routes
             /\ pages[i].sub = s /\ pages[i].version = Head(subs[s].pending)
  <2>1. Effect(ClassOf(s), subs[s].button, shown[i]) \in RouteKinds
    BY OpeningKinds
  <2> QED
    BY <1>1, <1>2, <2>1 DEF Routes, Subs, Pages, Page
<1>4. pages \in [1..k -> Routes]
  BY <1>3 DEF Pages
<1> HIDE DEF pages
<1>5. pages \in Seq(Routes) /\ Len(pages) = k
  BY <1>4, FunctionIsSeq
<1>6. stack' = stack \o pages
  BY DEF pages
<1>7. /\ stack' \in Seq(Routes)
      /\ Len(stack') = Len(stack) + k
      /\ \A i \in 1..(Len(stack) + k) :
           stack'[i] = IF i <= Len(stack) THEN stack[i] ELSE pages[i - Len(stack)]
  <2>1. stack \in Seq(Routes)
    BY DEF TypeOK
  <2> QED
    BY <1>5, <1>6, <2>1, ConcatProperties
<1>8. DOMAIN stack' = 1..(Len(stack) + k)
  BY <1>7, LenProperties
<1> QED
  BY <1>1, <1>3, <1>7, <1>8

(* A listener works through a snapshot: its pages are no older than those  *)
(* it opened before and no newer than what it has yet to see.              *)
LEMMA DeliverOrders ==
  ASSUME Ordered, TypeOK', NEW s \in DOMAIN subs, Deliver(s)
  PROVE  Ordered'
<1> DEFINE now == Head(subs[s].pending)
           rest == Tail(subs[s].pending)
<1>1. PICK dials \in BOOLEAN, k \in 0..MaxDocs :
        \E shown \in [1..k -> Opening(ClassOf(s), subs[s].button)] :
          OnSnapshot(s, shown, dials) /\ subs[s].pending # <<>>
  BY DeliverIsOnSnapshot
<1>2. PICK shown \in [1..k -> Opening(ClassOf(s), subs[s].button)] :
        OnSnapshot(s, shown, dials) /\ subs[s].pending # <<>>
  BY <1>1
<1>3. /\ subs' = [subs EXCEPT ![s].pending = rest] /\ UNCHANGED version
      /\ stack' = IF CanPush(s) THEN stack \o Pages(s, shown) ELSE stack
  BY <1>2 DEF OnSnapshot
<1>4. /\ subs[s].pending \in Seq(Nat) /\ Len(subs[s].pending) \in Nat
      /\ version \in Nat
      /\ \A x \in DOMAIN subs : x # 0 /\ Len(subs[x].pending) \in Nat
      /\ \A i \in DOMAIN stack : stack[i].version \in Nat /\ i \in Nat
  BY Numbers, TypeFacts DEF Ordered
<1>5. /\ now = subs[s].pending[1] /\ 1 \in 1..Len(subs[s].pending)
      /\ Len(rest) = Len(subs[s].pending) - 1
      /\ \A a \in 1..Len(rest) : rest[a] = subs[s].pending[a + 1]
  BY <1>2, <1>4, HeadTailProperties, EmptySeq
<1>6. \A i \in DOMAIN stack' :
        \/ i \in DOMAIN stack /\ stack'[i] = stack[i]
        \/ i \notin DOMAIN stack /\ stack'[i].sub = s /\ stack'[i].version = now
  <2>1. CASE CanPush(s)
    <3>1. k \in Nat /\ stack' = stack \o Pages(s, shown)
      BY <1>3, <2>1, BoundsAssumption
    <3> QED
      BY <1>2, <3>1, PagesOfListener DEF Ordered
  <2>2. CASE ~CanPush(s)
    BY <1>3, <2>2
  <2> QED
    BY <2>1, <2>2
<1>7. DOMAIN subs' = DOMAIN subs
      /\ \A x \in DOMAIN subs : subs'[x].pending = IF x = s THEN rest ELSE subs[x].pending
  <2>1. \A x \in DOMAIN subs : subs[x] \in Subs
    BY TypeFacts DEF Ordered
  <2> QED
    BY <1>3, <2>1 DEF Subs
<1> HIDE DEF now, rest
<1>8. ASSUME NEW a \in 1..Len(rest)
      PROVE  a + 1 \in 1..Len(subs[s].pending) /\ now <= rest[a] /\ rest[a] <= version
  <2>1. a + 1 \in 1..Len(subs[s].pending) /\ 1 \in 1..(a + 1)
    BY <1>4, <1>5, <1>8
  <2> QED
    BY <1>5, <2>1, <1>8 DEF Ordered, PendingAscend
<1>9. PendingAscend'
  <2>1. ASSUME NEW a \in 1..Len(rest), NEW b \in 1..a
        PROVE  rest[b] <= rest[a]
    <3>1. b \in 1..Len(rest) /\ b + 1 \in 1..(a + 1) /\ a + 1 \in 1..Len(subs[s].pending)
      BY <1>4, <1>5, <1>8, <2>1
    <3> QED
      BY <1>5, <3>1 DEF Ordered, PendingAscend
  <2>2. PendingAscend /\ version' = version
    BY <1>3 DEF Ordered
  <2>3. ASSUME NEW x \in DOMAIN subs, NEW a \in 1..Len(subs'[x].pending)
        PROVE  /\ subs'[x].pending[a] <= version
               /\ \A b \in 1..a : subs'[x].pending[b] <= subs'[x].pending[a]
    <3>1. CASE x = s
      <4>1. subs'[x].pending = rest
        BY <1>7, <3>1
      <4> QED
        BY <1>8, <2>1, <2>3, <4>1
    <3>2. CASE x # s
      <4>1. subs'[x].pending = subs[x].pending
        BY <1>7, <3>2
      <4> QED
        BY <2>2, <2>3, <4>1 DEF PendingAscend
    <3> QED
      BY <3>1, <3>2
  <2> QED
    BY <1>7, <2>2, <2>3 DEF PendingAscend
<1>10. now <= version /\ now \in Nat
  BY <1>4, <1>5, Numbers DEF Ordered, PendingAscend
<1>11. PagesSeen'
  <2> SUFFICES ASSUME NEW i \in DOMAIN stack'
               PROVE  /\ stack'[i].version <= version
                      /\ stack'[i].sub = 0 => stack'[i].version = 0
                      /\ \A x \in DOMAIN subs : stack'[i].sub = x =>
                           \A a \in 1..Len(subs'[x].pending) :
                             stack'[i].version <= subs'[x].pending[a]
    <3>1. version' = version /\ DOMAIN subs' = DOMAIN subs
      BY <1>3, <1>7
    <3> QED
      BY <3>1, Zenon DEF PagesSeen
  <2>1. CASE i \in DOMAIN stack /\ stack'[i] = stack[i]
    <3>1. /\ stack[i].version <= version
          /\ stack[i].sub = 0 => stack[i].version = 0
      BY <2>1 DEF Ordered, PagesSeen
    <3>2. ASSUME NEW x \in DOMAIN subs, stack[i].sub = x, NEW a \in 1..Len(subs'[x].pending)
          PROVE  stack[i].version <= subs'[x].pending[a]
      <4>1. CASE x = s
        <5>1. a \in 1..Len(rest) /\ subs'[x].pending[a] = subs[s].pending[a + 1]
          BY <1>5, <1>7, <3>2, <4>1
        <5> QED
          BY <1>8, <2>1, <3>2, <4>1, <5>1 DEF Ordered, PagesSeen
      <4>2. CASE x # s
        BY <1>7, <2>1, <3>2, <4>2 DEF Ordered, PagesSeen
      <4> QED
        BY <4>1, <4>2
    <3> QED
      BY <2>1, <3>1, <3>2
  <2>2. CASE stack'[i].sub = s /\ stack'[i].version = now
    BY <1>4, <1>7, <1>8, <1>10, <2>2
  <2> QED
    BY <1>6, <2>1, <2>2
<1>12. NewestOnTop'
  <2> SUFFICES ASSUME NEW i \in DOMAIN stack', NEW j \in DOMAIN stack', i < j,
                      stack'[i].sub = stack'[j].sub
               PROVE  stack'[i].version <= stack'[j].version
    BY DEF NewestOnTop
  <2>1. CASE j \in DOMAIN stack /\ stack'[j] = stack[j]
    <3>1. i \in DOMAIN stack /\ stack'[i] = stack[i]
      <4>1. Len(stack) \in Nat /\ DOMAIN stack = 1..Len(stack) /\ Len(stack') \in Nat /\ DOMAIN stack' = 1..Len(stack')
        BY TypeFacts, LenProperties DEF Ordered, TypeOK
      <4> QED
        BY <1>6, <2>1, <4>1
    <3> QED
      BY <2>1, <3>1 DEF Ordered, NewestOnTop
  <2>2. CASE stack'[j].sub = s /\ stack'[j].version = now
    <3>1. CASE i \in DOMAIN stack /\ stack'[i] = stack[i]
      BY <1>5, <2>2, <3>1 DEF Ordered, PagesSeen
    <3>2. CASE stack'[i].version = now
      BY <1>10, <2>2, <3>2
    <3> QED
      BY <1>6, <3>1, <3>2
  <2> QED
    BY <1>6, <2>1, <2>2
<1> QED
  BY <1>9, <1>11, <1>12 DEF Ordered

(* Every step keeps the order.                                             *)
LEMMA OrderStep ==
  ASSUME Ordered, [Next]_vars
  PROVE  Ordered'
<1>1. TypeOK /\ TypeOK'
  BY TypeStep DEF Ordered
<1>2. /\ Len(stack) \in Nat /\ DOMAIN stack = 1..Len(stack)
      /\ Len(subs) \in Nat /\ DOMAIN subs = 1..Len(subs)
      /\ \A s \in DOMAIN subs : subs[s] \in Subs
      /\ stack # <<>> => Len(stack) \in DOMAIN stack
  BY <1>1, TypeFacts
<1>3. ASSUME NEW sc, subs' = ItemsGone(sc)
      PROVE  DOMAIN subs' = DOMAIN subs
             /\ \A s \in DOMAIN subs : subs'[s].pending = subs[s].pending
  BY <1>2, <1>3 DEF ItemsGone, Subs
<1>4. ASSUME NEW c \in Classes, PushList(c)
      PROVE  \A i \in DOMAIN stack' :
               \/ i \in DOMAIN stack /\ stack'[i] = stack[i]
               \/ stack'[i].sub = 0 /\ stack'[i].version = 0
  <2>1. /\ DOMAIN stack' = 1..(Len(stack) + 1)
        /\ \A i \in DOMAIN stack : stack'[i] = stack[i]
        /\ stack'[Len(stack) + 1] = ListRoute(Len(class) + 1)
    BY <1>1, <1>4, PushListType
  <2> QED
    BY <1>2, <2>1 DEF ListRoute
<1>5. ASSUME NEW c \in Classes, OpenList(c) \/ HandleMessage(c)
      PROVE  Ordered'
  <2>1. UNCHANGED <<subs, version>> /\ (PushList(c) \/ UNCHANGED stack)
    BY <1>5 DEF OpenList, HandleMessage
  <2> QED
    BY <1>1, <1>4, <2>1, NothingShown
<1>6. ASSUME Edit
      PROVE  Ordered'
  <2>1. PICK touched \in SUBSET {s \in DOMAIN subs : subs[s].attached} :
          subs' = [s \in DOMAIN subs |->
                     IF s \in touched
                       THEN [subs[s] EXCEPT !.pending = Append(@, version + 1)]
                       ELSE subs[s]]
    BY <1>6 DEF Edit
  <2>2. UNCHANGED stack /\ version' = version + 1
    BY <1>6 DEF Edit
  <2>3. ASSUME NEW s \in DOMAIN subs
        PROVE  /\ subs[s].pending \in Seq(Nat) /\ Len(subs[s].pending) \in Nat
               /\ \/ subs'[s].pending = subs[s].pending
                  \/ /\ Len(subs'[s].pending) = Len(subs[s].pending) + 1
                     /\ subs'[s].pending[Len(subs[s].pending) + 1] = version + 1
                     /\ \A a \in 1..Len(subs[s].pending) :
                          subs'[s].pending[a] = subs[s].pending[a]
    <3>1. subs[s] \in Subs /\ subs[s].pending \in Seq(Nat) /\ Len(subs[s].pending) \in Nat
      BY <1>1, <1>2, Numbers
    <3>2. subs'[s].pending = IF s \in touched THEN Append(subs[s].pending, version + 1)
                             ELSE subs[s].pending
      BY <2>1, <3>1 DEF Subs
    <3> QED
      BY <1>1, <3>1, <3>2, AppendProperties DEF TypeOK
  <2>4. DOMAIN subs' = DOMAIN subs
    BY <2>1
  <2>5. /\ version \in Nat
        /\ \A i \in DOMAIN stack : stack[i].version \in Nat
        /\ \A s \in DOMAIN subs : \A a \in 1..Len(subs[s].pending) : subs[s].pending[a] \in Nat
    BY <1>1, Numbers
  <2>6. PendingAscend'
    <3> SUFFICES ASSUME NEW s \in DOMAIN subs, NEW a \in 1..Len(subs'[s].pending)
                 PROVE  /\ subs'[s].pending[a] <= version + 1
                        /\ \A b \in 1..a : subs'[s].pending[b] <= subs'[s].pending[a]
      BY <2>2, <2>4 DEF PendingAscend
    <3>1. CASE a \in 1..Len(subs[s].pending)
      <4>1. \A b \in 1..a : b \in 1..Len(subs[s].pending) /\ subs'[s].pending[b] = subs[s].pending[b]
        BY <2>3, <3>1
      <4>2. subs'[s].pending[a] = subs[s].pending[a]
        BY <2>3, <3>1
      <4> QED
        BY <2>5, <3>1, <4>1, <4>2 DEF Ordered, PendingAscend
    <3>2. CASE a = Len(subs[s].pending) + 1 /\ subs'[s].pending[a] = version + 1
      <4>1. ASSUME NEW b \in 1..a
            PROVE  subs'[s].pending[b] <= version + 1
        <5>1. CASE b \in 1..Len(subs[s].pending)
          <6>1. subs'[s].pending[b] = subs[s].pending[b]
            BY <2>3, <5>1
          <6> QED
            BY <2>5, <5>1, <6>1 DEF Ordered, PendingAscend
        <5>2. CASE b = a
          BY <2>5, <3>2, <5>2
        <5> QED
          BY <2>3, <3>2, <4>1, <5>1, <5>2
      <4> QED
        BY <2>5, <3>2, <4>1
    <3> QED
      BY <2>3, <3>1, <3>2
  <2>7. PagesSeen'
    <3> SUFFICES ASSUME NEW i \in DOMAIN stack
                 PROVE  /\ stack[i].version <= version + 1
                        /\ stack[i].sub = 0 => stack[i].version = 0
                        /\ \A s \in DOMAIN subs : stack[i].sub = s =>
                             \A a \in 1..Len(subs'[s].pending) :
                               stack[i].version <= subs'[s].pending[a]
      BY <2>2, <2>4 DEF PagesSeen
    <3>1. stack[i].version <= version
      BY DEF Ordered, PagesSeen
    <3>2. ASSUME NEW s \in DOMAIN subs, stack[i].sub = s, NEW a \in 1..Len(subs'[s].pending)
          PROVE  stack[i].version <= subs'[s].pending[a]
      <4>1. CASE a \in 1..Len(subs[s].pending)
        <5>1. subs'[s].pending[a] = subs[s].pending[a]
          BY <2>3, <4>1
        <5> QED
          BY <3>2, <4>1, <5>1 DEF Ordered, PagesSeen
      <4>2. CASE subs'[s].pending[a] = version + 1
        BY <2>5, <3>1, <4>2
      <4> QED
        BY <2>3, <3>2, <4>1, <4>2
    <3> QED
      BY <2>5, <3>1, <3>2 DEF Ordered, PagesSeen
  <2>8. NewestOnTop'
    BY <2>2 DEF Ordered, NewestOnTop
  <2> QED
    BY <1>1, <2>6, <2>7, <2>8 DEF Ordered
<1>7. ASSUME TapTile
      PROVE  Ordered'
  <2>1. /\ stack # <<>> /\ stack' = Append(stack, [Top EXCEPT !.kind = "image"])
        /\ UNCHANGED <<subs, version>>
    BY <1>7 DEF TapTile
  <2>2. Top = stack[Len(stack)] /\ Len(stack) \in DOMAIN stack /\ Top \in Routes
    BY <1>1, <2>1, TypeFacts DEF Top
  <2>3. [Top EXCEPT !.kind = "image"] \in Routes
    BY <2>2 DEF Routes, RouteKinds
  <2>4. /\ DOMAIN stack' = 1..(Len(stack) + 1)
        /\ \A i \in DOMAIN stack : stack'[i] = stack[i]
        /\ stack'[Len(stack) + 1].sub = stack[Len(stack)].sub
        /\ stack'[Len(stack) + 1].version = stack[Len(stack)].version
    BY <1>1, <2>1, <2>2, <2>3, AppendType DEF Routes
  <2>5. PendingAscend'
    BY <2>1 DEF Ordered, PendingAscend
  <2>6. \A i \in DOMAIN stack' : \E j \in DOMAIN stack :
          /\ stack'[i].sub = stack[j].sub /\ stack'[i].version = stack[j].version
          /\ j = IF i = Len(stack) + 1 THEN Len(stack) ELSE i
    BY <1>2, <2>2, <2>4
  <2>7. PagesSeen'
    BY <2>1, <2>6 DEF Ordered, PagesSeen
  <2>8. NewestOnTop'
    <3> SUFFICES ASSUME NEW i \in DOMAIN stack', NEW j \in DOMAIN stack', i < j,
                        stack'[i].sub = stack'[j].sub
                 PROVE  stack'[i].version <= stack'[j].version
      BY DEF NewestOnTop
    <3>1. i \in DOMAIN stack /\ stack'[i] = stack[i] /\ i \in Nat /\ j \in Nat
      BY <1>2, <2>4
    <3>2. CASE j \in DOMAIN stack
      BY <2>4, <3>1, <3>2 DEF Ordered, NewestOnTop
    <3>3. CASE j = Len(stack) + 1 /\ i < Len(stack)
      BY <2>2, <2>4, <3>1, <3>3 DEF Ordered, NewestOnTop
    <3>4. CASE j = Len(stack) + 1 /\ i = Len(stack)
      BY <1>1, <2>4, <3>1, <3>4, Numbers
    <3> QED
      BY <1>2, <2>4, <3>1, <3>2, <3>3, <3>4
  <2> QED
    BY <1>1, <2>5, <2>7, <2>8 DEF Ordered
<1>8. ASSUME Back
      PROVE  Ordered'
  <2>1. /\ stack # <<>> /\ UNCHANGED <<version, subs>>
        /\ stack' = SubSeq(stack, 1, Len(stack) - 1)
    BY <1>8 DEF Back
  <2>2. \A i \in DOMAIN stack' : i \in DOMAIN stack /\ stack'[i] = stack[i]
    BY <1>1, <2>1, PopType
  <2> QED
    BY <1>1, <2>1, <2>2, NothingShown
<1>9. ASSUME NEW sc \in Screens, ListAnswers(sc) \/ Frame(sc) \/ Disposed(sc)
      PROVE  Ordered'
  <2>1. UNCHANGED <<stack, version>> /\ (subs' = ItemsGone(sc) \/ UNCHANGED subs)
    BY <1>9 DEF ListAnswers, ListLoaded, ListFails, Frame, Disposed
  <2> QED
    BY <1>1, <1>3, <2>1, NothingShown
<1>10. ASSUME Press \/ \E sc \in Screens : Type(sc) \/ TapNotes(sc) \/ SignInFailed(sc)
       PROVE  Ordered'
  <2>1. UNCHANGED <<stack, version, subs>>
    BY <1>10 DEF Press, Type, TapNotes, SignInFailed
  <2> QED
    BY <1>1, <2>1, NothingShown
<1>11. ASSUME NEW sc \in Screens, SignedIn(sc)
       PROVE  Ordered'
  <2> DEFINE form == [kind |-> "notes", screen |-> sc, sub |-> 0, version |-> 0,
                      late |-> sc \in leaving]
  <2>1. /\ UNCHANGED <<version, subs>>
        /\ stack' = Append(stack, form) \/ UNCHANGED stack
    BY <1>11 DEF SignedIn
  <2>2. form \in Routes
    BY <1>1, TypeFacts DEF Routes
  <2>3. \A i \in DOMAIN stack' : \/ i \in DOMAIN stack /\ stack'[i] = stack[i]
                                 \/ stack'[i].sub = 0 /\ stack'[i].version = 0
    <3>1. CASE stack' = Append(stack, form)
      BY <1>1, <1>2, <2>2, <3>1, AppendType
    <3> QED
      BY <2>1, <3>1
  <2> QED
    BY <1>1, <2>1, <2>3, NothingShown
<1>12. ASSUME NEW sc \in Screens, NEW b \in Buttons(class[sc]), Tap(sc, b)
       PROVE  Ordered'
  <2> DEFINE new == [screen |-> sc, button |-> b, ctx |-> TRUE,
                     attached |-> FALSE, pending |-> <<>>]
  <2>1. UNCHANGED <<stack, version>> /\ subs' = Append(subs, new)
    BY <1>12 DEF Tap
  <2>2. b \in UNION {Buttons(c) : c \in Classes} /\ sc \in Nat
    BY <1>1, TypeFacts
  <2>3. new \in Subs
    BY <2>2, EmptySeq DEF Subs
  <2>4. /\ Len(subs') = Len(subs) + 1 /\ subs' \in Seq(Subs)
        /\ \A s \in 1..Len(subs) : subs'[s] = subs[s]
        /\ subs'[Len(subs) + 1] = new
    BY <1>1, <2>1, <2>3, AppendProperties DEF TypeOK
  <2>5. DOMAIN subs' = 1..(Len(subs) + 1)
    BY <2>4, LenProperties
  <2> QED
    BY <1>1, <1>2, <2>1, <2>4, <2>5, NothingShown
<1>13. ASSUME NEW s \in DOMAIN subs, ItemGone(s)
       PROVE  Ordered'
  <2>1. /\ UNCHANGED <<stack, version>> /\ DOMAIN subs' = DOMAIN subs
        /\ \A x \in DOMAIN subs : subs'[x].pending = subs[x].pending
    BY <1>2, <1>13 DEF ItemGone, Subs
  <2> QED
    BY <1>1, <2>1, NothingShown
<1>14. ASSUME NEW s \in DOMAIN subs, Attach(s)
       PROVE  Ordered'
  <2>1. /\ UNCHANGED <<stack, version>> /\ DOMAIN subs' = DOMAIN subs
        /\ \A x \in DOMAIN subs : subs'[x].pending = IF x = s THEN << version >> ELSE subs[x].pending
    BY <1>2, <1>14 DEF Attach, Subs
  <2>2. version \in Nat /\ Len(<< version >>) = 1 /\ << version >>[1] = version
    BY <1>1 DEF TypeOK
  <2>3. PendingAscend'
    BY <2>1, <2>2 DEF Ordered, PendingAscend
  <2>4. PagesSeen'
    BY <2>1, <2>2 DEF Ordered, PagesSeen
  <2>5. NewestOnTop'
    BY <2>1 DEF Ordered, NewestOnTop
  <2> QED
    BY <1>1, <2>3, <2>4, <2>5 DEF Ordered
<1>15. ASSUME NEW s \in DOMAIN subs, Deliver(s)
       PROVE  Ordered'
  BY <1>1, <1>15, DeliverOrders
<1>16. CASE UNCHANGED vars
  BY <1>1, <1>16, NothingShown DEF vars
<1> QED
  BY <1>5, <1>6, <1>7, <1>8, <1>9, <1>10, <1>11, <1>12, <1>13, <1>14, <1>15, <1>16 DEF Next

(* Pages piled up by one listener lie in the order of the changes, however *)
(* many listeners there are and whatever is opened between them.           *)
THEOREM Newest == Spec => []NewestOnTop
<1>1. Init => Ordered
  <2> SUFFICES ASSUME Init
               PROVE  Ordered
    OBVIOUS
  <2>1. TypeOK /\ DOMAIN stack = {} /\ DOMAIN subs = {}
    BY InitTypes, EmptySeq DEF Init
  <2> QED
    BY <2>1 DEF Ordered, PendingAscend, PagesSeen, NewestOnTop
<1>2. Ordered /\ [Next]_vars => Ordered'
  BY OrderStep
<1>3. Ordered => NewestOnTop
  BY DEF Ordered
<1> QED
  BY <1>1, <1>2, <1>3, PTL DEF Spec

-----------------------------------------------------------------------------
(* The refinement of RouteStack.                                           *)
MostShown == IF MaxDocs = 0 THEN 1 ELSE MaxDocs

(* k routes are pushed on behalf of screen sc.                             *)
ShowsFor(sc, k) ==
  /\ Len(stack') = Len(stack) + k
  /\ \A i \in DOMAIN stack : stack'[i] = stack[i]
  /\ \A i \in (Len(stack) + 1)..(Len(stack) + k) :
       /\ stack'[i].screen = sc /\ ~IsList(stack'[i])
       /\ stack'[i].late = (sc \in leaving)

(* What a step can do to the stack and to the screens leaving it.          *)
StackMoves ==
  \/ UNCHANGED <<class, stack, leaving>>
  \/ Len(class) < MaxScreens /\ UNCHANGED leaving /\ \E c \in Classes : PushList(c)
  \/ Back \/ TapTile
  \/ /\ UNCHANGED <<class, leaving>>
     /\ \E sc \in Screens, k \in 1..MostShown : Mounted(sc) /\ ShowsFor(sc, k)
  \/ UNCHANGED <<class, stack>> /\ \E sc \in leaving : leaving' = leaving \ {sc}

LEMMA StackStep ==
  ASSUME IInv, [Next]_vars
  PROVE  StackMoves
<1>1. /\ TypeOK /\ Len(stack) \in Nat /\ DOMAIN stack = 1..Len(stack)
      /\ \A i \in DOMAIN stack : stack[i] \in Routes
      /\ Screens = 1..Len(class) /\ Len(class) \in Nat
  BY TypeFacts DEF IInv
<1>2. MostShown \in Nat /\ 1 \in 1..MostShown
  BY BoundsAssumption DEF MostShown
<1>3. CASE \E c \in Classes : OpenList(c) \/ HandleMessage(c)
  BY <1>3 DEF OpenList, HandleMessage, StackMoves
<1>4. CASE Back \/ TapTile
  BY <1>4 DEF Back, TapTile, StackMoves
<1>5. ASSUME NEW sc \in Screens, Disposed(sc)
      PROVE  StackMoves
  BY <1>5 DEF Disposed, StackMoves
<1>6. ASSUME NEW sc \in Screens, SignedIn(sc)
      PROVE  StackMoves
  <2> DEFINE r == [kind |-> "notes", screen |-> sc, sub |-> 0, version |-> 0,
                   late |-> sc \in leaving]
  <2>1. UNCHANGED <<class, leaving>>
    BY <1>6 DEF SignedIn
  <2>2. CASE ~Mounted(sc)
    BY <1>6, <2>2 DEF SignedIn, StackMoves
  <2>3. CASE Mounted(sc)
    <3>1. stack' = Append(stack, r)
      BY <1>6, <2>3 DEF SignedIn
    <3>2. r \in Routes /\ r.screen = sc /\ ~IsList(r) /\ r.late = (sc \in leaving)
      BY <1>1 DEF Routes, IsList
    <3> HIDE DEF r
    <3>3. /\ Len(stack') = Len(stack) + 1
          /\ \A i \in DOMAIN stack : stack'[i] = stack[i]
          /\ stack'[Len(stack) + 1] = r
      BY <1>1, <3>1, <3>2, AppendType
    <3>4. ShowsFor(sc, 1)
      BY <1>1, <3>2, <3>3 DEF ShowsFor
    <3> QED
      BY <1>2, <2>1, <2>3, <3>4 DEF StackMoves
  <2> QED
    BY <2>2, <2>3
<1>7. ASSUME NEW s \in DOMAIN subs, Deliver(s)
      PROVE  StackMoves
  <2>1. PICK dials \in BOOLEAN, k \in 0..MaxDocs :
          \E shown \in [1..k -> Opening(ClassOf(s), subs[s].button)] :
            OnSnapshot(s, shown, dials) /\ subs[s].pending # <<>>
    BY <1>7, DeliverIsOnSnapshot
  <2>2. PICK shown \in [1..k -> Opening(ClassOf(s), subs[s].button)] :
          OnSnapshot(s, shown, dials) /\ subs[s].pending # <<>>
    BY <2>1
  <2>3. UNCHANGED <<class, leaving>>
    BY <2>2 DEF OnSnapshot
  <2>4. CASE ~CanPush(s)
    BY <2>2, <2>3, <2>4 DEF OnSnapshot, StackMoves
  <2>5. CASE CanPush(s)
    <3>1. stack' = stack \o Pages(s, shown) /\ k \in Nat
      BY <2>2, <2>5, BoundsAssumption DEF OnSnapshot
    <3>2. /\ stack' \in Seq(Routes) /\ Len(stack') = Len(stack) + k
          /\ DOMAIN stack' = 1..(Len(stack) + k)
          /\ \A i \in DOMAIN stack : stack'[i] = stack[i]
          /\ \A i \in (Len(stack) + 1)..(Len(stack) + k) :
               /\ stack'[i].screen = subs[s].screen /\ stack'[i].kind \in RouteKinds
               /\ stack'[i].late = (subs[s].screen \in leaving)
      BY <1>1, <2>2, <3>1, SnapshotPages
    <3>3. CASE k = 0
      <4>1. stack' = stack
        BY <1>1, <3>2, <3>3, SeqEqual DEF TypeOK
      <4> QED
        BY <2>3, <4>1 DEF StackMoves
    <3>4. CASE k # 0
      <4>1. ShowsFor(subs[s].screen, k)
        BY <3>2 DEF ShowsFor, RouteKinds, IsList
      <4>2. subs[s].screen \in Screens /\ Mounted(subs[s].screen)
        BY <2>5 DEF CanPush, IInv, ScreensKnown, SilencedByRebuild
      <4>3. k \in 1..MostShown
        BY <2>1, <3>4, BoundsAssumption DEF MostShown
      <4> QED
        BY <2>3, <4>1, <4>2, <4>3 DEF StackMoves
    <3> QED
      BY <3>3, <3>4
  <2> QED
    BY <2>4, <2>5
<1>8. ASSUME \/ Edit \/ Press \/ UNCHANGED vars
             \/ \E sc \in Screens :
                  \/ ListAnswers(sc) \/ Frame(sc) \/ Type(sc) \/ TapNotes(sc) \/ SignInFailed(sc)
                  \/ \E b \in Buttons(class[sc]) : Tap(sc, b)
             \/ \E s \in DOMAIN subs : ItemGone(s) \/ Attach(s)
      PROVE  UNCHANGED <<class, stack, leaving>>
  BY <1>8 DEF Edit, Press, vars, ListAnswers, ListLoaded, ListFails, Frame, Type, TapNotes,
              SignInFailed, Tap, ItemGone, Attach
<1> QED
  BY <1>3, <1>4, <1>5, <1>6, <1>7, <1>8 DEF Next, StackMoves

(* The abstract stack of a state.                                          *)
Mapped == [i \in DOMAIN stack |->
             [screen |-> stack[i].screen, root |-> IsList(stack[i]), late |-> stack[i].late]]

LEMMA MappedType ==
  ASSUME TypeOK
  PROVE  /\ Mapped \in Seq([screen : Nat, root : BOOLEAN, late : BOOLEAN])
         /\ Len(Mapped) = Len(stack) /\ DOMAIN Mapped = 1..Len(stack)
         /\ \A i \in DOMAIN stack :
              Mapped[i] = [screen |-> stack[i].screen, root |-> IsList(stack[i]),
                           late |-> stack[i].late]
<1>1. Len(stack) \in Nat /\ DOMAIN stack = 1..Len(stack) /\ \A i \in DOMAIN stack : stack[i] \in Routes
  BY TypeFacts
<1>2. \A i \in DOMAIN stack :
        stack[i].screen \in Nat /\ IsList(stack[i]) \in BOOLEAN /\ stack[i].late \in BOOLEAN
  BY <1>1 DEF Routes, IsList
<1>3. Mapped \in [1..Len(stack) -> [screen : Nat, root : BOOLEAN, late : BOOLEAN]]
  BY <1>1, <1>2 DEF Mapped
<1> QED
  BY <1>1, <1>3, FunctionIsSeq DEF Mapped

(* A step of a stack that satisfies the invariant is a step of RouteStack. *)
LEMMA MappedStep ==
  ASSUME IInv, Len(class) <= MaxScreens, [Next]_vars
  PROVE  [Stack!Next]_<<Mapped, leaving>>
<1> DEFINE R == [screen : Nat, root : BOOLEAN, late : BOOLEAN]
           Image(r) == [screen |-> r.screen, root |-> IsList(r), late |-> r.late]
<1>1. TypeOK /\ TypeOK'
  BY TypeStep DEF IInv
<1>2. /\ Len(stack) \in Nat /\ DOMAIN stack = 1..Len(stack)
      /\ Screens = 1..Len(class) /\ Len(class) \in Nat
      /\ Mapped \in Seq(R) /\ Len(Mapped) = Len(stack) /\ DOMAIN Mapped = 1..Len(stack)
      /\ \A i \in DOMAIN stack : Mapped[i] = Image(stack[i])
  BY <1>1, TypeFacts, MappedType
<1>3. /\ Len(stack') \in Nat /\ DOMAIN stack' = 1..Len(stack')
      /\ Mapped' \in Seq(R) /\ Len(Mapped') = Len(stack') /\ DOMAIN Mapped' = 1..Len(stack')
      /\ \A i \in DOMAIN stack' : Mapped'[i] = Image(stack'[i])
  <2>1. TypeOK => /\ Len(stack) \in Nat /\ DOMAIN stack = 1..Len(stack)
                  /\ Mapped \in Seq(R) /\ Len(Mapped) = Len(stack) /\ DOMAIN Mapped = 1..Len(stack)
                  /\ \A i \in DOMAIN stack : Mapped[i] = Image(stack[i])
    BY TypeFacts, MappedType
  <2>2. (TypeOK => /\ Len(stack) \in Nat /\ DOMAIN stack = 1..Len(stack)
                   /\ Mapped \in Seq(R) /\ Len(Mapped) = Len(stack) /\ DOMAIN Mapped = 1..Len(stack)
                   /\ \A i \in DOMAIN stack : Mapped[i] = Image(stack[i]))'
    BY <2>1, TypeFacts, MappedType, PTL
  <2> QED
    BY <1>1, <2>2 DEF IsList
<1>4. CASE UNCHANGED <<class, stack, leaving>>
  BY <1>4 DEF Mapped, IsList
<1>5. ASSUME NEW r \in R, Len(stack') = Len(stack) + 1,
             \A i \in DOMAIN stack : stack'[i] = stack[i],
             Image(stack'[Len(stack) + 1]) = r
      PROVE  Mapped' = Append(Mapped, r)
  <2> HIDE DEF R, Image
  <2>1. /\ Append(Mapped, r) \in Seq(R)
        /\ Len(Append(Mapped, r)) = Len(Mapped')
        /\ \A i \in 1..Len(stack) : Append(Mapped, r)[i] = Mapped[i]
        /\ Append(Mapped, r)[Len(stack) + 1] = r
    BY <1>2, <1>3, <1>5, AppendProperties
  <2>2. ASSUME NEW i \in 1..Len(Mapped')
        PROVE  Mapped'[i] = Append(Mapped, r)[i]
    <3>1. CASE i \in 1..Len(stack)
      BY <1>2, <1>3, <1>5, <2>1, <3>1
    <3>2. CASE i = Len(stack) + 1
      BY <1>2, <1>3, <1>5, <2>1, <3>2
    <3> QED
      BY <1>2, <1>3, <1>5, <3>1, <3>2
  <2> QED
    BY <1>3, <2>1, <2>2, SeqEqual
<1>6. ASSUME NEW c \in Classes, PushList(c), UNCHANGED leaving,
             NEW id \in 1..MaxScreens, id = Len(class) + 1
      PROVE  Stack!Next
  <2> DEFINE root == [screen |-> id, root |-> TRUE, late |-> FALSE]
  <2>1. /\ Len(stack') = Len(stack) + 1
        /\ \A i \in DOMAIN stack : stack'[i] = stack[i]
        /\ stack'[Len(stack) + 1] = ListRoute(id)
    BY <1>1, <1>6, PushListType
  <2>2. root \in R /\ Image(stack'[Len(stack) + 1]) = root
    <3>1. ListRoute(id).screen = id /\ IsList(ListRoute(id)) = TRUE /\ ListRoute(id).late = FALSE
      BY DEF ListRoute, IsList
    <3>2. Image(ListRoute(id)) = root
      BY <3>1, Zenon
    <3>3. root \in R
      BY <1>6
    <3> QED
      BY <2>1, <3>2, <3>3
  <2>3. ASSUME NEW i \in DOMAIN Mapped
        PROVE  Mapped[i] # root
    BY <1>2, <1>6 DEF IInv, ScreensKnown
  <2>4. id \notin leaving
    BY <1>2, <1>6 DEF IInv, ScreensKnown
  <2>5. Mapped' = Append(Mapped, root)
    BY <1>5, <2>1, <2>2
  <2>6. Stack!Open(id)
    BY <1>6, <2>3, <2>4, <2>5 DEF Stack!Open, Stack!Present, Stack!Root, Mapped
  <2> QED
    BY <2>6 DEF Stack!Next
<1>7. ASSUME Back
      PROVE  Stack!Next
  <2>1. /\ Len(stack') = Len(stack) - 1
        /\ \A i \in DOMAIN stack' : i \in DOMAIN stack /\ stack'[i] = stack[i]
    BY <1>1, <1>7, PopType DEF Back
  <2>2. Len(stack) > 0
    BY <1>1, <1>7, EmptySeq DEF TypeOK, Back
  <2>3. Mapped # <<>>
    BY <1>2, <2>2, EmptySeq
  <2>4. Mapped' = SubSeq(Mapped, 1, Len(Mapped) - 1)
    <3> HIDE DEF R, Image
    <3>1. \A i \in 1..(Len(Mapped) - 1) : Mapped[i] \in R
      BY <1>2, ElementOfSeq
    <3>2. /\ SubSeq(Mapped, 1, Len(Mapped) - 1) \in Seq(R)
          /\ Len(SubSeq(Mapped, 1, Len(Mapped) - 1)) = Len(Mapped')
          /\ \A i \in 1..Len(Mapped') : SubSeq(Mapped, 1, Len(Mapped) - 1)[i] = Mapped[i]
      <4>1. 1 \in Int /\ Len(Mapped) - 1 \in Int
        BY <1>2
      <4>2. LET n == Len(Mapped) - 1
            IN /\ SubSeq(Mapped, 1, n) \in Seq(R)
               /\ Len(SubSeq(Mapped, 1, n)) = IF 1 <= n THEN n - 1 + 1 ELSE 0
               /\ \A i \in 1..(n - 1 + 1) : SubSeq(Mapped, 1, n)[i] = Mapped[1 + i - 1]
        BY <3>1, <4>1, SubSeqProperties
      <4>3. Len(Mapped) - 1 = Len(Mapped') /\ Len(Mapped') \in Nat
        BY <1>2, <1>3, <2>1
      <4> QED
        BY <4>2, <4>3
    <3>3. \A i \in 1..Len(Mapped') : Mapped'[i] = Mapped[i]
      BY <1>2, <1>3, <2>1
    <3> QED
      BY <1>3, <3>2, <3>3, SeqEqual
  <2>5. Len(Mapped) \in DOMAIN stack /\ Len(Mapped) \in DOMAIN Mapped /\ Top = stack[Len(Mapped)]
    BY <1>2, <2>2 DEF Top
  <2>6. Mapped[Len(Mapped)].root = IsList(Top) /\ Mapped[Len(Mapped)].screen = Top.screen
    BY <1>2, <2>5
  <2>7. leaving' = IF Mapped[Len(Mapped)].root
                     THEN leaving \cup {Mapped[Len(Mapped)].screen} ELSE leaving
    BY <1>7, <2>6, Zenon DEF Back
  <2>8. Stack!Pop
    BY <2>3, <2>4, <2>7 DEF Stack!Pop, Stack!TopRoute, Mapped
  <2> QED
    BY <2>8 DEF Stack!Next
<1>8. ASSUME TapTile
      PROVE  Stack!Next
  <2> DEFINE r == [Top EXCEPT !.kind = "image"]
  <2>1. stack # <<>> /\ ~IsList(Top) /\ UNCHANGED leaving /\ stack' = Append(stack, r)
    BY <1>8 DEF TapTile, IsList
  <2>2. Len(stack) > 0
    BY <1>1, <2>1, EmptySeq DEF TypeOK
  <2>3. Len(Mapped) \in DOMAIN stack /\ Len(Mapped) \in DOMAIN Mapped /\ Top = stack[Len(Mapped)]
        /\ Top \in Routes
    BY <1>1, <1>2, <2>1, <2>2, TypeFacts DEF Top
  <2>4. r \in Routes /\ r.screen = Top.screen /\ r.late = Top.late /\ ~IsList(r)
    BY <2>3 DEF Routes, RouteKinds, IsList
  <2>5. Image(r) = Image(Top)
    BY <2>1, <2>4 DEF IsList
  <2>6. /\ Len(stack') = Len(stack) + 1
        /\ \A i \in DOMAIN stack : stack'[i] = stack[i]
        /\ stack'[Len(stack) + 1] = r
    BY <1>1, <2>1, <2>4, AppendType
  <2>7. Mapped[Len(Mapped)] = Image(Top)
    BY <1>2, <2>3
  <2>8. Mapped[Len(Mapped)] \in R
    BY <1>2, <2>3, ElementOfSeq
  <2>9. Mapped' = Append(Mapped, Mapped[Len(Mapped)])
    BY <1>5, <2>5, <2>6, <2>7, <2>8
  <2>10. Mapped # <<>> /\ ~Mapped[Len(Mapped)].root
    BY <1>2, <2>1, <2>2, <2>7, EmptySeq
  <2>11. Stack!ShowFromTop
    BY <2>1, <2>9, <2>10 DEF Stack!ShowFromTop, Stack!TopRoute, Mapped
  <2> QED
    BY <2>11 DEF Stack!Next
<1>9. ASSUME NEW sc \in Screens, NEW k \in 1..MostShown, Mounted(sc), ShowsFor(sc, k),
             UNCHANGED leaving
      PROVE  Stack!Next
  <2> DEFINE one == [screen |-> sc, root |-> FALSE, late |-> sc \in leaving]
             pages == [i \in 1..k |-> one]
  <2>1. k \in Nat /\ sc \in 1..MaxScreens /\ one \in R
    BY <1>2, BoundsAssumption DEF MostShown
  <2>2. pages \in Seq(R) /\ Len(pages) = k
    BY <2>1, FunctionIsSeq
  <2>3. ASSUME NEW i \in (Len(stack) + 1)..(Len(stack) + k)
        PROVE  Image(stack'[i]) = one
    BY <1>9, <2>3 DEF ShowsFor, IsList
  <2> HIDE DEF pages, one, Image
  <2>4. Mapped' = Mapped \o pages
    <3> HIDE DEF R
    <3>1. /\ Mapped \o pages \in Seq(R)
          /\ Len(Mapped \o pages) = Len(stack) + k
          /\ \A i \in 1..(Len(stack) + k) :
               (Mapped \o pages)[i] = IF i <= Len(stack) THEN Mapped[i] ELSE pages[i - Len(stack)]
      <4>1. /\ Mapped \o pages \in Seq(R)
            /\ Len(Mapped \o pages) = Len(Mapped) + Len(pages)
            /\ \A i \in 1..(Len(Mapped) + Len(pages)) :
                 (Mapped \o pages)[i] =
                   IF i <= Len(Mapped) THEN Mapped[i] ELSE pages[i - Len(Mapped)]
        BY <1>2, <2>2, ConcatProperties
      <4> QED
        BY <1>2, <2>2, <4>1
    <3>2. ASSUME NEW i \in 1..Len(Mapped')
          PROVE  Mapped'[i] = (Mapped \o pages)[i]
      <4>1. CASE i <= Len(stack)
        <5>1. i \in DOMAIN stack /\ i \in DOMAIN stack' /\ i \in 1..(Len(stack) + k)
          BY <1>2, <1>3, <1>9, <4>1 DEF ShowsFor
        <5>2. stack'[i] = stack[i]
          BY <1>9, <5>1 DEF ShowsFor
        <5>3. Mapped'[i] = Mapped[i]
          BY <1>2, <1>3, <5>1, <5>2
        <5> QED
          BY <3>1, <4>1, <5>1, <5>3
      <4>2. CASE i > Len(stack)
        <5>1. i \in (Len(stack) + 1)..(Len(stack) + k) /\ i - Len(stack) \in 1..k
          BY <1>2, <1>3, <1>9, <2>1, <4>2 DEF ShowsFor
        <5>2. i \in DOMAIN stack' /\ Mapped'[i] = one
          BY <1>3, <2>3, <5>1
        <5>3. pages[i - Len(stack)] = one
          BY <5>1 DEF pages
        <5>4. i \in 1..(Len(stack) + k) /\ ~(i <= Len(stack))
          BY <1>2, <4>2, <5>1
        <5> QED
          BY <3>1, <5>2, <5>3, <5>4
      <4>3. i <= Len(stack) \/ i > Len(stack)
        BY <1>2
      <4> QED
        BY <4>1, <4>2, <4>3
    <3> QED
      BY <1>3, <1>9, <3>1, <3>2, SeqEqual DEF ShowsFor
  <2>5. CASE OnStack(sc)
    <3>1. PICK m \in DOMAIN stack : IsList(stack[m]) /\ stack[m].screen = sc
      BY <2>5 DEF OnStack
    <3>2. m \in DOMAIN Mapped /\ Mapped[m] = [screen |-> sc, root |-> TRUE, late |-> FALSE]
      <4>1. stack[m].late = FALSE
        BY <1>1, <3>1, TypeFacts DEF IInv, RootsApart, Routes
      <4> QED
        BY <1>2, <3>1, <4>1 DEF IsList, Image
    <3>3. Stack!Present(sc)
      BY <3>2 DEF Stack!Present, Stack!Root, Mapped
    <3>4. Stack!Show(sc, k)
      BY <1>9, <2>4, <3>3 DEF Stack!Show, Stack!Page, Mapped, pages, one
    <3> QED
      BY <2>1, <3>4 DEF Stack!Next, MostShown
  <2>6. CASE sc \in leaving
    <3>1. Stack!Show(sc, k)
      BY <1>9, <2>4, <2>6 DEF Stack!Show, Stack!Page, Mapped, pages, one
    <3> QED
      BY <2>1, <3>1 DEF Stack!Next, MostShown
  <2> QED
    BY <1>9, <2>5, <2>6 DEF Mounted
<1>10. ASSUME UNCHANGED <<class, stack>>, NEW sc \in leaving, leaving' = leaving \ {sc}
       PROVE  Stack!Next
  <2>1. Mapped' = Mapped
    BY <1>10 DEF Mapped, IsList
  <2>2. sc \in 1..MaxScreens
    BY <1>2, BoundsAssumption DEF IInv, ScreensKnown
  <2>3. Stack!Gone(sc)
    BY <1>10, <2>1 DEF Stack!Gone, Mapped
  <2> QED
    BY <2>2, <2>3 DEF Stack!Next
<1>11. Len(class) < MaxScreens => \E id \in 1..MaxScreens : id = Len(class) + 1
  BY <1>2, BoundsAssumption
<1>12. StackMoves
  BY StackStep
<1> QED
  BY <1>4, <1>6, <1>7, <1>8, <1>9, <1>10, <1>11, <1>12 DEF StackMoves

(* The list screens use the navigator as RouteStack says: a screen is      *)
(* pushed once, and whatever a late snapshot or sign-in opens is opened on *)
(* behalf of a screen that is on the stack or leaving it.                  *)
THEOREM Implements == Spec => ServesScreens
<1>1. Init => Stack!Init
  <2> SUFFICES ASSUME Init
               PROVE  Mapped = <<>> /\ leaving = {}
    BY DEF Stack!Init, Mapped
  <2>1. TypeOK /\ Len(stack) = 0 /\ leaving = {}
    BY InitTypes, EmptySeq DEF Init
  <2> QED
    BY <2>1, MappedType, EmptySeq
<1>2. Init => IInv
  BY InitSafe
<1>3. Init => Len(class) <= MaxScreens
  BY EmptySeq, BoundsAssumption DEF Init
<1>4. IInv /\ [Next]_vars => IInv'
  BY SafetyStep
<1>5. IInv /\ Len(class) <= MaxScreens /\ [Next]_vars => (Len(class) <= MaxScreens)'
  <2> SUFFICES ASSUME IInv, Len(class) <= MaxScreens, [Next]_vars
               PROVE  Len(class') <= MaxScreens
    OBVIOUS
  <2>1. ASSUME NEW c \in Classes, PushList(c), Len(class) < MaxScreens
        PROVE  Len(class') <= MaxScreens
    <3>1. Len(class') = Len(class) + 1 /\ Len(class) \in Nat
      BY <2>1, PushListType, TypeFacts DEF IInv
    <3> QED
      BY <2>1, <3>1, BoundsAssumption
  <2> QED
    BY <2>1, StackStep DEF StackMoves, Back, TapTile
<1>6. IInv /\ Len(class) <= MaxScreens /\ [Next]_vars => [Stack!Next]_<<Mapped, leaving>>
  BY MappedStep
<1> QED
  BY <1>1, <1>2, <1>3, <1>4, <1>5, <1>6, PTL DEF Spec, ServesScreens, Stack!Spec, Mapped

(* What RouteStack gives to whoever implements it.  A root is on the stack *)
(* once, below what was shown for its screen, and not among the screens    *)
(* that leave; only what was shown late can be without it.                 *)
Rooted(r, left) ==
  /\ r \in Seq(Stack!Route)
  /\ \A i \in 1..Len(r) : ~r[i].root /\ ~r[i].late =>
       \E j \in 1..(i - 1) : r[j] = Stack!Root(r[i].screen)
  /\ \A i \in 1..Len(r) : r[i].root => r[i] = Stack!Root(r[i].screen)
  /\ \A i, j \in 1..Len(r) : r[i].root /\ r[j].root /\ r[i].screen = r[j].screen => i = j
  /\ \A sc \in left : \A i \in 1..Len(r) : r[i] # Stack!Root(sc)

LEMMA RootFields ==
  ASSUME NEW sc
  PROVE  /\ Stack!Root(sc).screen = sc /\ Stack!Root(sc).root = TRUE
         /\ Stack!Root(sc).late = FALSE
  BY DEF Stack!Root

LEMMA PopKeepsRoots ==
  ASSUME NEW r, NEW left, Rooted(r, left), r # <<>>
  PROVE  Rooted(SubSeq(r, 1, Len(r) - 1),
                IF r[Len(r)].root THEN left \cup {r[Len(r)].screen} ELSE left)
<1> DEFINE m == Len(r) - 1
           s == SubSeq(r, 1, m)
           later == IF r[Len(r)].root THEN left \cup {r[Len(r)].screen} ELSE left
<1>1. r \in Seq(Stack!Route) /\ m \in Nat /\ Len(r) = m + 1
  BY EmptySeq, LenProperties DEF Rooted
<1>2. \A i \in 1..m : r[i] \in Stack!Route
  BY <1>1, LenProperties, ElementOfSeq
<1> HIDE DEF m
<1>3. s \in Seq(Stack!Route) /\ Len(s) = m /\ \A i \in 1..m : s[i] = r[i]
  BY <1>1, <1>2, SubSeqProperties
<1>4. \A i \in 1..m : i \in 1..Len(r) /\ i # Len(r)
  BY <1>1
<1> HIDE DEF s
<1>5. ASSUME NEW i \in 1..m, ~s[i].root, ~s[i].late
      PROVE  \E j \in 1..(i - 1) : s[j] = Stack!Root(s[i].screen)
  <2>1. PICK j \in 1..(i - 1) : r[j] = Stack!Root(r[i].screen)
    BY <1>3, <1>4, <1>5 DEF Rooted
  <2>2. j \in 1..m
    BY <1>1, <2>1
  <2> QED
    BY <1>3, <2>1, <2>2
<1>6. \A i, j \in 1..m : s[i].root /\ s[j].root /\ s[i].screen = s[j].screen => i = j
  BY <1>3, <1>4 DEF Rooted
<1>7. \A i \in 1..m : s[i].root => s[i] = Stack!Root(s[i].screen)
  BY <1>3, <1>4 DEF Rooted
<1>8. ASSUME NEW sc \in later, NEW i \in 1..m
      PROVE  s[i] # Stack!Root(sc)
  <2>1. CASE sc \in left
    BY <1>3, <1>4, <2>1 DEF Rooted
  <2>2. CASE r[Len(r)].root /\ sc = r[Len(r)].screen
    <3>1. Len(r) \in 1..Len(r) /\ i \in 1..Len(r) /\ i # Len(r)
      BY <1>1, <1>4
    <3> QED
      BY <1>3, <2>2, <3>1, RootFields DEF Rooted
  <2> QED
    BY <1>8, <2>1, <2>2 DEF later
<1> QED
  BY <1>3, <1>5, <1>6, <1>7, <1>8 DEF Rooted, s, m, later

LEMMA OpenKeepsRoots ==
  ASSUME NEW r, NEW left, Rooted(r, left), NEW sc \in 1..MaxScreens, sc \notin left,
         \A i \in 1..Len(r) : r[i] # Stack!Root(sc)
  PROVE  Rooted(Append(r, Stack!Root(sc)), left)
<1> DEFINE s == Append(r, Stack!Root(sc))
           n == Len(r)
<1>1. r \in Seq(Stack!Route) /\ n \in Nat /\ \A i \in 1..n : r[i] \in Stack!Route
  BY LenProperties, ElementOfSeq DEF Rooted
<1>2. Stack!Root(sc) \in Stack!Route
  BY DEF Stack!Root, Stack!Route
<1>3. /\ s \in Seq(Stack!Route) /\ Len(s) = n + 1 /\ s[n + 1] = Stack!Root(sc)
      /\ \A i \in 1..n : s[i] = r[i]
  BY <1>1, <1>2, AppendProperties
<1>4. \A i \in 1..(n + 1) : i \in 1..n \/ i = n + 1
  BY <1>1
<1> HIDE DEF s
<1>5. ASSUME NEW i \in 1..(n + 1), ~s[i].root, ~s[i].late
      PROVE  \E j \in 1..(i - 1) : s[j] = Stack!Root(s[i].screen)
  <2>1. i \in 1..n
    BY <1>3, <1>4, <1>5, RootFields
  <2>2. PICK j \in 1..(i - 1) : r[j] = Stack!Root(r[i].screen)
    BY <1>3, <1>5, <2>1 DEF Rooted
  <2>3. j \in 1..n
    BY <1>1, <2>1, <2>2
  <2> QED
    BY <1>3, <2>1, <2>2, <2>3
<1>6. ASSUME NEW i \in 1..n, s[i].root
      PROVE  s[i].screen # sc
  <2>1. r[i].root => r[i] = Stack!Root(r[i].screen)
    BY DEF Rooted
  <2> QED
    BY <1>3, <1>6, <2>1
<1>7. ASSUME NEW i \in 1..(n + 1), NEW j \in 1..(n + 1),
             s[i].root, s[j].root, s[i].screen = s[j].screen
      PROVE  i = j
  <2>1. CASE i \in 1..n /\ j \in 1..n
    BY <1>3, <1>7, <2>1 DEF Rooted
  <2>2. s[n + 1].screen = sc
    BY <1>3, RootFields
  <2> QED
    BY <1>4, <1>6, <1>7, <2>1, <2>2
<1>8. ASSUME NEW i \in 1..(n + 1), s[i].root
      PROVE  s[i] = Stack!Root(s[i].screen)
  <2>1. CASE i \in 1..n
    BY <1>3, <1>8, <2>1 DEF Rooted
  <2>2. CASE i = n + 1
    BY <1>3, <2>2, RootFields
  <2> QED
    BY <1>4, <2>1, <2>2
<1>9. ASSUME NEW x \in left, NEW i \in 1..(n + 1)
      PROVE  s[i] # Stack!Root(x)
  <2>1. CASE i \in 1..n
    BY <1>3, <2>1 DEF Rooted
  <2>2. CASE i = n + 1
    <3>1. Stack!Root(sc).screen = sc /\ Stack!Root(x).screen = x /\ x # sc
      BY RootFields
    <3> QED
      BY <1>3, <2>2, <3>1
  <2> QED
    BY <1>4, <2>1, <2>2
<1> QED
  BY <1>3, <1>5, <1>7, <1>8, <1>9 DEF Rooted, s

(* Routes that are no roots, put on top of a stack that has their root or  *)
(* marked late.                                                            *)
LEMMA ShowKeepsRoots ==
  ASSUME NEW r, NEW left, Rooted(r, left), NEW k \in Nat, NEW p \in Stack!Route, ~p.root,
         p.late \/ \E i \in 1..Len(r) : r[i] = Stack!Root(p.screen)
  PROVE  Rooted(r \o [i \in 1..k |-> p], left)
<1> DEFINE new == [i \in 1..k |-> p]
           s == r \o new
           n == Len(r)
<1>1. r \in Seq(Stack!Route) /\ n \in Nat /\ \A i \in 1..n : r[i] \in Stack!Route
  BY LenProperties, ElementOfSeq DEF Rooted
<1>2. new \in Seq(Stack!Route) /\ Len(new) = k /\ \A i \in 1..k : new[i] = p
  BY FunctionIsSeq
<1> HIDE DEF new
<1>3. /\ s \in Seq(Stack!Route) /\ Len(s) = n + k
      /\ \A i \in 1..n : s[i] = r[i] /\ i \in 1..(n + k)
      /\ \A i \in 1..(n + k) : i \notin 1..n => s[i] = p
  <2>1. /\ s \in Seq(Stack!Route) /\ Len(s) = n + k
        /\ \A i \in 1..(n + k) : s[i] = IF i <= n THEN r[i] ELSE new[i - n]
    BY <1>1, <1>2, ConcatProperties
  <2> HIDE DEF s
  <2>2. \A i \in 1..(n + k) : i \notin 1..n => i - n \in 1..k /\ ~(i <= n)
    BY <1>1
  <2>3. \A i \in 1..n : i <= n /\ i \in 1..(n + k)
    BY <1>1
  <2> QED
    BY <1>2, <2>1, <2>2, <2>3
<1> HIDE DEF s
<1>4. ASSUME NEW i \in 1..(n + k), ~s[i].root, ~s[i].late
      PROVE  \E j \in 1..(i - 1) : s[j] = Stack!Root(s[i].screen)
  <2>1. CASE i \in 1..n
    <3>1. PICK j \in 1..(i - 1) : r[j] = Stack!Root(r[i].screen)
      BY <1>3, <1>4, <2>1 DEF Rooted
    <3>2. j \in 1..n
      BY <1>1, <2>1, <3>1
    <3> QED
      BY <1>3, <2>1, <3>1, <3>2
  <2>2. CASE i \notin 1..n
    <3>1. PICK j \in 1..n : r[j] = Stack!Root(p.screen)
      BY <1>3, <1>4, <2>2
    <3>2. j \in 1..(i - 1)
      BY <1>1, <2>2
    <3> QED
      BY <1>3, <2>2, <3>1, <3>2
  <2> QED
    BY <2>1, <2>2
<1>5. \A i \in 1..(n + k) : s[i].root => i \in 1..n
  BY <1>3
<1>6. \A i, j \in 1..(n + k) : s[i].root /\ s[j].root /\ s[i].screen = s[j].screen => i = j
  BY <1>3, <1>5 DEF Rooted
<1>7. \A i \in 1..(n + k) : s[i].root => s[i] = Stack!Root(s[i].screen)
  BY <1>3, <1>5 DEF Rooted
<1>8. ASSUME NEW x \in left, NEW i \in 1..(n + k)
      PROVE  s[i] # Stack!Root(x)
  <2>1. CASE i \in 1..n
    BY <1>3, <2>1 DEF Rooted
  <2>2. CASE i \notin 1..n
    BY <1>3, <2>2, RootFields
  <2> QED
    BY <2>1, <2>2
<1> QED
  BY <1>3, <1>4, <1>6, <1>7, <1>8 DEF Rooted, s, new

LEMMA TopKeepsRoots ==
  ASSUME NEW r, NEW left, Rooted(r, left), r # <<>>, ~r[Len(r)].root
  PROVE  Rooted(Append(r, r[Len(r)]), left)
<1> DEFINE p == r[Len(r)]
           one == [i \in 1..1 |-> p]
<1>1. /\ r \in Seq(Stack!Route) /\ Len(r) \in Nat /\ Len(r) \in 1..Len(r)
      /\ p \in Stack!Route
  BY EmptySeq, LenProperties, ElementOfSeq DEF Rooted
<1>2. p.late \/ \E i \in 1..Len(r) : r[i] = Stack!Root(p.screen)
  BY <1>1 DEF Rooted
<1>3. one \in Seq(Stack!Route) /\ Len(one) = 1
  BY <1>1, FunctionIsSeq
<1>4. 1 \in 1..1 /\ one[1] = p /\ \A i \in 1..1 : i = 1
  OBVIOUS
<1> HIDE DEF p, one
<1>5. Append(r, p) = r \o one
  <2>1. /\ Append(r, p) \in Seq(Stack!Route) /\ Len(Append(r, p)) = Len(r) + 1
        /\ \A i \in 1..Len(r) : Append(r, p)[i] = r[i]
        /\ Append(r, p)[Len(r) + 1] = p
    BY <1>1, AppendProperties
  <2>2. /\ r \o one \in Seq(Stack!Route) /\ Len(r \o one) = Len(r) + 1
        /\ \A i \in 1..(Len(r) + 1) :
             (r \o one)[i] = IF i <= Len(r) THEN r[i] ELSE one[i - Len(r)]
    <3>1. /\ r \o one \in Seq(Stack!Route) /\ Len(r \o one) = Len(r) + Len(one)
          /\ \A i \in 1..(Len(r) + Len(one)) :
               (r \o one)[i] = IF i <= Len(r) THEN r[i] ELSE one[i - Len(r)]
      BY <1>1, <1>3, ConcatProperties
    <3> QED
      BY <1>3, <3>1
  <2>3. ASSUME NEW i \in 1..(Len(r) + 1)
        PROVE  Append(r, p)[i] = (r \o one)[i]
    <3>1. CASE i \in 1..Len(r)
      BY <1>1, <2>1, <2>2, <3>1
    <3>2. CASE i = Len(r) + 1
      <4>1. ~(i <= Len(r)) /\ i - Len(r) = 1
        BY <1>1, <3>2
      <4>2. (r \o one)[i] = one[i - Len(r)]
        BY <2>2, <2>3, <4>1
      <4>3. (r \o one)[i] = p
        BY <1>4, <4>1, <4>2
      <4> QED
        BY <2>1, <3>2, <4>3
    <3>3. i \in 1..Len(r) \/ i = Len(r) + 1
      <4>1. Len(r) \in Nat
        BY <1>1
      <4> QED
        BY <2>3, <4>1
    <3> QED
      BY <3>1, <3>2, <3>3
  <2> QED
    BY <2>1, <2>2, <2>3, SeqEqual
<1>6. ~p.root
  BY DEF p
<1> QED
  BY <1>1, <1>2, <1>5, <1>6, ShowKeepsRoots DEF p, one

(* Whatever implements RouteStack never shows a route without its screen   *)
(* below it, unless it was opened while that screen left, nor a screen     *)
(* twice: the list screens neither, through every late snapshot and        *)
(* sign-in.                                                                *)
THEOREM RootsKept == Spec => [](Stack!RootBelow /\ Stack!RootsDistinct)
<1>1. Stack!Init => Rooted(Mapped, leaving)
  <2>1. Rooted(<<>>, {})
    BY EmptySeq DEF Rooted
  <2> QED
    BY <2>1 DEF Stack!Init, Mapped
<1>2. Rooted(Mapped, leaving) /\ [Stack!Next]_<<Mapped, leaving>> => Rooted(Mapped, leaving)'
  <2> SUFFICES ASSUME Rooted(Mapped, leaving), [Stack!Next]_<<Mapped, leaving>>
               PROVE  Rooted(Mapped', leaving')
    BY DEF Rooted, Stack!Route, Stack!Root
  <2>1. DOMAIN Mapped = 1..Len(Mapped)
    BY LenProperties DEF Rooted
  <2>2. CASE Stack!Pop
    BY <2>2, PopKeepsRoots DEF Stack!Pop, Stack!TopRoute, Mapped
  <2>3. CASE Stack!ShowFromTop
    BY <2>3, TopKeepsRoots DEF Stack!ShowFromTop, Stack!TopRoute, Mapped
  <2>4. ASSUME NEW sc \in 1..MaxScreens, Stack!Open(sc)
        PROVE  Rooted(Mapped', leaving')
    BY <2>1, <2>4, OpenKeepsRoots DEF Stack!Open, Stack!Present, Mapped
  <2>5. ASSUME NEW sc \in 1..MaxScreens, NEW k \in 1..MostShown, Stack!Show(sc, k)
        PROVE  Rooted(Mapped', leaving')
    <3> DEFINE p == Stack!Page(sc, sc \in leaving)
    <3>1. Mapped' = Mapped \o [i \in 1..k |-> p] /\ leaving' = leaving
      BY <2>5 DEF Stack!Show, Mapped
    <3>2. p \in Stack!Route /\ ~p.root /\ p.screen = sc /\ p.late = (sc \in leaving)
      BY DEF Stack!Page, Stack!Route
    <3>3. p.late \/ \E i \in 1..Len(Mapped) : Mapped[i] = Stack!Root(p.screen)
      BY <2>1, <2>5, <3>2 DEF Stack!Show, Stack!Present, Mapped
    <3>4. k \in Nat
      BY BoundsAssumption DEF MostShown
    <3> HIDE DEF Mapped, p
    <3> QED
      BY <3>1, <3>2, <3>3, <3>4, ShowKeepsRoots
  <2>6. ASSUME NEW sc \in 1..MaxScreens, Stack!Gone(sc)
        PROVE  Rooted(Mapped', leaving')
    <3>1. Mapped' = Mapped /\ leaving' = leaving \ {sc}
      BY <2>6 DEF Stack!Gone, Mapped
    <3> QED
      BY <3>1 DEF Rooted
  <2> QED
    BY <2>2, <2>3, <2>4, <2>5, <2>6 DEF Stack!Next, Mapped, MostShown
<1>3. Rooted(Mapped, leaving) => Stack!RootBelow /\ Stack!RootsDistinct
  <2> SUFFICES ASSUME Rooted(Mapped, leaving)
               PROVE  Stack!RootBelow /\ Stack!RootsDistinct
    OBVIOUS
  <2>1. DOMAIN Mapped = 1..Len(Mapped)
    BY LenProperties DEF Rooted
  <2> QED
    BY <2>1 DEF Rooted, Stack!RootBelow, Stack!RootsDistinct, Stack!Present, Mapped
<1>4. ServesScreens => [](Stack!RootBelow /\ Stack!RootsDistinct)
  BY <1>1, <1>2, <1>3, PTL DEF ServesScreens, Stack!Spec, Mapped
<1> QED
  BY <1>4, Implements
=============================================================================
