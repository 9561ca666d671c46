---------------------------- MODULE OfferDetails ----------------------------
(***************************************************************************)
(* The detail buttons of a list screen (OffersList in offerslist.dart,     *)
(* ResCafeOffersList in rescafeofferslist.dart) and the navigator they     *)
(* push on.                                                                *)
(*                                                                         *)
(* A tap on a button does not read the document once: it starts a          *)
(* Firestore snapshot listener that nothing ever cancels.  Each snapshot,  *)
(* the first one and one more after every later change of the matching     *)
(* documents, opens the button's page, dialog or phone call again,         *)
(* whatever the user is looking at by then.  What still holds a listener   *)
(* back is the BuildContext it captured: the Offers and Menu buttons       *)
(* captured the list item's, which dies when the list is rebuilt, the Call *)
(* and Branches buttons use the screen's, which dies with the screen.  A   *)
(* screen dies later than it leaves: the navigator keeps a popped route's  *)
(* widgets mounted until its exit transition has run.                      *)
(*                                                                         *)
(* Data is abstracted to what the handlers branch on: a snapshot is a      *)
(* version and the lengths of the arrays of the matching documents.  Dart  *)
(* runs one callback to its end before the next, so a snapshot (the whole  *)
(* forEach over its documents) is one step.                                *)
(***************************************************************************)
EXTENDS DetailTables, Integers, FiniteSets

CONSTANTS
  Classes,      \* the list screens: "OffersList", "ResCafeOffersList"
  Sizes,        \* lengths of the documents' arrays
  MaxDocs,      \* most documents in a snapshot
  MaxScreens,   \* bound: list screens opened
  MaxTaps,      \* bound: taps on detail buttons
  MaxEdits,     \* bound: changes of the documents
  MaxNotes      \* bound: sign-ins under way for the Notes button

ASSUME ClassesAssumption == Classes \subseteq {"OffersList", "ResCafeOffersList"}
ASSUME SizesAssumption == Sizes \subseteq Nat
ASSUME BoundsAssumption ==
  /\ MaxDocs \in Nat
  /\ MaxScreens \in Nat
  /\ MaxTaps \in Nat
  /\ MaxEdits \in Nat
  /\ MaxNotes \in Nat

VARIABLES
  class,     \* the class of each list screen opened so far
  stack,     \* routes of the outer navigator, the visible one last
  leaving,   \* list screens popped whose exit transition still runs
  view,      \* what the StreamBuilder of each opened list screen shows
  dirty,     \* list screens with a setState waiting for the next frame
  subs,      \* the snapshot listeners, in the order of the taps
  version,   \* changes of the documents so far
  signins    \* sign-ins under way for the Notes button of each list screen

vars == <<class, stack, leaving, view, dirty, subs, version, signins>>

-----------------------------------------------------------------------------
(* The buttons of an item and what each does with an array of n entries.   *)
Buttons(c) ==
  {"offers", "call", "branches"} \cup (IF c = "ResCafeOffersList" THEN {"menu"} ELSE {})

Branches(c, b) ==
  IF c = "OffersList"
    THEN CASE b = "offers"   -> OfferBranches
           [] b = "call"     -> CallBranches
           [] b = "branches" -> BranchBranches
           [] OTHER          -> <<>>
    ELSE CASE b = "offers"   -> ResCafeOfferBranches
           [] b = "menu"     -> MenuBranches
           [] b = "call"     -> ResCafeCallBranches
           [] b = "branches" -> ResCafeBranchBranches
           [] OTHER          -> <<>>

Effect(c, b, n) == EffectOf(Branches(c, b), n)

RouteKinds == {"image", "grid", "dialog", "broken"}

(* The documents of a snapshot that make a button open something; those    *)
(* with another length, or without the field (the read throws and is       *)
(* caught), have no effect.                                                *)
Opening(c, b) == {n \in Sizes : Effect(c, b, n) \in RouteKinds}
Dialling(c, b) == {n \in Sizes : Effect(c, b, n) = "dial"}

SeqUpTo(S, k) == UNION {[1..j -> S] : j \in 0..k}

-----------------------------------------------------------------------------
Screens == DOMAIN class
Top == stack[Len(stack)]
IsList(r) == r.kind = "list"
ListRoute(sc) == [kind |-> "list", screen |-> sc, sub |-> 0, version |-> 0, late |-> FALSE]

OnStack(sc) == \E i \in DOMAIN stack : IsList(stack[i]) /\ stack[i].screen = sc

(* A screen's State and the contexts below it live as long as its route    *)
(* has widgets: on the stack and while it leaves.                          *)
Mounted(sc) == sc \in leaving \/ OnStack(sc)

Showing(sc) == stack # <<>> /\ IsList(Top) /\ Top.screen = sc

(* A route remembers, for the properties alone, whether it was pushed for  *)
(* a screen that was already leaving.                                      *)
Routes ==
  [kind : RouteKinds \cup {"list", "notes"}, screen : Nat, sub : Nat,
   version : Nat, late : BOOLEAN]

Views == {"spinner", "list", "error", "gone"}

Subs ==
  [screen : Nat, button : UNION {Buttons(c) : c \in Classes}, ctx : BOOLEAN, attached : BOOLEAN, pending : Seq(Nat)]

TypeOK ==
  /\ class \in Seq(Classes)
  /\ stack \in Seq(Routes)
  /\ leaving \subseteq Nat
  /\ view \in [Screens -> Views]
  /\ dirty \subseteq Nat
  /\ subs \in Seq(Subs)
  /\ version \in Nat
  /\ signins \in [Screens -> Nat]

Init ==
  /\ class = <<>>
  /\ stack = <<>>
  /\ leaving = {}
  /\ view = <<>>
  /\ dirty = {}
  /\ subs = <<>>
  /\ version = 0
  /\ signins = <<>>

-----------------------------------------------------------------------------
(* A definition named X_Y beside a definition X is X with a plausible slip *)
(* in it.  No specification uses it: it stands for the mistake that some   *)
(* property below is there to notice.                                      *)
ItemsGone_KeepItems(sc) == subs

(* The BuildContexts of the items of screen sc are unmounted.              *)
ItemsGone(sc) ==
  [s \in DOMAIN subs |->
     IF subs[s].screen = sc THEN [subs[s] EXCEPT !.ctx = FALSE] ELSE subs[s]]

(* A new list screen of class c on top; its build starts the list's own    *)
(* stream.                                                                 *)
PushList(c) ==
  /\ class' = Append(class, c)
  /\ stack' = Append(stack, ListRoute(Len(class) + 1))
  /\ view' = Append(view, "spinner")
  /\ signins' = Append(signins, 0)

(* Get.to from a tile of Categories, which the user reaches only when      *)
(* nothing is on the outer navigator.                                      *)
OpenList(c) ==
  /\ Len(class) < MaxScreens
  /\ stack = <<>>
  /\ PushList(c)
  /\ UNCHANGED <<leaving, dirty, subs, version>>

(* Get.to drops a page of the class it takes to be the current one.  It    *)
(* follows pages, not dialogs: under a dialog it may remember the list     *)
(* below it or, once a page has been popped off that dialog, an older one. *)
OnTop(c) == stack # <<>> /\ IsList(Top) /\ class[Top.screen] = c

UnderDialogs(c) ==
  \E i \in DOMAIN stack :
    /\ IsList(stack[i]) /\ class[stack[i].screen] = c
    /\ \A j \in (i + 1)..Len(stack) : stack[j].kind = "dialog"

(* A tap on a notification, at any time: Get.updateLocale rebuilds every   *)
(* widget, then Get.to opens the list.                                     *)
HandleMessage(c) ==
  /\ Len(class) < MaxScreens
  /\ dirty' = {sc \in Screens : Mounted(sc)}
  /\ \/ ~OnTop(c) /\ PushList(c)
     \/ UnderDialogs(c) /\ UNCHANGED <<class, stack, view, signins>>
  /\ UNCHANGED <<leaving, subs, version>>

(* The list's stream delivers: the ListView is built.  Delivering again to *)
(* a list already shown keeps its items.                                   *)
ListLoaded(sc) ==
  /\ view[sc] # "list"
  /\ view' = [view EXCEPT ![sc] = "list"]
  /\ UNCHANGED <<class, stack, leaving, dirty, subs, version, signins>>

(* The list's stream delivers an error (a document that cannot be          *)
(* converted): the builder shows it in place of the list.                  *)
ListFails(sc) ==
  /\ view[sc] # "error"
  /\ view' = [view EXCEPT ![sc] = "error"]
  /\ subs' = ItemsGone(sc)
  /\ UNCHANGED <<class, stack, leaving, dirty, version, signins>>

ListAnswers_OnlyVisible(sc) == Showing(sc) /\ (ListLoaded(sc) \/ ListFails(sc))

ListAnswers(sc) == Mounted(sc) /\ (ListLoaded(sc) \/ ListFails(sc))

(* The next frame after a setState: build creates a new stream, so the     *)
(* StreamBuilder is waiting again and shows the spinner, except after an   *)
(* error, which it tests for first.                                        *)
Frame(sc) ==
  /\ sc \in dirty
  /\ dirty' = dirty \ {sc}
  /\ view' = [view EXCEPT ![sc] = IF @ = "error" THEN "error" ELSE "spinner"]
  /\ subs' = ItemsGone(sc)
  /\ UNCHANGED <<class, stack, leaving, version, signins>>

(* The search field's onChanged.                                           *)
Type(sc) ==
  /\ Showing(sc)
  /\ dirty' = dirty \cup {sc}
  /\ UNCHANGED <<class, stack, leaving, view, subs, version, signins>>

(* An item scrolled out of the lazy list, or dropped from it, is unmounted. *)
ItemGone(s) ==
  /\ subs[s].ctx
  /\ subs' = [subs EXCEPT ![s].ctx = FALSE]
  /\ UNCHANGED <<class, stack, leaving, view, dirty, version, signins>>

-----------------------------------------------------------------------------
(* A tap on a detail button starts a listener.                             *)
Tap(sc, b) ==
  /\ Len(subs) < MaxTaps
  /\ Showing(sc)
  /\ view[sc] = "list"
  /\ subs' = Append(subs, [screen |-> sc, button |-> b, ctx |-> TRUE,
                           attached |-> FALSE, pending |-> <<>>])
  /\ UNCHANGED <<class, stack, leaving, view, dirty, version, signins>>

Attach_OnlyMounted(s) ==
  /\ ~subs[s].attached
  /\ Mounted(subs[s].screen)
  /\ subs' = [subs EXCEPT ![s].attached = TRUE, ![s].pending = <<version>>]
  /\ UNCHANGED <<class, stack, leaving, view, dirty, version, signins>>

(* Firestore answers a new listener with the documents as they are now.    *)
Attach(s) ==
  /\ ~subs[s].attached
  /\ subs' = [subs EXCEPT ![s].attached = TRUE, ![s].pending = <<version>>]
  /\ UNCHANGED <<class, stack, leaving, view, dirty, version, signins>>

Edit_NewestFirst ==
  /\ version < MaxEdits
  /\ version' = version + 1
  /\ \E touched \in SUBSET {s \in DOMAIN subs : subs[s].attached} :
       subs' = [s \in DOMAIN subs |->
                  IF s \in touched
                    THEN [subs[s] EXCEPT !.pending = <<version + 1>> \o @]
                    ELSE subs[s]]
  /\ UNCHANGED <<class, stack, leaving, view, dirty, signins>>

(* Documents change: every attached listener whose query they match gets   *)
(* another snapshot, in the order of the changes.                          *)
Edit ==
  /\ version < MaxEdits
  /\ version' = version + 1
  /\ \E touched \in SUBSET {s \in DOMAIN subs : subs[s].attached} :
       subs' = [s \in DOMAIN subs |->
                  IF s \in touched
                    THEN [subs[s] EXCEPT !.pending = Append(@, version + 1)]
                    ELSE subs[s]]
  /\ UNCHANGED <<class, stack, leaving, view, dirty, signins>>

CanPush_Unchecked(s) == TRUE

(* Navigator.push needs the captured context: the item's for the pages of  *)
(* images, the State's for the dialogs.  On an unmounted one it throws and *)
(* the document's try swallows it.                                         *)
CanPush(s) ==
  IF subs[s].button \in {"offers", "menu"}
    THEN subs[s].ctx
    ELSE Mounted(subs[s].screen)

ClassOf(s) == class[subs[s].screen]

(* The route that listener s pushes for a document with n entries.         *)
Page(s, n) ==
  [kind |-> Effect(ClassOf(s), subs[s].button, n), screen |-> subs[s].screen,
   sub |-> s, version |-> Head(subs[s].pending), late |-> subs[s].screen \in leaving]

Pages(s, shown) == [k \in DOMAIN shown |-> Page(s, shown[k])]

(* The listener's callback on one snapshot: shown are the lengths, in      *)
(* order, of the documents that open a route; dials tells whether some     *)
(* document has a single number, which is dialled at once inside setState. *)
(* On a disposed screen setState throws, in a debug build before the call  *)
(* and in a release build after it, and the document's try swallows it.    *)
OnSnapshot(s, shown, dials) ==
  LET sc == subs[s].screen
  IN /\ stack' = IF CanPush(s) THEN stack \o Pages(s, shown) ELSE stack
     /\ dirty' = IF dials /\ Mounted(sc) THEN dirty \cup {sc} ELSE dirty
     /\ subs' = [subs EXCEPT ![s].pending = Tail(@)]
     /\ UNCHANGED <<class, leaving, view, version, signins>>

Deliver(s) ==
  LET b == subs[s].button
      c == ClassOf(s)
  IN /\ subs[s].pending # <<>>
     /\ \E dials \in IF Dialling(c, b) = {} THEN {FALSE} ELSE BOOLEAN :
          \E shown \in SeqUpTo(Opening(c, b), MaxDocs - (IF dials THEN 1 ELSE 0)) :
            OnSnapshot(s, shown, dials)

-----------------------------------------------------------------------------
(* A tap on a tile of the grid opens that image over it.                   *)
TapTile ==
  /\ stack # <<>>
  /\ Top.kind = "grid"
  /\ stack' = Append(stack, [Top EXCEPT !.kind = "image"])
  /\ UNCHANGED <<class, leaving, view, dirty, subs, version, signins>>

(* A button of a dialog: setState on the screen that opened it, dialling   *)
(* or launching the map; on a disposed one it throws.  The dialog stays.   *)
Press ==
  /\ stack # <<>>
  /\ Top.kind = "dialog"
  /\ dirty' = IF Mounted(Top.screen) THEN dirty \cup {Top.screen} ELSE dirty
  /\ UNCHANGED <<class, stack, leaving, view, subs, version, signins>>

(* The Notes button signs in first and pushes when that is answered, if    *)
(* the screen's context is still mounted.                                  *)
TapNotes(sc) ==
  /\ Showing(sc)
  /\ signins[sc] < MaxNotes
  /\ signins' = [signins EXCEPT ![sc] = @ + 1]
  /\ UNCHANGED <<class, stack, leaving, view, dirty, subs, version>>

SignedIn(sc) ==
  /\ signins[sc] > 0
  /\ signins' = [signins EXCEPT ![sc] = @ - 1]
  /\ stack' = IF Mounted(sc)
                THEN Append(stack, [kind |-> "notes", screen |-> sc, sub |-> 0,
                                    version |-> 0, late |-> sc \in leaving])
                ELSE stack
  /\ UNCHANGED <<class, leaving, view, dirty, subs, version>>

SignInFailed(sc) ==
  /\ signins[sc] > 0
  /\ signins' = [signins EXCEPT ![sc] = @ - 1]
  /\ UNCHANGED <<class, stack, leaving, view, dirty, subs, version>>

(* The back button (or a tap outside a dialog) pops the top route.  A list *)
(* screen takes no more taps from then on, but stays mounted for its exit  *)
(* transition.                                                             *)
Back ==
  /\ stack # <<>>
  /\ stack' = SubSeq(stack, 1, Len(stack) - 1)
  /\ leaving' = IF IsList(Top) THEN leaving \cup {Top.screen} ELSE leaving
  /\ UNCHANGED <<class, view, dirty, subs, version, signins>>

(* The exit transition has run: the screen and its items are disposed.     *)
Disposed(sc) ==
  /\ sc \in leaving
  /\ leaving' = leaving \ {sc}
  /\ view' = [view EXCEPT ![sc] = "gone"]
  /\ dirty' = dirty \ {sc}
  /\ subs' = ItemsGone(sc)
  /\ UNCHANGED <<class, stack, version, signins>>

-----------------------------------------------------------------------------
Next ==
  \/ \E c \in Classes : OpenList(c) \/ HandleMessage(c)
  \/ Edit \/ TapTile \/ Press \/ Back
  \/ \E sc \in Screens :
       \/ ListAnswers(sc) \/ Frame(sc) \/ Type(sc) \/ Disposed(sc)
       \/ TapNotes(sc) \/ SignedIn(sc) \/ SignInFailed(sc)
       \/ \E b \in Buttons(class[sc]) : Tap(sc, b)
  \/ \E s \in DOMAIN subs : ItemGone(s) \/ Attach(s) \/ Deliver(s)

Spec == Init /\ [][Next]_vars

(* Firestore answers every listener, the engine draws every frame and the  *)
(* event loop runs every callback; nothing is assumed of the user, of the  *)
(* sign-in or of the people who edit the documents.                        *)
Fairness ==
  /\ \A sc \in 1..MaxScreens : WF_vars(sc \in Screens /\ ListAnswers(sc)) /\ WF_vars(sc \in Screens /\ Frame(sc))
  /\ \A s \in 1..MaxTaps :
       /\ WF_vars(s \in DOMAIN subs /\ Attach(s))
       /\ WF_vars(s \in DOMAIN subs /\ Deliver(s))

FairSpec == Spec /\ Fairness

-----------------------------------------------------------------------------
(* A page, dialog or form stands above the list screen it was opened from, *)
(* however late the listener or the sign-in that opened it answered, save  *)
(* for exactly those that were answered during that screen's exit          *)
(* transition: they stay behind it, and the buttons of such a dialog find  *)
(* a disposed screen to call setState on.                                  *)
OrphansAreLate ==
  \A i \in DOMAIN stack :
    ~IsList(stack[i]) =>
      (stack[i].late <=>
         ~\E j \in 1..(i - 1) : IsList(stack[j]) /\ stack[j].screen = stack[i].screen)

(* Pages piled up by one listener lie in the order of the document's       *)
(* changes: going back shows older data, the top page the newest the       *)
(* listener has seen.                                                      *)
NewestOnTop ==
  \A i, j \in DOMAIN stack :
    i < j /\ stack[i].sub = stack[j].sub => stack[i].version <= stack[j].version

(* A listener that still holds its item's context belongs to a mounted     *)
(* screen that shows its list: a rebuilt, failed or closed list silences   *)
(* the Offers and Menu listeners of its items for good.                    *)
SilencedByRebuild ==
  \A s \in DOMAIN subs :
    subs[s].ctx => Mounted(subs[s].screen) /\ view[subs[s].screen] = "list"

(* Every tap on a detail button is answered: its listener gets its first   *)
(* snapshot and works through everything it received.                      *)
Answered(s) == s \in DOMAIN subs /\ subs[s].attached /\ subs[s].pending = <<>>
TapAnswered == \A s \in 1..MaxTaps : s \in DOMAIN subs ~> Answered(s)

(* No list screen keeps its spinner: each rebuild's new stream answers     *)
(* with the list or an error, unless the screen is left first.             *)
SpinnerEnds ==
  \A sc \in 1..MaxScreens :
    sc \in Screens /\ view[sc] = "spinner" ~> ~Mounted(sc) \/ view[sc] # "spinner"

(* The navigator serves the list screens as RouteStack promises: routes    *)
(* are shown on behalf of a screen only while it is on the stack or        *)
(* leaving, and later only from a grid that was left behind.               *)
Stack == INSTANCE RouteStack WITH
  ScreenId <- 1..MaxScreens,
  MaxShown <- IF MaxDocs = 0 THEN 1 ELSE MaxDocs,
  routes <- [i \in DOMAIN stack |->
               [screen |-> stack[i].screen, root |-> IsList(stack[i]), late |-> stack[i].late]]

ServesScreens == Stack!Spec
=============================================================================
