----------------------------- MODULE RouteStack -----------------------------
(***************************************************************************)
(* What a navigator owes its screens, whatever opens the routes.  A screen *)
(* is pushed on top, and only the top route is popped.  A popped screen is *)
(* leaving until its exit transition has run; then it is gone, and no      *)
(* route is opened on its behalf any more, save by a tap on one that was   *)
(* opened for it while it left.  OfferDetails is shown to implement it.    *)
(***************************************************************************)
EXTENDS Naturals, Sequences

CONSTANTS
  ScreenId,    \* the names of screens
  MaxShown     \* most routes shown in one step

VARIABLES
  routes,      \* the stack, the visible route last
  leaving      \* screens popped that are not gone yet

Route == [screen : ScreenId, root : BOOLEAN, late : BOOLEAN]

Root(sc)       == [screen |-> sc, root |-> TRUE, late |-> FALSE]
Page(sc, late) == [screen |-> sc, root |-> FALSE, late |-> late]

TopRoute == routes[Len(routes)]

Present(sc) == \E i \in DOMAIN routes : routes[i] = Root(sc)

Init == routes = <<>> /\ leaving = {}

Open(sc) ==
  /\ ~Present(sc)
  /\ sc \notin leaving
  /\ routes' = Append(routes, Root(sc))
  /\ UNCHANGED leaving

(* For a screen on the stack, or late, for one that is leaving.            *)
Show(sc, k) ==
  /\ Present(sc) \/ sc \in leaving
  /\ routes' = routes \o [i \in 1..k |-> Page(sc, sc \in leaving)]
  /\ UNCHANGED leaving

(* A tap on the top page opens another for the same screen.                *)
ShowFromTop ==
  /\ routes # <<>>
  /\ ~TopRoute.root
  /\ routes' = Append(routes, TopRoute)
  /\ UNCHANGED leaving

Pop ==
  /\ routes # <<>>
  /\ routes' = SubSeq(routes, 1, Len(routes) - 1)
  /\ leaving' = IF TopRoute.root THEN leaving \cup {TopRoute.screen} ELSE leaving

Gone(sc) ==
  /\ sc \in leaving
  /\ leaving' = leaving \ {sc}
  /\ UNCHANGED routes

Next ==
  \/ Pop \/ ShowFromTop
  \/ \E sc \in ScreenId : Open(sc) \/ Gone(sc) \/ \E k \in 1..MaxShown : Show(sc, k)

Spec == Init /\ [][Next]_<<routes, leaving>>

-----------------------------------------------------------------------------
(* Every route has its screen below it, unless it was opened while that    *)
(* screen was leaving.                                                     *)
RootBelow ==
  \A i \in DOMAIN routes :
    ~routes[i].root /\ ~routes[i].late =>
      \E j \in 1..(i - 1) : routes[j] = Root(routes[i].screen)

(* A screen is on the stack at most once, and never while it leaves.       *)
RootsDistinct ==
  /\ \A i, j \in DOMAIN routes :
       routes[i].root /\ routes[j].root /\ routes[i].screen = routes[j].screen => i = j
  /\ \A sc \in leaving : ~Present(sc)
=============================================================================
