--------------------------- MODULE MCOfferDetails ---------------------------
(***************************************************************************)
(* A small instance of OfferDetails: lengths 1, 2 and 11 take every kind   *)
(* of branch of OffersList (single, several, none).  What holds of the     *)
(* nine hand-written chains for every length is constant, and stated as an *)
(* assumption for TLC to evaluate.                                         *)
(***************************************************************************)
EXTENDS OfferDetails

OnlyOffers == {"OffersList"}
FewSizes   == {1, 2, 11}

Chains ==
  {OfferBranches, ResCafeOfferBranches, MenuBranches, MallTileBranches, MallLabelBranches,
   CallBranches, ResCafeCallBranches, BranchBranches, ResCafeBranchBranches}

(* Every branch puts up every entry of the array once and in its order,    *)
(* and each tile or button leads to what it shows: the test, the positions *)
(* written out, the count passed and Home's own chain agree.  The one      *)
(* branch that does not is the menu's for 20 pictures, which reads         *)
(* position 20 (rescafeofferslist.dart:1106) and leaves an error page.     *)
ASSUME ChainsInOrder ==
  \A branches \in Chains : \A n \in DOMAIN branches :
    IF branches = MenuBranches /\ n = 20
      THEN EffectOf(branches, n) = "broken"
      ELSE /\ EffectOf(branches, n) = branches[n].kind
           /\ Entries(branches[n]) = [k \in 1..n |-> [label |-> k - 1, target |-> k - 1]]
=============================================================================
