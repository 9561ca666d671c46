---------------------------- MODULE DetailTables ----------------------------
(***************************************************************************)
(* What the detail buttons of the app do with the array (or map) they read *)
(* from a Firestore document.  Every button handler of offerslist.dart,    *)
(* rescafeofferslist.dart and categories.dart is a chain of                *)
(* "if (count == k)" tests, one branch per supported length, with its      *)
(* indexes written out by hand; a length with no branch falls through and  *)
(* the tap has no visible effect.  Here a chain is a table with one row    *)
(* per branch, and a row holds the literal numbers of that branch as they  *)
(* stand in the source: nothing in it is computed, so that an index that   *)
(* was copied wrong in the source is wrong here too.                       *)
(***************************************************************************)
EXTENDS Naturals, Sequences

(* A row: what the branch opens, the count it passes, and the positions    *)
(* (from 0) it labels each tile or button with and leads to.               *)
Branch(kind, count, labels, targets) ==
  [kind |-> kind, count |-> count, labels |-> labels, targets |-> targets]

(* ImageBui with one image; GridImageList with img1, ..., imgn and count;  *)
(* an AwesomeDialog with one button per entry of the map; a call.          *)
Single(position)        == Branch("image", 1, <<position>>, <<position>>)
Grid(count, positions)  == Branch("grid", count, positions, positions)
Dialog(labels, targets) == Branch("dialog", Len(labels), labels, targets)
Dials(position)         == Branch("dial", 1, <<position>>, <<position>>)

(* The positions of a branch exist in an array of n entries.               *)
Readable(row, n) == \A k \in DOMAIN row.labels : row.labels[k] < n

(* The effect of a chain on an array of n entries.  The arguments of a     *)
(* page are read when its route is built, so that a position past the end  *)
(* leaves an error page; those of a dialog are read before it is shown,    *)
(* inside the handler's try.                                               *)
EffectOf(branches, n) ==
  CASE n \notin DOMAIN branches -> "nothing"
    [] n \in DOMAIN branches /\ Readable(branches[n], n) -> branches[n].kind
    [] OTHER -> IF branches[n].kind = "dialog" THEN "nothing" ELSE "broken"

-----------------------------------------------------------------------------
(* The Offers button of OffersList and of ResCafeOffersList.               *)
OfferBranches == <<
  Single(0),
  Grid(2, <<0, 1>>),
  Grid(3, <<0, 1, 2>>),
  Grid(4, <<0, 1, 2, 3>>),
  Grid(5, <<0, 1, 2, 3, 4>>),
  Grid(6, <<0, 1, 2, 3, 4, 5>>),
  Grid(7, <<0, 1, 2, 3, 4, 5, 6>>),
  Grid(8, <<0, 1, 2, 3, 4, 5, 6, 7>>),
  Grid(9, <<0, 1, 2, 3, 4, 5, 6, 7, 8>>),
  Grid(10, <<0, 1, 2, 3, 4, 5, 6, 7, 8, 9>>)>>

ResCafeOfferBranches == <<
  Single(0),
  Grid(2, <<0, 1>>),
  Grid(3, <<0, 1, 2>>),
  Grid(4, <<0, 1, 2, 3>>),
  Grid(5, <<0, 1, 2, 3, 4>>),
  Grid(6, <<0, 1, 2, 3, 4, 5>>),
  Grid(7, <<0, 1, 2, 3, 4, 5, 6>>),
  Grid(8, <<0, 1, 2, 3, 4, 5, 6, 7>>),
  Grid(9, <<0, 1, 2, 3, 4, 5, 6, 7, 8>>),
  Grid(10, <<0, 1, 2, 3, 4, 5, 6, 7, 8, 9>>)>>

(* The Menu button of ResCafeOffersList; img20 of the branch for 20 reads  *)
(* ['menu'][20].                                                           *)
MenuTwenty ==
  Grid(20, <<0, 1, 2, 3, 4, 5, 6, 7, 8, 9, 10, 11, 12, 13, 14, 15, 16, 17,
             18, 20>>)

MenuBranches == <<
  Single(0),
  Grid(2, <<0, 1>>),
  Grid(3, <<0, 1, 2>>),
  Grid(4, <<0, 1, 2, 3>>),
  Grid(5, <<0, 1, 2, 3, 4>>),
  Grid(6, <<0, 1, 2, 3, 4, 5>>),
  Grid(7, <<0, 1, 2, 3, 4, 5, 6>>),
  Grid(8, <<0, 1, 2, 3, 4, 5, 6, 7>>),
  Grid(9, <<0, 1, 2, 3, 4, 5, 6, 7, 8>>),
  Grid(10, <<0, 1, 2, 3, 4, 5, 6, 7, 8, 9>>),
  Grid(11, <<0, 1, 2, 3, 4, 5, 6, 7, 8, 9, 10>>),
  Grid(12, <<0, 1, 2, 3, 4, 5, 6, 7, 8, 9, 10, 11>>),
  Grid(13, <<0, 1, 2, 3, 4, 5, 6, 7, 8, 9, 10, 11, 12>>),
  Grid(14, <<0, 1, 2, 3, 4, 5, 6, 7, 8, 9, 10, 11, 12, 13>>),
  Grid(15, <<0, 1, 2, 3, 4, 5, 6, 7, 8, 9, 10, 11, 12, 13, 14>>),
  Grid(16, <<0, 1, 2, 3, 4, 5, 6, 7, 8, 9, 10, 11, 12, 13, 14, 15>>),
  Grid(17, <<0, 1, 2, 3, 4, 5, 6, 7, 8, 9, 10, 11, 12, 13, 14, 15, 16>>),
  Grid(18, <<0, 1, 2, 3, 4, 5, 6, 7, 8, 9, 10, 11, 12, 13, 14, 15, 16, 17>>),
  Grid(19, <<0, 1, 2, 3, 4, 5, 6, 7, 8, 9, 10, 11, 12, 13, 14, 15, 16, 17, 18>>),
  MenuTwenty,
  Grid(21, <<0, 1, 2, 3, 4, 5, 6, 7, 8, 9, 10, 11, 12, 13, 14, 15, 16, 17,
             18, 19, 20>>)>>

(* The two tap targets (the tile and its label) of the Baraka Mall         *)
(* category.                                                               *)
MallTileBranches == <<
  Single(0),
  Grid(2, <<0, 1>>),
  Grid(3, <<0, 1, 2>>),
  Grid(4, <<0, 1, 2, 3>>),
  Grid(5, <<0, 1, 2, 3, 4>>),
  Grid(6, <<0, 1, 2, 3, 4, 5>>),
  Grid(7, <<0, 1, 2, 3, 4, 5, 6>>),
  Grid(8, <<0, 1, 2, 3, 4, 5, 6, 7>>),
  Grid(9, <<0, 1, 2, 3, 4, 5, 6, 7, 8>>),
  Grid(10, <<0, 1, 2, 3, 4, 5, 6, 7, 8, 9>>),
  Grid(11, <<0, 1, 2, 3, 4, 5, 6, 7, 8, 9, 10>>),
  Grid(12, <<0, 1, 2, 3, 4, 5, 6, 7, 8, 9, 10, 11>>),
  Grid(13, <<0, 1, 2, 3, 4, 5, 6, 7, 8, 9, 10, 11, 12>>),
  Grid(14, <<0, 1, 2, 3, 4, 5, 6, 7, 8, 9, 10, 11, 12, 13>>)>>

MallLabelBranches == <<
  Single(0),
  Grid(2, <<0, 1>>),
  Grid(3, <<0, 1, 2>>),
  Grid(4, <<0, 1, 2, 3>>),
  Grid(5, <<0, 1, 2, 3, 4>>),
  Grid(6, <<0, 1, 2, 3, 4, 5>>),
  Grid(7, <<0, 1, 2, 3, 4, 5, 6>>),
  Grid(8, <<0, 1, 2, 3, 4, 5, 6, 7>>),
  Grid(9, <<0, 1, 2, 3, 4, 5, 6, 7, 8>>),
  Grid(10, <<0, 1, 2, 3, 4, 5, 6, 7, 8, 9>>),
  Grid(11, <<0, 1, 2, 3, 4, 5, 6, 7, 8, 9, 10>>),
  Grid(12, <<0, 1, 2, 3, 4, 5, 6, 7, 8, 9, 10, 11>>),
  Grid(13, <<0, 1, 2, 3, 4, 5, 6, 7, 8, 9, 10, 11, 12>>),
  Grid(14, <<0, 1, 2, 3, 4, 5, 6, 7, 8, 9, 10, 11, 12, 13>>)>>

-----------------------------------------------------------------------------
(* The Call buttons dial a single number at once and let the user choose   *)
(* among several; the Branches buttons always show the list.  Each button  *)
(* of the dialog has the key at the first position for its label and dials *)
(* or opens the value at the second.                                       *)
CallBranches == <<
  Dials(0),
  Dialog(<<0, 1>>, <<0, 1>>),
  Dialog(<<0, 1, 2>>, <<0, 1, 2>>),
  Dialog(<<0, 1, 2, 3>>, <<0, 1, 2, 3>>),
  Dialog(<<0, 1, 2, 3, 4>>, <<0, 1, 2, 3, 4>>),
  Dialog(<<0, 1, 2, 3, 4, 5>>, <<0, 1, 2, 3, 4, 5>>),
  Dialog(<<0, 1, 2, 3, 4, 5, 6>>, <<0, 1, 2, 3, 4, 5, 6>>),
  Dialog(<<0, 1, 2, 3, 4, 5, 6, 7>>, <<0, 1, 2, 3, 4, 5, 6, 7>>),
  Dialog(<<0, 1, 2, 3, 4, 5, 6, 7, 8>>, <<0, 1, 2, 3, 4, 5, 6, 7, 8>>),
  Dialog(<<0, 1, 2, 3, 4, 5, 6, 7, 8, 9>>, <<0, 1, 2, 3, 4, 5, 6, 7, 8, 9>>)>>

ResCafeCallBranches == <<
  Dials(0),
  Dialog(<<0, 1>>, <<0, 1>>),
  Dialog(<<0, 1, 2>>, <<0, 1, 2>>),
  Dialog(<<0, 1, 2, 3>>, <<0, 1, 2, 3>>),
  Dialog(<<0, 1, 2, 3, 4>>, <<0, 1, 2, 3, 4>>),
  Dialog(<<0, 1, 2, 3, 4, 5>>, <<0, 1, 2, 3, 4, 5>>),
  Dialog(<<0, 1, 2, 3, 4, 5, 6>>, <<0, 1, 2, 3, 4, 5, 6>>),
  Dialog(<<0, 1, 2, 3, 4, 5, 6, 7>>, <<0, 1, 2, 3, 4, 5, 6, 7>>),
  Dialog(<<0, 1, 2, 3, 4, 5, 6, 7, 8>>, <<0, 1, 2, 3, 4, 5, 6, 7, 8>>),
  Dialog(<<0, 1, 2, 3, 4, 5, 6, 7, 8, 9>>, <<0, 1, 2, 3, 4, 5, 6, 7, 8, 9>>)>>

BranchBranches == <<
  Dialog(<<0>>, <<0>>),
  Dialog(<<0, 1>>, <<0, 1>>),
  Dialog(<<0, 1, 2>>, <<0, 1, 2>>),
  Dialog(<<0, 1, 2, 3>>, <<0, 1, 2, 3>>),
  Dialog(<<0, 1, 2, 3, 4>>, <<0, 1, 2, 3, 4>>),
  Dialog(<<0, 1, 2, 3, 4, 5>>, <<0, 1, 2, 3, 4, 5>>),
  Dialog(<<0, 1, 2, 3, 4, 5, 6>>, <<0, 1, 2, 3, 4, 5, 6>>),
  Dialog(<<0, 1, 2, 3, 4, 5, 6, 7>>, <<0, 1, 2, 3, 4, 5, 6, 7>>),
  Dialog(<<0, 1, 2, 3, 4, 5, 6, 7, 8>>, <<0, 1, 2, 3, 4, 5, 6, 7, 8>>),
  Dialog(<<0, 1, 2, 3, 4, 5, 6, 7, 8, 9>>, <<0, 1, 2, 3, 4, 5, 6, 7, 8, 9>>)>>

ResCafeBranchBranches == <<
  Dialog(<<0>>, <<0>>),
  Dialog(<<0, 1>>, <<0, 1>>),
  Dialog(<<0, 1, 2>>, <<0, 1, 2>>),
  Dialog(<<0, 1, 2, 3>>, <<0, 1, 2, 3>>),
  Dialog(<<0, 1, 2, 3, 4>>, <<0, 1, 2, 3, 4>>),
  Dialog(<<0, 1, 2, 3, 4, 5>>, <<0, 1, 2, 3, 4, 5>>),
  Dialog(<<0, 1, 2, 3, 4, 5, 6>>, <<0, 1, 2, 3, 4, 5, 6>>),
  Dialog(<<0, 1, 2, 3, 4, 5, 6, 7>>, <<0, 1, 2, 3, 4, 5, 6, 7>>),
  Dialog(<<0, 1, 2, 3, 4, 5, 6, 7, 8>>, <<0, 1, 2, 3, 4, 5, 6, 7, 8>>),
  Dialog(<<0, 1, 2, 3, 4, 5, 6, 7, 8, 9>>, <<0, 1, 2, 3, 4, 5, 6, 7, 8, 9>>)>>

-----------------------------------------------------------------------------
(* Home's own chain on widget.count: which of its arguments img1, ...,     *)
(* img21 the grid lays out.  A count of 1 has no branch.                   *)
HomeShows == <<
  <<>>,
  <<1, 2>>,
  <<1, 2, 3>>,
  <<1, 2, 3, 4>>,
  <<1, 2, 3, 4, 5>>,
  <<1, 2, 3, 4, 5, 6>>,
  <<1, 2, 3, 4, 5, 6, 7>>,
  <<1, 2, 3, 4, 5, 6, 7, 8>>,
  <<1, 2, 3, 4, 5, 6, 7, 8, 9>>,
  <<1, 2, 3, 4, 5, 6, 7, 8, 9, 10>>,
  <<1, 2, 3, 4, 5, 6, 7, 8, 9, 10, 11>>,
  <<1, 2, 3, 4, 5, 6, 7, 8, 9, 10, 11, 12>>,
  <<1, 2, 3, 4, 5, 6, 7, 8, 9, 10, 11, 12, 13>>,
  <<1, 2, 3, 4, 5, 6, 7, 8, 9, 10, 11, 12, 13, 14>>,
  <<1, 2, 3, 4, 5, 6, 7, 8, 9, 10, 11, 12, 13, 14, 15>>,
  <<1, 2, 3, 4, 5, 6, 7, 8, 9, 10, 11, 12, 13, 14, 15, 16>>,
  <<1, 2, 3, 4, 5, 6, 7, 8, 9, 10, 11, 12, 13, 14, 15, 16, 17>>,
  <<1, 2, 3, 4, 5, 6, 7, 8, 9, 10, 11, 12, 13, 14, 15, 16, 17, 18>>,
  <<1, 2, 3, 4, 5, 6, 7, 8, 9, 10, 11, 12, 13, 14, 15, 16, 17, 18, 19>>,
  <<1, 2, 3, 4, 5, 6, 7, 8, 9, 10, 11, 12, 13, 14, 15, 16, 17, 18, 19, 20>>,
  <<1, 2, 3, 4, 5, 6, 7, 8, 9, 10, 11, 12, 13, 14, 15, 16, 17, 18, 19, 20, 21>>>>

(* The tiles of the grid, or the buttons of the dialog, that a branch puts *)
(* up: which entry each is labelled with and which one a tap on it leads   *)
(* to.  ImageBui and a call have one.                                      *)
Entry(row, k) == [label |-> row.labels[k], target |-> row.targets[k]]

Entries(row) ==
  LET arguments == IF row.kind = "grid" THEN HomeShows[row.count] ELSE [k \in DOMAIN row.labels |-> k]
  IN [k \in DOMAIN arguments |-> Entry(row, arguments[k])]
=============================================================================
