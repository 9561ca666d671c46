----------------------------- MODULE MCAppShell -----------------------------
(***************************************************************************)
(* The smallest interesting shell: the restaurants tile and one other.     *)
(***************************************************************************)
EXTENDS AppShell

CONSTANTS restaurants, hotels

TwoTiles == {restaurants, hotels}
=============================================================================
