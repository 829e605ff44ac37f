---------------------------- MODULE MCSocialCost ----------------------------
(* A grid of six cells, with a position outside of it, beside layers that  *)
(* ask for nothing or for the middle of the grid.                          *)
EXTENDS SocialCostLayer

MCPositions == {0, 3, 7}
MCOtherBounds == {{}, 2 .. 4}
=============================================================================
