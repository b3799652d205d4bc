--------------------------- MODULE MCNamespaceRooms ---------------------------
(***************************************************************************)
(* Symmetry for the runs of NamespaceRooms.                                *)
(***************************************************************************)
EXTENDS NamespaceRooms, TLC

Symmetry == Permutations(Threads) \cup Permutations(RoomIds)
=============================================================================
