----------------------------- MODULE MCViewRace -----------------------------
(***************************************************************************)
(* A small instance of ViewRace: a corridor of four tiles in two sectors.  *)
(***************************************************************************)
EXTENDS ViewRace

MCObstacles == {<<0, 0>>}
MCOrigin == [n \in NPC |-> <<WORLD_WIDTH - 1, 0>>]
\* Only workers are interchangeable: SetToSeq orders the players.
MCSymmetry == Permutations(Workers)
=============================================================================
