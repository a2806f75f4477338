---------------------------- MODULE MCGameWorld ----------------------------
(***************************************************************************)
(* Small instances of GameWorld: a corridor of tiles with a wall row above *)
(* it (a respawn never lands in row 0), long enough for three sectors.     *)
(***************************************************************************)
EXTENDS GameWorld, TLC

\* Row 0 is wall.
MCObstacles == (0 .. WORLD_WIDTH - 1) \X {0}
\* NPCs live at the right end of the corridor.
MCOrigin == [n \in NPC |-> <<WORLD_WIDTH - 2, 1>>]
MCSpawn == <<0, 1>>
\* Players log in away from the spawn point.
MCLogin == {<<2, 1>>}
MCBossDmg == [i \in 1 .. 3 |-> i]
MCBossCool == [i \in 1 .. 3 |-> 1]
\* Players are interchangeable.
MCSymmetry == Permutations(PC)
=============================================================================
