----------------------------- MODULE SectorGrid -----------------------------
(***************************************************************************)
(* The tile world and its partition into sectors (globals.h, sector.h,     *)
(* Object.h, lua_manager.h).  A tile is a pair <<x, y>>.  The constants    *)
(* keep the names of the source; the server is built with                  *)
(* WORLD_WIDTH = WORLD_HEIGHT = 2000 and VIEW_RANGE = 5.                   *)
(***************************************************************************)
EXTENDS Integers

CONSTANTS WORLD_WIDTH,   \* tiles per row
          WORLD_HEIGHT,  \* tiles per column
          VIEW_RANGE,    \* how far a player sees, in Chebyshev distance
          Obstacles      \* the tiles set in g_obstacle_map

ASSUME GridAssumption ==
    /\ WORLD_WIDTH \in Nat \ {0}
    /\ WORLD_HEIGHT \in Nat \ {0}
    /\ VIEW_RANGE \in Nat

Tiles == (0 .. WORLD_WIDTH - 1) \X (0 .. WORLD_HEIGHT - 1)

ASSUME ObstacleAssumption == Obstacles \subseteq Tiles

Abs(i) == IF i < 0 THEN -i ELSE i

SECTOR_SIZE == VIEW_RANGE * 2 + 1
MAX_SECTORS_X == (WORLD_WIDTH + SECTOR_SIZE - 1) \div SECTOR_SIZE
MAX_SECTORS_Y == (WORLD_HEIGHT + SECTOR_SIZE - 1) \div SECTOR_SIZE

SECTOR_X(x) == x \div SECTOR_SIZE
SECTOR_Y(y) == y \div SECTOR_SIZE
SECTOR_ID(sx, sy) == sy * MAX_SECTORS_X + sx

\* The index into SectorManager::sectors of the sector that holds tile t.
sector_id(t) == SECTOR_ID(SECTOR_X(t[1]), SECTOR_Y(t[2]))

Sectors == 0 .. MAX_SECTORS_X * MAX_SECTORS_Y - 1

\* Mutant: only the sector of t itself.
OwnSector == [t \in Tiles |-> {sector_id(t)}]

\* The at most nine sectors get_objects_in_adjacent_sectors reads around t.
AdjacentSectors ==
    [t \in Tiles |->
        { SECTOR_ID(sx, sy) :
            sx \in { x \in SECTOR_X(t[1]) - 1 .. SECTOR_X(t[1]) + 1 :
                        x >= 0 /\ x < MAX_SECTORS_X },
            sy \in { y \in SECTOR_Y(t[2]) - 1 .. SECTOR_Y(t[2]) + 1 :
                        y >= 0 /\ y < MAX_SECTORS_Y } }]

\* |dx| <= r and |dy| <= r: the shape of every range test of the server.
Within(t, u, r) == Abs(t[1] - u[1]) <= r /\ Abs(t[2] - u[2]) <= r

can_see(t, u) == Within(t, u, VIEW_RANGE)

\* Tiles outside the world count as obstacles.
is_obstacle(t) == t \notin Tiles \/ t \in Obstacles

DIRECTION == {"UP", "DOWN", "LEFT", "RIGHT"}

\* The tile one step from t in direction d, possibly outside the world.
Neighbour(t, d) ==
    CASE d = "UP"    -> <<t[1], t[2] - 1>>
      [] d = "DOWN"  -> <<t[1], t[2] + 1>>
      [] d = "LEFT"  -> <<t[1] - 1, t[2]>>
      [] d = "RIGHT" -> <<t[1] + 1, t[2]>>

=============================================================================
