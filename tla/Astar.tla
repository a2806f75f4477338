------------------------------- MODULE Astar -------------------------------
(***************************************************************************)
(* astar_next_step (astar.h): the next tile of an NPC that chases a        *)
(* player.  The search keeps to the box around both, MARGIN tiles wider    *)
(* and clipped to the world.  A node is the local index y * W + x of a     *)
(* tile of the box.                                                        *)
(*                                                                         *)
(* One step is one round of a loop.  Nodes of equal f leave pq in any      *)
(* order; costs are small integers, which float holds exactly.             *)
(***************************************************************************)
EXTENDS Integers

CONSTANTS WORLD_WIDTH, WORLD_HEIGHT, VIEW_RANGE,
          MARGIN    \* 20 in the source

ASSUME WorldAssumption ==
    /\ {WORLD_WIDTH, WORLD_HEIGHT} \subseteq Nat \ {0}
    /\ {VIEW_RANGE, MARGIN} \subseteq Nat

VARIABLES
    g_obstacle_map,   \* the tiles that are obstacles
    from, to,         \* (sx, sy) and (tx, ty)
    g_cost, parent,   \* per node
    closed,           \* the nodes that are closed
    pq,               \* pairs <<f, node>>
    cur,              \* the node reached by the backtracking
    phase,            \* "idle", "search", "trace" or "done"
    next_step         \* the result

search == <<from, to, g_cost, parent, closed, pq, cur, phase, next_step>>

Grid == INSTANCE SectorGrid WITH Obstacles <- g_obstacle_map

INF == 1000000000
NONE == -1

\* No way through the world costs as much as INF.
ASSUME CostAssumption == WORLD_WIDTH * WORLD_HEIGHT < INF

Least(a, b) == IF a < b THEN a ELSE b
Most(a, b) == IF a > b THEN a ELSE b

x0 == Most(0, Least(from[1], to[1]) - MARGIN)
y0 == Most(0, Least(from[2], to[2]) - MARGIN)
x1 == Least(WORLD_WIDTH - 1, Most(from[1], to[1]) + MARGIN)
y1 == Least(WORLD_HEIGHT - 1, Most(from[2], to[2]) + MARGIN)
W == x1 - x0 + 1
H == y1 - y0 + 1

Nodes == 0 .. W * H - 1
idx(t) == (t[2] - y0) * W + (t[1] - x0)
tile(n) == <<(n % W) + x0, (n \div W) + y0>>
InBox(t) == t[1] \in x0 .. x1 /\ t[2] \in y0 .. y1

\* The Manhattan distance to the target.
Estimate(n) == Grid!Abs(tile(n)[1] - to[1]) + Grid!Abs(tile(n)[2] - to[2])

NoSearch ==
    /\ from = <<0, 0>> /\ to = <<0, 0>>
    /\ g_cost = <<>> /\ parent = <<>> /\ closed = {} /\ pq = {}
    /\ cur = NONE /\ phase = "idle" /\ next_step = <<0, 0>>

\* The call, up to the loop.
Call(s, t) ==
    /\ phase = "idle"
    /\ from' = s /\ to' = t
    /\ next_step' = s
    /\ closed' = {} /\ cur' = NONE
    /\ IF s = t
       THEN /\ phase' = "done"
            /\ g_cost' = <<>> /\ parent' = <<>> /\ pq' = {}
       ELSE /\ phase' = "search"
            /\ g_cost' = [n \in Nodes' |-> IF n = idx(from)' THEN 0 ELSE INF]
            /\ parent' = [n \in Nodes' |-> NONE]
            /\ pq' = {<<Estimate(idx(from))', idx(from)'>>}
    /\ UNCHANGED g_obstacle_map

\* Node c is taken from pq but was closed before.
Skip(c) ==
    /\ c[2] \in closed
    /\ pq' = pq \ {c}
    /\ UNCHANGED <<g_obstacle_map, from, to, g_cost, parent, closed, cur, phase, next_step>>

\* The target is taken from pq: found.
Found(c) ==
    /\ c[2] = idx(to) /\ c[2] \notin closed
    /\ pq' = pq \ {c}
    /\ closed' = closed \cup {c[2]}
    /\ cur' = idx(to)
    /\ phase' = "trace"
    /\ UNCHANGED <<g_obstacle_map, from, to, g_cost, parent, next_step>>

\* The free neighbours of node n inside the box that are not closed.
OpenNeighbours(n) ==
    { idx(u) : u \in { v \in { Grid!Neighbour(tile(n), d) : d \in Grid!DIRECTION } :
                          InBox(v) /\ ~Grid!is_obstacle(v) /\ idx(v) \notin closed } }

\* Mutant: the last way found is taken.
AnyWay(ng, n) == TRUE

\* A way of ng steps to n is better than the one known.
Cheaper(ng, n) == ng < g_cost[n]

\* Another node is closed and its neighbours are reached through it if that
\* is cheaper.
Expand(c) ==
    /\ c[2] # idx(to) /\ c[2] \notin closed
    /\ closed' = closed \cup {c[2]}
    /\ LET ng == g_cost[c[2]] + 1
           better == { n \in OpenNeighbours(c[2]) : Cheaper(ng, n) }
       IN /\ g_cost' = [n \in Nodes |-> IF n \in better THEN ng ELSE g_cost[n]]
          /\ parent' = [n \in Nodes |-> IF n \in better THEN c[2] ELSE parent[n]]
          /\ pq' = (pq \ {c}) \cup { <<ng + Estimate(n), n>> : n \in better }
    /\ UNCHANGED <<g_obstacle_map, from, to, cur, phase, next_step>>

Pop == /\ phase = "search"
       /\ \E c \in pq : /\ \A d \in pq : c[1] <= d[1]
                        /\ Skip(c) \/ Found(c) \/ Expand(c)

\* The call returns t; its local variables are gone.
Answer(t) ==
    /\ next_step' = t
    /\ phase' = "done"
    /\ g_cost' = <<>> /\ parent' = <<>> /\ closed' = {} /\ pq' = {} /\ cur' = NONE
    /\ UNCHANGED <<g_obstacle_map, from, to>>

\* pq is empty: the NPC stays.
NoPath == phase = "search" /\ pq = {} /\ Answer(from)

\* One round of the backtracking from the target ...
Back ==
    /\ phase = "trace"
    /\ parent[cur] \notin {idx(from), NONE}
    /\ cur' = parent[cur]
    /\ UNCHANGED <<g_obstacle_map, from, to, g_cost, parent, closed, pq, phase, next_step>>

\* ... and its end, at the node behind the start.
Return ==
    /\ phase = "trace"
    /\ parent[cur] \in {idx(from), NONE}
    /\ Answer(IF parent[cur] = NONE THEN from ELSE tile(cur))

AstarStep == Pop \/ NoPath \/ Back \/ Return
-----------------------------------------------------------------------------
Box == (x0 .. x1) \X (y0 .. y1)

\* The tiles beside the NPC.
Around == { Grid!Neighbour(from, d) : d \in Grid!DIRECTION }

\* S and the tiles beside it, among the free tiles of the box.
Grow(S) == { t \in Box : /\ ~Grid!is_obstacle(t)
                         /\ \/ t \in S
                            \/ \E d \in Grid!DIRECTION : Grid!Neighbour(t, d) \in S }

\* The tiles beside the NPC from which S is reached in the fewest steps.
Nearest[S \in SUBSET Box] ==
    IF Around \cap S # {} \/ Grow(S) = S THEN Around \cap S ELSE Nearest[Grow(S)]

\* What astar.h promises: the next tile of a shortest way to the target
\* through free tiles of the box; the tile of the NPC itself if it is at the
\* target or no such way exists, and only then.  The start may be inside an
\* obstacle, where the random fill of InitializeNPC can put an NPC.
ShortestStep ==
    phase = "done" =>
        LET best == Nearest[{ t \in {to} : ~Grid!is_obstacle(t) }]
        IN IF from = to \/ best = {} THEN next_step = from ELSE next_step \in best
=============================================================================
