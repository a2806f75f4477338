----------------------------- MODULE WorldSetup -----------------------------
(***************************************************************************)
(* The start of the server (main, lua_manager.cpp, InitializeNPC): the map *)
(* script is read, obstacles.bin is written, the NPCs are placed, and the  *)
(* server accepts players.  A game client started meanwhile reads          *)
(* obstacles.bin (load_obstacles_bin); fopen_s lets no other process open  *)
(* a file that is being written, nor write one that is being read.  The    *)
(* server can be killed and started again, with another script.            *)
(*                                                                         *)
(* Once the server runs, one of its NPCs chases a player (Astar).  Names,  *)
(* levels and hit points are left out.                                     *)
(***************************************************************************)
EXTENDS Astar, Sequences, FiniteSets

CONSTANTS
    Scripts,        \* map.lua: [ok, obstacles, groups]
    Files,          \* what obstacles.bin may hold from before
    Garbage,        \* what vals holds when fread fills none of it
    BOSS_SPAWN,     \* BOSS_SPAWN_X, BOSS_SPAWN_Y: a sequence of tiles
    BOSS_SHIFT,     \* 10
    MAX_NPCS, NPC_ID_START,
    MAX_STARTS      \* bound on how often the server is started

\* int16_t, a rectangle of the script (ObstacleRect) and a group of NPCs.
HALF == 32768
Int16 == -HALF .. HALF - 1
Rects == [x : Int16, y : Int16, w : Int16, h : Int16, t : Int16]
Groups == [x : Int, y : Int, range : Int, count : Int, npc_type : Int]

\* The map.lua of the repository is such a script: its numbers fit the file.
ASSUME ScriptAssumption ==
    \A s \in Scripts : /\ s.ok \in BOOLEAN
                       /\ s.obstacles \in Seq(Rects)
                       /\ s.groups \in Seq(Groups)

ASSUME SetupAssumption ==
    /\ {MAX_NPCS, NPC_ID_START, MAX_STARTS, BOSS_SHIFT} \subseteq Nat
    /\ BOSS_SPAWN \in Seq((BOSS_SHIFT .. WORLD_WIDTH - 1 - BOSS_SHIFT)
                              \X (BOSS_SHIFT .. WORLD_HEIGHT - 1 - BOSS_SHIFT))

VARIABLES
    script,             \* the script this server reads
    boot,               \* where main is
    starts,             \* how often the server was started
    g_obstacle_rects,
    g_npc_groups,
    clients,            \* NPC id to [tile, type]
    sectors,            \* sector to the ids it holds
    total,              \* NPCs placed; npc_id is NPC_ID_START + total
    placed,             \* NPCs placed of the group at the front of g_npc_groups
    wrote,              \* the running server opened obstacles.bin for writing
    file,               \* obstacles.bin: [magic, n, vals], magic "" if absent
    viewer,             \* the game client: "off", "reading", "playing"
    g_obstacles,        \* the game client's obstacles
    current             \* the client opened the file of the running server

server == <<script, starts, g_obstacle_rects, g_npc_groups, clients, sectors, total, placed>>
client == <<viewer, g_obstacles, current>>
vars == <<search, g_obstacle_map, server, client, boot, file, wrote>>

NO_FILE == [magic |-> "", n |-> 0, vals |-> <<>>]

\* The tiles of a rectangle, wherever they lie.
Area(r) == (r.x .. r.x + r.w - 1) \X (r.y .. r.y + r.h - 1)

Init ==
    /\ boot = "lua"
    /\ script \in Scripts
    /\ starts = 1
    /\ g_obstacle_rects = <<>> /\ g_npc_groups = <<>>
    /\ g_obstacle_map = {}
    /\ clients = <<>>
    /\ sectors = [s \in Grid!Sectors |-> {}]
    /\ total = 0 /\ placed = 0
    /\ wrote = FALSE
    /\ file \in Files \cup {NO_FILE}
    /\ viewer = "off" /\ g_obstacles = <<>> /\ current = FALSE
    /\ NoSearch

\* The server is killed, in whatever it was doing, and started again.
Restart ==
    /\ starts < MAX_STARTS
    /\ phase = "idle"
    /\ boot' = "lua"
    /\ script' \in Scripts
    /\ starts' = starts + 1
    /\ g_obstacle_rects' = <<>> /\ g_npc_groups' = <<>>
    /\ g_obstacle_map' = {}
    /\ clients' = <<>>
    /\ sectors' = [s \in Grid!Sectors |-> {}]
    /\ total' = 0 /\ placed' = 0
    /\ wrote' = FALSE /\ current' = FALSE
    /\ UNCHANGED <<search, file, viewer, g_obstacles>>

\* init_lua: nothing is loaded when the script fails; main does not look.
init_lua ==
    /\ boot = "lua"
    /\ boot' = IF script.ok THEN "rects" ELSE "open file"
    /\ UNCHANGED <<search, g_obstacle_map, server, client, file, wrote>>

\* load_obstacles, one rectangle: it is kept as it is, its tiles inside the
\* world become obstacles.
LoadRect ==
    /\ boot = "rects"
    /\ Len(g_obstacle_rects) < Len(script.obstacles)
    /\ LET r == script.obstacles[Len(g_obstacle_rects) + 1]
       IN /\ g_obstacle_rects' = Append(g_obstacle_rects, r)
          /\ g_obstacle_map' = g_obstacle_map \cup (Area(r) \cap Grid!Tiles)
    /\ UNCHANGED <<search, script, starts, g_npc_groups, clients, sectors, total, placed,
                   client, boot, file, wrote>>

load_npc_groups ==
    /\ boot = "rects"
    /\ Len(g_obstacle_rects) = Len(script.obstacles)
    /\ g_npc_groups' = script.groups
    /\ boot' = "open file"
    /\ UNCHANGED <<search, g_obstacle_map, script, starts, g_obstacle_rects, clients,
                   sectors, total, placed, client, file, wrote>>
-----------------------------------------------------------------------------
\* write_obstacle_bin opens and truncates the file and writes its head; if it
\* cannot be opened, main goes on without.
OpenFile ==
    /\ boot = "open file"
    /\ \/ /\ viewer # "reading"
          /\ file' = [magic |-> "OBS2", n |-> Len(g_obstacle_rects), vals |-> <<>>]
          /\ boot' = "write file"
          /\ wrote' = TRUE
       \/ /\ boot' = "bosses"
          /\ UNCHANGED <<file, wrote>>
    /\ UNCHANGED <<search, g_obstacle_map, server, client>>

\* (int16_t)v.
int16(v) == ((v + HALF) % (HALF + HALF)) - HALF

\* One record, or the end of write_obstacle_bin.
WriteRecord ==
    /\ boot = "write file"
    /\ LET k == Len(file.vals) + 1
       IN IF k <= Len(g_obstacle_rects)
          THEN /\ file' = [file EXCEPT !.vals = Append(@,
                              [f \in DOMAIN g_obstacle_rects[k] |->
                                  int16(g_obstacle_rects[k][f])])]
               /\ UNCHANGED boot
          ELSE /\ boot' = "bosses"
               /\ UNCHANGED file
    /\ UNCHANGED <<search, g_obstacle_map, server, client, wrote>>
-----------------------------------------------------------------------------
\* The NPC with the next id is put on tile t and into its sector.
Place(t, type) ==
    LET i == NPC_ID_START + total
    IN /\ clients' = [j \in DOMAIN clients \cup {i} |->
                         IF j = i THEN [tile |-> t, type |-> type] ELSE clients[j]]
       /\ sectors' = [sectors EXCEPT ![Grid!sector_id(t)] = @ \cup {i}]
       /\ total' = total + 1

\* Without a script g_obstacle_map has no elements: is_obstacle reads outside.
BootCrash ==
    /\ boot = "bosses" /\ ~script.ok
    /\ boot' = "crashed"
    /\ UNCHANGED <<search, g_obstacle_map, server, client, file, wrote>>

\* InitializeNPC, one boss: at its place or, if that is an obstacle, at some
\* tile near it, obstacle or not after 50 tries.
PlaceBoss ==
    /\ boot = "bosses" /\ script.ok
    /\ IF total < Len(BOSS_SPAWN) /\ total < MAX_NPCS
       THEN /\ LET at == BOSS_SPAWN[total + 1]
               IN \E dx, dy \in -BOSS_SHIFT .. BOSS_SHIFT :
                    /\ Grid!is_obstacle(at) \/ (dx = 0 /\ dy = 0)
                    /\ Place(<<at[1] + dx, at[2] + dy>>, "BOSS")
            /\ UNCHANGED boot
       ELSE boot' = "groups" /\ UNCHANGED <<clients, sectors, total>>
    /\ UNCHANGED <<search, g_obstacle_map, script, starts, g_obstacle_rects, g_npc_groups,
                   placed, client, file, wrote>>

\* Mutant: a group is placed whole.
MoreWhole == placed < Head(g_npc_groups).count

\* The loop over one group goes on.
MoreOfGroup == placed < Head(g_npc_groups).count /\ total < MAX_NPCS

\* InitializeNPC, one NPC of a group: some tile of its zone, obstacle or not
\* after 100 tries.
PlaceOfGroup ==
    /\ boot = "groups" /\ g_npc_groups # <<>>
    /\ MoreOfGroup
    /\ LET g == Head(g_npc_groups)
       IN \E dx, dy \in -g.range .. g.range :
             Place(<<Most(0, Least(g.x + dx, WORLD_WIDTH - 1)),
                     Most(0, Least(g.y + dy, WORLD_HEIGHT - 1))>>,
                   IF g.npc_type = 2 THEN "AGRO" ELSE "PEACE")
    /\ placed' = placed + 1
    /\ UNCHANGED <<search, g_obstacle_map, script, starts, g_obstacle_rects, g_npc_groups,
                   client, boot, file, wrote>>

\* The next group, or the end of the groups.
NextGroup ==
    /\ boot = "groups"
    /\ IF g_npc_groups = <<>>
       THEN boot' = "fill" /\ UNCHANGED <<placed, g_npc_groups>>
       ELSE /\ ~MoreOfGroup
            /\ g_npc_groups' = Tail(g_npc_groups)
            /\ placed' = 0
            /\ UNCHANGED boot
    /\ UNCHANGED <<search, g_obstacle_map, script, starts, g_obstacle_rects, clients,
                   sectors, total, client, file, wrote>>

\* InitializeNPC fills up with NPCs on tiles that may be obstacles; then the
\* server accepts.
Fill ==
    /\ boot = "fill"
    /\ IF total < MAX_NPCS
       THEN /\ \E t \in Grid!Tiles : Place(t, IF total % 2 = 0 THEN "PEACE" ELSE "AGRO")
            /\ UNCHANGED boot
       ELSE boot' = "accept" /\ UNCHANGED <<clients, sectors, total>>
    /\ UNCHANGED <<search, g_obstacle_map, script, starts, g_obstacle_rects, g_npc_groups,
                   placed, client, file, wrote>>
-----------------------------------------------------------------------------
\* Mutant: fopen instead of fopen_s, which opens what is being written.
ReadableShared == TRUE

\* The client can open the file.
Readable == boot # "write file"

\* load_obstacles_bin up to fopen_s: without the file the map stays empty.
ClientOpen ==
    /\ viewer = "off"
    /\ IF Readable /\ file # NO_FILE
       THEN viewer' = "reading" /\ current' = wrote
       ELSE viewer' = "playing" /\ UNCHANGED current
    /\ UNCHANGED <<search, g_obstacle_map, server, boot, file, wrote, g_obstacles>>

\* The rest of load_obstacles_bin: n records, of version 2 or, without the
\* type, of version 1.
ClientRead ==
    /\ viewer = "reading"
    /\ viewer' = "playing"
    /\ \E g \in Garbage :
          g_obstacles' = [i \in 1 .. file.n |->
              LET v == IF i <= Len(file.vals) THEN file.vals[i] ELSE g
              IN IF file.magic = "OBS2" THEN v ELSE [v EXCEPT !.t = 0]]
    /\ UNCHANGED <<search, g_obstacle_map, server, boot, file, wrote, current>>

\* An NPC of the running server looks for its next tile towards a player.
\* Bound: the last NPC placed, after a first start that wrote the file, before
\* a client starts.
Chase ==
    /\ boot = "accept" /\ starts = 1 /\ wrote /\ viewer = "off"
    /\ total > 0
    /\ \E t \in Grid!Tiles : Call(clients[NPC_ID_START + total - 1].tile, t)
    /\ UNCHANGED <<server, client, boot, file, wrote>>

Search == AstarStep /\ UNCHANGED <<server, client, boot, file, wrote>>

Next == \/ Restart \/ init_lua \/ LoadRect \/ load_npc_groups
        \/ OpenFile \/ WriteRecord
        \/ BootCrash \/ PlaceBoss \/ PlaceOfGroup \/ NextGroup \/ Fill
        \/ (phase = "idle" /\ ClientOpen) \/ ClientRead
        \/ Chase \/ Search

Spec == Init /\ [][Next]_vars
-----------------------------------------------------------------------------
\* A client that opened the obstacles.bin of the running server knows its
\* obstacles: what it draws inside the world is g_obstacle_map, tile by tile,
\* although one is made of clipped rectangles while the script is read and
\* the other of the unclipped records of a file.  Holds as well when the
\* client was started while the server wrote, or a server was killed then.
MapAgrees ==
    viewer = "playing" /\ current =>
        (UNION { Area(g_obstacles[i]) : i \in DOMAIN g_obstacles }) \cap Grid!Tiles
            = g_obstacle_map

\* When the server accepts players, every NPC id is taken, whatever the
\* script says, and each NPC is in the world and in its sector only.
PopulationExact ==
    boot = "accept" =>
        /\ DOMAIN clients = NPC_ID_START .. NPC_ID_START + MAX_NPCS - 1
        /\ \A i \in DOMAIN clients :
              /\ clients[i].tile \in Grid!Tiles
              /\ {s \in DOMAIN sectors : i \in sectors[s]} = {Grid!sector_id(clients[i].tile)}
=============================================================================
