-------------------------- MODULE GameWorldProofs --------------------------
(***************************************************************************)
(* What GameWorld guarantees for every world, every number of players and  *)
(* NPCs, and every value of the game's parameters.                         *)
(***************************************************************************)
EXTENDS GameWorld, FiniteSetTheorems, WellFoundedInduction, TLAPS
(* Numbers divided into blocks, as the sectors divide the world.           *)

\* Division by a positive number, as the provers need it.
LEMMA DivBounds ==
    ASSUME NEW x \in Nat, NEW S \in Nat \ {0}
    PROVE  /\ x \div S \in Nat
           /\ (x \div S) * S <= x
           /\ x < (x \div S) * S + S
OBVIOUS

LEMMA DivMono ==
    ASSUME NEW x \in Nat, NEW y \in Nat, NEW S \in Nat \ {0}, x <= y
    PROVE  x \div S <= y \div S
OBVIOUS

\* Two numbers at most S apart fall into the same or neighbouring blocks.
LEMMA DivGap ==
    ASSUME NEW x \in Nat, NEW y \in Nat, NEW S \in Nat \ {0}, y - x <= S
    PROVE  y \div S <= x \div S + 1
OBVIOUS

\* The rounding up of MAX_SECTORS: the last index has a block.
LEMMA DivCeil ==
    ASSUME NEW x \in Nat, NEW W \in Nat \ {0}, NEW S \in Nat \ {0}, x < W
    PROVE  /\ (W + S - 1) \div S \in Nat \ {0}
           /\ x \div S < (W + S - 1) \div S
<1>1. x + S <= W + S - 1  OBVIOUS
<1>2. (x + S) \div S <= (W + S - 1) \div S
  BY <1>1, DivMono
<1>3. (x + S) \div S = x \div S + 1  OBVIOUS
<1>4. x \div S \in Nat  BY DivBounds
<1>5. (W + S - 1) \div S \in Nat  BY DivBounds
<1> QED  BY <1>2, <1>3, <1>4, <1>5

\* A row-major index stays inside the array.
LEMMA IndexBound ==
    ASSUME NEW X \in Nat \ {0}, NEW Y \in Nat \ {0}, NEW sx \in Nat, NEW sy \in Nat,
           sx < X, sy < Y
    PROVE  sy * X + sx \in 0 .. X * Y - 1
<1>1. sy * X <= (Y - 1) * X  OBVIOUS
<1>2. (Y - 1) * X = X * Y - X  OBVIOUS
<1>3. sy * X \in Nat /\ X * Y \in Nat  OBVIOUS
<1> QED  BY <1>1, <1>2, <1>3

LEMMA BlockDistance ==
    ASSUME NEW x \in Nat, NEW y \in Nat, NEW S \in Nat \ {0},
           x - y <= S, y - x <= S
    PROVE  y \div S \in x \div S - 1 .. x \div S + 1
<1>1. y \div S <= x \div S + 1  BY DivGap
<1>2. x \div S <= y \div S + 1  BY DivGap
<1>3. x \div S \in Nat /\ y \div S \in Nat  BY DivBounds
<1> QED  BY <1>1, <1>2, <1>3
-----------------------------------------------------------------------------
-----------------------------------------------------------------------------

(***************************************************************************)
(* The sector grid, for every world size and view range.                   *)
(***************************************************************************)
LEMMA SizeType == SECTOR_SIZE \in Nat \ {0}
BY GridAssumption DEF SECTOR_SIZE

LEMMA MaxType == MAX_SECTORS_X \in Nat \ {0} /\ MAX_SECTORS_Y \in Nat \ {0}
<1>1. 0 < WORLD_WIDTH /\ 0 < WORLD_HEIGHT  BY GridAssumption
<1> QED  BY <1>1, GridAssumption, SizeType, DivCeil DEF MAX_SECTORS_X, MAX_SECTORS_Y

LEMMA SectorXYType ==
    ASSUME NEW t \in Tiles
    PROVE  /\ t[1] \in Nat /\ t[2] \in Nat
           /\ SECTOR_X(t[1]) \in Nat /\ SECTOR_X(t[1]) < MAX_SECTORS_X
           /\ SECTOR_Y(t[2]) \in Nat /\ SECTOR_Y(t[2]) < MAX_SECTORS_Y
<1>1. t[1] \in Nat /\ t[2] \in Nat /\ t[1] < WORLD_WIDTH /\ t[2] < WORLD_HEIGHT
  BY GridAssumption DEF Tiles
<1>2. SECTOR_X(t[1]) \in Nat /\ SECTOR_Y(t[2]) \in Nat
  BY <1>1, SizeType, DivBounds DEF SECTOR_X, SECTOR_Y
<1>3. SECTOR_X(t[1]) < MAX_SECTORS_X
  BY <1>1, SizeType, DivCeil, GridAssumption DEF SECTOR_X, MAX_SECTORS_X
<1>4. SECTOR_Y(t[2]) < MAX_SECTORS_Y
  BY <1>1, SizeType, DivCeil, GridAssumption DEF SECTOR_Y, MAX_SECTORS_Y
<1> QED  BY <1>1, <1>2, <1>3, <1>4

\* Every tile has a sector: SectorManager never indexes outside its array.
THEOREM SectorIdInRange ==
    ASSUME NEW t \in Tiles
    PROVE  sector_id(t) \in Sectors
BY SectorXYType, MaxType, IndexBound DEF sector_id, SECTOR_ID, Sectors

LEMMA AdjacentType ==
    ASSUME NEW t \in Tiles
    PROVE  AdjacentSectors[t] \subseteq Sectors
<1> SUFFICES ASSUME NEW s \in AdjacentSectors[t] PROVE s \in Sectors
  OBVIOUS
<1>1. PICK sx \in { x \in SECTOR_X(t[1]) - 1 .. SECTOR_X(t[1]) + 1 :
                        x >= 0 /\ x < MAX_SECTORS_X },
           sy \in { y \in SECTOR_Y(t[2]) - 1 .. SECTOR_Y(t[2]) + 1 :
                        y >= 0 /\ y < MAX_SECTORS_Y } : s = SECTOR_ID(sx, sy)
  BY DEF AdjacentSectors
<1>2. sx \in Nat /\ sy \in Nat /\ sx < MAX_SECTORS_X /\ sy < MAX_SECTORS_Y
  BY SectorXYType
<1> QED  BY <1>1, <1>2, MaxType, IndexBound DEF SECTOR_ID, Sectors

\* The nine sectors get_objects_in_adjacent_sectors reads around t hold the
\* sector of every tile within any range up to SECTOR_SIZE: searching them
\* finds everyone in view (VIEW_RANGE) or in the detection range of an Agro,
\* while no such guarantee exists beyond SECTOR_SIZE.
THEOREM AdjacentCovers ==
    ASSUME NEW t \in Tiles, NEW u \in Tiles, NEW r \in Nat,
           r <= SECTOR_SIZE, Within(t, u, r)
    PROVE  sector_id(u) \in AdjacentSectors[t]
<1>1. /\ t[1] - u[1] <= SECTOR_SIZE /\ u[1] - t[1] <= SECTOR_SIZE
      /\ t[2] - u[2] <= SECTOR_SIZE /\ u[2] - t[2] <= SECTOR_SIZE
  BY SectorXYType, SizeType DEF Within, Abs
<1>2. SECTOR_X(u[1]) \in SECTOR_X(t[1]) - 1 .. SECTOR_X(t[1]) + 1
  BY <1>1, SectorXYType, SizeType, BlockDistance DEF SECTOR_X
<1>3. SECTOR_Y(u[2]) \in SECTOR_Y(t[2]) - 1 .. SECTOR_Y(t[2]) + 1
  BY <1>1, SectorXYType, SizeType, BlockDistance DEF SECTOR_Y
<1>4. /\ SECTOR_X(u[1]) >= 0 /\ SECTOR_X(u[1]) < MAX_SECTORS_X
      /\ SECTOR_Y(u[2]) >= 0 /\ SECTOR_Y(u[2]) < MAX_SECTORS_Y
  BY SectorXYType
<1>5. sector_id(u) = SECTOR_ID(SECTOR_X(u[1]), SECTOR_Y(u[2]))
  BY DEF sector_id
<1> QED  BY <1>2, <1>3, <1>4, <1>5 DEF AdjacentSectors

\* Two tiles that see each other find each other in their sectors.
COROLLARY ViewCovered ==
    ASSUME NEW t \in Tiles, NEW u \in Tiles, can_see(t, u)
    PROVE  sector_id(u) \in AdjacentSectors[t] /\ sector_id(t) \in AdjacentSectors[u]
<1>1. VIEW_RANGE \in Nat /\ VIEW_RANGE <= SECTOR_SIZE
  BY GridAssumption DEF SECTOR_SIZE
<1>2. Within(t, u, VIEW_RANGE) /\ Within(u, t, VIEW_RANGE)
  BY SectorXYType DEF can_see, Within, Abs
<1> QED  BY <1>1, <1>2, AdjacentCovers
-----------------------------------------------------------------------------

(***************************************************************************)
(* Lemmas about the operators the handlers are built from.                 *)
(***************************************************************************)
Events == [Ticks -> Nat]
Index == [Sectors -> SUBSET Obj]

LEMMA LongestType ==
    /\ LONGEST \in Nat /\ 0 \in Ticks
    /\ HP_REGEN_TIME \in Ticks
    /\ \A n \in NPC : RespawnTime(n) \in Ticks
BY TimeAssumption DEF LONGEST, Max2, Ticks, RespawnTime

LEMMA EventType ==
    ASSUME NEW ev \in Events
    PROVE  /\ NoEvent \in Events
           /\ \A d : Queued(ev, d) \in Events
           /\ Due(ev) => Handled(ev) \in Events
           /\ Elapsed(ev) \in Events
<1>1. NoEvent \in Events  BY DEF Events, NoEvent
<1>2. ASSUME NEW d PROVE Queued(ev, d) \in Events
  <2>1. CASE d \in Ticks  BY <2>1 DEF Events, Queued
  <2>2. CASE d \notin Ticks  BY <2>2 DEF Events, Queued
  <2> QED  BY <2>1, <2>2
<1>3. Due(ev) => Handled(ev) \in Events
  BY LongestType DEF Events, Due, Handled
<1>4. Elapsed(ev) \in Events  BY DEF Events, Elapsed
<1> QED  BY <1>1, <1>2, <1>3, <1>4

LEMMA PushAllType ==
    ASSUME NEW evs \in [NPC -> Events], NEW S, NEW d
    PROVE  PushAll(evs, S, d) \in [NPC -> Events]
BY EventType DEF PushAll

LEMMA SectorOpType ==
    ASSUME NEW sec \in Index, NEW o \in Obj, NEW t \in Tiles, NEW u \in Tiles
    PROVE  /\ add_object_to_sector(sec, o, t) \in Index
           /\ remove_object_from_sector(sec, o, t) \in Index
           /\ update_object_sector(sec, o, t, u) \in Index
BY DEF Index, add_object_to_sector, remove_object_from_sector, update_object_sector

LEMMA AdjacentObjects ==
    ASSUME NEW sec \in Index, NEW t \in Tiles
    PROVE  get_objects_in_adjacent_sectors(sec, t) \subseteq Obj
BY AdjacentType DEF Index, get_objects_in_adjacent_sectors

LEMMA FreeIsTile ==
    ASSUME NEW t, ~is_obstacle(t)
    PROVE  t \in Tiles
BY DEF is_obstacle

LEMMA OpenType ==
    ASSUME TypeOK
    PROVE  /\ sectors \in Index
           /\ move_ev \in [NPC -> Events]
           /\ respawn_ev \in [NPC -> Events]
           /\ regen_ev \in [PC -> Events]
BY DEF TypeOK, Index, Events

\* What wake_up, update_player_view, Relocate, update_viewers and HitPlayer
\* assign has its type.
LEMMA WakeType ==
    ASSUME TypeOK, NEW evs \in [NPC -> Events], NEW S, wake_up(evs, S)
    PROVE  active' \in [NPC -> BOOLEAN] /\ move_ev' \in [NPC -> Events]
<1>1. active' \in [NPC -> BOOLEAN]  BY DEF wake_up, TypeOK
<1>2. move_ev' \in [NPC -> Events]  BY PushAllType DEF wake_up
<1> QED  BY <1>1, <1>2

LEMMA ViewType ==
    ASSUME TypeOK, NEW p \in PC, NEW t \in Tiles, NEW sec \in Index,
           NEW evs \in [NPC -> Events], update_player_view(p, t, sec, evs)
    PROVE  /\ visible' \in [PC -> SUBSET Obj]
           /\ active' \in [NPC -> BOOLEAN] /\ move_ev' \in [NPC -> Events]
<1>1. new_view(p, t, sec) \subseteq Obj
  BY AdjacentObjects DEF new_view
<1>2. visible' \in [PC -> SUBSET Obj]
  BY <1>1 DEF update_player_view, ViewsAfter, TypeOK, Obj
<1>3. PICK S : wake_up(evs, S)  BY DEF update_player_view
<1> QED  BY <1>2, <1>3, WakeType

LEMMA RelocateType ==
    ASSUME TypeOK, NEW p \in PC, NEW t \in Tiles, NEW evs \in [NPC -> Events],
           Relocate(p, t, evs)
    PROVE  /\ pos' \in [Obj -> Tiles] /\ sectors' \in Index
           /\ visible' \in [PC -> SUBSET Obj]
           /\ active' \in [NPC -> BOOLEAN] /\ move_ev' \in [NPC -> Events]
<1> DEFINE sec == update_object_sector(sectors, p, pos[p], t)
<1>1. p \in Obj /\ pos[p] \in Tiles  BY DEF TypeOK, Obj
<1>2. sec \in Index  BY <1>1, OpenType, SectorOpType
<1>3. pos' = [pos EXCEPT ![p] = t] /\ sectors' = sec /\ update_player_view(p, t, sec, evs)
  BY DEF Relocate
<1>4. pos' \in [Obj -> Tiles]  BY <1>1, <1>3 DEF TypeOK
<1> HIDE DEF sec
<1> QED  BY <1>2, <1>3, <1>4, ViewType

LEMMA ViewersType ==
    ASSUME TypeOK, NEW n \in NPC, NEW t \in Tiles, update_viewers(n, t)
    PROVE  /\ pos' \in [Obj -> Tiles] /\ sectors' \in Index
           /\ visible' \in [PC -> SUBSET Obj]
<1>1. n \in Obj /\ pos[n] \in Tiles  BY DEF TypeOK, Obj
<1>2. sectors' \in Index  BY <1>1, OpenType, SectorOpType DEF update_viewers
<1>3. pos' \in [Obj -> Tiles]  BY <1>1 DEF update_viewers, TypeOK
<1>4. visible' \in [PC -> SUBSET Obj]  BY <1>1 DEF update_viewers, TypeOK
<1> QED  BY <1>2, <1>3, <1>4

LEMMA LevelType ==
    ASSUME NEW l \in 1 .. MAX_LEVEL
    PROVE  /\ calc_max_hp(l) \in Nat \ {0}
           /\ calc_atk_dmg(l) \in Nat /\ calc_skill_dmg(l) \in Nat
<1>1. l - 1 \in Nat  BY StatAssumption
<1>2. \A k \in Nat : (l - 1) * k \in Nat  BY <1>1
<1> QED  BY <1>2, StatAssumption DEF calc_max_hp, calc_atk_dmg, calc_skill_dmg

LEMMA NpcMaxHpType ==
    ASSUME NEW n \in NPC
    PROVE  NpcMaxHp(n) \in Nat \ {0}
BY StatAssumption DEF NpcMaxHp, NPC

LEMMA HitPlayerType ==
    ASSUME TypeOK, NEW n \in NPC, NEW p \in PC, NEW dmg \in Nat,
           NEW evs \in [NPC -> Events], HitPlayer(n, p, dmg, evs)
    PROVE  /\ m_hp' \in [Obj -> Int]
           /\ pos' \in [Obj -> Tiles] /\ sectors' \in Index
           /\ visible' \in [PC -> SUBSET Obj]
           /\ active' \in [NPC -> BOOLEAN] /\ move_ev' \in [NPC -> Events]
<1>1. calc_max_hp(m_level[p]) \in Int  BY LevelType DEF TypeOK
<1>2. CASE m_hp[p] - dmg <= 0
  <2>1. m_hp' = [m_hp EXCEPT ![p] = calc_max_hp(m_level[p])] /\ Relocate(p, PC_SPAWN, evs)
    BY <1>2 DEF HitPlayer
  <2>2. PC_SPAWN \in Tiles  BY ObjectAssumption
  <2>3. m_hp' \in [Obj -> Int]  BY <1>1, <2>1 DEF TypeOK
  <2> QED  BY <2>1, <2>2, <2>3, RelocateType
<1>3. CASE ~(m_hp[p] - dmg <= 0)
  <2>1. /\ m_hp' = [m_hp EXCEPT ![p] = @ - dmg] /\ move_ev' = evs
        /\ UNCHANGED <<pos, sectors, visible, active>>
    BY <1>3 DEF HitPlayer
  <2>2. p \in Obj  BY DEF Obj
  <2>3. m_hp' \in [Obj -> Int]  BY <2>1, <2>2 DEF TypeOK
  <2> QED  BY <2>1, <2>3, OpenType DEF TypeOK
<1> QED  BY <1>2, <1>3

LEMMA TargetsType ==
    ASSUME TypeOK, NEW n \in NPC
    PROVE  Targets(n) \subseteq PC
BY DEF Targets, Nearest, Detected, PlayersAround, ValidTarget, TypeOK

LEMMA TileChoices ==
    ASSUME TypeOK, NEW n \in NPC
    PROVE  /\ \A d \in DIRECTION : RoamTo(n, d) \in Tiles
           /\ NextSteps(n) \subseteq Tiles
           /\ RespawnTiles(n) \subseteq Tiles
<1>1. pos[n] \in Tiles /\ m_origin[n] \in Tiles
  BY ObjectAssumption DEF TypeOK, Obj
<1>2. \A d \in DIRECTION : RoamTo(n, d) \in Tiles
  BY <1>1, FreeIsTile DEF RoamTo
<1>3. NextSteps(n) \subseteq Tiles  BY <1>1, FreeIsTile DEF NextSteps
<1>4. RespawnTiles(n) \subseteq Tiles  BY <1>1, FreeIsTile DEF RespawnTiles
<1> QED  BY <1>2, <1>3, <1>4
-----------------------------------------------------------------------------
(***************************************************************************)
(* Type correctness.                                                       *)
(***************************************************************************)
WorkerType(w) ==
    /\ w \in [op : Ops, id : Obj \cup {NONE}, dir : DIRECTION, todo : SUBSET Obj]
    /\ w.op \in {"move2", "attack", "skill"} => w.id \in PC
    /\ w.op \in {"resched", "area"} => w.id \in NPC
    /\ w.op \in {"attack", "skill"} => w.todo \subseteq NPC
    /\ w.op = "area" => w.todo \subseteq PC

LEMMA WorkerTypes ==
    /\ WorkerType(Idle)
    /\ \A n \in NPC : WorkerType(Reschedule(n))
    /\ \A p \in PC, d \in DIRECTION : WorkerType(Then("move2", p, d, {}))
    /\ \A p \in PC, S \in SUBSET NPC, op \in {"attack", "skill"} :
          WorkerType(Then(op, p, "UP", S))
    /\ \A n \in NPC, S \in SUBSET PC : WorkerType(Then("area", n, "UP", S))
BY DEF WorkerType, Idle, Reschedule, Then, Ops, DIRECTION, Obj

LEMMA InitType == Init => TypeOK
<1> SUFFICES ASSUME Init PROVE TypeOK  OBVIOUS
<1>1. \A n \in NPC : NpcMaxHp(n) \in Int /\ m_origin[n] \in Tiles
  BY NpcMaxHpType, ObjectAssumption
<1>2. NoEvent \in [Ticks -> Nat]  BY DEF NoEvent
<1>3. /\ m_level \in [PC -> 1 .. MAX_LEVEL] /\ m_hp \in [Obj -> Int]
      /\ pos \in [Obj -> Tiles]
  BY <1>1, StatAssumption, ObjectAssumption DEF Init, Obj
<1>4. sectors \in [Sectors -> SUBSET Obj] /\ move_state \in [NPC -> NPC_STATE]
  BY DEF Init, Obj, RestState, NPC_STATE
<1>5. WorkerType(worker) /\ worker.op = "idle"
  BY WorkerTypes DEF Init, Idle
<1>6. /\ m_state \in [PC -> {"CS_CONNECT", "CS_PLAYING", "CS_LOGOUT"}]
      /\ visible \in [PC -> SUBSET Obj] /\ active \in [NPC -> BOOLEAN]
      /\ target \in [NPC -> PC \cup {NONE}]
  BY DEF Init
<1>7. /\ move_ev \in [NPC -> [Ticks -> Nat]] /\ respawn_ev \in [NPC -> [Ticks -> Nat]]
      /\ regen_ev \in [PC -> [Ticks -> Nat]]
  BY <1>2 DEF Init
<1> QED  BY <1>3, <1>4, <1>5, <1>6, <1>7 DEF TypeOK, WorkerType

\* TypeOK' from the types of the parts.
LEMMA TypeParts ==
    ASSUME m_state' \in [PC -> {"CS_CONNECT", "CS_PLAYING", "CS_LOGOUT"}],
           m_level' \in [PC -> 1 .. MAX_LEVEL],
           m_hp' \in [Obj -> Int], pos' \in [Obj -> Tiles], sectors' \in Index,
           visible' \in [PC -> SUBSET Obj], active' \in [NPC -> BOOLEAN],
           move_state' \in [NPC -> NPC_STATE], target' \in [NPC -> PC \cup {NONE}],
           move_ev' \in [NPC -> Events], respawn_ev' \in [NPC -> Events],
           regen_ev' \in [PC -> Events], WorkerType(worker'),
           worker'.op \in {"move2", "attack", "skill"} =>
               m_state'[worker'.id] = "CS_PLAYING"
    PROVE  TypeOK'
BY DEF TypeOK, Index, Events, WorkerType, Playing

\* The parts of TypeOK, in the form TypeParts takes them.
LEMMA PartsOfType ==
    ASSUME TypeOK
    PROVE  /\ m_state \in [PC -> {"CS_CONNECT", "CS_PLAYING", "CS_LOGOUT"}]
           /\ m_level \in [PC -> 1 .. MAX_LEVEL]
           /\ m_hp \in [Obj -> Int] /\ pos \in [Obj -> Tiles] /\ sectors \in Index
           /\ visible \in [PC -> SUBSET Obj] /\ active \in [NPC -> BOOLEAN]
           /\ move_state \in [NPC -> NPC_STATE] /\ target \in [NPC -> PC \cup {NONE}]
           /\ move_ev \in [NPC -> Events] /\ respawn_ev \in [NPC -> Events]
           /\ regen_ev \in [PC -> Events] /\ WorkerType(worker)
           /\ worker.op \in {"move2", "attack", "skill"} =>
                  m_state[worker.id] = "CS_PLAYING"
BY DEF TypeOK, Index, Events, WorkerType, Playing

LEMMA PlayerActType ==
    ASSUME TypeOK, NEW p \in PC, PlayerAct(p)
    PROVE  TypeOK'
<1>0. p \in Obj /\ pos[p] \in Tiles /\ m_level[p] \in 1 .. MAX_LEVEL /\ m_hp[p] \in Int
  BY DEF TypeOK, Obj
<1>1. ASSUME NEW t \in LoginTiles, NEW l \in 1 .. MAX_LEVEL, NEW h \in 1 .. calc_max_hp(l),
             Login(p, t, l, h)
      PROVE  TypeOK'
  <2> DEFINE sec == add_object_to_sector(sectors, p, t)
  <2>1. t \in Tiles /\ Min2(h, calc_max_hp(l)) \in Int
    BY ObjectAssumption, LevelType DEF Min2
  <2>2. sec \in Index  BY <1>0, <2>1, OpenType, SectorOpType
  <2>3. sectors' = sec /\ update_player_view(p, t, sec, move_ev)  BY <1>1 DEF Login
  <2> HIDE DEF sec
  <2>4. /\ visible' \in [PC -> SUBSET Obj] /\ active' \in [NPC -> BOOLEAN]
        /\ move_ev' \in [NPC -> Events] /\ sectors' \in Index
    BY <2>1, <2>2, <2>3, OpenType, ViewType
  <2>5. /\ m_state' \in [PC -> {"CS_CONNECT", "CS_PLAYING", "CS_LOGOUT"}]
        /\ m_level' \in [PC -> 1 .. MAX_LEVEL] /\ m_hp' \in [Obj -> Int]
        /\ pos' \in [Obj -> Tiles]
    BY <1>1, <2>1 DEF Login, TypeOK
  <2>6. regen_ev' \in [PC -> Events]
    BY <1>1, OpenType, EventType DEF Login
  <2>7. worker' = worker /\ worker.op = "idle" /\ UNCHANGED <<move_state, target, respawn_ev>>
    BY <1>1 DEF Login, Ready
  <2> QED  BY <2>4, <2>5, <2>6, <2>7, TypeParts, PartsOfType
<1>2. ASSUME Disconnect(p) PROVE TypeOK'
  <2>1. sectors' \in Index  BY <1>0, <1>2, OpenType, SectorOpType DEF Disconnect
  <2>2. /\ m_state' \in [PC -> {"CS_CONNECT", "CS_PLAYING", "CS_LOGOUT"}]
        /\ m_level' \in [PC -> 1 .. MAX_LEVEL] /\ m_hp' \in [Obj -> Int]
        /\ pos' \in [Obj -> Tiles]
    <3>1. 1 \in 1 .. MAX_LEVEL /\ PC_MAX_HP \in Int /\ PC_SPAWN \in Tiles
      BY StatAssumption, ObjectAssumption
    <3> QED  BY <1>2, <3>1 DEF Disconnect, TypeOK
  <2>3. visible' \in [PC -> SUBSET Obj]  BY <1>2 DEF Disconnect, TypeOK
  <2>4. worker' = worker /\ worker.op = "idle" /\ UNCHANGED <<npcVars, regen_ev>>
    BY <1>2 DEF Disconnect, Ready
  <2> QED  BY <2>1, <2>2, <2>3, <2>4, TypeParts, PartsOfType DEF npcVars
<1>3. ASSUME NEW d \in DIRECTION, Move(p, d) PROVE TypeOK'
  <2>1. PICK t \in Tiles : Relocate(p, t, move_ev)
    BY <1>0, <1>3, FreeIsTile DEF Move, do_move
  <2>2. /\ worker' = Then("move2", p, d, {}) \/ worker' = Idle
        /\ m_state[p] = "CS_PLAYING"
        /\ UNCHANGED <<playerVars, m_hp, move_state, target, respawn_ev, regen_ev>>
    BY <1>3 DEF Move, Playing
  <2>3. WorkerType(worker') /\ (worker'.op = "idle" \/ worker'.id = p)
    BY <2>2, WorkerTypes DEF Then, Idle
  <2> QED  BY <2>1, <2>2, <2>3, RelocateType, OpenType, TypeParts, PartsOfType DEF playerVars
<1>4. ASSUME NEW op \in {"attack", "skill"}, NEW S \in SUBSET NPC, Playing(p),
             worker' = Then(op, p, "UP", S),
             UNCHANGED <<playerVars, m_hp, pos, sectors, visible, npcVars, regen_ev>>
      PROVE  TypeOK'
  <2>1. WorkerType(worker') /\ worker'.id = p  BY <1>4, WorkerTypes DEF Then
  <2> QED  BY <1>4, <2>1, TypeParts, PartsOfType DEF playerVars, npcVars, Playing
<1>5. ASSUME NEW d \in DIRECTION, Attack(p, d) PROVE TypeOK'
  BY <1>4, <1>5 DEF Attack, LiveNpcsSeen
<1>6. ASSUME NEW d \in DIRECTION, RangedAttack(p, d) PROVE TypeOK'
  <2>1. PICK n \in NPC : worker' = Then("skill", p, "UP", {n})
    BY <1>6 DEF RangedAttack, NpcsOn
  <2> QED  BY <1>4, <1>6, <2>1 DEF RangedAttack
<1>7. ASSUME Skill(p) PROVE TypeOK'
  BY <1>4, <1>7 DEF Skill, LiveNpcsSeen
<1>8. ASSUME UsePotion(p) PROVE TypeOK'
  <2>1. calc_max_hp(m_level[p]) \in Nat  BY <1>0, LevelType
  <2>2. PICK r \in Nat :
           m_hp' = [m_hp EXCEPT ![p] = Min2(calc_max_hp(m_level[p]), @ + r)]
    BY <1>8, <2>1, StatAssumption DEF UsePotion
  <2>3. m_hp' \in [Obj -> Int]  BY <1>0, <2>1, <2>2 DEF TypeOK, Min2
  <2>4. /\ worker' = worker /\ worker.op = "idle"
        /\ UNCHANGED <<playerVars, pos, sectors, visible, npcVars, regen_ev>>
    BY <1>8 DEF UsePotion, Ready
  <2> QED  BY <2>3, <2>4, TypeParts, PartsOfType DEF playerVars, npcVars
<1> QED
  BY <1>1, <1>2, <1>3, <1>5, <1>6, <1>7, <1>8 DEF PlayerAct, LoginAny

LEMMA RegenType ==
    ASSUME TypeOK, NEW p \in PC, HpRegen(p)
    PROVE  TypeOK'
<1>0. p \in Obj /\ m_hp[p] \in Int /\ calc_max_hp(m_level[p]) \in Nat
  BY LevelType DEF TypeOK, Obj
<1>1. m_hp' \in [Obj -> Int]
  <2> DEFINE max == calc_max_hp(m_level[p])
  <2>1. max \in Nat /\ max \div 10 \in Int  BY <1>0
  <2> HIDE DEF max
  <2>2. (IF m_hp[p] < max THEN Min2(max, m_hp[p] + Max2(1, max \div 10)) ELSE m_hp[p]) \in Int
    BY <1>0, <2>1 DEF Min2, Max2
  <2>3. \/ m_hp' = m_hp
        \/ m_hp' = [m_hp EXCEPT ![p] = IF m_hp[p] < max
               THEN Min2(max, m_hp[p] + Max2(1, max \div 10)) ELSE m_hp[p]]
    BY DEF HpRegen, max
  <2> QED  BY <2>2, <2>3 DEF TypeOK
<1>2. regen_ev' \in [PC -> Events]
  <2>1. regen_ev[p] \in Events /\ Handled(regen_ev[p]) \in Events
    BY OpenType, EventType DEF HpRegen
  <2>2. Queued(Handled(regen_ev[p]), HP_REGEN_TIME) \in Events  BY <2>1, EventType
  <2> QED  BY <2>1, <2>2, OpenType DEF HpRegen
<1>3. /\ worker' = worker /\ worker.op = "idle"
      /\ UNCHANGED <<playerVars, pos, sectors, visible, npcVars>>
  BY DEF HpRegen, Ready
<1> QED  BY <1>1, <1>2, <1>3, TypeParts, PartsOfType DEF playerVars, npcVars

LEMMA DamageType ==
    ASSUME NEW d \in Nat
    PROVE  Damages(d) \subseteq Nat
<1>1. d \div 2 \in Nat  BY DivBounds
<1> QED  BY <1>1 DEF Damages

LEMMA PhaseType ==
    ASSUME NEW n
    PROVE  get_boss_phase(n) \in 1 .. 3
BY DEF get_boss_phase

LEMMA NpcMoveType ==
    ASSUME TypeOK, NEW n \in NPC, NpcMove(n)
    PROVE  TypeOK'
<1>0. n \in Obj /\ Due(move_ev[n]) /\ worker.op = "idle"
  BY DEF NpcMove, DeadTick, IdleTick, Roam, GiveUp, ChaseStep, AttackPlayer,
         AreaAttack, MovingTick, NpcTick, Ready, Obj
<1>1. TakeMove(n) \in [NPC -> Events]
  BY <1>0, OpenType, EventType DEF TakeMove
<1>2. WorkerType(Reschedule(n)) /\ Reschedule(n).op = "resched"
  BY WorkerTypes DEF Reschedule, Then
<1>3. CASE DeadTick(n)
  BY <1>0, <1>1, <1>3, TypeParts, PartsOfType DEF DeadTick, playerVars
<1>4. CASE IdleTick(n)
  <2>1. active' \in [NPC -> BOOLEAN]  BY <1>4 DEF IdleTick, TypeOK
  <2> QED  BY <1>0, <1>1, <1>4, <2>1, TypeParts, PartsOfType DEF IdleTick, playerVars
<1>5. ASSUME NEW d \in DIRECTION, Roam(n, d) PROVE TypeOK'
  <2>1. RoamTo(n, d) \in Tiles /\ update_viewers(n, RoamTo(n, d))
    BY <1>5, TileChoices DEF Roam
  <2>2. target' \in [NPC -> PC \cup {NONE}] /\ move_state' \in [NPC -> NPC_STATE]
    BY <1>5 DEF Roam, TypeOK, NPC_STATE
  <2>3. /\ move_ev' = TakeMove(n) /\ worker' = Reschedule(n)
        /\ UNCHANGED <<playerVars, m_hp, active, respawn_ev, regen_ev>>
    BY <1>5 DEF Roam
  <2> QED  BY <1>1, <1>2, <2>1, <2>2, <2>3, ViewersType, TypeParts, PartsOfType DEF playerVars
<1>6. CASE GiveUp(n)
  <2>1. target' \in [NPC -> PC \cup {NONE}] /\ move_state' \in [NPC -> NPC_STATE]
    BY <1>6 DEF GiveUp, TypeOK, NPC_STATE
  <2> QED  BY <1>1, <1>2, <1>6, <2>1, TypeParts, PartsOfType DEF GiveUp, playerVars
<1>7. ASSUME NEW p \in PC, ChaseStep(n, p) PROVE TypeOK'
  <2>1. PICK t \in Tiles : update_viewers(n, t)
    BY <1>7, TileChoices DEF ChaseStep
  <2>2. target' \in [NPC -> PC \cup {NONE}] /\ move_state' \in [NPC -> NPC_STATE]
    BY <1>7 DEF ChaseStep, TypeOK, NPC_STATE
  <2>3. /\ move_ev' = TakeMove(n) /\ worker' = Reschedule(n)
        /\ UNCHANGED <<playerVars, m_hp, active, respawn_ev, regen_ev>>
    BY <1>7 DEF ChaseStep
  <2> QED  BY <1>1, <1>2, <2>1, <2>2, <2>3, ViewersType, TypeParts, PartsOfType DEF playerVars
<1>8. ASSUME NEW p \in PC, AttackPlayer(n, p) PROVE TypeOK'
  <2>1. BOSS_ATTACK_DMG[get_boss_phase(n)] \in Nat /\ NPC_ATTACK_DMG \in Nat
    BY PhaseType, StatAssumption
  <2>2. PICK dmg \in Nat :
          /\ HitPlayer(n, p, dmg, TakeMove(n))
          /\ \E x \in {p, NONE} : target' = [target EXCEPT ![n] = x]
          /\ \E x \in {RestState(n), "CHASE"} :
                move_state' = [move_state EXCEPT ![n] = x]
    BY <1>8, <2>1, DamageType DEF AttackPlayer
  <2>3. target' \in [NPC -> PC \cup {NONE}]  BY <2>2 DEF TypeOK
  <2>4. move_state' \in [NPC -> NPC_STATE]
    BY <2>2 DEF TypeOK, NPC_STATE, RestState
  <2>5. worker' = Reschedule(n) /\ UNCHANGED <<playerVars, respawn_ev, regen_ev>>
    BY <1>8 DEF AttackPlayer
  <2> QED
    BY <1>1, <1>2, <2>2, <2>3, <2>4, <2>5, HitPlayerType, TypeParts, PartsOfType DEF playerVars
<1>9. ASSUME NEW p \in PC, AreaAttack(n, p) PROVE TypeOK'
  <2>1. target' \in [NPC -> PC \cup {NONE}] /\ move_state' \in [NPC -> NPC_STATE]
    BY <1>9 DEF AreaAttack, TypeOK, NPC_STATE
  <2>2. PICK S \in SUBSET PC : worker' = Loop("area", n, S, Reschedule(n))
    BY <1>9 DEF AreaAttack, PlayersAround
  <2>3. WorkerType(worker') /\ worker'.op \in {"area", "resched"}
    BY <1>2, <2>2, WorkerTypes DEF Loop, Then
  <2>4. /\ move_ev' = TakeMove(n)
        /\ UNCHANGED <<playerVars, m_hp, pos, sectors, visible, active, respawn_ev, regen_ev>>
    BY <1>9 DEF AreaAttack
  <2> QED  BY <1>1, <2>1, <2>3, <2>4, TypeParts, PartsOfType DEF playerVars
<1> QED
  BY <1>3, <1>4, <1>5, <1>6, <1>7, <1>8, <1>9 DEF NpcMove

LEMMA RespawnType ==
    ASSUME TypeOK, NEW n \in NPC, NEW t \in Tiles, Respawn(n, t)
    PROVE  TypeOK'
<1>1. n \in Obj  BY DEF Obj
<1>2. sectors' \in Index  BY <1>1, OpenType, SectorOpType DEF Respawn
<1>3. respawn_ev' \in [NPC -> Events]  BY OpenType, EventType DEF Respawn
<1>4. m_hp' \in [Obj -> Int] /\ pos' \in [Obj -> Tiles]
  <2>1. m_hp' = [m_hp EXCEPT ![n] = NpcMaxHp(n)] /\ pos' = [pos EXCEPT ![n] = t]
    BY DEF Respawn
  <2>2. NpcMaxHp(n) \in Int  BY NpcMaxHpType
  <2> QED  BY <2>1, <2>2 DEF TypeOK
<1>5. target' \in [NPC -> PC \cup {NONE}] /\ move_state' \in [NPC -> NPC_STATE]
  BY DEF Respawn, TypeOK, NPC_STATE, RestState
<1>6. visible' \in [PC -> SUBSET Obj]  BY <1>1 DEF Respawn, TypeOK
<1>7. PICK S : wake_up(move_ev, S)  BY DEF Respawn
<1>8. /\ worker' = worker /\ worker.op = "idle" /\ UNCHANGED <<playerVars, regen_ev>>
  BY DEF Respawn, Ready
<1> QED
  BY <1>2, <1>3, <1>4, <1>5, <1>6, <1>7, <1>8, OpenType, WakeType, TypeParts, PartsOfType
  DEF playerVars

LEMMA HitNpcType ==
    ASSUME TypeOK, NEW n \in NPC, HitNpc(n)
    PROVE  TypeOK'
<1> DEFINE p == worker.id
<1>0. /\ worker.op \in {"attack", "skill"} /\ p \in PC /\ worker.todo \subseteq NPC
      /\ m_state[p] = "CS_PLAYING" /\ n \in Obj /\ p \in Obj
  BY DEF HitNpc, TypeOK, Playing, Obj
<1>1. /\ worker' = Loop(worker.op, p, worker.todo \ {n}, Idle)
      /\ UNCHANGED <<m_state, pos, regen_ev>>
  BY DEF HitNpc
<1>2. /\ WorkerType(worker')
      /\ worker'.op \in {"move2", "attack", "skill"} => worker'.id = p
  BY <1>0, <1>1, WorkerTypes DEF Loop, Then, Idle
<1>3. PICK rem \in Int :
        \/ /\ npc_die(n, p)
           /\ \E l \in m_level[p] .. MAX_LEVEL :
                 /\ m_level' = [m_level EXCEPT ![p] = l]
                 /\ m_hp' = [m_hp EXCEPT ![n] = rem, ![p] = calc_max_hp(l)]
        \/ /\ m_hp' = [m_hp EXCEPT ![n] = rem]
           /\ target' = [target EXCEPT ![n] = p]
           /\ move_state' = [move_state EXCEPT ![n] = "CHASE"]
           /\ wake_up(move_ev, {n})
           /\ UNCHANGED <<m_level, sectors, visible, respawn_ev>>
  <2> DEFINE base == IF worker.op = "attack" THEN calc_atk_dmg(m_level[p])
                                             ELSE calc_skill_dmg(m_level[p])
  <2>1. base \in Nat /\ m_hp[n] \in Int  BY <1>0, LevelType DEF TypeOK
  <2>2. \A b \in BOOLEAN : m_hp[n] - (IF b THEN base * 2 ELSE base) \in Int
    BY <2>1
  <2> QED  BY <2>2 DEF HitNpc
<1>4. CASE npc_die(n, p) /\ \E l \in m_level[p] .. MAX_LEVEL :
                 /\ m_level' = [m_level EXCEPT ![p] = l]
                 /\ m_hp' = [m_hp EXCEPT ![n] = rem, ![p] = calc_max_hp(l)]
  <2>1. PICK l \in 1 .. MAX_LEVEL :
                 /\ m_level' = [m_level EXCEPT ![p] = l]
                 /\ m_hp' = [m_hp EXCEPT ![n] = rem, ![p] = calc_max_hp(l)]
    <3>1. m_level[p] \in 1 .. MAX_LEVEL  BY <1>0, PartsOfType
    <3>2. m_level[p] .. MAX_LEVEL \subseteq 1 .. MAX_LEVEL  BY <3>1, StatAssumption
    <3> QED  BY <1>4, <3>2
  <2>2. m_level' \in [PC -> 1 .. MAX_LEVEL] /\ m_hp' \in [Obj -> Int]
    BY <1>0, <2>1, LevelType DEF TypeOK
  <2>3. sectors' \in Index
    BY <1>0, <1>4, OpenType, PartsOfType, SectorOpType DEF npc_die
  <2>4. visible' \in [PC -> SUBSET Obj] /\ active' \in [NPC -> BOOLEAN]
    BY <1>4 DEF npc_die, TypeOK
  <2>5. target' \in [NPC -> PC \cup {NONE}]  BY <1>4 DEF npc_die, TypeOK
  <2>6. respawn_ev' \in [NPC -> Events]  BY <1>4, OpenType, EventType DEF npc_die
  <2>7. UNCHANGED <<move_state, move_ev>>  BY <1>4 DEF npc_die
  <2> QED
    BY <1>0, <1>1, <1>2, <2>2, <2>3, <2>4, <2>5, <2>6, <2>7, TypeParts, PartsOfType
<1>5. CASE /\ m_hp' = [m_hp EXCEPT ![n] = rem]
           /\ target' = [target EXCEPT ![n] = p]
           /\ move_state' = [move_state EXCEPT ![n] = "CHASE"]
           /\ wake_up(move_ev, {n})
           /\ UNCHANGED <<m_level, sectors, visible, respawn_ev>>
  <2>1. /\ m_hp' \in [Obj -> Int] /\ target' \in [NPC -> PC \cup {NONE}]
        /\ move_state' \in [NPC -> NPC_STATE]
    BY <1>0, <1>5 DEF TypeOK, NPC_STATE
  <2> QED
    BY <1>0, <1>1, <1>2, <1>5, <2>1, OpenType, WakeType, TypeParts, PartsOfType
<1> QED  BY <1>3, <1>4, <1>5

LEMMA ContinueType ==
    ASSUME TypeOK, Continue
    PROVE  TypeOK'
<1>0. WorkerType(Idle) /\ Idle.op = "idle"  BY WorkerTypes DEF Idle
<1>1. CASE SecondMove
  <2>1. worker.id \in PC /\ pos[worker.id] \in Tiles
    BY <1>1 DEF SecondMove, TypeOK, Obj
  <2>2. PICK t \in Tiles : Relocate(worker.id, t, move_ev)
    BY <1>1, <2>1, FreeIsTile DEF SecondMove, do_move
  <2>3. /\ worker' = Idle
        /\ UNCHANGED <<playerVars, m_hp, move_state, target, respawn_ev, regen_ev>>
    BY <1>1 DEF SecondMove
  <2> QED
    BY <1>0, <2>1, <2>2, <2>3, RelocateType, OpenType, TypeParts, PartsOfType DEF playerVars
<1>2. ASSUME NEW n \in NPC, KeepMoving(n) PROVE TypeOK'
  <2>1. \E d : move_ev' = [move_ev EXCEPT ![n] = Queued(@, d)]
    BY <1>2 DEF KeepMoving
  <2>2. move_ev' \in [NPC -> Events]  BY <2>1, OpenType, EventType
  <2> QED  BY <1>0, <1>2, <2>2, TypeParts, PartsOfType DEF KeepMoving, playerVars
<1>3. ASSUME NEW n \in NPC, FallAsleep(n) PROVE TypeOK'
  <2>1. active' \in [NPC -> BOOLEAN] /\ target' \in [NPC -> PC \cup {NONE}]
    BY <1>3 DEF FallAsleep, TypeOK
  <2> QED  BY <1>0, <1>3, <2>1, TypeParts, PartsOfType DEF FallAsleep, playerVars
<1>4. ASSUME NEW p \in PC, AreaHit(p) PROVE TypeOK'
  <2>1. worker.id \in NPC /\ worker.todo \subseteq PC
    BY <1>4 DEF AreaHit, TypeOK
  <2>2. BOSS_ATTACK_DMG[3] \in Nat  BY StatAssumption
  <2>3. PICK dmg \in Nat :
          /\ HitPlayer(worker.id, p, dmg, move_ev)
          /\ \E x \in {NONE, target[worker.id]} : target' = [target EXCEPT ![worker.id] = x]
    BY <1>4, <2>2, DamageType DEF AreaHit
  <2>4. target' \in [NPC -> PC \cup {NONE}]  BY <2>1, <2>3 DEF TypeOK
  <2>5. /\ worker' = Loop("area", worker.id, worker.todo \ {p}, Reschedule(worker.id))
        /\ UNCHANGED <<playerVars, move_state, respawn_ev, regen_ev>>
    BY <1>4 DEF AreaHit
  <2>6. WorkerType(worker') /\ worker'.op \in {"area", "resched"}
    BY <2>1, <2>5, WorkerTypes DEF Loop, Then, Reschedule
  <2> QED
    BY <2>1, <2>3, <2>4, <2>5, <2>6, HitPlayerType, OpenType, TypeParts, PartsOfType
    DEF playerVars
<1> QED  BY <1>1, <1>2, <1>3, <1>4, HitNpcType DEF Continue

LEMMA TickType ==
    ASSUME TypeOK, Tick
    PROVE  TypeOK'
<1>1. /\ move_ev' \in [NPC -> Events] /\ respawn_ev' \in [NPC -> Events]
      /\ regen_ev' \in [PC -> Events]
  BY OpenType, EventType DEF Tick
<1> QED  BY <1>1, TypeParts, PartsOfType DEF Tick, playerVars

LEMMA NextType ==
    ASSUME TypeOK, [Next]_vars
    PROVE  TypeOK'
<1>1. CASE Next
  BY <1>1, PlayerActType, RegenType, NpcMoveType, RespawnType, ContinueType, TickType
  DEF Next, RespawnAny
<1>2. CASE UNCHANGED vars
  BY <1>2, TypeParts, PartsOfType DEF vars
<1> QED  BY <1>1, <1>2

\* Every variable keeps its type, for every world and every number of
\* players and NPCs; in particular no handler puts an object on a tile
\* outside the world or an event count below zero.
THEOREM TypeCorrect == Spec => []TypeOK
BY InitType, NextType, PTL DEF Spec
-----------------------------------------------------------------------------
(***************************************************************************)
(* The inductive invariant.  That the sector index is exact depends on an  *)
(* NPC being dead when its respawn is handled, hence on the events a NPC   *)
(* has pending; those depend on NPCs being woken only while they are       *)
(* listed in a sector, and on what a suspended handler still has to do.    *)
(***************************************************************************)

\* The pending events of a NPC that is awake, asleep, or dead.
AwakeEvents(n, mv, rs) ==
    rs = NoEvent /\ \E d \in Ticks : d < RespawnTime(n) /\ mv = OneEvent(d)
AsleepEvents(mv, rs) == rs = NoEvent /\ mv = NoEvent
DeadEvents(mv, rs) ==
    \E e \in Ticks :
        /\ rs = OneEvent(e)
        /\ \/ mv = NoEvent
           \/ \E d \in Ticks : d < e /\ mv = OneEvent(d)

Tokens ==
    \A n \in NPC :
        /\ Alive(n) /\ active[n] /\ ~InTick(n) =>
              AwakeEvents(n, move_ev[n], respawn_ev[n])
        /\ Alive(n) /\ (~active[n] \/ InTick(n)) =>
              AsleepEvents(move_ev[n], respawn_ev[n])
        /\ ~Alive(n) => ~active[n] /\ DeadEvents(move_ev[n], respawn_ev[n])
        /\ InTick(n) => active[n]

\* What a suspended handler still hits is alive, or still plays.
TodoInWorld ==
    /\ worker.op \in {"attack", "skill"} => \A n \in worker.todo : Alive(n)
    /\ worker.op = "area" => \A p \in worker.todo : Playing(p)

IInv == TypeOK /\ SectorExact /\ Tokens /\ TodoInWorld

LEMMA Disjoint ==
    ASSUME NEW o \in Obj
    PROVE  (o \in PC /\ o \notin NPC) \/ (o \in NPC /\ o \notin PC)
BY ObjectAssumption DEF Obj

(***************************************************************************)
(* What happens to one NPC's events.                                       *)
(***************************************************************************)
LEMMA OneEventFacts ==
    ASSUME NEW d \in Ticks
    PROVE  /\ OneEvent(d) # NoEvent
           /\ Due(OneEvent(d)) <=> d = 0
           /\ ~Due(NoEvent)
           /\ Queued(NoEvent, d) = OneEvent(d)
           /\ d = 0 => Handled(OneEvent(d)) = NoEvent
           /\ d > 0 => d - 1 \in Ticks /\ Elapsed(OneEvent(d)) = OneEvent(d - 1)
           /\ Elapsed(NoEvent) = NoEvent
<1>0. LONGEST \in Nat /\ 0 \in Ticks /\ Ticks = 0 .. LONGEST
  BY LongestType DEF Ticks
<1>1. OneEvent(d)[d] = 1 /\ NoEvent[d] = 0  BY DEF OneEvent, NoEvent
<1>2. (Due(OneEvent(d)) <=> d = 0) /\ ~Due(NoEvent)
  BY <1>0 DEF OneEvent, NoEvent, Due
<1>3. Queued(NoEvent, d) = OneEvent(d)  BY DEF Queued, NoEvent, OneEvent
<1>4. d = 0 => Handled(OneEvent(d)) = NoEvent
  <2>1. /\ OneEvent(0) \in [Ticks -> Int] /\ OneEvent(0)[0] = 1
        /\ \A i \in Ticks : i # 0 => OneEvent(0)[i] = 0
    BY <1>0 DEF OneEvent
  <2>2. /\ Handled(OneEvent(0)) \in [Ticks -> Int]
        /\ \A i \in Ticks : Handled(OneEvent(0))[i] = 0
    BY <1>0, <2>1 DEF Handled
  <2>3. NoEvent \in [Ticks -> Int] /\ \A i \in Ticks : NoEvent[i] = 0
    BY DEF NoEvent
  <2>4. \A f, g \in [Ticks -> Int] : (\A i \in Ticks : f[i] = g[i]) => f = g
    OBVIOUS
  <2> QED  BY <2>2, <2>3, <2>4
<1>5. ASSUME d > 0 PROVE d - 1 \in Ticks /\ Elapsed(OneEvent(d)) = OneEvent(d - 1)
  BY <1>0, <1>5 DEF Elapsed, OneEvent
<1>6. Elapsed(NoEvent) = NoEvent
  <2>1. \A i \in Ticks : (IF i + 1 \in Ticks THEN NoEvent[i + 1] ELSE 0) = 0
    BY DEF NoEvent
  <2> QED  BY <2>1 DEF Elapsed, NoEvent
<1> QED  BY <1>1, <1>2, <1>3, <1>4, <1>5, <1>6

LEMMA DelayFacts ==
    ASSUME NEW n \in NPC
    PROVE  \A d \in MoveDelays : d \in Ticks /\ d < RespawnTime(n)
BY TimeAssumption

LEMMA TakenEvent ==
    ASSUME NEW n \in NPC, NEW mv, NEW rs, AwakeEvents(n, mv, rs), Due(mv)
    PROVE  AsleepEvents(Handled(mv), rs)
BY OneEventFacts DEF AwakeEvents, AsleepEvents

LEMMA QueuedEvent ==
    ASSUME NEW n \in NPC, NEW mv, NEW rs, AsleepEvents(mv, rs), NEW d \in MoveDelays
    PROVE  AwakeEvents(n, Queued(mv, d), rs)
BY OneEventFacts, DelayFacts DEF AwakeEvents, AsleepEvents

LEMMA KilledEvent ==
    ASSUME NEW n \in NPC, NEW mv, NEW rs, AwakeEvents(n, mv, rs) \/ AsleepEvents(mv, rs)
    PROVE  DeadEvents(mv, Queued(rs, RespawnTime(n)))
BY OneEventFacts, LongestType DEF AwakeEvents, AsleepEvents, DeadEvents

LEMMA DroppedEvent ==
    ASSUME NEW mv, NEW rs, DeadEvents(mv, rs), Due(mv)
    PROVE  DeadEvents(Handled(mv), rs)
BY OneEventFacts DEF DeadEvents

LEMMA RespawnedEvent ==
    ASSUME NEW mv, NEW rs, DeadEvents(mv, rs), Due(rs)
    PROVE  AsleepEvents(mv, Handled(rs))
<1>1. PICK e \in Ticks : /\ rs = OneEvent(e)
                         /\ mv = NoEvent \/ \E d \in Ticks : d < e /\ mv = OneEvent(d)
  BY DEF DeadEvents
<1>2. e = 0  BY <1>1, OneEventFacts
<1>3. mv = NoEvent  BY <1>1, <1>2, LongestType DEF Ticks
<1> QED  BY <1>1, <1>2, <1>3, OneEventFacts DEF AsleepEvents

LEMMA ElapsedEvent ==
    ASSUME NEW n \in NPC, NEW mv, NEW rs, ~Due(mv), ~Due(rs)
    PROVE  /\ AwakeEvents(n, mv, rs) => AwakeEvents(n, Elapsed(mv), Elapsed(rs))
           /\ AsleepEvents(mv, rs) => AsleepEvents(Elapsed(mv), Elapsed(rs))
           /\ DeadEvents(mv, rs) => DeadEvents(Elapsed(mv), Elapsed(rs))
<1>0. 0 \in Ticks /\ \A i \in Ticks : i \in Nat  BY LongestType DEF Ticks
<1>1. ASSUME AwakeEvents(n, mv, rs) PROVE AwakeEvents(n, Elapsed(mv), Elapsed(rs))
  <2>1. PICK d \in Ticks : d < RespawnTime(n) /\ mv = OneEvent(d)
    BY <1>1 DEF AwakeEvents
  <2>2. d > 0 /\ d - 1 < RespawnTime(n)
    BY <1>0, <2>1, OneEventFacts, LongestType
  <2> QED  BY <1>0, <1>1, <2>1, <2>2, OneEventFacts DEF AwakeEvents
<1>2. AsleepEvents(mv, rs) => AsleepEvents(Elapsed(mv), Elapsed(rs))
  BY <1>0, OneEventFacts DEF AsleepEvents
<1>3. ASSUME DeadEvents(mv, rs) PROVE DeadEvents(Elapsed(mv), Elapsed(rs))
  <2>1. PICK e \in Ticks : /\ rs = OneEvent(e)
                           /\ mv = NoEvent \/ \E d \in Ticks : d < e /\ mv = OneEvent(d)
    BY <1>3 DEF DeadEvents
  <2>2. e > 0 /\ e - 1 \in Ticks /\ Elapsed(rs) = OneEvent(e - 1)
    BY <1>0, <2>1, OneEventFacts
  <2>3. CASE mv = NoEvent
    BY <1>0, <2>2, <2>3, OneEventFacts DEF DeadEvents
  <2>4. ASSUME NEW d \in Ticks, d < e, mv = OneEvent(d)
        PROVE  DeadEvents(Elapsed(mv), Elapsed(rs))
    <3>1. d > 0 /\ d - 1 \in Ticks /\ Elapsed(mv) = OneEvent(d - 1)
      BY <1>0, <2>4, OneEventFacts
    <3>2. d - 1 < e - 1  BY <1>0, <2>4
    <3> QED  BY <2>2, <3>1, <3>2 DEF DeadEvents
  <2> QED  BY <2>1, <2>3, <2>4
<1> QED  BY <1>1, <1>2, <1>3

(***************************************************************************)
(* What the building blocks of the handlers do to the sector index and to  *)
(* the NPCs that are woken.                                                *)
(***************************************************************************)
LEMMA InWorldSplit ==
    /\ \A p \in PC : InWorld(p) <=> Playing(p)
    /\ \A n \in NPC : InWorld(n) <=> Alive(n)
BY Disjoint DEF InWorld, Obj

LEMMA SameWorld ==
    ASSUME m_state' = m_state, \A n \in NPC : Alive(n)' <=> Alive(n)
    PROVE  \A o \in Obj : InWorld(o)' <=> InWorld(o)
BY DEF InWorld, Playing, Obj

LEMMA SameExact ==
    ASSUME SectorExact, sectors' = sectors, pos' = pos,
           \A o \in Obj : InWorld(o)' <=> InWorld(o)
    PROVE  SectorExact'
BY DEF SectorExact

LEMMA MovedExact ==
    ASSUME TypeOK, SectorExact, NEW o \in Obj, InWorld(o), NEW t \in Tiles
    PROVE  \A s \in Sectors, q \in Obj :
              q \in update_object_sector(sectors, o, pos[o], t)[s]
                  <=> InWorld(q) /\ sector_id([pos EXCEPT ![o] = t][q]) = s
<1> SUFFICES ASSUME NEW s \in Sectors, NEW q \in Obj
             PROVE  q \in update_object_sector(sectors, o, pos[o], t)[s]
                        <=> InWorld(q) /\ sector_id([pos EXCEPT ![o] = t][q]) = s
  OBVIOUS
<1> DEFINE a == sector_id(pos[o])
           b == sector_id(t)
           sec == update_object_sector(sectors, o, pos[o], t)
<1>1. a \in Sectors /\ b \in Sectors  BY SectorIdInRange DEF TypeOK
<1>2. /\ [pos EXCEPT ![o] = t][o] = t
      /\ q # o => [pos EXCEPT ![o] = t][q] = pos[q]
  BY DEF TypeOK
<1>3. /\ q \in sectors[s] <=> InWorld(q) /\ sector_id(pos[q]) = s
      /\ o \in sectors[s] <=> a = s
  BY DEF SectorExact
<1>4. sec[s] = IF a = b THEN sectors[s]
               ELSE IF s = b THEN sectors[s] \cup {o}
               ELSE IF s = a THEN sectors[s] \ {o}
               ELSE sectors[s]
  <2>1. DOMAIN sectors = Sectors  BY DEF TypeOK
  <2> QED
    BY <1>1, <2>1 DEF update_object_sector, add_object_to_sector, remove_object_from_sector
<1> HIDE DEF a, sec
<1>5. CASE q = o
  <2>1. sector_id([pos EXCEPT ![o] = t][q]) = b  BY <1>2, <1>5
  <2> HIDE DEF b
  <2> QED  BY <1>3, <1>4, <1>5, <2>1 DEF sec, b
<1>6. CASE q # o
  <2>1. sector_id([pos EXCEPT ![o] = t][q]) = sector_id(pos[q])  BY <1>2, <1>6
  <2> HIDE DEF b
  <2> QED  BY <1>3, <1>4, <1>6, <2>1 DEF sec, b
<1> QED  BY <1>5, <1>6

\* Between evs and move_ev' some sleeping NPCs that live have been woken.
Woken(evs) ==
    \A m \in NPC :
        \/ active'[m] = active[m] /\ move_ev'[m] = evs[m]
        \/ /\ Alive(m) /\ ~active[m] /\ active'[m]
           /\ move_ev'[m] = Queued(evs[m], MOVE_COOL_TIME)

LEMMA WakesLive ==
    ASSUME TypeOK, NEW evs \in [NPC -> Events], NEW S, wake_up(evs, S),
           \A m \in S : m \in NPC => Alive(m)
    PROVE  Woken(evs)
<1> SUFFICES ASSUME NEW m \in NPC
             PROVE  \/ active'[m] = active[m] /\ move_ev'[m] = evs[m]
                    \/ /\ Alive(m) /\ ~active[m] /\ active'[m]
                       /\ move_ev'[m] = Queued(evs[m], MOVE_COOL_TIME)
  BY DEF Woken
<1>1. active[m] \in BOOLEAN  BY DEF TypeOK
<1>2. active'[m] = (active[m] \/ m \in S)  BY DEF wake_up
<1>3. move_ev'[m] = IF m \in S /\ ~active[m] THEN Queued(evs[m], MOVE_COOL_TIME) ELSE evs[m]
  BY DEF wake_up, PushAll
<1>4. CASE m \in S /\ ~active[m]  BY <1>2, <1>3, <1>4
<1>5. CASE m \notin S \/ active[m]  BY <1>1, <1>2, <1>3, <1>5
<1> QED  BY <1>4, <1>5

LEMMA ViewWakes ==
    ASSUME TypeOK, NEW p \in PC, NEW t \in Tiles, NEW sec \in Index,
           NEW evs \in [NPC -> Events], update_player_view(p, t, sec, evs),
           \A s \in Sectors, n \in NPC : n \in sec[s] => Alive(n)
    PROVE  Woken(evs)
<1> DEFINE S == NPC \cap (new_view(p, t, sec) \ visible[p])
<1>1. wake_up(evs, S)  BY DEF update_player_view
<1>2. \A m \in S : m \in NPC => Alive(m)
  BY AdjacentType DEF new_view, get_objects_in_adjacent_sectors
<1> HIDE DEF S
<1> QED  BY <1>1, <1>2, WakesLive

\* A player in the world changes its tile.
LEMMA RelocateExact ==
    ASSUME TypeOK, SectorExact, NEW p \in PC, Playing(p), NEW t \in Tiles,
           NEW evs \in [NPC -> Events], Relocate(p, t, evs),
           \A o \in Obj : InWorld(o)' <=> InWorld(o)
    PROVE  SectorExact' /\ Woken(evs)
<1> DEFINE sec == update_object_sector(sectors, p, pos[p], t)
<1>1. p \in Obj /\ pos[p] \in Tiles /\ InWorld(p)
  BY InWorldSplit DEF TypeOK, Obj
<1>2. pos' = [pos EXCEPT ![p] = t] /\ sectors' = sec /\ update_player_view(p, t, sec, evs)
  BY DEF Relocate
<1>3. \A s \in Sectors, q \in Obj :
         q \in sec[s] <=> InWorld(q) /\ sector_id([pos EXCEPT ![p] = t][q]) = s
  BY <1>1, MovedExact
<1>4. sec \in Index  BY <1>1, OpenType, SectorOpType
<1> HIDE DEF sec
<1>5. SectorExact'  BY <1>2, <1>3 DEF SectorExact
<1>6. \A s \in Sectors, n \in NPC : n \in sec[s] => Alive(n)
  BY <1>3, InWorldSplit DEF Obj
<1>7. Woken(evs)  BY <1>2, <1>4, <1>6, ViewWakes
<1> QED  BY <1>5, <1>7

\* A living NPC changes its tile.
LEMMA ViewersExact ==
    ASSUME TypeOK, SectorExact, NEW n \in NPC, Alive(n), NEW t \in Tiles,
           update_viewers(n, t), \A o \in Obj : InWorld(o)' <=> InWorld(o)
    PROVE  SectorExact'
<1>1. n \in Obj /\ InWorld(n)  BY InWorldSplit DEF Obj
<1>2. /\ pos' = [pos EXCEPT ![n] = t]
      /\ sectors' = update_object_sector(sectors, n, pos[n], t)
  BY DEF update_viewers
<1> QED  BY <1>1, <1>2, MovedExact DEF SectorExact

LEMMA HitPlayerExact ==
    ASSUME TypeOK, SectorExact, NEW n \in NPC, NEW p \in PC, Playing(p), NEW dmg \in Nat,
           NEW evs \in [NPC -> Events], HitPlayer(n, p, dmg, evs), m_state' = m_state
    PROVE  /\ \A m \in NPC : m_hp'[m] = m_hp[m]
           /\ SectorExact' /\ Woken(evs)
<1>1. \A m \in NPC : m # p /\ m \in Obj  BY Disjoint DEF Obj
<1>2. \A m \in NPC : m_hp'[m] = m_hp[m]
  <2>1. PICK x : m_hp' = [m_hp EXCEPT ![p] = x]  BY DEF HitPlayer
  <2> QED  BY <1>1, <2>1 DEF TypeOK
<1>3. \A o \in Obj : InWorld(o)' <=> InWorld(o)  BY <1>2, SameWorld DEF Alive
<1>4. PC_SPAWN \in Tiles  BY ObjectAssumption
<1>5. CASE Relocate(p, PC_SPAWN, evs)  BY <1>2, <1>3, <1>4, <1>5, RelocateExact
<1>6. CASE move_ev' = evs /\ UNCHANGED <<pos, sectors, visible, active>>
  BY <1>2, <1>3, <1>6, SameExact DEF Woken
<1> QED  BY <1>5, <1>6 DEF HitPlayer

LEMMA TokensOf ==
    ASSUME Tokens, NEW n \in NPC
    PROVE  /\ Alive(n) /\ active[n] /\ ~InTick(n) =>
                 AwakeEvents(n, move_ev[n], respawn_ev[n])
           /\ Alive(n) /\ (~active[n] \/ InTick(n)) =>
                 AsleepEvents(move_ev[n], respawn_ev[n])
           /\ ~Alive(n) => ~active[n] /\ DeadEvents(move_ev[n], respawn_ev[n])
           /\ InTick(n) => active[n]
BY DEF Tokens

LEMMA MoveCool == MOVE_COOL_TIME \in MoveDelays  BY DEF MoveDelays

\* NPCs were woken and nothing else happened to their events.
LEMMA WokenTokens ==
    ASSUME TypeOK, Tokens, Woken(move_ev), respawn_ev' = respawn_ev,
           \A m \in NPC : Alive(m)' <=> Alive(m),
           \A m \in NPC : InTick(m)' <=> InTick(m)
    PROVE  Tokens'
<1> SUFFICES ASSUME NEW m \in NPC
    PROVE  /\ Alive(m)' /\ active'[m] /\ ~InTick(m)' =>
                 AwakeEvents(m, move_ev'[m], respawn_ev'[m])
           /\ Alive(m)' /\ (~active'[m] \/ InTick(m)') =>
                 AsleepEvents(move_ev'[m], respawn_ev'[m])
           /\ ~Alive(m)' => ~active'[m] /\ DeadEvents(move_ev'[m], respawn_ev'[m])
           /\ InTick(m)' => active'[m]
  BY DEF Tokens
<1>1. CASE active'[m] = active[m] /\ move_ev'[m] = move_ev[m]
  BY <1>1, TokensOf
<1>2. CASE /\ Alive(m) /\ ~active[m] /\ active'[m]
           /\ move_ev'[m] = Queued(move_ev[m], MOVE_COOL_TIME)
  BY <1>2, TokensOf, QueuedEvent, MoveCool
<1> QED  BY <1>1, <1>2 DEF Woken

\* A due move event finds a living NPC awake, and is its only one.
LEMMA DueIsAwake ==
    ASSUME Tokens, NEW n \in NPC, Alive(n), Due(move_ev[n])
    PROVE  active[n] /\ ~InTick(n) /\ AwakeEvents(n, move_ev[n], respawn_ev[n])
<1>1. ~AsleepEvents(move_ev[n], respawn_ev[n])
  BY OneEventFacts, LongestType DEF AsleepEvents
<1> QED  BY <1>1, TokensOf

\* The tick of NPC n begins: its event is taken, some others are woken.
LEMMA TickTokens ==
    ASSUME TypeOK, Tokens, NEW n \in NPC, Alive(n), NpcTick(n), Woken(TakeMove(n)),
           respawn_ev' = respawn_ev, \A m \in NPC : Alive(m)' <=> Alive(m),
           worker'.op \in {"resched", "area"}, worker'.id = n
    PROVE  Tokens'
<1>1. Due(move_ev[n]) /\ \A m \in NPC : ~InTick(m)
  BY DEF NpcTick, Ready, InTick
<1>2. InTick(n)' /\ \A m \in NPC : m # n => ~InTick(m)'
  BY DEF InTick
<1>3. /\ TakeMove(n)[n] = Handled(move_ev[n])
      /\ \A m \in NPC : m # n => TakeMove(n)[m] = move_ev[m]
  BY DEF TakeMove, TypeOK
<1>4. active[n] /\ AsleepEvents(Handled(move_ev[n]), respawn_ev[n])
  BY <1>1, DueIsAwake, TakenEvent
<1> SUFFICES ASSUME NEW m \in NPC
    PROVE  /\ Alive(m)' /\ active'[m] /\ ~InTick(m)' =>
                 AwakeEvents(m, move_ev'[m], respawn_ev'[m])
           /\ Alive(m)' /\ (~active'[m] \/ InTick(m)') =>
                 AsleepEvents(move_ev'[m], respawn_ev'[m])
           /\ ~Alive(m)' => ~active'[m] /\ DeadEvents(move_ev'[m], respawn_ev'[m])
           /\ InTick(m)' => active'[m]
  BY DEF Tokens
<1>5. CASE m = n
  <2>1. active'[n] = active[n] /\ move_ev'[n] = Handled(move_ev[n])
    BY <1>3, <1>4 DEF Woken
  <2> QED  BY <1>2, <1>4, <1>5, <2>1
<1>6. CASE m # n
  <2>1. CASE active'[m] = active[m] /\ move_ev'[m] = move_ev[m]
    BY <1>1, <1>2, <1>6, <2>1, TokensOf
  <2>2. CASE /\ Alive(m) /\ ~active[m] /\ active'[m]
             /\ move_ev'[m] = Queued(move_ev[m], MOVE_COOL_TIME)
    BY <1>1, <1>2, <1>6, <2>2, TokensOf, QueuedEvent, MoveCool
  <2> QED  BY <1>3, <1>6, <2>1, <2>2 DEF Woken
<1> QED  BY <1>5, <1>6

\* Only NPC n changes: what holds for the others is kept.
LEMMA OtherTokens ==
    ASSUME Tokens, NEW n \in NPC,
           \A m \in NPC \ {n} : /\ Alive(m)' <=> Alive(m)
                                /\ InTick(m)' <=> InTick(m)
                                /\ active'[m] = active[m] /\ move_ev'[m] = move_ev[m]
                                /\ respawn_ev'[m] = respawn_ev[m],
           /\ Alive(n)' /\ active'[n] /\ ~InTick(n)' =>
                 AwakeEvents(n, move_ev'[n], respawn_ev'[n])
           /\ Alive(n)' /\ (~active'[n] \/ InTick(n)') =>
                 AsleepEvents(move_ev'[n], respawn_ev'[n])
           /\ ~Alive(n)' => ~active'[n] /\ DeadEvents(move_ev'[n], respawn_ev'[n])
           /\ InTick(n)' => active'[n]
    PROVE  Tokens'
<1> SUFFICES ASSUME NEW m \in NPC
    PROVE  /\ Alive(m)' /\ active'[m] /\ ~InTick(m)' =>
                 AwakeEvents(m, move_ev'[m], respawn_ev'[m])
           /\ Alive(m)' /\ (~active'[m] \/ InTick(m)') =>
                 AsleepEvents(move_ev'[m], respawn_ev'[m])
           /\ ~Alive(m)' => ~active'[m] /\ DeadEvents(move_ev'[m], respawn_ev'[m])
           /\ InTick(m)' => active'[m]
  BY DEF Tokens
<1>1. CASE m = n  BY <1>1
<1>2. CASE m # n  BY <1>2, TokensOf
<1> QED  BY <1>1, <1>2

(***************************************************************************)
(* Every action keeps the inductive invariant.                             *)
(***************************************************************************)
LEMMA InitInv == Init => IInv
<1> SUFFICES ASSUME Init PROVE IInv  OBVIOUS
<1>1. TypeOK  BY InitType
<1>2. \A n \in NPC : Alive(n) /\ n \notin PC /\ n \in Obj
  BY NpcMaxHpType, Disjoint DEF Init, Alive, Obj
<1>3. SectorExact
  <2> SUFFICES ASSUME NEW s \in Sectors, NEW o \in Obj
               PROVE  o \in sectors[s] <=> InWorld(o) /\ sector_id(pos[o]) = s
    BY DEF SectorExact
  <2>1. CASE o \in NPC
    BY <1>2, <2>1, InWorldSplit DEF Init
  <2>2. CASE o \in PC
    BY <2>2, InWorldSplit, Disjoint DEF Init, Playing
  <2> QED  BY <2>1, <2>2 DEF Obj
<1>4. worker.op = "idle"  BY DEF Init, Idle
<1>5. \A n \in NPC : ~active[n] /\ AsleepEvents(move_ev[n], respawn_ev[n])
  BY DEF Init, AsleepEvents
<1>6. Tokens  BY <1>2, <1>4, <1>5 DEF Tokens, InTick
<1>7. TodoInWorld  BY <1>4 DEF TodoInWorld
<1> QED  BY <1>1, <1>3, <1>6, <1>7 DEF IInv

\* A step that changes hit points of players at most.
LEMMA PlayerHpStep ==
    ASSUME IInv, UNCHANGED <<m_state, pos, sectors, active, move_ev, respawn_ev>>,
           \A n \in NPC : m_hp'[n] = m_hp[n],
           \A n \in NPC : InTick(n)' <=> InTick(n)
    PROVE  SectorExact' /\ Tokens'
<1>1. \A n \in NPC : Alive(n)' <=> Alive(n)  BY DEF Alive
<1>2. SectorExact'  BY <1>1, SameWorld, SameExact DEF IInv
<1>3. Woken(move_ev)  BY DEF Woken
<1>4. Tokens'  BY <1>1, <1>3, WokenTokens DEF IInv
<1> QED  BY <1>2, <1>4

LEMMA LoginInv ==
    ASSUME IInv, NEW p \in PC, NEW t \in Tiles, NEW l, NEW h, Login(p, t, l, h)
    PROVE  SectorExact' /\ Tokens' /\ TodoInWorld'
<1> DEFINE sec == add_object_to_sector(sectors, p, t)
<1>0. TypeOK /\ SectorExact /\ Tokens  BY DEF IInv
<1>1. /\ p \in Obj /\ \A o \in Obj : (o \in PC <=> o \notin NPC)
  BY Disjoint DEF Obj
<1>2. /\ \A o \in Obj : o # p => /\ m_hp'[o] = m_hp[o] /\ pos'[o] = pos[o]
                                 /\ (o \in PC => m_state'[o] = m_state[o])
      /\ m_state'[p] = "CS_PLAYING" /\ m_state[p] = "CS_CONNECT" /\ pos'[p] = t
  BY <1>0, <1>1 DEF Login, TypeOK
<1>3. /\ \A o \in Obj : o # p => (InWorld(o)' <=> InWorld(o))
      /\ InWorld(p)' /\ ~InWorld(p)
  BY <1>1, <1>2 DEF InWorld, Playing, Alive
<1>4. \A n \in NPC : Alive(n)' <=> Alive(n)
  BY <1>1, <1>2 DEF Alive, Obj
<1>5. sectors' = sec /\ update_player_view(p, t, sec, move_ev)  BY DEF Login
<1>6. \A s \in Sectors : sec[s] = IF s = sector_id(t) THEN sectors[s] \cup {p} ELSE sectors[s]
  BY <1>0, SectorIdInRange DEF TypeOK, add_object_to_sector
<1>7. sec \in Index  BY <1>0, <1>1, OpenType, SectorOpType
<1> HIDE DEF sec
<1>8. SectorExact'
  <2> SUFFICES ASSUME NEW s \in Sectors, NEW o \in Obj
               PROVE  o \in sectors'[s] <=> InWorld(o)' /\ sector_id(pos'[o]) = s
    BY DEF SectorExact
  <2>1. o \in sectors[s] <=> InWorld(o) /\ sector_id(pos[o]) = s
    BY <1>0 DEF SectorExact
  <2> QED  BY <1>2, <1>3, <1>5, <1>6, <2>1
<1>9. \A s \in Sectors, n \in NPC : n \in sec[s] => Alive(n)
  <2> SUFFICES ASSUME NEW s \in Sectors, NEW n \in NPC, n \in sec[s] PROVE Alive(n)
    OBVIOUS
  <2>1. n \in Obj /\ n # p  BY <1>1, Disjoint DEF Obj
  <2>2. n \in sectors[s]  BY <1>6, <2>1
  <2>3. InWorld(n)  BY <1>0, <2>1, <2>2 DEF SectorExact
  <2> QED  BY <2>3, InWorldSplit
<1>10. Woken(move_ev)  BY <1>0, <1>5, <1>7, <1>9, ViewWakes, OpenType
<1>11. respawn_ev' = respawn_ev /\ worker' = worker /\ worker.op = "idle"
  BY DEF Login, Ready
<1>12. Tokens'  BY <1>0, <1>4, <1>10, <1>11, WokenTokens DEF InTick
<1> QED  BY <1>8, <1>11, <1>12 DEF TodoInWorld

LEMMA DisconnectInv ==
    ASSUME IInv, NEW p \in PC, Disconnect(p)
    PROVE  SectorExact' /\ Tokens' /\ TodoInWorld'
<1>0. TypeOK /\ SectorExact /\ Tokens  BY DEF IInv
<1>1. /\ p \in Obj /\ \A o \in Obj : (o \in PC <=> o \notin NPC)
  BY Disjoint DEF Obj
<1>2. /\ \A o \in Obj : o # p => /\ m_hp'[o] = m_hp[o] /\ pos'[o] = pos[o]
                                 /\ (o \in PC => m_state'[o] = m_state[o])
      /\ m_state'[p] = "CS_LOGOUT"
  BY <1>0, <1>1 DEF Disconnect, TypeOK
<1>3. (\A o \in Obj : o # p => (InWorld(o)' <=> InWorld(o))) /\ ~InWorld(p)'
  BY <1>1, <1>2 DEF InWorld, Playing, Alive
<1>4. \A n \in NPC : Alive(n)' <=> Alive(n)
  BY <1>1, <1>2 DEF Alive, Obj
<1>5. \A s \in Sectors :
         sectors'[s] = IF s = sector_id(pos[p]) THEN sectors[s] \ {p} ELSE sectors[s]
  <2>1. sector_id(pos[p]) \in Sectors  BY <1>0, <1>1, SectorIdInRange DEF TypeOK
  <2> QED  BY <1>0, <2>1 DEF Disconnect, TypeOK, remove_object_from_sector
<1>6. SectorExact'
  <2> SUFFICES ASSUME NEW s \in Sectors, NEW o \in Obj
               PROVE  o \in sectors'[s] <=> InWorld(o)' /\ sector_id(pos'[o]) = s
    BY DEF SectorExact
  <2>1. o \in sectors[s] <=> InWorld(o) /\ sector_id(pos[o]) = s
    BY <1>0 DEF SectorExact
  <2> QED  BY <1>2, <1>3, <1>5, <2>1
<1>7. /\ UNCHANGED <<active, move_ev, respawn_ev, worker>> /\ worker.op = "idle"
  BY DEF Disconnect, Ready, npcVars
<1>8. Woken(move_ev)  BY <1>7 DEF Woken
<1>9. Tokens'  BY <1>0, <1>4, <1>7, <1>8, WokenTokens DEF InTick
<1> QED  BY <1>6, <1>7, <1>9 DEF TodoInWorld

\* do_move of a player in the world, from Move or SecondMove.
LEMMA StepInv ==
    ASSUME IInv, NEW p \in PC, Playing(p), NEW d, do_move(p, d),
           UNCHANGED <<playerVars, m_hp, respawn_ev>>,
           worker.op \in {"idle", "move2"}, worker'.op \in {"idle", "move2"}
    PROVE  SectorExact' /\ Tokens' /\ TodoInWorld'
<1>0. TypeOK /\ SectorExact /\ Tokens  BY DEF IInv
<1>1. pos[p] \in Tiles  BY <1>0 DEF TypeOK, Obj
<1>2. PICK t \in Tiles : Relocate(p, t, move_ev)
  BY <1>1, FreeIsTile DEF do_move
<1>3. \A n \in NPC : Alive(n)' <=> Alive(n)  BY DEF Alive
<1>4. \A o \in Obj : InWorld(o)' <=> InWorld(o)  BY <1>3, SameWorld DEF playerVars
<1>5. SectorExact' /\ Woken(move_ev)  BY <1>0, <1>2, <1>4, RelocateExact, OpenType
<1>6. Tokens'  BY <1>0, <1>3, <1>5, WokenTokens DEF InTick
<1> QED  BY <1>5, <1>6 DEF TodoInWorld

LEMMA PlayerActInv ==
    ASSUME IInv, NEW p \in PC, PlayerAct(p)
    PROVE  SectorExact' /\ Tokens' /\ TodoInWorld'
<1>1. CASE LoginAny(p)
  <2>1. PICK t \in Tiles : \E l, h : Login(p, t, l, h)
    BY <1>1, ObjectAssumption DEF LoginAny
  <2> QED  BY <2>1, LoginInv
<1>2. CASE Disconnect(p)  BY <1>2, DisconnectInv
<1>3. ASSUME NEW d \in DIRECTION, Move(p, d) PROVE SectorExact' /\ Tokens' /\ TodoInWorld'
  BY <1>3, StepInv DEF Move, Ready, Then, Idle
<1>4. ASSUME NEW op \in {"attack", "skill"}, NEW S \in SUBSET NPC,
             \A n \in S : Alive(n), Ready, worker' = Then(op, p, "UP", S),
             UNCHANGED <<playerVars, m_hp, pos, sectors, visible, npcVars, regen_ev>>
      PROVE  SectorExact' /\ Tokens' /\ TodoInWorld'
  <2>1. worker'.op = op /\ worker'.todo = S /\ worker.op = "idle"  BY <1>4 DEF Then, Ready
  <2>2. SectorExact' /\ Tokens'
    BY <1>4, <2>1, PlayerHpStep DEF playerVars, npcVars, InTick
  <2>3. \A n \in S : Alive(n)'  BY <1>4 DEF Alive
  <2> QED  BY <2>1, <2>2, <2>3 DEF TodoInWorld
<1>5. ASSUME NEW d \in DIRECTION, Attack(p, d) PROVE SectorExact' /\ Tokens' /\ TodoInWorld'
  BY <1>4, <1>5 DEF Attack, LiveNpcsSeen, Alive
<1>6. ASSUME NEW d \in DIRECTION, RangedAttack(p, d)
      PROVE  SectorExact' /\ Tokens' /\ TodoInWorld'
  <2>1. PICK n \in NPC : Alive(n) /\ worker' = Then("skill", p, "UP", {n})
    BY <1>6 DEF RangedAttack, NpcsOn, Alive
  <2> QED  BY <1>4, <1>6, <2>1 DEF RangedAttack
<1>7. CASE Skill(p)
  BY <1>4, <1>7 DEF Skill, LiveNpcsSeen, Alive
<1>8. CASE UsePotion(p)
  <2>1. PICK x : m_hp' = [m_hp EXCEPT ![p] = x]  BY <1>8 DEF UsePotion
  <2>2. \A n \in NPC : m_hp'[n] = m_hp[n]
    BY <2>1, Disjoint DEF IInv, TypeOK, Obj
  <2>3. worker.op = "idle" /\ UNCHANGED <<playerVars, pos, sectors, npcVars, worker>>
    BY <1>8 DEF UsePotion, Ready
  <2> QED  BY <2>2, <2>3, PlayerHpStep DEF playerVars, npcVars, InTick, TodoInWorld
<1> QED  BY <1>1, <1>2, <1>3, <1>5, <1>6, <1>7, <1>8 DEF PlayerAct

LEMMA RegenInv ==
    ASSUME IInv, NEW p \in PC, HpRegen(p)
    PROVE  SectorExact' /\ Tokens' /\ TodoInWorld'
<1>1. m_hp' = m_hp \/ \E x : m_hp' = [m_hp EXCEPT ![p] = x]  BY DEF HpRegen
<1>2. \A n \in NPC : m_hp'[n] = m_hp[n]
  BY <1>1, Disjoint DEF IInv, TypeOK, Obj
<1>3. worker.op = "idle" /\ UNCHANGED <<playerVars, pos, sectors, npcVars, worker>>
  BY DEF HpRegen, Ready
<1> QED  BY <1>2, <1>3, PlayerHpStep DEF playerVars, npcVars, InTick, TodoInWorld

LEMMA NpcMoveInv ==
    ASSUME IInv, NEW n \in NPC, NpcMove(n)
    PROVE  SectorExact' /\ Tokens' /\ TodoInWorld'
<1>0. TypeOK /\ SectorExact /\ Tokens /\ TodoInWorld /\ n \in Obj  BY DEF IInv, Obj
<1>1. NpcTick(n) /\ Due(move_ev[n]) /\ worker.op = "idle"
  BY DEF NpcMove, DeadTick, IdleTick, Roam, GiveUp, ChaseStep, AttackPlayer,
         AreaAttack, MovingTick, NpcTick, Ready
<1>2. /\ TakeMove(n) \in [NPC -> Events] /\ TakeMove(n)[n] = Handled(move_ev[n])
      /\ \A m \in NPC : m # n => TakeMove(n)[m] = move_ev[m]
  BY <1>0, <1>1, OpenType, EventType DEF TakeMove
<1>3. /\ Reschedule(n).op = "resched" /\ Reschedule(n).id = n
  BY DEF Reschedule, Then
\* A tick that leaves players' and NPCs' hit points alone.
<1>4. ASSUME Alive(n), m_state' = m_state, m_hp' = m_hp, active' = active,
             move_ev' = TakeMove(n), respawn_ev' = respawn_ev,
             worker'.op \in {"resched", "area"}, worker'.id = n
      PROVE  Tokens' /\ \A o \in Obj : InWorld(o)' <=> InWorld(o)
  <2>1. \A m \in NPC : Alive(m)' <=> Alive(m)  BY <1>4 DEF Alive
  <2>2. Woken(TakeMove(n))  BY <1>4 DEF Woken
  <2>3. Tokens'  BY <1>0, <1>1, <1>4, <2>1, <2>2, TickTokens
  <2> QED  BY <1>4, <2>1, <2>3, SameWorld
<1>5. CASE DeadTick(n)
  <2>1. /\ ~Alive(n) /\ move_ev' = TakeMove(n) /\ worker' = worker
        /\ UNCHANGED <<playerVars, m_hp, pos, sectors, active, respawn_ev>>
    BY <1>0, <1>5 DEF DeadTick, Alive, TypeOK
  <2>2. \A m \in NPC : Alive(m)' <=> Alive(m)  BY <2>1 DEF Alive
  <2>3. SectorExact'  BY <1>0, <2>1, <2>2, SameWorld, SameExact DEF playerVars
  <2>4. ~active[n] /\ DeadEvents(Handled(move_ev[n]), respawn_ev[n])
    BY <1>0, <1>1, <2>1, TokensOf, DroppedEvent
  <2>5. ~InTick(n)'  BY <1>1, <2>1 DEF InTick
  <2>6. Tokens'
    BY <1>0, <1>2, <2>1, <2>2, <2>4, <2>5, OtherTokens DEF InTick
  <2> QED  BY <1>1, <2>1, <2>3, <2>6 DEF TodoInWorld
<1>6. CASE IdleTick(n)
  <2>1. /\ Alive(n) /\ move_ev' = TakeMove(n) /\ worker' = worker
        /\ active' = [active EXCEPT ![n] = FALSE]
        /\ UNCHANGED <<playerVars, m_hp, pos, sectors, respawn_ev>>
    BY <1>6 DEF IdleTick, Alive
  <2>2. \A m \in NPC : Alive(m)' <=> Alive(m)  BY <2>1 DEF Alive
  <2>3. SectorExact'  BY <1>0, <2>1, <2>2, SameWorld, SameExact DEF playerVars
  <2>4. AsleepEvents(Handled(move_ev[n]), respawn_ev[n])
    BY <1>0, <1>1, <2>1, DueIsAwake, TakenEvent
  <2>5. ~InTick(n)' /\ ~active'[n] /\ \A m \in NPC : m # n => active'[m] = active[m]
    BY <1>0, <1>1, <2>1 DEF InTick, TypeOK
  <2>6. Tokens'
    BY <1>0, <1>2, <2>1, <2>2, <2>4, <2>5, OtherTokens DEF InTick
  <2> QED  BY <1>1, <2>1, <2>3, <2>6 DEF TodoInWorld
<1>7. ASSUME NEW d \in DIRECTION, Roam(n, d) PROVE SectorExact' /\ Tokens' /\ TodoInWorld'
  <2>1. /\ Alive(n) /\ update_viewers(n, RoamTo(n, d)) /\ move_ev' = TakeMove(n)
        /\ worker' = Reschedule(n) /\ UNCHANGED <<playerVars, m_hp, active, respawn_ev>>
    BY <1>7 DEF Roam, MovingTick, Alive
  <2>2. RoamTo(n, d) \in Tiles  BY <1>0, TileChoices
  <2>3. Tokens' /\ \A o \in Obj : InWorld(o)' <=> InWorld(o)
    BY <1>3, <1>4, <2>1 DEF playerVars
  <2>4. SectorExact'  BY <1>0, <2>1, <2>2, <2>3, ViewersExact
  <2> QED  BY <1>3, <2>1, <2>3, <2>4 DEF TodoInWorld
<1>8. CASE GiveUp(n)
  <2>1. /\ Alive(n) /\ move_ev' = TakeMove(n) /\ worker' = Reschedule(n)
        /\ UNCHANGED <<playerVars, m_hp, pos, sectors, active, respawn_ev>>
    BY <1>8 DEF GiveUp, MovingTick, Alive
  <2>2. Tokens' /\ \A o \in Obj : InWorld(o)' <=> InWorld(o)
    BY <1>3, <1>4, <2>1 DEF playerVars
  <2>3. SectorExact'  BY <1>0, <2>1, <2>2, SameExact
  <2> QED  BY <1>3, <2>1, <2>2, <2>3 DEF TodoInWorld
<1>9. ASSUME NEW p \in PC, ChaseStep(n, p) PROVE SectorExact' /\ Tokens' /\ TodoInWorld'
  <2>1. /\ Alive(n) /\ move_ev' = TakeMove(n) /\ worker' = Reschedule(n)
        /\ UNCHANGED <<playerVars, m_hp, active, respawn_ev>>
    BY <1>9 DEF ChaseStep, MovingTick, Alive
  <2>2. PICK t \in Tiles : update_viewers(n, t)
    BY <1>0, <1>9, TileChoices DEF ChaseStep
  <2>3. Tokens' /\ \A o \in Obj : InWorld(o)' <=> InWorld(o)
    BY <1>3, <1>4, <2>1 DEF playerVars
  <2>4. SectorExact'  BY <1>0, <2>1, <2>2, <2>3, ViewersExact
  <2> QED  BY <1>3, <2>1, <2>3, <2>4 DEF TodoInWorld
<1>10. ASSUME NEW p \in PC, AttackPlayer(n, p) PROVE SectorExact' /\ Tokens' /\ TodoInWorld'
  <2>1. /\ Alive(n) /\ worker' = Reschedule(n) /\ p \in Targets(n)
        /\ UNCHANGED <<playerVars, respawn_ev>>
    BY <1>10 DEF AttackPlayer, MovingTick, Alive
  <2>2. Playing(p)
    BY <2>1 DEF Targets, Nearest, Detected, PlayersAround, ValidTarget
  <2>3. BOSS_ATTACK_DMG[get_boss_phase(n)] \in Nat /\ NPC_ATTACK_DMG \in Nat
    BY PhaseType, StatAssumption
  <2>4. PICK dmg \in Nat : HitPlayer(n, p, dmg, TakeMove(n))
    BY <1>10, <2>3, DamageType DEF AttackPlayer
  <2>5. (\A m \in NPC : m_hp'[m] = m_hp[m]) /\ SectorExact' /\ Woken(TakeMove(n))
    BY <1>0, <1>2, <2>1, <2>2, <2>4, HitPlayerExact DEF playerVars
  <2>6. \A m \in NPC : Alive(m)' <=> Alive(m)  BY <2>5 DEF Alive
  <2>7. Tokens'  BY <1>0, <1>1, <1>3, <2>1, <2>5, <2>6, TickTokens
  <2> QED  BY <1>3, <2>1, <2>5, <2>7 DEF TodoInWorld
<1>11. ASSUME NEW p \in PC, AreaAttack(n, p) PROVE SectorExact' /\ Tokens' /\ TodoInWorld'
  <2>1. /\ Alive(n) /\ move_ev' = TakeMove(n)
        /\ UNCHANGED <<playerVars, m_hp, pos, sectors, active, respawn_ev>>
    BY <1>11 DEF AreaAttack, MovingTick, Alive
  <2>2. PICK S : (\A q \in S : Playing(q)) /\ worker' = Loop("area", n, S, Reschedule(n))
    BY <1>11 DEF AreaAttack, PlayersAround
  <2>3. /\ worker'.op \in {"area", "resched"} /\ worker'.id = n
        /\ worker'.op = "area" => worker'.todo = S
    BY <1>3, <2>2 DEF Loop, Then
  <2>4. Tokens' /\ \A o \in Obj : InWorld(o)' <=> InWorld(o)
    BY <1>4, <2>1, <2>3 DEF playerVars
  <2>5. SectorExact'  BY <1>0, <2>1, <2>4, SameExact
  <2>6. TodoInWorld'  BY <2>1, <2>2, <2>3 DEF TodoInWorld, playerVars, Playing
  <2> QED  BY <2>4, <2>5, <2>6
<1> QED
  BY <1>5, <1>6, <1>7, <1>8, <1>9, <1>10, <1>11 DEF NpcMove

LEMMA RespawnInv ==
    ASSUME IInv, NEW n \in NPC, NEW t \in Tiles, Respawn(n, t)
    PROVE  SectorExact' /\ Tokens' /\ TodoInWorld'
<1>0. TypeOK /\ SectorExact /\ Tokens /\ n \in Obj  BY DEF IInv, Obj
<1>1. /\ Due(respawn_ev[n]) /\ worker.op = "idle" /\ UNCHANGED <<playerVars, worker>>
      /\ respawn_ev' = [respawn_ev EXCEPT ![n] = Handled(@)]
      /\ m_hp' = [m_hp EXCEPT ![n] = NpcMaxHp(n)] /\ pos' = [pos EXCEPT ![n] = t]
      /\ sectors' = add_object_to_sector(sectors, n, t)
  BY DEF Respawn, Ready
<1>2. ~Due(NoEvent)  BY OneEventFacts, LongestType
<1>3. ~Alive(n)  BY <1>0, <1>1, <1>2, TokensOf DEF AwakeEvents, AsleepEvents
<1>4. /\ Alive(n)' /\ pos'[n] = t
      /\ \A o \in Obj : o # n => m_hp'[o] = m_hp[o] /\ pos'[o] = pos[o]
  BY <1>0, <1>1, NpcMaxHpType DEF TypeOK, Alive
<1>5. /\ \A o \in Obj : o # n => (InWorld(o)' <=> InWorld(o))
      /\ InWorld(n)' /\ ~InWorld(n)
  BY <1>0, <1>1, <1>3, <1>4, Disjoint DEF InWorld, Playing, Alive, playerVars
<1>6. \A s \in Sectors :
         sectors'[s] = IF s = sector_id(t) THEN sectors[s] \cup {n} ELSE sectors[s]
  BY <1>0, <1>1, SectorIdInRange DEF TypeOK, add_object_to_sector
<1>7. SectorExact'
  <2> SUFFICES ASSUME NEW s \in Sectors, NEW o \in Obj
               PROVE  o \in sectors'[s] <=> InWorld(o)' /\ sector_id(pos'[o]) = s
    BY DEF SectorExact
  <2>1. o \in sectors[s] <=> InWorld(o) /\ sector_id(pos[o]) = s
    BY <1>0 DEF SectorExact
  <2>2. CASE o = n
    <3>1. o \notin sectors[s]  BY <1>5, <2>1, <2>2
    <3>2. o \in sectors'[s] <=> s = sector_id(t)  BY <1>6, <2>2, <3>1
    <3> QED  BY <1>4, <1>5, <2>2, <3>2
  <2>3. CASE o # n
    <3>1. o \in sectors'[s] <=> o \in sectors[s]  BY <1>6, <2>3
    <3> QED  BY <1>4, <1>5, <2>1, <2>3, <3>1
  <2> QED  BY <2>2, <2>3
<1>8. ~active[n] /\ AsleepEvents(move_ev[n], Handled(respawn_ev[n]))
  BY <1>0, <1>1, <1>3, TokensOf, RespawnedEvent
<1>9. /\ respawn_ev'[n] = Handled(respawn_ev[n])
      /\ \A m \in NPC : m # n => respawn_ev'[m] = respawn_ev[m]
  BY <1>0, <1>1 DEF TypeOK
<1>10. PICK S \in {{}, {n}} : wake_up(move_ev, S)  BY DEF Respawn
<1>11. /\ active'[n] = (n \in S)
       /\ move_ev'[n] = IF n \in S THEN Queued(move_ev[n], MOVE_COOL_TIME) ELSE move_ev[n]
  BY <1>8, <1>10 DEF wake_up, PushAll, TypeOK, IInv
<1>12. \A m \in NPC : m # n => active'[m] = active[m] /\ move_ev'[m] = move_ev[m]
  <2> SUFFICES ASSUME NEW m \in NPC, m # n
               PROVE  active'[m] = active[m] /\ move_ev'[m] = move_ev[m]
    OBVIOUS
  <2>1. m \notin S /\ active[m] \in BOOLEAN  BY <1>0, <1>10 DEF TypeOK
  <2>2. active'[m] = (active[m] \/ m \in S)  BY <1>10 DEF wake_up
  <2>3. move_ev'[m] = move_ev[m]
    BY <1>0, <1>10, <2>1 DEF wake_up, PushAll, TypeOK
  <2> QED  BY <2>1, <2>2, <2>3
<1>13. \A m \in NPC : ~InTick(m) /\ ~InTick(m)'  BY <1>1 DEF InTick
<1>14. \A m \in NPC : m # n => (Alive(m)' <=> Alive(m))
  BY <1>4 DEF Alive, Obj
<1>15. CASE n \in S
  <2>1. AwakeEvents(n, move_ev'[n], respawn_ev'[n])
    BY <1>8, <1>9, <1>11, <1>15, QueuedEvent, MoveCool
  <2>2. active'[n]  BY <1>11, <1>15
  <2>3. Tokens'
    BY <1>0, <1>4, <1>9, <1>12, <1>13, <1>14, <2>1, <2>2, OtherTokens
  <2> QED  BY <1>1, <1>7, <2>3 DEF TodoInWorld
<1>16. CASE n \notin S
  <2>1. ~active'[n] /\ AsleepEvents(move_ev'[n], respawn_ev'[n])
    BY <1>8, <1>9, <1>11, <1>16
  <2>2. Tokens'
    BY <1>0, <1>4, <1>9, <1>12, <1>13, <1>14, <2>1, OtherTokens
  <2> QED  BY <1>1, <1>7, <2>2 DEF TodoInWorld
<1> QED  BY <1>15, <1>16

LEMMA HitNpcInv ==
    ASSUME IInv, NEW n \in NPC, HitNpc(n)
    PROVE  SectorExact' /\ Tokens' /\ TodoInWorld'
<1> DEFINE p == worker.id
<1>0. TypeOK /\ SectorExact /\ Tokens /\ TodoInWorld  BY DEF IInv
<1>1. /\ worker.op \in {"attack", "skill"} /\ p \in PC /\ n \in Obj /\ p \in Obj
      /\ worker.todo \subseteq NPC /\ n \in worker.todo /\ p \notin NPC
  BY <1>0, Disjoint DEF HitNpc, TypeOK, Obj
<1>2. /\ worker' = Loop(worker.op, p, worker.todo \ {n}, Idle)
      /\ UNCHANGED <<m_state, pos, regen_ev>>
  BY DEF HitNpc
<1>3. /\ worker'.op \in {"attack", "skill", "idle"}
      /\ worker'.op \in {"attack", "skill"} => worker'.todo = worker.todo \ {n}
  BY <1>1, <1>2 DEF Loop, Then, Idle
<1>4. Alive(n)  BY <1>0, <1>1 DEF TodoInWorld
<1>5. \A m \in NPC : ~InTick(m) /\ ~InTick(m)'  BY <1>1, <1>3 DEF InTick
<1>6. PICK rem \in Int :
        \/ /\ rem <= 0 /\ npc_die(n, p)
           /\ \E x : m_hp' = [m_hp EXCEPT ![n] = rem, ![p] = x]
        \/ /\ rem > 0 /\ m_hp' = [m_hp EXCEPT ![n] = rem]
           /\ wake_up(move_ev, {n}) /\ UNCHANGED <<sectors, visible, respawn_ev>>
  <2> DEFINE base == IF worker.op = "attack" THEN calc_atk_dmg(m_level[p])
                                             ELSE calc_skill_dmg(m_level[p])
  <2>1. base \in Nat /\ m_hp[n] \in Int  BY <1>0, <1>1, LevelType DEF TypeOK
  <2>2. \A b \in BOOLEAN : m_hp[n] - (IF b THEN base * 2 ELSE base) \in Int
    BY <2>1
  <2> QED  BY <2>2 DEF HitNpc
<1>7. \A m \in NPC : m # n => m_hp'[m] = m_hp[m] /\ (Alive(m)' <=> Alive(m))
  BY <1>0, <1>1, <1>6 DEF TypeOK, Alive, Obj
<1>8. m_hp'[n] = rem  BY <1>0, <1>1, <1>6 DEF TypeOK
<1>9. TodoInWorld'
  BY <1>0, <1>1, <1>3, <1>7 DEF TodoInWorld
<1>10. CASE rem <= 0
  <2>1. npc_die(n, p) /\ ~Alive(n)'  BY <1>6, <1>8, <1>10 DEF Alive
  <2>2. /\ ~active'[n] /\ respawn_ev'[n] = Queued(respawn_ev[n], RespawnTime(n))
        /\ move_ev' = move_ev
        /\ \A m \in NPC : m # n => active'[m] = active[m] /\ respawn_ev'[m] = respawn_ev[m]
    BY <1>0, <2>1 DEF npc_die, TypeOK
  <2>3. DeadEvents(move_ev'[n], respawn_ev'[n])
    BY <1>0, <1>4, <2>2, TokensOf, KilledEvent
  <2>4. Tokens'
    BY <1>0, <1>5, <1>7, <2>1, <2>2, <2>3, OtherTokens
  <2>5. \A s \in Sectors :
           sectors'[s] = IF s = sector_id(pos[n]) THEN sectors[s] \ {n} ELSE sectors[s]
    <3>1. sector_id(pos[n]) \in Sectors  BY <1>0, <1>1, SectorIdInRange DEF TypeOK
    <3> QED  BY <1>0, <2>1, <3>1 DEF npc_die, TypeOK, remove_object_from_sector
  <2>6. /\ \A o \in Obj : o # n => (InWorld(o)' <=> InWorld(o))
        /\ ~InWorld(n)'
    BY <1>1, <1>2, <1>7, <2>1, Disjoint DEF InWorld, Playing, Obj
  <2>7. SectorExact'
    <3> SUFFICES ASSUME NEW s \in Sectors, NEW o \in Obj
                 PROVE  o \in sectors'[s] <=> InWorld(o)' /\ sector_id(pos'[o]) = s
      BY DEF SectorExact
    <3>1. o \in sectors[s] <=> InWorld(o) /\ sector_id(pos[o]) = s
      BY <1>0 DEF SectorExact
    <3> QED  BY <1>2, <2>5, <2>6, <3>1
  <2> QED  BY <1>9, <2>4, <2>7
<1>11. CASE rem > 0
  <2>1. wake_up(move_ev, {n}) /\ UNCHANGED <<sectors, respawn_ev>>
    BY <1>6, <1>11
  <2>2. \A m \in NPC : Alive(m)' <=> Alive(m)
    BY <1>4, <1>7, <1>8, <1>11 DEF Alive
  <2>3. Woken(move_ev)  BY <1>0, <1>4, <2>1, WakesLive, OpenType
  <2>4. Tokens'  BY <1>0, <1>5, <2>1, <2>2, <2>3, WokenTokens
  <2>5. SectorExact'  BY <1>0, <1>2, <2>1, <2>2, SameWorld, SameExact
  <2> QED  BY <1>9, <2>4, <2>5
<1> QED  BY <1>6, <1>10, <1>11

LEMMA ReschedInv ==
    ASSUME IInv, NEW n \in NPC, KeepMoving(n) \/ FallAsleep(n)
    PROVE  SectorExact' /\ Tokens' /\ TodoInWorld'
<1>0. TypeOK /\ SectorExact /\ Tokens  BY DEF IInv
<1>1. /\ worker.op = "resched" /\ n = worker.id /\ worker'.op = "idle"
      /\ UNCHANGED <<playerVars, m_hp, pos, sectors, respawn_ev>>
  BY DEF KeepMoving, FallAsleep, Idle
<1>2. \A m \in NPC : Alive(m)' <=> Alive(m)  BY <1>1 DEF Alive
<1>3. SectorExact'  BY <1>0, <1>1, <1>2, SameWorld, SameExact DEF playerVars
<1>4. InTick(n) /\ ~InTick(n)' /\ \A m \in NPC : m # n => ~InTick(m) /\ ~InTick(m)'
  BY <1>1 DEF InTick
<1>5. Alive(n) /\ active[n] /\ AsleepEvents(move_ev[n], respawn_ev[n])
  BY <1>0, <1>4, TokensOf
<1>6. CASE KeepMoving(n)
  <2>1. /\ \A m \in NPC : BossCool(m) \in MoveDelays
        /\ \A m \in NPC : \A q : Cool(m, q) \in MoveDelays
    BY PhaseType DEF BossCool, Cool, MoveDelays
  <2>2. PICK d \in MoveDelays : move_ev' = [move_ev EXCEPT ![n] = Queued(@, d)]
    BY <1>6, <2>1 DEF KeepMoving
  <2>3. /\ active' = active /\ move_ev'[n] = Queued(move_ev[n], d)
        /\ \A m \in NPC : m # n => move_ev'[m] = move_ev[m]
    BY <1>0, <1>6, <2>2 DEF KeepMoving, TypeOK
  <2>4. AwakeEvents(n, move_ev'[n], respawn_ev'[n])
    BY <1>1, <1>5, <2>3, QueuedEvent
  <2>5. Tokens'
    BY <1>0, <1>1, <1>2, <1>4, <1>5, <2>3, <2>4, OtherTokens
  <2> QED  BY <1>1, <1>3, <2>5 DEF TodoInWorld
<1>7. CASE FallAsleep(n)
  <2>1. /\ move_ev' = move_ev /\ ~active'[n]
        /\ \A m \in NPC : m # n => active'[m] = active[m]
    BY <1>0, <1>7 DEF FallAsleep, TypeOK
  <2>2. Tokens'
    BY <1>0, <1>1, <1>2, <1>4, <1>5, <2>1, OtherTokens
  <2> QED  BY <1>1, <1>3, <2>2 DEF TodoInWorld
<1> QED  BY <1>6, <1>7

LEMMA AreaHitInv ==
    ASSUME IInv, NEW p \in PC, AreaHit(p)
    PROVE  SectorExact' /\ Tokens' /\ TodoInWorld'
<1> DEFINE n == worker.id
<1>0. TypeOK /\ SectorExact /\ Tokens /\ TodoInWorld  BY DEF IInv
<1>1. /\ worker.op = "area" /\ n \in NPC /\ p \in worker.todo /\ Playing(p)
      /\ worker' = Loop("area", n, worker.todo \ {p}, Reschedule(n))
      /\ UNCHANGED <<playerVars, respawn_ev>>
  BY <1>0 DEF AreaHit, TypeOK, TodoInWorld
<1>2. /\ worker'.op \in {"area", "resched"} /\ worker'.id = n
      /\ worker'.op = "area" => worker'.todo = worker.todo \ {p}
  BY <1>1 DEF Loop, Then, Reschedule
<1>3. BOSS_ATTACK_DMG[3] \in Nat  BY StatAssumption
<1>4. PICK dmg \in Nat : HitPlayer(n, p, dmg, move_ev)
  BY <1>3, DamageType DEF AreaHit
<1>5. (\A m \in NPC : m_hp'[m] = m_hp[m]) /\ SectorExact' /\ Woken(move_ev)
  BY <1>0, <1>1, <1>4, HitPlayerExact, OpenType DEF playerVars
<1>6. \A m \in NPC : Alive(m)' <=> Alive(m)  BY <1>5 DEF Alive
<1>7. \A m \in NPC : InTick(m)' <=> InTick(m)  BY <1>1, <1>2 DEF InTick
<1>8. Tokens'  BY <1>0, <1>1, <1>5, <1>6, <1>7, WokenTokens
<1>9. TodoInWorld'
  BY <1>0, <1>1, <1>2 DEF TodoInWorld, Playing, playerVars
<1> QED  BY <1>5, <1>8, <1>9

LEMMA ContinueInv ==
    ASSUME IInv, Continue
    PROVE  SectorExact' /\ Tokens' /\ TodoInWorld'
<1>1. CASE SecondMove
  <2>1. worker.id \in PC /\ Playing(worker.id)
    BY <1>1 DEF SecondMove, IInv, TypeOK
  <2> QED  BY <1>1, <2>1, StepInv DEF SecondMove, Idle
<1> QED  BY <1>1, HitNpcInv, ReschedInv, AreaHitInv DEF Continue

LEMMA TickInv ==
    ASSUME IInv, Tick
    PROVE  SectorExact' /\ Tokens' /\ TodoInWorld'
<1>0. TypeOK /\ SectorExact /\ Tokens  BY DEF IInv
<1>1. /\ UNCHANGED <<playerVars, m_hp, pos, sectors, active, worker>>
      /\ worker.op = "idle"
  BY DEF Tick, Ready
<1>2. \A m \in NPC : Alive(m)' <=> Alive(m)  BY <1>1 DEF Alive
<1>3. SectorExact'  BY <1>0, <1>1, <1>2, SameWorld, SameExact DEF playerVars
<1>4. Tokens'
  <2> SUFFICES ASSUME NEW m \in NPC
      PROVE  /\ Alive(m)' /\ active'[m] /\ ~InTick(m)' =>
                   AwakeEvents(m, move_ev'[m], respawn_ev'[m])
             /\ Alive(m)' /\ (~active'[m] \/ InTick(m)') =>
                   AsleepEvents(move_ev'[m], respawn_ev'[m])
             /\ ~Alive(m)' => ~active'[m] /\ DeadEvents(move_ev'[m], respawn_ev'[m])
             /\ InTick(m)' => active'[m]
    BY DEF Tokens
  <2>1. /\ ~Due(move_ev[m]) /\ ~Due(respawn_ev[m])
        /\ move_ev'[m] = Elapsed(move_ev[m]) /\ respawn_ev'[m] = Elapsed(respawn_ev[m])
    BY DEF Tick
  <2>2. ~InTick(m) /\ ~InTick(m)'  BY <1>1 DEF InTick
  <2> QED  BY <1>0, <1>1, <1>2, <2>1, <2>2, TokensOf, ElapsedEvent
<1> QED  BY <1>1, <1>3, <1>4 DEF TodoInWorld

LEMMA NextInv ==
    ASSUME IInv, [Next]_vars
    PROVE  IInv'
<1>1. TypeOK'  BY NextType DEF IInv
<1>2. CASE Next
  <2>1. SectorExact' /\ Tokens' /\ TodoInWorld'
    BY <1>2, PlayerActInv, RegenInv, NpcMoveInv, RespawnInv, ContinueInv, TickInv
    DEF Next, RespawnAny
  <2> QED  BY <1>1, <2>1 DEF IInv
<1>3. CASE UNCHANGED vars
  <2>1. SectorExact'  BY <1>3 DEF vars, IInv, SectorExact, InWorld, Playing, Alive
  <2>2. Tokens'  BY <1>3 DEF vars, IInv, Tokens, Alive, InTick
  <2>3. TodoInWorld'  BY <1>3 DEF vars, IInv, TodoInWorld, Alive, Playing
  <2> QED  BY <1>1, <2>1, <2>2, <2>3 DEF IInv
<1> QED  BY <1>2, <1>3

LEMMA InvariantHolds == Spec => []IInv
BY InitInv, NextInv, PTL DEF Spec

\* The sector index and the objects agree after every handler and between
\* its steps, for every world, number of players and NPCs.
THEOREM SectorsExact == Spec => []SectorExact
<1>1. IInv => SectorExact  BY DEF IInv
<1> QED  BY <1>1, InvariantHolds, PTL

\* An awake NPC has exactly one NPC_MOVE event and a sleeping one none.
THEOREM OneMoveEvent == Spec => []MoveToken
<1>1. IInv => MoveToken
  <2> SUFFICES ASSUME IInv, NEW n \in NPC, Alive(n)
               PROVE  IF active[n] /\ ~InTick(n)
                      THEN \E d \in Ticks : move_ev[n] = OneEvent(d)
                      ELSE move_ev[n] = NoEvent
    BY DEF MoveToken
  <2>1. Tokens /\ active[n] \in BOOLEAN  BY DEF IInv, TypeOK
  <2> QED  BY <2>1, TokensOf DEF AwakeEvents, AsleepEvents
<1> QED  BY <1>1, InvariantHolds, PTL

\* A dead NPC has exactly one NPC_RESPAWN event, and an NPC_MOVE event left
\* over from before its death always comes due before it.
THEOREM OneRespawnEvent == Spec => []RespawnToken
<1>1. IInv => RespawnToken
  <2> SUFFICES ASSUME IInv, NEW n \in NPC
               PROVE  IF Alive(n) THEN respawn_ev[n] = NoEvent
                      ELSE /\ ~active[n]
                           /\ DeadEvents(move_ev[n], respawn_ev[n])
    BY DEF RespawnToken, DeadEvents
  <2>1. Tokens /\ active[n] \in BOOLEAN  BY DEF IInv, TypeOK
  <2>2. Alive(n) => respawn_ev[n] = NoEvent
    BY <2>1, TokensOf DEF AwakeEvents, AsleepEvents
  <2> QED  BY <2>1, <2>2, TokensOf
<1> QED  BY <1>1, InvariantHolds, PTL
-----------------------------------------------------------------------------
(***************************************************************************)
(* Detection.                                                              *)
(***************************************************************************)
LEMMA SmallestNumber ==
    ASSUME NEW T \in SUBSET Nat, T # {}
    PROVE  \E x \in T : \A y \in T : x <= y
<1>1. PICK x \in T : \A y \in T : ~(<<y, x>> \in OpToRel(<, Nat))
  BY NatLessThanWellFounded, WFMin
<1>2. \A y \in T : ~(y < x)  BY <1>1 DEF OpToRel
<1> QED  BY <1>2

\* A scan that accepts somebody chooses somebody.
LEMMA NearestExists ==
    ASSUME TypeOK, NEW n \in NPC, Detected(n) # {}
    PROVE  Nearest(n) # {}
<1> DEFINE D == { Manhattan(pos[n], pos[p]) : p \in Detected(n) }
<1>1. \A p \in Detected(n) : Manhattan(pos[n], pos[p]) \in Nat
  <2> SUFFICES ASSUME NEW p \in Detected(n) PROVE Manhattan(pos[n], pos[p]) \in Nat
    OBVIOUS
  <2>1. pos[n] \in Tiles /\ pos[p] \in Tiles
    BY DEF TypeOK, Obj, Detected, PlayersAround
  <2>2. /\ pos[n][1] \in Nat /\ pos[n][2] \in Nat
        /\ pos[p][1] \in Nat /\ pos[p][2] \in Nat
    BY <2>1, SectorXYType
  <2> QED  BY <2>2 DEF Manhattan, Abs
<1>2. D \in SUBSET Nat /\ D # {}  BY <1>1
<1>3. PICK x \in D : \A y \in D : x <= y  BY <1>2, SmallestNumber
<1>4. PICK p \in Detected(n) : x = Manhattan(pos[n], pos[p])  OBVIOUS
<1>5. p \in Nearest(n)  BY <1>3, <1>4 DEF Nearest
<1> QED  BY <1>5

\* An Agro roams only when no player is within its detection range: the
\* scan of the nine sectors misses nobody, whatever the size of the world,
\* because the index is exact and AGRO_DETECT_RANGE <= SECTOR_SIZE.
THEOREM NobodyMissed == Spec => AgroDetects
<1>1. ASSUME IInv, NEW n \in AGRO, NEW d \in DIRECTION, Roam(n, d)
      PROVE  ~\E p \in PC : InDetectRange(n, p)
  <2> SUFFICES ASSUME NEW p \in PC, InDetectRange(n, p) PROVE FALSE
    OBVIOUS
  <2>0. TypeOK /\ SectorExact /\ n \in NPC /\ n \notin BOSS /\ p \in Obj /\ n \in Obj
    <3>1. AGRO \cap BOSS = {}  BY ObjectAssumption
    <3>2. n \in NPC /\ n \in Obj /\ p \in Obj  BY DEF NPC, Obj
    <3> QED  BY <1>1, <3>1, <3>2 DEF IInv
  <2>1. Playing(p) /\ Within(pos[n], pos[p], DetectRange(n))
    BY DEF InDetectRange
  <2>2. /\ DetectRange(n) \in Nat /\ DetectRange(n) <= SECTOR_SIZE
    BY <2>0, RangeAssumption DEF DetectRange
  <2>3. pos[n] \in Tiles /\ pos[p] \in Tiles  BY <2>0 DEF TypeOK
  <2>4. sector_id(pos[p]) \in AdjacentSectors[pos[n]]
    BY <2>1, <2>2, <2>3, AdjacentCovers
  <2>5. p \in sectors[sector_id(pos[p])]
    BY <2>0, <2>1, <2>3, SectorIdInRange, InWorldSplit DEF SectorExact
  <2>6. p \in Detected(n)
    BY <2>1, <2>4, <2>5
    DEF Detected, PlayersAround, get_objects_in_adjacent_sectors
  <2>7. Nearest(n) # {}  BY <2>0, <2>6, NearestExists
  <2>8. n \notin PEACE /\ Targets(n) = {}  BY <1>1 DEF Roam
  <2>9. Targets(n) = Nearest(n) \/ (ValidTarget(n) /\ Targets(n) = {target[n]})
    BY <2>6, <2>8 DEF Targets
  <2> QED  BY <2>7, <2>8, <2>9
<1>2. IInv /\ [Next]_vars =>
        [\A n \in AGRO, d \in DIRECTION :
            Roam(n, d) => ~\E p \in PC : InDetectRange(n, p)]_vars
  BY <1>1
<1> QED  BY <1>2, InvariantHolds, PTL DEF Spec, AgroDetects
-----------------------------------------------------------------------------
(***************************************************************************)
(* Hit points.                                                             *)
(***************************************************************************)
\* Neither level, state nor hit points change.
LEMMA SameHp ==
    ASSUME HpInRange, UNCHANGED <<m_state, m_level, m_hp>>
    PROVE  HpInRange'
BY DEF HpInRange, Playing

\* The hit points of one player change, within the range of its level.
LEMMA OnePlayerHp ==
    ASSUME TypeOK, HpInRange, NEW p \in PC, NEW x \in 1 .. calc_max_hp(m_level[p]),
           m_hp' = [m_hp EXCEPT ![p] = x], UNCHANGED playerVars
    PROVE  HpInRange'
<1>1. /\ m_hp'[p] = x /\ \A o \in Obj : o # p => m_hp'[o] = m_hp[o]
  BY DEF TypeOK, Obj
<1>2. \A n \in NPC : n # p /\ n \in Obj  BY Disjoint DEF Obj
<1>3. \A q \in PC : q \in Obj  BY DEF Obj
<1>4. \A q \in PC : Playing(q)' => m_hp'[q] \in 1 .. calc_max_hp(m_level'[q])
  BY <1>1, <1>3 DEF HpInRange, Playing, playerVars
<1>5. \A n \in NPC : m_hp'[n] <= NpcMaxHp(n)
  BY <1>1, <1>2 DEF HpInRange
<1> QED  BY <1>4, <1>5 DEF HpInRange

LEMMA HitPlayerHp ==
    ASSUME TypeOK, HpInRange, NEW n, NEW p \in PC, Playing(p), NEW dmg \in Nat, NEW evs,
           HitPlayer(n, p, dmg, evs), UNCHANGED playerVars
    PROVE  HpInRange'
<1> DEFINE max == calc_max_hp(m_level[p])
<1>1. max \in Nat \ {0} /\ m_hp[p] \in 1 .. max
  BY LevelType DEF TypeOK, HpInRange
<1>2. CASE m_hp[p] - dmg <= 0
  <2>1. m_hp' = [m_hp EXCEPT ![p] = max]  BY <1>2 DEF HitPlayer
  <2>2. max \in 1 .. max  BY <1>1
  <2> QED  BY <2>1, <2>2, OnePlayerHp
<1>3. CASE ~(m_hp[p] - dmg <= 0)
  <2>1. m_hp' = [m_hp EXCEPT ![p] = m_hp[p] - dmg]  BY <1>3 DEF HitPlayer
  <2>2. m_hp[p] - dmg \in 1 .. max  BY <1>1, <1>3
  <2> QED  BY <2>1, <2>2, OnePlayerHp
<1> QED  BY <1>2, <1>3

LEMMA PlayerActHp ==
    ASSUME IInv, HpInRange, NEW p \in PC, PlayerAct(p)
    PROVE  HpInRange'
<1>0. TypeOK /\ p \in Obj  BY DEF IInv, Obj
<1>1. \A n \in NPC : n # p /\ n \in Obj  BY Disjoint DEF Obj
<1>2. \A q \in PC : q \in Obj  BY DEF Obj
<1>3. ASSUME NEW t, NEW l \in 1 .. MAX_LEVEL, NEW h \in 1 .. calc_max_hp(l), Login(p, t, l, h)
      PROVE  HpInRange'
  <2>1. Min2(h, calc_max_hp(l)) \in 1 .. calc_max_hp(l)  BY LevelType DEF Min2
  <2>2. /\ m_hp'[p] = Min2(h, calc_max_hp(l)) /\ m_level'[p] = l
        /\ \A o \in Obj : o # p => m_hp'[o] = m_hp[o]
        /\ \A q \in PC : q # p => m_level'[q] = m_level[q] /\ m_state'[q] = m_state[q]
    BY <1>0, <1>3 DEF Login, TypeOK
  <2> QED  BY <1>1, <1>2, <2>1, <2>2 DEF HpInRange, Playing
<1>4. CASE Disconnect(p)
  <2>1. /\ m_state'[p] = "CS_LOGOUT" /\ \A o \in Obj : o # p => m_hp'[o] = m_hp[o]
        /\ \A q \in PC : q # p => m_level'[q] = m_level[q] /\ m_state'[q] = m_state[q]
    BY <1>0, <1>4 DEF Disconnect, TypeOK
  <2> QED  BY <1>1, <1>2, <2>1 DEF HpInRange, Playing
<1>5. CASE UsePotion(p)
  <2> DEFINE max == calc_max_hp(m_level[p])
  <2>1. max \in Nat \ {0} /\ m_hp[p] \in 1 .. max
    BY <1>0, <1>5, LevelType DEF TypeOK, HpInRange, UsePotion
  <2>2. PICK r \in Nat : m_hp' = [m_hp EXCEPT ![p] = Min2(max, m_hp[p] + r)]
    BY <1>5, <2>1, StatAssumption DEF UsePotion
  <2>3. Min2(max, m_hp[p] + r) \in 1 .. max  BY <2>1 DEF Min2
  <2>4. UNCHANGED playerVars  BY <1>5 DEF UsePotion
  <2> HIDE DEF max
  <2> QED  BY <1>0, <2>2, <2>3, <2>4, OnePlayerHp DEF max
<1>6. ASSUME NEW d \in DIRECTION, Move(p, d) \/ Attack(p, d) \/ RangedAttack(p, d)
      PROVE  HpInRange'
  BY <1>6, SameHp DEF Move, Attack, RangedAttack, playerVars
<1>7. CASE Skill(p)  BY <1>7, SameHp DEF Skill, playerVars
<1> QED  BY <1>3, <1>4, <1>5, <1>6, <1>7 DEF PlayerAct, LoginAny

LEMMA RegenHp ==
    ASSUME IInv, HpInRange, NEW p \in PC, HpRegen(p)
    PROVE  HpInRange'
<1> DEFINE max == calc_max_hp(m_level[p])
           x == IF m_hp[p] < max THEN Min2(max, m_hp[p] + Max2(1, max \div 10)) ELSE m_hp[p]
<1>0. TypeOK /\ UNCHANGED playerVars  BY DEF IInv, HpRegen
<1>1. CASE Playing(p)
  <2>1. max \in Nat \ {0} /\ m_hp[p] \in 1 .. max
    BY <1>0, <1>1, LevelType DEF TypeOK, HpInRange
  <2>2. max \div 10 \in Nat  BY <2>1, DivBounds
  <2>3. m_hp' = [m_hp EXCEPT ![p] = x]  BY <1>1 DEF HpRegen
  <2> HIDE DEF max
  <2>4. x \in 1 .. max  BY <2>1, <2>2 DEF Min2, Max2
  <2> HIDE DEF x
  <2> QED  BY <1>0, <2>3, <2>4, OnePlayerHp DEF max
<1>2. CASE ~Playing(p)
  BY <1>0, <1>2, SameHp DEF HpRegen, playerVars
<1> QED  BY <1>1, <1>2

LEMMA NpcMoveHp ==
    ASSUME IInv, HpInRange, NEW n \in NPC, NpcMove(n)
    PROVE  HpInRange'
<1>0. TypeOK  BY DEF IInv
<1>1. ASSUME NEW p \in PC, AttackPlayer(n, p) PROVE HpInRange'
  <2>1. Playing(p) /\ UNCHANGED playerVars
    BY <1>1 DEF AttackPlayer, Targets, Nearest, Detected, PlayersAround, ValidTarget
  <2>2. BOSS_ATTACK_DMG[get_boss_phase(n)] \in Nat /\ NPC_ATTACK_DMG \in Nat
    BY PhaseType, StatAssumption
  <2>3. PICK dmg \in Nat : HitPlayer(n, p, dmg, TakeMove(n))
    BY <1>1, <2>2, DamageType DEF AttackPlayer
  <2> QED  BY <1>0, <2>1, <2>3, HitPlayerHp
<1>2. CASE DeadTick(n) \/ IdleTick(n) \/ GiveUp(n)
  BY <1>2, SameHp DEF DeadTick, IdleTick, GiveUp, playerVars
<1>3. ASSUME NEW d \in DIRECTION, Roam(n, d) PROVE HpInRange'
  BY <1>3, SameHp DEF Roam, playerVars
<1>4. ASSUME NEW p \in PC, ChaseStep(n, p) \/ AreaAttack(n, p) PROVE HpInRange'
  BY <1>4, SameHp DEF ChaseStep, AreaAttack, playerVars
<1> QED  BY <1>1, <1>2, <1>3, <1>4 DEF NpcMove

LEMMA RespawnHp ==
    ASSUME IInv, HpInRange, NEW n \in NPC, NEW t, Respawn(n, t)
    PROVE  HpInRange'
<1>0. TypeOK /\ UNCHANGED playerVars /\ NpcMaxHp(n) \in Nat
  BY NpcMaxHpType DEF IInv, Respawn
<1>1. m_hp'[n] = NpcMaxHp(n) /\ \A o \in Obj : o # n => m_hp'[o] = m_hp[o]
  BY <1>0 DEF Respawn, TypeOK, Obj
<1>2. (\A q \in PC : q # n /\ q \in Obj) /\ \A m \in NPC : m \in Obj
  BY Disjoint DEF Obj
<1> QED  BY <1>0, <1>1, <1>2 DEF HpInRange, Playing, playerVars

LEMMA HitNpcHp ==
    ASSUME IInv, HpInRange, NEW n \in NPC, HitNpc(n)
    PROVE  HpInRange'
<1> DEFINE p == worker.id
           base == IF worker.op = "attack" THEN calc_atk_dmg(m_level[p])
                                           ELSE calc_skill_dmg(m_level[p])
<1>0. TypeOK /\ p \in PC /\ n \in Obj /\ p \in Obj /\ m_state' = m_state
  BY DEF IInv, HitNpc, TypeOK, Obj
<1>1. p # n /\ (\A q \in PC : q # n /\ q \in Obj) /\ \A m \in NPC : m # p /\ m \in Obj
  BY <1>0, Disjoint DEF Obj
<1>2. base \in Nat /\ m_hp[n] \in Int /\ NpcMaxHp(n) \in Nat /\ m_hp[n] <= NpcMaxHp(n)
  BY <1>0, LevelType, NpcMaxHpType DEF TypeOK, HpInRange
<1>3. PICK rem \in Int :
        /\ rem <= NpcMaxHp(n)
        /\ \/ \E l \in m_level[p] .. MAX_LEVEL :
                 /\ m_level' = [m_level EXCEPT ![p] = l]
                 /\ m_hp' = [m_hp EXCEPT ![n] = rem, ![p] = calc_max_hp(l)]
           \/ m_hp' = [m_hp EXCEPT ![n] = rem] /\ m_level' = m_level
  <2> HIDE DEF base
  <2>1. \A b \in BOOLEAN : /\ m_hp[n] - (IF b THEN base * 2 ELSE base) \in Int
                           /\ m_hp[n] - (IF b THEN base * 2 ELSE base) <= NpcMaxHp(n)
    BY <1>2
  <2> QED  BY <2>1 DEF HitNpc, base
<1>4. m_hp'[n] = rem /\ \A m \in NPC : m # n => m_hp'[m] = m_hp[m]
  BY <1>0, <1>1, <1>3 DEF TypeOK
<1>5. \A m \in NPC : m_hp'[m] <= NpcMaxHp(m)  BY <1>3, <1>4 DEF HpInRange
<1>6. \A q \in PC : Playing(q)' => m_hp'[q] \in 1 .. calc_max_hp(m_level'[q])
  <2>1. ASSUME NEW l \in m_level[p] .. MAX_LEVEL, m_level' = [m_level EXCEPT ![p] = l],
               m_hp' = [m_hp EXCEPT ![n] = rem, ![p] = calc_max_hp(l)]
        PROVE  \A q \in PC : Playing(q)' => m_hp'[q] \in 1 .. calc_max_hp(m_level'[q])
    <3>1. l \in 1 .. MAX_LEVEL  BY <1>0, <2>1, StatAssumption DEF TypeOK
    <3>2. calc_max_hp(l) \in 1 .. calc_max_hp(l)  BY <3>1, LevelType
    <3>3. /\ m_hp'[p] = calc_max_hp(l) /\ m_level'[p] = l
          /\ \A q \in PC : q # p => m_hp'[q] = m_hp[q] /\ m_level'[q] = m_level[q]
      BY <1>0, <1>1, <2>1 DEF TypeOK
    <3> QED  BY <1>0, <3>2, <3>3 DEF HpInRange, Playing
  <2>2. ASSUME m_hp' = [m_hp EXCEPT ![n] = rem], m_level' = m_level
        PROVE  \A q \in PC : Playing(q)' => m_hp'[q] \in 1 .. calc_max_hp(m_level'[q])
    <3>1. \A q \in PC : m_hp'[q] = m_hp[q]  BY <1>0, <1>1, <2>2 DEF TypeOK
    <3> QED  BY <1>0, <2>2, <3>1 DEF HpInRange, Playing
  <2> QED  BY <1>3, <2>1, <2>2
<1> QED  BY <1>5, <1>6 DEF HpInRange

LEMMA ContinueHp ==
    ASSUME IInv, HpInRange, Continue
    PROVE  HpInRange'
<1>0. TypeOK  BY DEF IInv
<1>1. CASE SecondMove  BY <1>1, SameHp DEF SecondMove, playerVars
<1>2. ASSUME NEW n \in NPC, KeepMoving(n) \/ FallAsleep(n) PROVE HpInRange'
  BY <1>2, SameHp DEF KeepMoving, FallAsleep, playerVars
<1>3. ASSUME NEW p \in PC, AreaHit(p) PROVE HpInRange'
  <2>1. Playing(p) /\ UNCHANGED playerVars
    BY <1>3 DEF IInv, TodoInWorld, AreaHit
  <2>2. BOSS_ATTACK_DMG[3] \in Nat  BY StatAssumption
  <2>3. PICK dmg \in Nat : HitPlayer(worker.id, p, dmg, move_ev)
    BY <1>3, <2>2, DamageType DEF AreaHit
  <2> QED  BY <1>0, <2>1, <2>3, HitPlayerHp
<1> QED  BY <1>1, <1>2, <1>3, HitNpcHp DEF Continue

\* A playing player always has between one hit point and the maximum of its
\* level, however attacks, potions, regeneration, level-ups and deaths
\* follow one another; an NPC never exceeds its own maximum.
THEOREM HpStaysInRange == Spec => []HpInRange
<1>1. Init => HpInRange
  <2> SUFFICES ASSUME Init PROVE HpInRange  OBVIOUS
  <2>1. \A p \in PC : ~Playing(p)  BY DEF Init, Playing
  <2>2. \A n \in NPC : n \in Obj /\ n \notin PC /\ NpcMaxHp(n) \in Nat
    BY Disjoint, NpcMaxHpType DEF Obj
  <2>3. \A n \in NPC : m_hp[n] <= NpcMaxHp(n)  BY <2>2 DEF Init
  <2> QED  BY <2>1, <2>3 DEF HpInRange
<1>2. IInv /\ HpInRange /\ [Next]_vars => HpInRange'
  <2> SUFFICES ASSUME IInv, HpInRange, [Next]_vars PROVE HpInRange'  OBVIOUS
  <2>1. CASE Tick \/ UNCHANGED vars  BY <2>1, SameHp DEF Tick, vars, playerVars
  <2> QED
    BY <2>1, PlayerActHp, RegenHp, NpcMoveHp, RespawnHp, ContinueHp DEF Next, RespawnAny
<1> QED  BY <1>1, <1>2, InvariantHolds, PTL DEF Spec
-----------------------------------------------------------------------------
(***************************************************************************)
(* Regeneration events.                                                    *)
(***************************************************************************)
\* A player that has not logged in yet has no event: the first one is the
\* one its login queues.
RegenEvents ==
    \A p \in PC : /\ m_state[p] = "CS_CONNECT" => regen_ev[p] = NoEvent
                  /\ Playing(p) => \E d \in Ticks : regen_ev[p] = OneEvent(d)

LEMMA SameRegen ==
    ASSUME RegenEvents, UNCHANGED <<m_state, regen_ev>>
    PROVE  RegenEvents'
BY DEF RegenEvents, Playing

LEMMA RegenStep ==
    ASSUME TypeOK, RegenEvents, [Next]_vars
    PROVE  RegenEvents'
<1>1. ASSUME NEW p \in PC, NEW t, NEW l, NEW h, Login(p, t, l, h) PROVE RegenEvents'
  <2>1. /\ m_state[p] = "CS_CONNECT" /\ m_state'[p] = "CS_PLAYING"
        /\ regen_ev'[p] = Queued(regen_ev[p], HP_REGEN_TIME)
        /\ \A q \in PC : q # p => m_state'[q] = m_state[q] /\ regen_ev'[q] = regen_ev[q]
    BY <1>1 DEF Login, TypeOK
  <2>2. regen_ev'[p] = OneEvent(HP_REGEN_TIME) /\ HP_REGEN_TIME \in Ticks
    BY <2>1, LongestType, OneEventFacts DEF RegenEvents
  <2> QED  BY <2>1, <2>2 DEF RegenEvents, Playing
<1>2. ASSUME NEW p \in PC, Disconnect(p) PROVE RegenEvents'
  <2>1. /\ m_state'[p] = "CS_LOGOUT" /\ regen_ev' = regen_ev
        /\ \A q \in PC : q # p => m_state'[q] = m_state[q]
    BY <1>2 DEF Disconnect, TypeOK
  <2> QED  BY <2>1 DEF RegenEvents, Playing
<1>3. ASSUME NEW p \in PC, HpRegen(p) PROVE RegenEvents'
  <2>1. /\ m_state' = m_state /\ Due(regen_ev[p])
        /\ \A q \in PC : q # p => regen_ev'[q] = regen_ev[q]
        /\ regen_ev'[p] = IF Playing(p) THEN Queued(Handled(regen_ev[p]), HP_REGEN_TIME)
                                        ELSE Handled(regen_ev[p])
    BY <1>3 DEF HpRegen, TypeOK, playerVars
  <2>2. m_state[p] # "CS_CONNECT"
    BY <2>1, OneEventFacts, LongestType DEF RegenEvents
  <2>3. ASSUME Playing(p) PROVE \E d \in Ticks : regen_ev'[p] = OneEvent(d)
    <3>1. PICK e \in Ticks : regen_ev[p] = OneEvent(e)  BY <2>3 DEF RegenEvents
    <3>2. Handled(regen_ev[p]) = NoEvent  BY <2>1, <3>1, OneEventFacts
    <3> QED  BY <2>1, <2>3, <3>2, LongestType, OneEventFacts
  <2> QED  BY <2>1, <2>2, <2>3 DEF RegenEvents, Playing
<1>4. CASE Tick
  <2>1. /\ m_state' = m_state
        /\ \A p \in PC : ~Due(regen_ev[p]) /\ regen_ev'[p] = Elapsed(regen_ev[p])
    BY <1>4 DEF Tick, playerVars
  <2> SUFFICES ASSUME NEW p \in PC
               PROVE  /\ m_state'[p] = "CS_CONNECT" => regen_ev'[p] = NoEvent
                      /\ Playing(p)' => \E d \in Ticks : regen_ev'[p] = OneEvent(d)
    BY DEF RegenEvents
  <2>2. m_state[p] = "CS_CONNECT" => regen_ev'[p] = NoEvent
    BY <2>1, OneEventFacts, LongestType DEF RegenEvents
  <2>3. ASSUME Playing(p) PROVE \E d \in Ticks : regen_ev'[p] = OneEvent(d)
    <3>1. PICK e \in Ticks : regen_ev[p] = OneEvent(e)  BY <2>3 DEF RegenEvents
    <3>2. e > 0  BY <2>1, <3>1, OneEventFacts, LongestType DEF Ticks
    <3> QED  BY <2>1, <3>1, <3>2, OneEventFacts
  <2> QED  BY <2>1, <2>2, <2>3 DEF Playing
<1>5. ASSUME NEW p \in PC, NEW d \in DIRECTION,
             Move(p, d) \/ Attack(p, d) \/ RangedAttack(p, d)
      PROVE  UNCHANGED <<m_state, regen_ev>>
  BY <1>5 DEF Move, Attack, RangedAttack, playerVars
<1>6. ASSUME NEW p \in PC, Skill(p) \/ UsePotion(p) \/ AreaHit(p)
      PROVE  UNCHANGED <<m_state, regen_ev>>
  BY <1>6 DEF Skill, UsePotion, AreaHit, playerVars
<1>7. ASSUME NEW n \in NPC, NpcMove(n) PROVE UNCHANGED <<m_state, regen_ev>>
  BY <1>7 DEF NpcMove, DeadTick, IdleTick, Roam, GiveUp, ChaseStep, AttackPlayer,
              AreaAttack, playerVars
<1>8. ASSUME NEW n \in NPC, HitNpc(n) \/ KeepMoving(n) \/ FallAsleep(n) \/ RespawnAny(n)
      PROVE  UNCHANGED <<m_state, regen_ev>>
  BY <1>8 DEF HitNpc, KeepMoving, FallAsleep, RespawnAny, Respawn, playerVars
<1>9. SecondMove \/ UNCHANGED vars => UNCHANGED <<m_state, regen_ev>>
  BY DEF SecondMove, vars, playerVars
<1> QED
  BY <1>1, <1>2, <1>3, <1>4, <1>5, <1>6, <1>7, <1>8, <1>9, SameRegen
  DEF Next, PlayerAct, LoginAny, Continue

\* A playing player has exactly one HP_REGEN event, whenever it logged in
\* and however often it was healed.
THEOREM OneRegenEvent == Spec => []RegenToken
<1>1. Init => RegenEvents  BY DEF Init, RegenEvents, Playing
<1>2. TypeOK /\ RegenEvents /\ [Next]_vars => RegenEvents'  BY RegenStep
<1>3. RegenEvents => RegenToken  BY DEF RegenEvents, RegenToken
<1> QED  BY <1>1, <1>2, <1>3, TypeCorrect, PTL DEF Spec
-----------------------------------------------------------------------------
(***************************************************************************)
(* Views.  ViewExact is kept because the nine sectors a handler scans hold *)
(* everybody within VIEW_RANGE, as long as the index is exact, and because *)
(* sight between two players is mutual.                                    *)
(***************************************************************************)
Sees(p, o) == Playing(p) /\ o # p /\ InWorld(o) /\ can_see(pos[p], pos[o])

LEMMA SeenPairs ==
    ASSUME ViewExact, NEW p \in PC, NEW o \in Obj
    PROVE  o \in visible[p] <=> Sees(p, o)
BY DEF ViewExact, Sees

LEMMA PairsExact ==
    ASSUME visible' \in [PC -> SUBSET Obj],
           \A p \in PC, o \in Obj : o \in visible'[p] <=> Sees(p, o)'
    PROVE  ViewExact'
<1> SUFFICES ASSUME NEW p \in PC
             PROVE  visible'[p] = IF Playing(p)'
                      THEN { o \in Obj \ {p} : InWorld(o)' /\ can_see(pos'[p], pos'[o]) }
                      ELSE {}
  BY DEF ViewExact
<1>1. visible'[p] \subseteq Obj  OBVIOUS
<1>2. CASE Playing(p)'  BY <1>1, <1>2 DEF Sees
<1>3. CASE ~Playing(p)'  BY <1>1, <1>3 DEF Sees
<1> QED  BY <1>2, <1>3

LEMMA SightIsMutual ==
    ASSUME NEW t \in Tiles, NEW u \in Tiles
    PROVE  can_see(t, u) <=> can_see(u, t)
<1>1. t[1] \in Nat /\ t[2] \in Nat /\ u[1] \in Nat /\ u[2] \in Nat
  BY SectorXYType
<1>2. Abs(t[1] - u[1]) = Abs(u[1] - t[1]) /\ Abs(t[2] - u[2]) = Abs(u[2] - t[2])
  BY <1>1 DEF Abs
<1> QED  BY <1>2 DEF can_see, Within

LEMMA PlayersMutual ==
    ASSUME TypeOK, ViewExact, NEW p \in PC, NEW q \in PC
    PROVE  q \in visible[p] <=> p \in visible[q]
<1>1. p \in Obj /\ q \in Obj /\ pos[p] \in Tiles /\ pos[q] \in Tiles
  BY DEF TypeOK, Obj
<1>2. can_see(pos[p], pos[q]) <=> can_see(pos[q], pos[p])  BY <1>1, SightIsMutual
<1>3. (InWorld(p) <=> Playing(p)) /\ (InWorld(q) <=> Playing(q))  BY InWorldSplit
<1>4. (q \in visible[p] <=> Sees(p, q)) /\ (p \in visible[q] <=> Sees(q, p))
  BY <1>1, SeenPairs
<1> QED  BY <1>2, <1>3, <1>4 DEF Sees

\* Whoever is seen from t is in one of the sectors around t.
LEMMA SeenIsAdjacent ==
    ASSUME NEW t \in Tiles, NEW u \in Tiles, can_see(t, u)
    PROVE  sector_id(u) \in AdjacentSectors[t]
<1>1. VIEW_RANGE \in Nat /\ VIEW_RANGE <= SECTOR_SIZE
  BY GridAssumption DEF SECTOR_SIZE
<1> QED  BY <1>1, AdjacentCovers DEF can_see

\* What update_player_view finds is what there is to see.
LEMMA NewViewExact ==
    ASSUME TypeOK, NEW p \in PC, NEW t \in Tiles, NEW sec \in Index,
           \A s \in Sectors, q \in Obj :
               q # p => (q \in sec[s] <=> InWorld(q) /\ sector_id(pos[q]) = s)
    PROVE  /\ new_view(p, t, sec) \subseteq Obj
           /\ \A o \in Obj : o \in new_view(p, t, sec) <=>
                  o # p /\ InWorld(o) /\ can_see(t, pos[o])
<1>1. new_view(p, t, sec) \subseteq Obj  BY AdjacentObjects DEF new_view
<1> SUFFICES ASSUME NEW o \in Obj
             PROVE  o \in new_view(p, t, sec) <=>
                        o # p /\ InWorld(o) /\ can_see(t, pos[o])
  BY <1>1
<1>2. o \in PC => (InWorld(o) <=> Playing(o))  BY InWorldSplit
<1>3. o \in new_view(p, t, sec) <=>
          /\ \E s \in AdjacentSectors[t] : o \in sec[s]
          /\ o # p /\ (o \in PC => Playing(o)) /\ can_see(t, pos[o])
  BY DEF new_view, get_objects_in_adjacent_sectors
<1>4. ASSUME o \in new_view(p, t, sec) PROVE InWorld(o)
  BY <1>3, <1>4, AdjacentType
<1>5. ASSUME o # p, InWorld(o), can_see(t, pos[o]) PROVE o \in new_view(p, t, sec)
  <2>1. pos[o] \in Tiles  BY DEF TypeOK
  <2>2. sector_id(pos[o]) \in AdjacentSectors[t] /\ sector_id(pos[o]) \in Sectors
    BY <1>5, <2>1, SeenIsAdjacent, SectorIdInRange
  <2>3. o \in sec[sector_id(pos[o])]  BY <1>5, <2>2
  <2> QED  BY <1>2, <1>3, <1>5, <2>2, <2>3
<1> QED  BY <1>3, <1>4, <1>5

\* update_player_view of p, at a login or after it went to t.
LEMMA ViewRefreshed ==
    ASSUME TypeOK, ViewExact, NEW p \in PC, NEW t \in Tiles, NEW sec \in Index,
           NEW evs, update_player_view(p, t, sec, evs),
           visible' \in [PC -> SUBSET Obj],
           pos' = [pos EXCEPT ![p] = t], InWorld(p)',
           \A o \in Obj : o # p => (InWorld(o)' <=> InWorld(o)),
           \A s \in Sectors, q \in Obj :
               q # p => (q \in sec[s] <=> InWorld(q) /\ sector_id(pos[q]) = s)
    PROVE  ViewExact'
<1> DEFINE new == new_view(p, t, sec)
<1>0. p \in Obj /\ \A q \in PC : q \in Obj /\ pos[q] \in Tiles  BY DEF TypeOK, Obj
<1>1. \A o \in Obj : o \in new <=> o # p /\ InWorld(o) /\ can_see(t, pos[o])
  BY NewViewExact
<1>2. pos'[p] = t /\ \A o \in Obj : o # p => pos'[o] = pos[o]
  BY <1>0 DEF TypeOK
<1>3. visible' = ViewsAfter(p, new)  BY DEF update_player_view
<1> HIDE DEF new
<1>4. \A q \in PC : (InWorld(q) <=> Playing(q)) /\ (InWorld(q)' <=> Playing(q)')
  BY Disjoint DEF InWorld
<1>5. ASSUME NEW o \in Obj PROVE o \in visible'[p] <=> Sees(p, o)'
  <2>1. visible'[p] = new  BY <1>3 DEF ViewsAfter
  <2>2. CASE o = p  BY <1>1, <2>1, <2>2 DEF Sees
  <2>3. CASE o # p  BY <1>1, <1>2, <1>4, <2>1, <2>3 DEF Sees
  <2> QED  BY <2>2, <2>3
<1>6. ASSUME NEW q \in PC, q # p PROVE p \in visible'[q] <=> Sees(q, p)'
  <2>1. p \in visible'[q] <=> q \in new
    <3>1. q \in visible[p] <=> p \in visible[q]  BY PlayersMutual
    <3>2. visible'[q] = CASE q = p -> new
                          [] q # p /\ q \in new \ visible[p] -> visible[q] \cup {p}
                          [] q # p /\ q \in visible[p] \ new -> visible[q] \ {p}
                          [] OTHER -> visible[q]
      BY <1>3 DEF ViewsAfter
    <3> QED  BY <1>6, <3>1, <3>2
  <2>2. can_see(t, pos[q]) <=> can_see(pos[q], t)  BY <1>0, SightIsMutual
  <2> QED  BY <1>0, <1>1, <1>2, <1>4, <1>6, <2>1, <2>2 DEF Sees
<1>7. ASSUME NEW q \in PC, q # p, NEW o \in Obj, o # p PROVE o \in visible'[q] <=> Sees(q, o)'
  <2>1. o \in visible'[q] <=> o \in visible[q]
    <3>1. visible'[q] = CASE q = p -> new
                          [] q # p /\ q \in new \ visible[p] -> visible[q] \cup {p}
                          [] q # p /\ q \in visible[p] \ new -> visible[q] \ {p}
                          [] OTHER -> visible[q]
      BY <1>3 DEF ViewsAfter
    <3> QED  BY <1>7, <3>1
  <2>2. o \in visible[q] <=> Sees(q, o)  BY SeenPairs
  <2> QED  BY <1>0, <1>2, <1>4, <1>7, <2>1, <2>2 DEF Sees
<1>8. \A q \in PC, o \in Obj : o \in visible'[q] <=> Sees(q, o)'
  BY <1>5, <1>6, <1>7
<1> QED  BY <1>8, PairsExact

\* What update_viewers and the respawn take for the viewers of tile t.
LEMMA ViewersFound ==
    ASSUME TypeOK, NEW t \in Tiles, NEW sec \in Index,
           \A s \in Sectors, q \in PC :
               q \in sec[s] <=> Playing(q) /\ sector_id(pos[q]) = s
    PROVE  \A q \in PC : q \in Viewers(sec, t) <=> Playing(q) /\ can_see(pos[q], t)
<1> SUFFICES ASSUME NEW q \in PC
             PROVE  q \in Viewers(sec, t) <=> Playing(q) /\ can_see(pos[q], t)
  OBVIOUS
<1>1. pos[q] \in Tiles  BY DEF TypeOK, Obj
<1>2. q \in Viewers(sec, t) <=>
          /\ \E s \in AdjacentSectors[t] : q \in sec[s]
          /\ Playing(q) /\ can_see(pos[q], t)
  BY DEF Viewers, PlayersAround, get_objects_in_adjacent_sectors
<1>3. ASSUME Playing(q), can_see(pos[q], t) PROVE \E s \in AdjacentSectors[t] : q \in sec[s]
  <2>1. can_see(t, pos[q])  BY <1>1, <1>3, SightIsMutual
  <2>2. sector_id(pos[q]) \in AdjacentSectors[t] /\ sector_id(pos[q]) \in Sectors
    BY <1>1, <2>1, SeenIsAdjacent, SectorIdInRange
  <2> QED  BY <1>3, <2>2
<1> QED  BY <1>2, <1>3

\* The players an exact index lists.
LEMMA PlayersListed ==
    ASSUME SectorExact
    PROVE  \A s \in Sectors, q \in PC :
               q \in sectors[s] <=> Playing(q) /\ sector_id(pos[q]) = s
BY InWorldSplit DEF SectorExact, Obj

\* Nobody moves, arrives, leaves, dies or comes back.
LEMMA NothingMoved ==
    ASSUME TypeOK, TypeOK', ViewExact, UNCHANGED <<m_state, pos, visible>>,
           \A n \in NPC : Alive(n)' <=> Alive(n)
    PROVE  ViewExact'
<1>1. \A o \in Obj : InWorld(o)' <=> InWorld(o)  BY SameWorld
<1>2. \A p \in PC, o \in Obj : o \in visible'[p] <=> Sees(p, o)'
  BY <1>1, SeenPairs DEF Sees, Playing
<1> QED  BY <1>2, PairsExact DEF TypeOK

LEMMA RelocateView ==
    ASSUME IInv, TypeOK', ViewExact, NEW p \in PC, Playing(p), NEW t \in Tiles,
           NEW evs \in [NPC -> Events], Relocate(p, t, evs),
           \A o \in Obj : InWorld(o)' <=> InWorld(o)
    PROVE  ViewExact'
<1> DEFINE sec == update_object_sector(sectors, p, pos[p], t)
<1>0. TypeOK /\ SectorExact  BY DEF IInv
<1>1. p \in Obj /\ pos[p] \in Tiles /\ InWorld(p)
  BY <1>0, InWorldSplit DEF TypeOK, Obj
<1>2. pos' = [pos EXCEPT ![p] = t] /\ update_player_view(p, t, sec, evs)
  BY DEF Relocate
<1>3. \A s \in Sectors, q \in Obj :
         q \in sec[s] <=> InWorld(q) /\ sector_id([pos EXCEPT ![p] = t][q]) = s
  BY <1>0, <1>1, MovedExact
<1>4. \A q \in Obj : q # p => [pos EXCEPT ![p] = t][q] = pos[q]
  BY <1>0, <1>1 DEF TypeOK
<1>5. sec \in Index  BY <1>0, <1>1, OpenType, SectorOpType
<1> HIDE DEF sec
<1>6. \A s \in Sectors, q \in Obj :
         q # p => (q \in sec[s] <=> InWorld(q) /\ sector_id(pos[q]) = s)
  BY <1>3, <1>4
<1>7. InWorld(p)' /\ visible' \in [PC -> SUBSET Obj]  BY <1>1 DEF TypeOK
<1> QED  BY <1>0, <1>2, <1>5, <1>6, <1>7, ViewRefreshed

\* update_viewers of a living NPC.
LEMMA ViewersView ==
    ASSUME IInv, TypeOK', ViewExact, NEW n \in NPC, Alive(n), NEW t \in Tiles,
           update_viewers(n, t), m_state' = m_state,
           \A o \in Obj : InWorld(o)' <=> InWorld(o)
    PROVE  ViewExact'
<1> DEFINE sec == update_object_sector(sectors, n, pos[n], t)
<1>0. TypeOK /\ SectorExact  BY DEF IInv
<1>1. n \in Obj /\ pos[n] \in Tiles /\ InWorld(n) /\ n \notin PC /\ \A q \in PC : q \in Obj
  BY <1>0, InWorldSplit, Disjoint DEF TypeOK, Obj
<1>2. /\ pos' = [pos EXCEPT ![n] = t]
      /\ \A p \in PC : visible'[p] =
            IF p \in Viewers(sec, t) THEN visible[p] \cup {n}
            ELSE IF p \in Viewers(sectors, pos[n]) THEN visible[p] \ {n}
            ELSE visible[p]
  BY DEF update_viewers
<1>3. pos'[n] = t /\ \A o \in Obj : o # n => pos'[o] = pos[o]
  BY <1>0, <1>1, <1>2 DEF TypeOK
<1>4. \A s \in Sectors, q \in Obj :
         q \in sec[s] <=> InWorld(q) /\ sector_id([pos EXCEPT ![n] = t][q]) = s
  BY <1>0, <1>1, MovedExact
<1>5. sec \in Index  BY <1>0, <1>1, OpenType, SectorOpType
<1> HIDE DEF sec
<1>6. \A s \in Sectors, q \in PC :
         q \in sec[s] <=> Playing(q) /\ sector_id(pos[q]) = s
  <2>1. \A q \in PC : /\ InWorld(q) <=> Playing(q)
                      /\ q \in Obj /\ [pos EXCEPT ![n] = t][q] = pos[q]
    BY <1>1, <1>2, <1>3, InWorldSplit
  <2> QED  BY <1>4, <2>1
<1>7. \A q \in PC : q \in Viewers(sec, t) <=> Playing(q) /\ can_see(pos[q], t)
  BY <1>0, <1>5, <1>6, ViewersFound
<1>8. \A q \in PC : q \in Viewers(sectors, pos[n]) <=> Playing(q) /\ can_see(pos[q], pos[n])
  BY <1>0, <1>1, OpenType, PlayersListed, ViewersFound
<1>9. ASSUME NEW p \in PC, NEW o \in Obj PROVE o \in visible'[p] <=> Sees(p, o)'
  <2>1. o \in visible[p] <=> Sees(p, o)  BY SeenPairs
  <2>2. Playing(p)' <=> Playing(p)  BY DEF Playing
  <2>3. CASE o = n
    <3>1. p # n  BY <1>1
    <3> QED  BY <1>1, <1>2, <1>3, <1>7, <1>8, <2>1, <2>2, <2>3, <3>1 DEF Sees
  <2>4. CASE o # n
    <3>1. o \in visible'[p] <=> o \in visible[p]  BY <1>2, <2>4
    <3>2. pos'[p] = pos[p] /\ pos'[o] = pos[o]  BY <1>1, <1>3, <2>4
    <3> QED  BY <2>1, <2>2, <3>1, <3>2 DEF Sees
  <2> QED  BY <2>3, <2>4
<1> QED  BY <1>9, PairsExact DEF TypeOK

LEMMA HitPlayerView ==
    ASSUME IInv, TypeOK', ViewExact, NEW n \in NPC, NEW p \in PC, Playing(p), NEW dmg \in Nat,
           NEW evs \in [NPC -> Events], HitPlayer(n, p, dmg, evs), m_state' = m_state
    PROVE  ViewExact'
<1>0. TypeOK /\ SectorExact  BY DEF IInv
<1>1. \A m \in NPC : m_hp'[m] = m_hp[m]  BY <1>0, HitPlayerExact
<1>2. \A m \in NPC : Alive(m)' <=> Alive(m)  BY <1>1 DEF Alive
<1>3. \A o \in Obj : InWorld(o)' <=> InWorld(o)  BY <1>2, SameWorld
<1>4. PC_SPAWN \in Tiles  BY ObjectAssumption
<1>5. CASE Relocate(p, PC_SPAWN, evs)  BY <1>3, <1>4, <1>5, RelocateView
<1>6. CASE UNCHANGED <<pos, sectors, visible, active>>
  BY <1>0, <1>2, <1>6, NothingMoved
<1> QED  BY <1>5, <1>6 DEF HitPlayer

LEMMA PlayerActView ==
    ASSUME IInv, TypeOK', ViewExact, NEW p \in PC, PlayerAct(p)
    PROVE  ViewExact'
<1>0. TypeOK /\ SectorExact /\ p \in Obj /\ visible' \in [PC -> SUBSET Obj]
  BY DEF IInv, TypeOK, Obj
<1>1. \A o \in Obj : (o \in PC <=> o \notin NPC)  BY Disjoint DEF Obj
<1>2. ASSUME NEW t \in LoginTiles, NEW l, NEW h, Login(p, t, l, h) PROVE ViewExact'
  <2> DEFINE sec == add_object_to_sector(sectors, p, t)
  <2>1. t \in Tiles  BY ObjectAssumption
  <2>2. /\ update_player_view(p, t, sec, move_ev) /\ pos' = [pos EXCEPT ![p] = t]
        /\ m_state'[p] = "CS_PLAYING"
        /\ \A o \in Obj : o # p => /\ m_hp'[o] = m_hp[o]
                                   /\ o \in PC => m_state'[o] = m_state[o]
    BY <1>0, <1>2 DEF Login, TypeOK
  <2>3. InWorld(p)' /\ \A o \in Obj : o # p => (InWorld(o)' <=> InWorld(o))
    BY <1>1, <2>2 DEF InWorld, Playing, Alive
  <2>4. sec \in Index  BY <1>0, <2>1, OpenType, SectorOpType
  <2>5. \A s \in Sectors, q \in Obj :
           q # p => (q \in sec[s] <=> InWorld(q) /\ sector_id(pos[q]) = s)
    <3>1. \A s \in Sectors, q \in Obj : q # p => (q \in sec[s] <=> q \in sectors[s])
      BY <1>0, <2>1, SectorIdInRange DEF TypeOK, add_object_to_sector
    <3> HIDE DEF sec
    <3> QED  BY <1>0, <3>1 DEF SectorExact
  <2> HIDE DEF sec
  <2> QED  BY <1>0, <2>1, <2>2, <2>3, <2>4, <2>5, ViewRefreshed
<1>3. CASE Disconnect(p)
  <2>1. /\ \A o \in Obj : o # p => /\ m_hp'[o] = m_hp[o] /\ pos'[o] = pos[o]
                                   /\ o \in PC => m_state'[o] = m_state[o]
        /\ m_state'[p] = "CS_LOGOUT"
    BY <1>0, <1>3 DEF Disconnect, TypeOK
  <2>2. (\A o \in Obj : o # p => (InWorld(o)' <=> InWorld(o))) /\ ~InWorld(p)' /\ ~Playing(p)'
    BY <1>1, <2>1 DEF InWorld, Playing, Alive
  <2>3. \A q \in PC : visible'[q] = IF q = p THEN {}
                                    ELSE IF q \in visible[p] THEN visible[q] \ {p}
                                    ELSE visible[q]
    BY <1>3 DEF Disconnect
  <2>4. ASSUME NEW q \in PC, NEW o \in Obj PROVE o \in visible'[q] <=> Sees(q, o)'
    <3>1. (o \in visible[q] <=> Sees(q, o)) /\ q \in Obj  BY SeenPairs DEF Obj
    <3>2. q \in visible[p] <=> p \in visible[q]  BY <1>0, PlayersMutual
    <3>3. CASE q = p  BY <2>2, <2>3, <3>3 DEF Sees
    <3>4. CASE q # p /\ o = p  BY <2>2, <2>3, <3>2, <3>4 DEF Sees
    <3>5. CASE q # p /\ o # p
      <4>1. o \in visible'[q] <=> o \in visible[q]  BY <2>3, <3>5
      <4>2. Playing(q)' <=> Playing(q)  BY <2>1, <3>1, <3>5 DEF Playing
      <4> QED  BY <2>1, <2>2, <3>1, <3>5, <4>1, <4>2 DEF Sees
    <3> QED  BY <3>3, <3>4, <3>5
  <2> QED  BY <1>0, <2>4, PairsExact
<1>4. ASSUME NEW d \in DIRECTION, Move(p, d) PROVE ViewExact'
  <2>1. pos[p] \in Tiles /\ Playing(p) /\ UNCHANGED <<playerVars, m_hp>>
    BY <1>0, <1>4 DEF TypeOK, Move
  <2>2. PICK t \in Tiles : Relocate(p, t, move_ev)
    BY <1>4, <2>1, FreeIsTile DEF Move, do_move
  <2>3. \A o \in Obj : InWorld(o)' <=> InWorld(o)
    BY <2>1, SameWorld DEF Alive, playerVars
  <2> QED  BY <1>0, <2>1, <2>2, <2>3, OpenType, RelocateView
<1>5. ASSUME NEW d \in DIRECTION, Attack(p, d) \/ RangedAttack(p, d) PROVE ViewExact'
  <2>1. UNCHANGED <<playerVars, m_hp, pos, visible>>
    BY <1>5 DEF Attack, RangedAttack
  <2> QED  BY <1>0, <2>1, NothingMoved DEF Alive, playerVars
<1>6. CASE Skill(p)
  <2>1. UNCHANGED <<playerVars, m_hp, pos, visible>>  BY <1>6 DEF Skill
  <2> QED  BY <1>0, <2>1, NothingMoved DEF Alive, playerVars
<1>7. CASE UsePotion(p)
  <2>1. PICK x : m_hp' = [m_hp EXCEPT ![p] = x]  BY <1>7 DEF UsePotion
  <2>2. \A n \in NPC : m_hp'[n] = m_hp[n]
    BY <1>0, <1>1, <2>1 DEF TypeOK, Obj
  <2>3. UNCHANGED <<playerVars, pos, visible>>  BY <1>7 DEF UsePotion
  <2> QED  BY <1>0, <2>2, <2>3, NothingMoved DEF Alive, playerVars
<1> QED  BY <1>2, <1>3, <1>4, <1>5, <1>6, <1>7 DEF PlayerAct, LoginAny

LEMMA NpcMoveView ==
    ASSUME IInv, TypeOK', ViewExact, NEW n \in NPC, NpcMove(n)
    PROVE  ViewExact'
<1>0. TypeOK  BY DEF IInv
<1>1. CASE DeadTick(n) \/ IdleTick(n) \/ GiveUp(n)
  <2>1. UNCHANGED <<playerVars, m_hp, pos, visible>>
    BY <1>1 DEF DeadTick, IdleTick, GiveUp
  <2> QED  BY <1>0, <2>1, NothingMoved DEF Alive, playerVars
<1>2. ASSUME NEW t \in Tiles, MovingTick(n), update_viewers(n, t), UNCHANGED <<playerVars, m_hp>>
      PROVE  ViewExact'
  <2>1. Alive(n)  BY <1>2 DEF MovingTick, Alive
  <2>2. \A o \in Obj : InWorld(o)' <=> InWorld(o)
    BY <1>2, SameWorld DEF Alive, playerVars
  <2> QED  BY <1>2, <2>1, <2>2, ViewersView DEF playerVars
<1>3. ASSUME NEW d \in DIRECTION, Roam(n, d) PROVE ViewExact'
  BY <1>0, <1>2, <1>3, TileChoices DEF Roam
<1>4. ASSUME NEW p \in PC, ChaseStep(n, p) PROVE ViewExact'
  BY <1>0, <1>2, <1>4, TileChoices DEF ChaseStep
<1>5. ASSUME NEW p \in PC, AttackPlayer(n, p) PROVE ViewExact'
  <2>1. Playing(p) /\ m_state' = m_state /\ Due(move_ev[n])
    BY <1>5 DEF AttackPlayer, Targets, Nearest, Detected, PlayersAround, ValidTarget,
                playerVars, MovingTick, NpcTick
  <2>2. BOSS_ATTACK_DMG[get_boss_phase(n)] \in Nat /\ NPC_ATTACK_DMG \in Nat
    BY PhaseType, StatAssumption
  <2>3. PICK dmg \in Nat : HitPlayer(n, p, dmg, TakeMove(n))
    BY <1>5, <2>2, DamageType DEF AttackPlayer
  <2>4. TakeMove(n) \in [NPC -> Events]
    BY <1>0, <2>1, OpenType, EventType DEF TakeMove
  <2> QED  BY <2>1, <2>3, <2>4, HitPlayerView
<1>6. ASSUME NEW p \in PC, AreaAttack(n, p) PROVE ViewExact'
  <2>1. UNCHANGED <<playerVars, m_hp, pos, visible>>  BY <1>6 DEF AreaAttack
  <2> QED  BY <1>0, <2>1, NothingMoved DEF Alive, playerVars
<1> QED  BY <1>1, <1>3, <1>4, <1>5, <1>6 DEF NpcMove

LEMMA RespawnView ==
    ASSUME IInv, TypeOK', ViewExact, NEW n \in NPC, NEW t \in Tiles, Respawn(n, t)
    PROVE  /\ ViewExact'
           /\ \A p \in PC : n \in visible'[p] <=>
                 p \in Viewers(add_object_to_sector(sectors, n, t), t)
           /\ \A p \in PC : visible'[p] \ {n} = visible[p]
<1> DEFINE sec == add_object_to_sector(sectors, n, t)
<1>0. TypeOK /\ SectorExact /\ Tokens /\ n \in Obj /\ n \notin PC
  BY Disjoint DEF IInv, Obj
<1>1. /\ Due(respawn_ev[n]) /\ UNCHANGED playerVars
      /\ m_hp' = [m_hp EXCEPT ![n] = NpcMaxHp(n)] /\ pos' = [pos EXCEPT ![n] = t]
      /\ \A p \in PC : visible'[p] = IF p \in Viewers(sec, t) THEN visible[p] \cup {n}
                                                              ELSE visible[p]
  BY DEF Respawn
<1>2. ~Due(NoEvent)  BY OneEventFacts, LongestType
<1>3. ~Alive(n)  BY <1>0, <1>1, <1>2, TokensOf DEF AwakeEvents, AsleepEvents
<1>4. /\ Alive(n)' /\ pos'[n] = t
      /\ \A o \in Obj : o # n => m_hp'[o] = m_hp[o] /\ pos'[o] = pos[o]
  BY <1>0, <1>1, NpcMaxHpType DEF TypeOK, Alive
<1>5. /\ \A o \in Obj : o # n => (InWorld(o)' <=> InWorld(o))
      /\ InWorld(n)' /\ ~InWorld(n)
  BY <1>0, <1>1, <1>3, <1>4, Disjoint DEF InWorld, Playing, Alive, playerVars
<1>6. sec \in Index  BY <1>0, OpenType, SectorOpType
<1>7. \A s \in Sectors, q \in PC : q \in sec[s] <=> Playing(q) /\ sector_id(pos[q]) = s
  <2>1. \A s \in Sectors, q \in PC : q \in sec[s] <=> q \in sectors[s]
    BY <1>0, SectorIdInRange DEF TypeOK, add_object_to_sector
  <2> HIDE DEF sec
  <2> QED  BY <1>0, <2>1, PlayersListed
<1> HIDE DEF sec
<1>8. \A q \in PC : q \in Viewers(sec, t) <=> Playing(q) /\ can_see(pos[q], t)
  BY <1>0, <1>6, <1>7, ViewersFound
<1>9. \A p \in PC : n \notin visible[p]
  BY <1>0, <1>5, SeenPairs DEF Sees
<1>10. ASSUME NEW p \in PC, NEW o \in Obj PROVE o \in visible'[p] <=> Sees(p, o)'
  <2>1. /\ o \in visible[p] <=> Sees(p, o)
        /\ p \in Obj /\ p # n /\ (Playing(p)' <=> Playing(p)) /\ pos'[p] = pos[p]
    BY <1>0, <1>1, <1>4, SeenPairs DEF Obj, Playing, playerVars
  <2>2. CASE o = n
    <3>1. o \in visible'[p] <=> p \in Viewers(sec, t)  BY <1>1, <1>9, <2>2
    <3> QED  BY <1>4, <1>5, <1>8, <2>1, <2>2, <3>1 DEF Sees
  <2>3. CASE o # n
    <3>1. o \in visible'[p] <=> o \in visible[p]  BY <1>1, <2>3
    <3> QED  BY <1>4, <1>5, <2>1, <2>3, <3>1 DEF Sees
  <2> QED  BY <2>2, <2>3
<1>11. ViewExact'  BY <1>10, PairsExact DEF TypeOK
<1>12. \A p \in PC : /\ n \in visible'[p] <=> p \in Viewers(sec, t)
                     /\ visible'[p] \ {n} = visible[p]
  BY <1>1, <1>9
<1> QED  BY <1>11, <1>12 DEF sec

LEMMA HitNpcView ==
    ASSUME IInv, TypeOK', ViewExact, NEW n \in NPC, HitNpc(n)
    PROVE  ViewExact'
<1> DEFINE p == worker.id
<1>0. /\ TypeOK /\ SectorExact /\ TodoInWorld /\ p \in PC /\ n \in Obj /\ p \in Obj
      /\ n \notin PC /\ UNCHANGED <<m_state, pos>>
  BY Disjoint DEF IInv, HitNpc, TypeOK, Obj
<1>1. (\A q \in PC : q # n /\ q \in Obj) /\ \A m \in NPC : m # p /\ m \in Obj
  BY <1>0, Disjoint DEF Obj
<1>2. Alive(n)  BY <1>0 DEF TodoInWorld, HitNpc
<1>3. PICK rem \in Int :
        \/ rem <= 0 /\ npc_die(n, p) /\ \E x : m_hp' = [m_hp EXCEPT ![n] = rem, ![p] = x]
        \/ rem > 0 /\ m_hp' = [m_hp EXCEPT ![n] = rem] /\ visible' = visible
  <2> DEFINE base == IF worker.op = "attack" THEN calc_atk_dmg(m_level[p])
                                             ELSE calc_skill_dmg(m_level[p])
  <2>1. base \in Nat /\ m_hp[n] \in Int  BY <1>0, LevelType DEF TypeOK
  <2>2. \A b \in BOOLEAN : m_hp[n] - (IF b THEN base * 2 ELSE base) \in Int
    BY <2>1
  <2> QED  BY <2>2 DEF HitNpc
<1>4. m_hp'[n] = rem /\ \A m \in NPC : m # n => m_hp'[m] = m_hp[m]
  BY <1>0, <1>1, <1>3 DEF TypeOK
<1>5. CASE rem > 0
  <2>1. \A m \in NPC : Alive(m)' <=> Alive(m)  BY <1>2, <1>4, <1>5 DEF Alive
  <2>2. visible' = visible  BY <1>3, <1>5
  <2> QED  BY <1>0, <2>1, <2>2, NothingMoved
<1>6. CASE rem <= 0
  <2>1. \A q \in PC : visible'[q] =
           IF q \in get_objects_in_adjacent_sectors(sectors, pos[n])
           THEN visible[q] \ {n} ELSE visible[q]
    <3>1. npc_die(n, p)  BY <1>3, <1>6
    <3> QED  BY <3>1 DEF npc_die
  <2>2. /\ \A o \in Obj : o # n => (InWorld(o)' <=> InWorld(o))
        /\ ~InWorld(n)'
    BY <1>0, <1>1, <1>4, <1>6, Disjoint DEF InWorld, Playing, Alive, Obj
  <2>3. ASSUME NEW q \in PC PROVE n \notin visible'[q]
    <3>1. CASE n \in visible[q]
      <4>1. Playing(q) /\ can_see(pos[q], pos[n])
        BY <1>0, <3>1, SeenPairs DEF Sees
      <4>2. q \in Viewers(sectors, pos[n])
        BY <1>0, <4>1, OpenType, PlayersListed, ViewersFound DEF TypeOK
      <4>3. q \in get_objects_in_adjacent_sectors(sectors, pos[n])
        BY <4>2 DEF Viewers, PlayersAround
      <4> QED  BY <2>1, <4>3
    <3>2. CASE n \notin visible[q]  BY <2>1, <3>2
    <3> QED  BY <3>1, <3>2
  <2>4. ASSUME NEW q \in PC, NEW o \in Obj PROVE o \in visible'[q] <=> Sees(q, o)'
    <3>1. /\ o \in visible[q] <=> Sees(q, o)
          /\ Playing(q)' <=> Playing(q)
      BY <1>0, SeenPairs DEF Playing
    <3>2. CASE o = n  BY <2>2, <2>3, <3>2 DEF Sees
    <3>3. CASE o # n
      <4>1. o \in visible'[q] <=> o \in visible[q]  BY <2>1, <3>3
      <4> QED  BY <1>0, <2>2, <3>1, <3>3, <4>1 DEF Sees
    <3> QED  BY <3>2, <3>3
  <2> QED  BY <2>4, PairsExact DEF TypeOK
<1> QED  BY <1>5, <1>6

LEMMA NextView ==
    ASSUME IInv, ViewExact, [Next]_vars
    PROVE  ViewExact'
<1>0. TypeOK /\ TypeOK'  BY NextType DEF IInv
<1>1. ASSUME NEW p \in PC, HpRegen(p) PROVE ViewExact'
  <2>1. m_hp' = m_hp \/ \E x : m_hp' = [m_hp EXCEPT ![p] = x]  BY <1>1 DEF HpRegen
  <2>2. \A n \in NPC : m_hp'[n] = m_hp[n]
    BY <1>0, <2>1, Disjoint DEF TypeOK, Obj
  <2>3. UNCHANGED <<m_state, pos, visible>>  BY <1>1 DEF HpRegen, playerVars
  <2> QED  BY <1>0, <2>2, <2>3, NothingMoved DEF Alive
<1>2. CASE SecondMove
  <2> DEFINE p == worker.id
  <2>1. /\ p \in PC /\ Playing(p) /\ pos[p] \in Tiles /\ UNCHANGED <<playerVars, m_hp>>
    BY <1>0, <1>2 DEF SecondMove, TypeOK, Obj
  <2>2. PICK t \in Tiles : Relocate(p, t, move_ev)
    BY <1>2, <2>1, FreeIsTile DEF SecondMove, do_move
  <2>3. \A o \in Obj : InWorld(o)' <=> InWorld(o)
    BY <2>1, SameWorld DEF Alive, playerVars
  <2> QED  BY <1>0, <2>1, <2>2, <2>3, OpenType, RelocateView
<1>3. ASSUME NEW n \in NPC, KeepMoving(n) \/ FallAsleep(n) PROVE ViewExact'
  <2>1. UNCHANGED <<playerVars, m_hp, pos, visible>>  BY <1>3 DEF KeepMoving, FallAsleep
  <2> QED  BY <1>0, <2>1, NothingMoved DEF Alive, playerVars
<1>4. ASSUME NEW p \in PC, AreaHit(p) PROVE ViewExact'
  <2>1. Playing(p) /\ m_state' = m_state /\ worker.id \in NPC
    BY <1>0, <1>4 DEF IInv, TodoInWorld, AreaHit, playerVars, TypeOK
  <2>2. BOSS_ATTACK_DMG[3] \in Nat  BY StatAssumption
  <2>3. PICK dmg \in Nat : HitPlayer(worker.id, p, dmg, move_ev)
    BY <1>4, <2>2, DamageType DEF AreaHit
  <2> QED  BY <1>0, <2>1, <2>3, OpenType, HitPlayerView
<1>5. CASE Tick \/ UNCHANGED vars
  <2>1. UNCHANGED <<m_state, m_hp, pos, visible>>  BY <1>5 DEF Tick, vars, playerVars
  <2> QED  BY <1>0, <2>1, NothingMoved DEF Alive
<1> QED
  BY <1>0, <1>1, <1>2, <1>3, <1>4, <1>5, PlayerActView, NpcMoveView, RespawnView, HitNpcView
  DEF Next, RespawnAny, Continue

\* What a player has been shown is exactly what there is to see, in every
\* world: no ghost stays on a screen and nobody is missed, whoever moved,
\* died, came back, arrived or left.
THEOREM ViewsExact == Spec => []ViewExact
<1>1. Init => ViewExact  BY DEF Init, ViewExact, Playing
<1>2. IInv /\ ViewExact /\ [Next]_vars => ViewExact'  BY NextView
<1> QED  BY <1>1, <1>2, InvariantHolds, PTL DEF Spec
-----------------------------------------------------------------------------
(***************************************************************************)
(* No NPC stands frozen on a screen.  The steps that matter: an NPC comes  *)
(* into a view only by a wake_up or by its own tick; a tick that ends with *)
(* the NPC asleep found no player in the nine sectors near enough to keep  *)
(* it awake, and DeactRange is never less than VIEW_RANGE.                 *)
(***************************************************************************)
\* What is seen of each NPC, its state and its wakefulness change only in
\* ways that keep it awake.
LEMMA StaysAwake ==
    ASSUME SeenNpcAwake,
           \A n \in NPC : \/ active'[n]
                          \/ \A p \in PC : n \notin visible'[p]
                          \/ move_state'[n] = "IDLE"
                          \/ /\ move_state'[n] = move_state[n]
                             /\ active[n] => active'[n]
                             /\ \A p \in PC : n \in visible'[p] => n \in visible[p]
    PROVE  SeenNpcAwake'
BY DEF SeenNpcAwake

\* update_player_view wakes every NPC it adds to the view.
LEMMA RefreshAwakes ==
    ASSUME TypeOK, NEW p \in PC, NEW t, NEW sec, NEW evs,
           update_player_view(p, t, sec, evs)
    PROVE  \A n \in NPC : /\ active[n] => active'[n]
                          /\ \/ active'[n]
                             \/ \A q \in PC : n \in visible'[q] => n \in visible[q]
<1> DEFINE new == new_view(p, t, sec)
<1>1. /\ \A n \in NPC : active'[n] <=> (active[n] \/ n \in NPC \cap (new \ visible[p]))
      /\ visible' = ViewsAfter(p, new)
  BY DEF update_player_view, wake_up
<1> HIDE DEF new
<1> SUFFICES ASSUME NEW n \in NPC, ~active'[n], NEW q \in PC, n \in visible'[q]
             PROVE  n \in visible[q]
  BY <1>1
<1>2. n # p /\ n \notin new \ visible[p]  BY <1>1, Disjoint DEF Obj
<1>3. visible'[q] = CASE q = p -> new
                      [] q # p /\ q \in new \ visible[p] -> visible[q] \cup {p}
                      [] q # p /\ q \in visible[p] \ new -> visible[q] \ {p}
                      [] OTHER -> visible[q]
  BY <1>1 DEF ViewsAfter
<1> QED  BY <1>2, <1>3

LEMMA HitAwakes ==
    ASSUME TypeOK, NEW n, NEW p \in PC, NEW dmg, NEW evs, HitPlayer(n, p, dmg, evs)
    PROVE  \A m \in NPC : /\ active[m] => active'[m]
                          /\ \/ active'[m]
                             \/ \A q \in PC : m \in visible'[q] => m \in visible[q]
<1>1. CASE Relocate(p, PC_SPAWN, evs)
  <2>1. PICK sec : update_player_view(p, PC_SPAWN, sec, evs)  BY <1>1 DEF Relocate
  <2> QED  BY <2>1, RefreshAwakes
<1>2. CASE UNCHANGED <<visible, active>>  BY <1>2
<1> QED  BY <1>1, <1>2 DEF HitPlayer

\* A tick that lets n fall asleep leaves it out of everybody's sight.
LEMMA AsleepUnseen ==
    ASSUME IInv, ViewExact, NEW n \in NPC, Keepers(n) = {}, NEW p \in PC
    PROVE  n \notin visible[p]
<1> SUFFICES ASSUME n \in visible[p] PROVE FALSE  OBVIOUS
<1>0. TypeOK /\ SectorExact /\ n \in Obj /\ p \in Obj  BY DEF IInv, Obj
<1>1. Playing(p) /\ can_see(pos[p], pos[n])  BY <1>0, SeenPairs DEF Sees
<1>2. pos[p] \in Tiles /\ pos[n] \in Tiles  BY <1>0 DEF TypeOK
<1>3. p \in Viewers(sectors, pos[n])
  BY <1>0, <1>1, <1>2, OpenType, PlayersListed, ViewersFound
<1>4. Within(pos[n], pos[p], DeactRange(n))
  <2>1. DeactRange(n) \in Nat /\ VIEW_RANGE <= DeactRange(n) /\ VIEW_RANGE \in Nat
    BY RangeAssumption, GridAssumption DEF DeactRange
  <2>2. Within(pos[n], pos[p], VIEW_RANGE)
    BY <1>1, <1>2, SightIsMutual DEF can_see
  <2>3. /\ pos[n][1] \in Nat /\ pos[n][2] \in Nat /\ pos[p][1] \in Nat /\ pos[p][2] \in Nat
    BY <1>2, SectorXYType
  <2> QED  BY <2>1, <2>2, <2>3 DEF Within, Abs
<1> QED  BY <1>3, <1>4 DEF Keepers, Viewers

LEMMA NpcMoveAwake ==
    ASSUME IInv, ViewExact, SeenNpcAwake, NEW n \in NPC, NpcMove(n)
    PROVE  SeenNpcAwake'
<1>0. TypeOK /\ Tokens  BY DEF IInv
<1>1. CASE DeadTick(n)
  BY <1>1, StaysAwake DEF DeadTick
<1>2. CASE IdleTick(n)
  <2>1. move_state[n] = "IDLE" /\ UNCHANGED <<visible, move_state>>
        /\ \A m \in NPC : m # n => active'[m] = active[m]
    BY <1>0, <1>2 DEF IdleTick, TypeOK
  <2> QED  BY <2>1, StaysAwake
<1>3. CASE GiveUp(n)
  <2>1. move_state'[n] = "IDLE" /\ UNCHANGED <<visible, active>>
        /\ \A m \in NPC : m # n => move_state'[m] = move_state[m]
    BY <1>0, <1>3 DEF GiveUp, TypeOK
  <2> QED  BY <2>1, StaysAwake
<1>4. ASSUME MovingTick(n), NEW x, move_state' = [move_state EXCEPT ![n] = x],
             \A m \in NPC : active[m] => active'[m],
             \A m \in NPC : m # n =>
                 \/ active'[m]
                 \/ \A q \in PC : m \in visible'[q] => m \in visible[q]
      PROVE  SeenNpcAwake'
  <2>1. active[n]  BY <1>0, <1>4, DueIsAwake DEF MovingTick, NpcTick, Alive
  <2>2. \A m \in NPC : m # n => move_state'[m] = move_state[m]  BY <1>0, <1>4 DEF TypeOK
  <2> QED  BY <1>4, <2>1, <2>2, StaysAwake
<1>5. ASSUME NEW t, update_viewers(n, t), NEW m \in NPC, m # n, NEW q \in PC, m \in visible'[q]
      PROVE  m \in visible[q]
  <2>1. visible'[q] \in {visible[q] \cup {n}, visible[q] \ {n}, visible[q]}
    BY <1>5 DEF update_viewers
  <2> QED  BY <1>5, <2>1
<1>6. ASSUME NEW d \in DIRECTION, Roam(n, d) PROVE SeenNpcAwake'
  <2>1. MovingTick(n) /\ active' = active /\ update_viewers(n, RoamTo(n, d))
        /\ move_state' = [move_state EXCEPT ![n] = "ROAMING"]
    BY <1>6 DEF Roam
  <2> QED  BY <1>4, <1>5, <2>1
<1>7. ASSUME NEW p \in PC, ChaseStep(n, p) PROVE SeenNpcAwake'
  <2>1. MovingTick(n) /\ active' = active
        /\ move_state' = [move_state EXCEPT ![n] = "CHASE"]
    BY <1>7 DEF ChaseStep
  <2>2. PICK t : update_viewers(n, t)  BY <1>7 DEF ChaseStep
  <2> QED  BY <1>4, <1>5, <2>1, <2>2
<1>8. ASSUME NEW p \in PC, AttackPlayer(n, p) PROVE SeenNpcAwake'
  <2>1. MovingTick(n) /\ \E x : move_state' = [move_state EXCEPT ![n] = x]
    BY <1>8 DEF AttackPlayer
  <2>2. \E dmg : HitPlayer(n, p, dmg, TakeMove(n))  BY <1>8 DEF AttackPlayer
  <2> QED  BY <1>0, <1>4, <2>1, <2>2, HitAwakes
<1>9. ASSUME NEW p \in PC, AreaAttack(n, p) PROVE SeenNpcAwake'
  BY <1>4, <1>9 DEF AreaAttack
<1> QED  BY <1>1, <1>2, <1>3, <1>6, <1>7, <1>8, <1>9 DEF NpcMove

LEMMA HitNpcAwake ==
    ASSUME IInv, ViewExact, SeenNpcAwake, NEW n \in NPC, HitNpc(n)
    PROVE  SeenNpcAwake'
<1>0. TypeOK /\ n \in Obj  BY DEF IInv, Obj
<1>1. CASE npc_die(n, worker.id) /\ ~Alive(n)'
  <2>1. ViewExact'
    <3>1. TypeOK'  BY <1>0, HitNpcType
    <3> QED  BY <3>1, HitNpcView
  <2>2. ~InWorld(n)'
    <3>1. n \notin PC  BY <1>0, Disjoint
    <3> QED  BY <1>1, <3>1 DEF InWorld
  <2>3. \A q \in PC : n \notin visible'[q]  BY <2>1, <2>2 DEF ViewExact
  <2>4. /\ move_state' = move_state
        /\ \A m \in NPC : m # n => active'[m] = active[m]
        /\ \A m \in NPC, q \in PC : m \in visible'[q] => m \in visible[q]
    BY <1>0, <1>1 DEF npc_die, TypeOK
  <2> QED  BY <2>3, <2>4, StaysAwake
<1>2. CASE /\ move_state' = [move_state EXCEPT ![n] = "CHASE"]
           /\ wake_up(move_ev, {n}) /\ visible' = visible
  <2>1. /\ \A m \in NPC : active'[m] <=> (active[m] \/ m \in {n})
        /\ \A m \in NPC : m # n => move_state'[m] = move_state[m]
    BY <1>0, <1>2 DEF wake_up, TypeOK
  <2> QED  BY <1>2, <2>1, StaysAwake
<1>3. \/ npc_die(n, worker.id) /\ ~Alive(n)'
      \/ /\ move_state' = [move_state EXCEPT ![n] = "CHASE"]
         /\ wake_up(move_ev, {n}) /\ visible' = visible
  <2> DEFINE p == worker.id
             base == IF worker.op = "attack" THEN calc_atk_dmg(m_level[p])
                                             ELSE calc_skill_dmg(m_level[p])
  <2>1. p \in PC /\ p \in Obj /\ p # n  BY <1>0, Disjoint DEF HitNpc, TypeOK, Obj
  <2>2. base \in Nat /\ m_hp[n] \in Int  BY <1>0, <2>1, LevelType DEF TypeOK
  <2>3. \A b \in BOOLEAN : m_hp[n] - (IF b THEN base * 2 ELSE base) \in Int
    BY <2>2
  <2>4. PICK rem \in Int :
          \/ rem <= 0 /\ npc_die(n, p) /\ \E x : m_hp' = [m_hp EXCEPT ![n] = rem, ![p] = x]
          \/ /\ move_state' = [move_state EXCEPT ![n] = "CHASE"]
             /\ wake_up(move_ev, {n}) /\ visible' = visible
    BY <2>3 DEF HitNpc
  <2> HIDE DEF p
  <2>5. \A x : [m_hp EXCEPT ![n] = rem, ![p] = x][n] = rem
    BY <1>0, <2>1 DEF TypeOK
  <2>6. ASSUME NEW x, m_hp' = [m_hp EXCEPT ![n] = rem, ![p] = x], rem <= 0
        PROVE  ~Alive(n)'
    <3>1. m_hp'[n] = rem  BY <2>5, <2>6
    <3> QED  BY <2>6, <3>1 DEF Alive
  <2> QED  BY <2>4, <2>6 DEF p
<1> QED  BY <1>1, <1>2, <1>3

LEMMA NextAwake ==
    ASSUME IInv, ViewExact, SeenNpcAwake, [Next]_vars
    PROVE  SeenNpcAwake'
<1>0. TypeOK /\ TypeOK'  BY NextType DEF IInv
<1>1. ASSUME NEW p \in PC, NEW t, NEW sec, update_player_view(p, t, sec, move_ev),
             move_state' = move_state
      PROVE  SeenNpcAwake'
  <2>1. \A n \in NPC : /\ active[n] => active'[n]
                       /\ \/ active'[n]
                          \/ \A q \in PC : n \in visible'[q] => n \in visible[q]
    BY <1>0, <1>1, RefreshAwakes
  <2> QED  BY <1>1, <2>1, StaysAwake
<1>2. ASSUME NEW p \in PC, PlayerAct(p) PROVE SeenNpcAwake'
  <2>1. CASE LoginAny(p)  BY <1>1, <2>1 DEF LoginAny, Login
  <2>2. CASE Disconnect(p)
    <3>1. UNCHANGED <<active, move_state>>
          /\ \A n \in NPC, q \in PC : n \in visible'[q] => n \in visible[q]
      BY <2>2 DEF Disconnect, npcVars
    <3> QED  BY <3>1, StaysAwake
  <2>3. ASSUME NEW d \in DIRECTION, Move(p, d) PROVE SeenNpcAwake'
    BY <1>1, <2>3 DEF Move, do_move, Relocate
  <2>4. ASSUME NEW d \in DIRECTION, Attack(p, d) \/ RangedAttack(p, d) PROVE SeenNpcAwake'
    BY <2>4, StaysAwake DEF Attack, RangedAttack, npcVars
  <2>5. CASE Skill(p) \/ UsePotion(p)
    BY <2>5, StaysAwake DEF Skill, UsePotion, npcVars
  <2> QED  BY <1>2, <2>1, <2>2, <2>3, <2>4, <2>5 DEF PlayerAct
<1>3. ASSUME NEW p \in PC, HpRegen(p) PROVE SeenNpcAwake'
  BY <1>3, StaysAwake DEF HpRegen, npcVars
<1>4. ASSUME NEW n \in NPC, NEW t \in Tiles, Respawn(n, t) PROVE SeenNpcAwake'
  <2> DEFINE viewers == Viewers(add_object_to_sector(sectors, n, t), t)
  <2>1. /\ \A p \in PC : n \in visible'[p] <=> p \in viewers
        /\ \A p \in PC : visible'[p] \ {n} = visible[p]
    BY <1>0, <1>4, RespawnView
  <2>2. /\ wake_up(move_ev, IF viewers = {} THEN {} ELSE {n})
        /\ move_state' = [move_state EXCEPT ![n] = RestState(n)]
    BY <1>4 DEF Respawn
  <2> HIDE DEF viewers
  <2>3. /\ \A m \in NPC : active[m] => active'[m]
        /\ viewers # {} => active'[n]
        /\ \A m \in NPC : m # n => move_state'[m] = move_state[m]
    BY <1>0, <2>2 DEF wake_up, TypeOK
  <2> QED  BY <2>1, <2>3, StaysAwake
<1>5. CASE SecondMove
  <2>1. worker.id \in PC  BY <1>0, <1>5 DEF SecondMove, TypeOK
  <2> QED  BY <1>1, <1>5, <2>1 DEF SecondMove, do_move, Relocate
<1>6. ASSUME NEW n \in NPC, KeepMoving(n) PROVE SeenNpcAwake'
  BY <1>6, StaysAwake DEF KeepMoving
<1>7. ASSUME NEW n \in NPC, FallAsleep(n) PROVE SeenNpcAwake'
  <2>1. /\ Keepers(n) = {} /\ UNCHANGED <<visible, move_state>>
        /\ \A m \in NPC : m # n => active'[m] = active[m]
    BY <1>0, <1>7 DEF FallAsleep, TypeOK
  <2>2. \A p \in PC : n \notin visible'[p]  BY <2>1, AsleepUnseen
  <2> QED  BY <2>1, <2>2, StaysAwake
<1>8. ASSUME NEW p \in PC, AreaHit(p) PROVE SeenNpcAwake'
  <2>1. move_state' = move_state /\ \E dmg : HitPlayer(worker.id, p, dmg, move_ev)
    BY <1>8 DEF AreaHit
  <2> QED  BY <1>0, <2>1, HitAwakes, StaysAwake
<1>9. CASE Tick \/ UNCHANGED vars  BY <1>9, StaysAwake DEF Tick, vars
<1> QED
  BY <1>2, <1>3, <1>4, <1>5, <1>6, <1>7, <1>8, <1>9, NpcMoveAwake, HitNpcAwake
  DEF Next, RespawnAny, Continue

\* A NPC that roams or chases is awake whenever a player sees it, for every
\* world and every choice of ranges with VIEW_RANGE <= AGRO_DETECT_RANGE
\* <= SECTOR_SIZE.
THEOREM SeenIsAwake == Spec => []SeenNpcAwake
<1>1. Init => SeenNpcAwake  BY DEF Init, SeenNpcAwake
<1>2. IInv /\ ViewExact /\ SeenNpcAwake /\ [Next]_vars => SeenNpcAwake'  BY NextAwake
<1> QED  BY <1>1, <1>2, InvariantHolds, ViewsExact, PTL DEF Spec
=============================================================================
