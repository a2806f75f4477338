------------------------------ MODULE GameWorld ------------------------------
(***************************************************************************)
(* The game world of the server: players, NPCs, the sectors that index     *)
(* them, what every player has been shown, and the timer events that drive *)
(* NPCs and regeneration (session.cpp, npc.cpp, network.cpp, sector.h).    *)
(*                                                                         *)
(* Handlers run one at a time, which is the server on a machine with one   *)
(* or two hardware threads (GameServer.cpp starts hardware_concurrency-1   *)
(* workers, at least one).  A handler whose code loops or has two phases   *)
(* is cut into steps; `worker' holds what is left of it, and no other      *)
(* handler starts until it is idle.                                        *)
(*                                                                         *)
(* Time is counted in ticks.  The multiset of pending events of one object *)
(* and kind is a function from the ticks left to the number of events; an  *)
(* event with 0 ticks left is due, and the clock stands still while an     *)
(* event is due.                                                           *)
(***************************************************************************)
EXTENDS SectorGrid, FiniteSets

CONSTANTS
    PC,                        \* player ids (never reused by the server)
    PEACE, AGRO, BOSS,         \* NPC ids by m_npc_type
    NONE,                      \* m_target_id = -1
    m_origin,                  \* m_origin_x/y of every NPC
    PC_SPAWN,                  \* PC_SPAWN_X/Y
    LoginTiles,                \* positions a login may find in the database
    ROAM_RANGE, RESPAWN_RANGE, ATTACK_RANGE, RANGED_ATK_RANGE,
    AGRO_DETECT_RANGE, BOSS_DETECT_RANGE, BOSS_ATTACK_RANGE, BOSS_AREA_RANGE,
    PC_MAX_HP, NPC_PEACE_MAX_HP, NPC_AGRO_MAX_HP, BOSS_MAX_HP,
    HP_PER_LEVEL, ATK_PER_LEVEL, SKILL_PER_LEVEL,
    PC_ATTACK_DMG, PC_SKILL_DMG, NPC_ATTACK_DMG,
    BOSS_ATTACK_DMG,           \* damage by boss phase, 1 .. 3
    POTION_RESTORE,            \* the amounts potions restore
    MOVE_COOL_TIME, ATTACK_COOL_TIME, HP_REGEN_TIME,
    BOSS_MOVE_P2, BOSS_ATTACK_COOL,   \* boss intervals, the second by phase
    NPC_RESPAWN_TIME, BOSS_RESPAWN_TIME,
    MAX_LEVEL                  \* bound on the level a player reaches

VARIABLES
    m_state,     \* CL_STATE of every player
    m_level,     \* level of every player
    m_hp,        \* hit points of every object
    pos,         \* tile of every object
    sectors,     \* SectorManager::sectors
    visible,     \* m_visible_objects of every player
    active,      \* m_active_npc
    move_state,  \* m_move_state
    target,      \* m_target_id
    move_ev,     \* pending EVENT_NPC_MOVE of every NPC
    respawn_ev,  \* pending EVENT_NPC_RESPAWN of every NPC
    regen_ev,    \* pending EVENT_HP_REGEN of every player
    worker       \* what the worker still has to do in the current handler

playerVars == <<m_state, m_level>>
npcVars == <<active, move_state, target, move_ev, respawn_ev>>
vars == <<m_state, m_level, m_hp, pos, sectors, visible, active, move_state,
          target, move_ev, respawn_ev, regen_ev, worker>>

NPC == PEACE \cup AGRO \cup BOSS
Obj == PC \cup NPC
NPC_STATE == {"IDLE", "ROAMING", "CHASE"}
Max2(a, b) == IF a > b THEN a ELSE b
Min2(a, b) == IF a < b THEN a ELSE b
LONGEST == Max2(Max2(NPC_RESPAWN_TIME, BOSS_RESPAWN_TIME), HP_REGEN_TIME)
Ticks == 0 .. LONGEST

RespawnTime(n) == IF n \in BOSS THEN BOSS_RESPAWN_TIME ELSE NPC_RESPAWN_TIME
\* The delays a NPC_MOVE event is ever queued with.
MoveDelays == {MOVE_COOL_TIME, ATTACK_COOL_TIME, BOSS_MOVE_P2}
                  \cup {BOSS_ATTACK_COOL[i] : i \in 1 .. 3}

ASSUME ObjectAssumption ==
    /\ PC \cap NPC = {} /\ PEACE \cap AGRO = {}
    /\ PEACE \cap BOSS = {} /\ AGRO \cap BOSS = {}
    /\ NONE \notin Obj
    /\ m_origin \in [NPC -> Tiles]
    /\ PC_SPAWN \in Tiles
    /\ LoginTiles \subseteq Tiles

ASSUME RangeAssumption ==
    /\ ROAM_RANGE \in Nat /\ RESPAWN_RANGE \in Nat /\ ATTACK_RANGE \in Nat
    /\ RANGED_ATK_RANGE \in Nat
    /\ AGRO_DETECT_RANGE \in Nat /\ BOSS_DETECT_RANGE \in Nat
    /\ BOSS_ATTACK_RANGE \in Nat /\ BOSS_AREA_RANGE \in Nat
    /\ VIEW_RANGE <= AGRO_DETECT_RANGE
    /\ AGRO_DETECT_RANGE <= SECTOR_SIZE

ASSUME StatAssumption ==
    /\ PC_MAX_HP \in Nat \ {0} /\ NPC_PEACE_MAX_HP \in Nat \ {0}
    /\ NPC_AGRO_MAX_HP \in Nat \ {0} /\ BOSS_MAX_HP \in Nat \ {0}
    /\ HP_PER_LEVEL \in Nat /\ ATK_PER_LEVEL \in Nat /\ SKILL_PER_LEVEL \in Nat
    /\ PC_ATTACK_DMG \in Nat /\ PC_SKILL_DMG \in Nat /\ NPC_ATTACK_DMG \in Nat
    /\ BOSS_ATTACK_DMG \in [1 .. 3 -> Nat]
    /\ POTION_RESTORE \subseteq Nat
    /\ MAX_LEVEL \in Nat \ {0}

\* Every NPC tick comes back before a killed NPC respawns.
ASSUME TimeAssumption ==
    /\ MOVE_COOL_TIME \in Nat \ {0} /\ ATTACK_COOL_TIME \in Nat \ {0}
    /\ HP_REGEN_TIME \in Nat \ {0} /\ BOSS_MOVE_P2 \in Nat \ {0}
    /\ BOSS_ATTACK_COOL \in [1 .. 3 -> Nat \ {0}]
    /\ NPC_RESPAWN_TIME \in Nat /\ BOSS_RESPAWN_TIME \in Nat
    /\ \A d \in MoveDelays, n \in NPC : d < RespawnTime(n)
    /\ \A d \in MoveDelays : d \in Ticks
-----------------------------------------------------------------------------
(***************************************************************************)
(* Event multisets.                                                        *)
(***************************************************************************)
NoEvent == [d \in Ticks |-> 0]
OneEvent(d) == [e \in Ticks |-> IF e = d THEN 1 ELSE 0]

Queued(ev, d) == [ev EXCEPT ![d] = @ + 1]
Due(ev) == ev[0] > 0
Handled(ev) == [ev EXCEPT ![0] = @ - 1]
Elapsed(ev) == [d \in Ticks |-> IF d + 1 \in Ticks THEN ev[d + 1] ELSE 0]

\* timer_queue.push of one event with delay d for every object of S.
PushAll(evs, S, d) ==
    [o \in DOMAIN evs |-> IF o \in S THEN Queued(evs[o], d) ELSE evs[o]]
-----------------------------------------------------------------------------
(***************************************************************************)
(* Sectors and sight.                                                      *)
(***************************************************************************)
get_objects_in_adjacent_sectors(sec, t) ==
    UNION { sec[s] : s \in AdjacentSectors[t] }

add_object_to_sector(sec, o, t) ==
    [sec EXCEPT ![sector_id(t)] = @ \cup {o}]

remove_object_from_sector(sec, o, t) ==
    [sec EXCEPT ![sector_id(t)] = @ \ {o}]

\* Mutant: the old sector keeps the object.
update_keeps_old_sector(sec, o, from, to) == add_object_to_sector(sec, o, to)

update_object_sector(sec, o, from, to) ==
    IF sector_id(from) = sector_id(to) THEN sec
    ELSE add_object_to_sector(remove_object_from_sector(sec, o, from), o, to)

Playing(p) == m_state[p] = "CS_PLAYING"

\* The players get_objects_in_adjacent_sectors finds around t that can_send.
PlayersAround(sec, t) ==
    { p \in PC \cap get_objects_in_adjacent_sectors(sec, t) : Playing(p) }

\* The players that see tile t, found the way update_viewers finds them.
Viewers(sec, t) == { p \in PlayersAround(sec, t) : can_see(pos[p], t) }

\* What update_player_view finds for player p standing on t.
new_view(p, t, sec) ==
    { o \in get_objects_in_adjacent_sectors(sec, t) \ {p} :
        (o \in PC => Playing(o)) /\ can_see(t, pos[o]) }

\* Mutant: the other end is told of arrivals only.
ViewsOneSided(p, new) ==
    [q \in PC |-> CASE q = p -> new
                    [] q # p /\ q \in new -> visible[q] \cup {p}
                    [] OTHER -> visible[q]]

\* visible after update_player_view(p): both ends of every pair that
\* appears or disappears learn of it.
ViewsAfter(p, new) ==
    [q \in PC |->
        CASE q = p -> new
          [] q # p /\ q \in new \ visible[p] -> visible[q] \cup {p}
          [] q # p /\ q \in visible[p] \ new -> visible[q] \ {p}
          [] OTHER -> visible[q]]

\* Mutant: no compare-exchange.
wake_up_unchecked(evs, S) ==
    /\ active' = [n \in NPC |-> active[n] \/ n \in S]
    /\ move_ev' = PushAll(evs, S, MOVE_COOL_TIME)

\* CNPC::wake_up of every NPC in S: the compare-exchange lets only a
\* sleeping one through.
wake_up(evs, S) ==
    /\ active' = [n \in NPC |-> active[n] \/ n \in S]
    /\ move_ev' = PushAll(evs, {n \in S : ~active[n]}, MOVE_COOL_TIME)

\* Mutant: a NPC that comes into view is not woken.
update_view_only(p, t, sec, evs) ==
    /\ visible' = ViewsAfter(p, new_view(p, t, sec))
    /\ move_ev' = evs
    /\ UNCHANGED active

\* update_player_view for p standing on t once the sectors are sec; evs is
\* move_ev as far as the handler has changed it already.
update_player_view(p, t, sec, evs) ==
    LET new == new_view(p, t, sec)
    IN  /\ visible' = ViewsAfter(p, new)
        /\ wake_up(evs, NPC \cap (new \ visible[p]))

\* p goes from its tile to t: update_object_sector, then update_player_view.
Relocate(p, t, evs) ==
    LET sec == update_object_sector(sectors, p, pos[p], t)
    IN  /\ pos' = [pos EXCEPT ![p] = t]
        /\ sectors' = sec
        /\ update_player_view(p, t, sec, evs)

\* CNPC::update_viewers after NPC n went from its tile to t.
update_viewers(n, t) ==
    LET sec == update_object_sector(sectors, n, pos[n], t)
        old_viewers == Viewers(sectors, pos[n])
        new_viewers == Viewers(sec, t)
    IN  /\ pos' = [pos EXCEPT ![n] = t]
        /\ sectors' = sec
        /\ visible' = [p \in PC |->
               CASE p \in new_viewers -> visible[p] \cup {n}
                 [] p \in old_viewers \ new_viewers -> visible[p] \ {n}
                 [] OTHER -> visible[p]]
-----------------------------------------------------------------------------
(***************************************************************************)
(* Levels and hit points.  Experience is not kept: a kill may raise the    *)
(* level by any amount up to the bound.                                    *)
(***************************************************************************)
calc_max_hp(l) == PC_MAX_HP + (l - 1) * HP_PER_LEVEL
calc_atk_dmg(l) == PC_ATTACK_DMG + (l - 1) * ATK_PER_LEVEL
calc_skill_dmg(l) == PC_SKILL_DMG + (l - 1) * SKILL_PER_LEVEL

NpcMaxHp(n) == CASE n \in BOSS -> BOSS_MAX_HP
                 [] n \in AGRO -> NPC_AGRO_MAX_HP
                 [] n \in PEACE -> NPC_PEACE_MAX_HP

RestState(n) == IF n \in PEACE THEN "IDLE" ELSE "ROAMING"

get_boss_phase(n) ==
    LET pct == (m_hp[n] * 100) \div BOSS_MAX_HP
    IN  IF pct > 66 THEN 1 ELSE IF pct > 33 THEN 2 ELSE 3
-----------------------------------------------------------------------------
(***************************************************************************)
(* The worker.                                                             *)
(***************************************************************************)
Idle == [op |-> "idle", id |-> NONE, dir |-> "UP", todo |-> {}]
Then(op, id, dir, todo) == [op |-> op, id |-> id, dir |-> dir, todo |-> todo]
Ready == worker.op = "idle"

\* After the hits of S, or at once when there are none, go on with `next'.
Loop(op, id, S, next) == IF S = {} THEN next ELSE Then(op, id, "UP", S)

Init ==
    /\ m_state = [p \in PC |-> "CS_CONNECT"]
    /\ m_level = [p \in PC |-> 1]
    /\ m_hp = [o \in Obj |-> IF o \in PC THEN PC_MAX_HP ELSE NpcMaxHp(o)]
    /\ pos = [o \in Obj |-> IF o \in PC THEN PC_SPAWN ELSE m_origin[o]]
    /\ sectors = [s \in Sectors |-> {n \in NPC : sector_id(m_origin[n]) = s}]
    /\ visible = [p \in PC |-> {}]
    /\ active = [n \in NPC |-> FALSE]
    /\ move_state = [n \in NPC |-> RestState(n)]
    /\ target = [n \in NPC |-> NONE]
    /\ move_ev = [n \in NPC |-> NoEvent]
    /\ respawn_ev = [n \in NPC |-> NoEvent]
    /\ regen_ev = [p \in PC |-> NoEvent]
    /\ worker = Idle
-----------------------------------------------------------------------------
(***************************************************************************)
(* Players.                                                                *)
(***************************************************************************)
\* A login that succeeds: IO_DB_LOGIN, or C2S_LOGIN of a bot.
Login(p, t, l, h) ==
    /\ Ready
    /\ m_state[p] = "CS_CONNECT"
    /\ m_state' = [m_state EXCEPT ![p] = "CS_PLAYING"]
    /\ m_level' = [m_level EXCEPT ![p] = l]
    /\ m_hp' = [m_hp EXCEPT ![p] = Min2(h, calc_max_hp(l))]
    /\ pos' = [pos EXCEPT ![p] = t]
    /\ LET sec == add_object_to_sector(sectors, p, t)
       IN  /\ sectors' = sec
           /\ update_player_view(p, t, sec, move_ev)
    /\ regen_ev' = [regen_ev EXCEPT ![p] = Queued(@, HP_REGEN_TIME)]
    /\ UNCHANGED <<move_state, target, respawn_ev, worker>>

\* disconnect(p).  The SESSION is freed, so what is left of its position,
\* level and hit points is never read again.
Disconnect(p) ==
    /\ Ready
    /\ Playing(p)
    /\ m_state' = [m_state EXCEPT ![p] = "CS_LOGOUT"]
    /\ sectors' = remove_object_from_sector(sectors, p, pos[p])
    /\ visible' = [q \in PC |-> IF q = p THEN {}
                                ELSE IF q \in visible[p] THEN visible[q] \ {p}
                                ELSE visible[q]]
    /\ pos' = [pos EXCEPT ![p] = PC_SPAWN]
    /\ m_hp' = [m_hp EXCEPT ![p] = PC_MAX_HP]
    /\ m_level' = [m_level EXCEPT ![p] = 1]
    /\ UNCHANGED <<npcVars, regen_ev, worker>>

\* SESSION::do_move: a blocked step still refreshes the view.
do_move(p, d) ==
    LET to == Neighbour(pos[p], d)
    IN  Relocate(p, IF is_obstacle(to) THEN pos[p] ELSE to, move_ev)

\* C2S_MOVE; a speed boost repeats do_move.  The handlers of C2S_MOVE and
\* C2S_ATTACK do not test the state: the client and the bots of the
\* repository send them only once the login has been answered.
Move(p, d) ==
    /\ Ready
    /\ Playing(p)
    /\ do_move(p, d)
    /\ \E boosted \in BOOLEAN :
          worker' = IF boosted THEN Then("move2", p, d, {}) ELSE Idle
    /\ UNCHANGED <<playerVars, m_hp, move_state, target, respawn_ev, regen_ev>>

SecondMove ==
    /\ worker.op = "move2"
    /\ do_move(worker.id, worker.dir)
    /\ worker' = Idle
    /\ UNCHANGED <<playerVars, m_hp, move_state, target, respawn_ev, regen_ev>>

LiveNpcsSeen(p) == { n \in NPC \cap visible[p] : m_hp[n] > 0 }

\* The three tiles in front of a player that faces d.
InArc(t, d, u) ==
    LET dx == u[1] - t[1]
        dy == u[2] - t[2]
    IN  \/ d = "UP" /\ dy = -1 /\ Abs(dx) <= 1
        \/ d = "DOWN" /\ dy = 1 /\ Abs(dx) <= 1
        \/ d = "LEFT" /\ dx = -1 /\ Abs(dy) <= 1
        \/ d = "RIGHT" /\ dx = 1 /\ Abs(dy) <= 1

\* C2S_ATTACK, when it hits something.
Attack(p, d) ==
    LET hits == { n \in LiveNpcsSeen(p) : InArc(pos[p], d, pos[n]) }
    IN  /\ Ready
        /\ Playing(p)
        /\ hits # {}
        /\ worker' = Then("attack", p, "UP", hits)
        /\ UNCHANGED <<playerVars, m_hp, pos, sectors, visible, npcVars, regen_ev>>

\* C2S_SKILL, when it hits something.
Skill(p) ==
    LET hits == { n \in LiveNpcsSeen(p) : Within(pos[p], pos[n], 1) }
    IN  /\ Ready
        /\ Playing(p)
        /\ hits # {}
        /\ worker' = Then("skill", p, "UP", hits)
        /\ UNCHANGED <<playerVars, m_hp, pos, sectors, visible, npcVars, regen_ev>>

Ahead(t, d, i) ==
    CASE d = "UP"    -> <<t[1], t[2] - i>>
      [] d = "DOWN"  -> <<t[1], t[2] + i>>
      [] d = "LEFT"  -> <<t[1] - i, t[2]>>
      [] d = "RIGHT" -> <<t[1] + i, t[2]>>

\* Live NPCs on tile t, looked up through the sectors.
NpcsOn(t) ==
    { n \in NPC \cap get_objects_in_adjacent_sectors(sectors, t) :
        m_hp[n] > 0 /\ pos[n] = t }

\* C2S_RANGED_ATTACK, when the projectile meets an NPC: the first tile on
\* the line that holds one, with no obstacle up to it.
RangedAttack(p, d) ==
    /\ Ready
    /\ Playing(p)
    /\ \E i \in 1 .. RANGED_ATK_RANGE :
          /\ \A j \in 1 .. i : ~is_obstacle(Ahead(pos[p], d, j))
          /\ \A j \in 1 .. i - 1 : NpcsOn(Ahead(pos[p], d, j)) = {}
          /\ \E n \in NpcsOn(Ahead(pos[p], d, i)) :
                worker' = Then("skill", p, "UP", {n})
    /\ UNCHANGED <<playerVars, m_hp, pos, sectors, visible, npcVars, regen_ev>>

\* Mutant: m_active_npc is not reset.
npc_die_active(n, p) ==
    /\ visible' = [q \in PC |-> visible[q] \ {n}]
    /\ sectors' = remove_object_from_sector(sectors, n, pos[n])
    /\ target' = [target EXCEPT ![n] = NONE]
    /\ respawn_ev' = [respawn_ev EXCEPT ![n] = Queued(@, RespawnTime(n))]
    /\ UNCHANGED <<active, move_state, move_ev>>

\* Mutant: no EVENT_NPC_RESPAWN.
npc_die_for_good(n, p) ==
    /\ visible' = [q \in PC |-> visible[q] \ {n}]
    /\ sectors' = remove_object_from_sector(sectors, n, pos[n])
    /\ active' = [active EXCEPT ![n] = FALSE]
    /\ target' = [target EXCEPT ![n] = NONE]
    /\ UNCHANGED <<move_state, move_ev, respawn_ev>>

\* The hit kills NPC n: npc_die, then the reward for player p.
npc_die(n, p) ==
    /\ visible' = [q \in PC |->
           IF q \in get_objects_in_adjacent_sectors(sectors, pos[n])
           THEN visible[q] \ {n} ELSE visible[q]]
    /\ sectors' = remove_object_from_sector(sectors, n, pos[n])
    /\ active' = [active EXCEPT ![n] = FALSE]
    /\ target' = [target EXCEPT ![n] = NONE]
    /\ respawn_ev' = [respawn_ev EXCEPT ![n] = Queued(@, RespawnTime(n))]
    /\ UNCHANGED <<move_state, move_ev>>

\* One iteration of the loop over the NPCs an attack reaches.
HitNpc(n) ==
    LET p == worker.id
        base == IF worker.op = "attack" THEN calc_atk_dmg(m_level[p])
                                        ELSE calc_skill_dmg(m_level[p])
    IN  /\ worker.op \in {"attack", "skill"}
        /\ n \in worker.todo
        /\ worker' = Loop(worker.op, p, worker.todo \ {n}, Idle)
        /\ UNCHANGED <<m_state, pos, regen_ev>>
        /\ \E boosted \in BOOLEAN :
              LET rem == m_hp[n] - (IF boosted THEN base * 2 ELSE base)
              IN  \/ /\ rem <= 0
                     /\ npc_die(n, p)
                     /\ \E l \in m_level[p] .. MAX_LEVEL :
                           /\ m_level' = [m_level EXCEPT ![p] = l]
                           /\ m_hp' = [m_hp EXCEPT ![n] = rem, ![p] = calc_max_hp(l)]
                  \/ /\ rem > 0
                     /\ m_hp' = [m_hp EXCEPT ![n] = rem]
                     /\ target' = [target EXCEPT ![n] = p]
                     /\ move_state' = [move_state EXCEPT ![n] = "CHASE"]
                     /\ wake_up(move_ev, {n})
                     /\ UNCHANGED <<m_level, sectors, visible, respawn_ev>>

\* C2S_USE_ITEM of a potion or an elixir (an elixir restores everything).
UsePotion(p) ==
    /\ Ready
    /\ Playing(p)
    /\ m_hp[p] < calc_max_hp(m_level[p])
    /\ \E r \in POTION_RESTORE \cup {calc_max_hp(m_level[p])} :
          m_hp' = [m_hp EXCEPT ![p] = Min2(calc_max_hp(m_level[p]), @ + r)]
    /\ UNCHANGED <<playerVars, pos, sectors, visible, npcVars, regen_ev, worker>>

\* Mutant: a player with full hit points is not queued again.
HpRegenStops(p) ==
    LET max == calc_max_hp(m_level[p])
    IN  /\ Ready
        /\ Due(regen_ev[p])
        /\ m_hp' = [m_hp EXCEPT ![p] = Min2(max, @ + Max2(1, max \div 10))]
        /\ regen_ev' = [regen_ev EXCEPT ![p] =
               IF Playing(p) /\ m_hp[p] < max THEN Queued(Handled(@), HP_REGEN_TIME)
                                             ELSE Handled(@)]
        /\ UNCHANGED <<playerVars, pos, sectors, visible, npcVars, worker>>

\* process_hp_regen: the event of a player that left is dropped.
HpRegen(p) ==
    /\ Ready
    /\ Due(regen_ev[p])
    /\ IF Playing(p)
       THEN LET max == calc_max_hp(m_level[p])
            IN  /\ m_hp' = [m_hp EXCEPT ![p] =
                       IF @ < max THEN Min2(max, @ + Max2(1, max \div 10)) ELSE @]
                /\ regen_ev' = [regen_ev EXCEPT ![p] =
                                   Queued(Handled(@), HP_REGEN_TIME)]
       ELSE /\ regen_ev' = [regen_ev EXCEPT ![p] = Handled(@)]
            /\ UNCHANGED m_hp
    /\ UNCHANGED <<playerVars, pos, sectors, visible, npcVars, worker>>
-----------------------------------------------------------------------------
(***************************************************************************)
(* NPCs: process_npc_move.                                                 *)
(***************************************************************************)
DetectRange(n) == IF n \in BOSS THEN BOSS_DETECT_RANGE ELSE AGRO_DETECT_RANGE
AttackRange(n) == IF n \in BOSS THEN BOSS_ATTACK_RANGE ELSE ATTACK_RANGE

\* The players the scan of the adjacent sectors accepts.
Detected(n) ==
    { p \in PlayersAround(sectors, pos[n]) : Within(pos[n], pos[p], DetectRange(n)) }

Manhattan(t, u) == Abs(t[1] - u[1]) + Abs(t[2] - u[2])

\* The scan keeps the first of the nearest players it meets.
Nearest(n) ==
    { p \in Detected(n) :
        \A q \in Detected(n) : Manhattan(pos[n], pos[p]) <= Manhattan(pos[n], pos[q]) }

ValidTarget(n) ==
    /\ target[n] # NONE
    /\ Playing(target[n])
    /\ Within(pos[n], pos[target[n]], DetectRange(n))

\* Whom n may go after now: while roaming the scan comes first, while
\* chasing the present target does; a Peace NPC never scans.
Targets(n) ==
    IF n \notin PEACE /\ (move_state[n] = "ROAMING" \/ ~ValidTarget(n))
          /\ Detected(n) # {}
    THEN Nearest(n)
    ELSE IF ValidTarget(n) THEN {target[n]} ELSE {}

\* n handles a due NPC_MOVE event; the events of the others stay.
TakeMove(n) == [move_ev EXCEPT ![n] = Handled(@)]

NpcTick(n) == Ready /\ Due(move_ev[n])
Reschedule(n) == Then("resched", n, "UP", {})

\* The event of an NPC killed in the meantime is dropped.
DeadTick(n) ==
    /\ NpcTick(n)
    /\ m_hp[n] <= 0
    /\ move_ev' = TakeMove(n)
    /\ UNCHANGED <<playerVars, m_hp, pos, sectors, visible, active, move_state,
                   target, respawn_ev, regen_ev, worker>>

\* NPC_STATE_IDLE: go to sleep.
IdleTick(n) ==
    /\ NpcTick(n)
    /\ m_hp[n] > 0
    /\ move_state[n] = "IDLE"
    /\ move_ev' = TakeMove(n)
    /\ active' = [active EXCEPT ![n] = FALSE]
    /\ UNCHANGED <<playerVars, m_hp, pos, sectors, visible, move_state, target,
                   respawn_ev, regen_ev, worker>>

MovingTick(n) == NpcTick(n) /\ m_hp[n] > 0 /\ move_state[n] # "IDLE"

Clamp(i, lo, hi) == Max2(lo, Min2(i, hi))

\* One step toward the origin, along x first.
Homeward(n) ==
    LET x == pos[n][1]  ox == m_origin[n][1]
        y == pos[n][2]  oy == m_origin[n][2]
    IN  CASE x < ox -> <<x + 1, y>>
          [] x > ox -> <<x - 1, y>>
          [] x = ox /\ y < oy -> <<x, y + 1>>
          [] x = ox /\ y > oy -> <<x, y - 1>>
          [] OTHER -> pos[n]

\* Where do_roaming_move takes n for the random direction d.
RoamTo(n, d) ==
    LET u == Neighbour(pos[n], d)
        to == <<Clamp(u[1], 0, WORLD_WIDTH - 1), Clamp(u[2], 0, WORLD_HEIGHT - 1)>>
    IN  IF Within(to, m_origin[n], ROAM_RANGE) /\ ~is_obstacle(to) THEN to
        ELSE IF ~is_obstacle(pos[n]) /\ ~is_obstacle(Homeward(n)) THEN Homeward(n)
        ELSE pos[n]

\* Nobody to chase: an Agro or Boss roams.
Roam(n, d) ==
    /\ MovingTick(n)
    /\ n \notin PEACE
    /\ Targets(n) = {}
    /\ target' = [target EXCEPT ![n] = NONE]
    /\ move_state' = [move_state EXCEPT ![n] = "ROAMING"]
    /\ update_viewers(n, RoamTo(n, d))
    /\ move_ev' = TakeMove(n)
    /\ worker' = Reschedule(n)
    /\ UNCHANGED <<playerVars, m_hp, active, respawn_ev, regen_ev>>

\* Nobody to chase: a Peace NPC returns to IDLE.
GiveUp(n) ==
    /\ MovingTick(n)
    /\ n \in PEACE
    /\ Targets(n) = {}
    /\ target' = [target EXCEPT ![n] = NONE]
    /\ move_state' = [move_state EXCEPT ![n] = "IDLE"]
    /\ move_ev' = TakeMove(n)
    /\ worker' = Reschedule(n)
    /\ UNCHANGED <<playerVars, m_hp, pos, sectors, visible, active, respawn_ev,
                   regen_ev>>

\* The tiles astar_next_step may return: a free neighbour, or no step.
NextSteps(n) ==
    {pos[n]} \cup { t \in { Neighbour(pos[n], d) : d \in DIRECTION } : ~is_obstacle(t) }

\* The target is out of attack range: one A* step.
ChaseStep(n, p) ==
    /\ MovingTick(n)
    /\ p \in Targets(n)
    /\ ~Within(pos[n], pos[p], AttackRange(n))
    /\ target' = [target EXCEPT ![n] = p]
    /\ move_state' = [move_state EXCEPT ![n] = "CHASE"]
    /\ \E t \in NextSteps(n) : update_viewers(n, t)
    /\ move_ev' = TakeMove(n)
    /\ worker' = Reschedule(n)
    /\ UNCHANGED <<playerVars, m_hp, active, respawn_ev, regen_ev>>

\* Mutant: zero hit points do not count as death.
HitPlayerBelowZero(n, p, dmg, evs) ==
    IF m_hp[p] - dmg < 0
    THEN /\ m_hp' = [m_hp EXCEPT ![p] = calc_max_hp(m_level[p])]
         /\ Relocate(p, PC_SPAWN, evs)
    ELSE /\ m_hp' = [m_hp EXCEPT ![p] = @ - dmg]
         /\ move_ev' = evs
         /\ UNCHANGED <<pos, sectors, visible, active>>

\* n deals player p damage; one that brings it to zero sends p, restored, to
\* the spawn point.
HitPlayer(n, p, dmg, evs) ==
    IF m_hp[p] - dmg <= 0
    THEN /\ m_hp' = [m_hp EXCEPT ![p] = calc_max_hp(m_level[p])]
         /\ Relocate(p, PC_SPAWN, evs)
    ELSE /\ m_hp' = [m_hp EXCEPT ![p] = @ - dmg]
         /\ move_ev' = evs
         /\ UNCHANGED <<pos, sectors, visible, active>>

\* A defence boost halves the damage.
Damages(d) == {d, d \div 2}

\* Attack on one target: Peace, Agro, and a boss in phase 1 or 2.
AttackPlayer(n, p) ==
    /\ MovingTick(n)
    /\ p \in Targets(n)
    /\ Within(pos[n], pos[p], AttackRange(n))
    /\ n \in BOSS => get_boss_phase(n) < 3
    /\ \E dmg \in Damages(IF n \in BOSS THEN BOSS_ATTACK_DMG[get_boss_phase(n)]
                                        ELSE NPC_ATTACK_DMG) :
          LET dies == m_hp[p] - dmg <= 0
          IN  /\ HitPlayer(n, p, dmg, TakeMove(n))
              /\ target' = [target EXCEPT ![n] = IF dies THEN NONE ELSE p]
              /\ move_state' = [move_state EXCEPT ![n] =
                     IF dies /\ n \notin BOSS THEN RestState(n) ELSE "CHASE"]
    /\ worker' = Reschedule(n)
    /\ UNCHANGED <<playerVars, respawn_ev, regen_ev>>

\* A boss in phase 3 hits everybody around it, one after the other.
AreaAttack(n, p) ==
    LET reached == { q \in PlayersAround(sectors, pos[n]) :
                         Within(pos[n], pos[q], BOSS_AREA_RANGE) }
    IN  /\ MovingTick(n)
        /\ n \in BOSS
        /\ p \in Targets(n)
        /\ Within(pos[n], pos[p], AttackRange(n))
        /\ get_boss_phase(n) = 3
        /\ target' = [target EXCEPT ![n] = p]
        /\ move_state' = [move_state EXCEPT ![n] = "CHASE"]
        /\ move_ev' = TakeMove(n)
        /\ worker' = Loop("area", n, reached, Reschedule(n))
        /\ UNCHANGED <<playerVars, m_hp, pos, sectors, visible, active,
                       respawn_ev, regen_ev>>

AreaHit(p) ==
    LET n == worker.id
    IN  /\ worker.op = "area"
        /\ p \in worker.todo
        /\ \E dmg \in Damages(BOSS_ATTACK_DMG[3]) :
              /\ HitPlayer(n, p, dmg, move_ev)
              /\ target' = [target EXCEPT ![n] =
                     IF m_hp[p] - dmg <= 0 /\ @ = p THEN NONE ELSE @]
        /\ worker' = Loop("area", n, worker.todo \ {p}, Reschedule(n))
        /\ UNCHANGED <<playerVars, move_state, respawn_ev, regen_ev>>

\* Whether n is kept awake, and by whom (the first player the scan meets).
DeactRange(n) == IF n \in AGRO /\ move_state[n] = "CHASE"
                 THEN AGRO_DETECT_RANGE ELSE VIEW_RANGE
Keepers(n) ==
    { p \in PlayersAround(sectors, pos[n]) :
        n \in BOSS \/ Within(pos[n], pos[p], DeactRange(n)) }
Engaged(n) ==
    n \in BOSS /\ ValidTarget(n)

BossCool(n) ==
    LET phase == get_boss_phase(n)
    IN  IF Engaged(n) /\ Within(pos[n], pos[target[n]], BOSS_ATTACK_RANGE)
        THEN BOSS_ATTACK_COOL[phase]
        ELSE IF phase >= 2 THEN BOSS_MOVE_P2 ELSE MOVE_COOL_TIME

Cool(n, p) ==
    IF n \in AGRO /\ target[n] # NONE /\ Within(pos[n], pos[p], ATTACK_RANGE)
    THEN ATTACK_COOL_TIME ELSE MOVE_COOL_TIME

\* The end of process_npc_move: queue the next tick or go to sleep.
KeepMoving(n) ==
    /\ worker.op = "resched"
    /\ n = worker.id
    /\ \/ /\ n \in BOSS
          /\ Engaged(n) \/ Keepers(n) # {}
          /\ move_ev' = [move_ev EXCEPT ![n] = Queued(@, BossCool(n))]
       \/ /\ n \notin BOSS
          /\ \E p \in Keepers(n) :
                move_ev' = [move_ev EXCEPT ![n] = Queued(@, Cool(n, p))]
    /\ worker' = Idle
    /\ UNCHANGED <<playerVars, m_hp, pos, sectors, visible, active, move_state,
                   target, respawn_ev, regen_ev>>

\* Mutant: the event is gone but m_active_npc stays set.
FallAsleepActive(n) ==
    /\ worker.op = "resched"
    /\ n = worker.id
    /\ ~Engaged(n) /\ Keepers(n) = {}
    /\ target' = [target EXCEPT ![n] = IF n \in AGRO THEN NONE ELSE @]
    /\ worker' = Idle
    /\ UNCHANGED <<playerVars, m_hp, pos, sectors, visible, active, move_state,
                   move_ev, respawn_ev, regen_ev>>

\* Nobody is near: asleep until the next wake_up.
FallAsleep(n) ==
    /\ worker.op = "resched"
    /\ n = worker.id
    /\ ~Engaged(n) /\ Keepers(n) = {}
    /\ active' = [active EXCEPT ![n] = FALSE]
    /\ target' = [target EXCEPT ![n] = IF n \in AGRO THEN NONE ELSE @]
    /\ worker' = Idle
    /\ UNCHANGED <<playerVars, m_hp, pos, sectors, visible, move_state, move_ev,
                   respawn_ev, regen_ev>>

\* Where n may come back: a boss at its origin, the others on a free tile
\* near it, or at the origin when all random tries met obstacles.
RespawnTiles(n) ==
    IF n \in BOSS THEN {m_origin[n]}
    ELSE {m_origin[n]} \cup
         { t \in { <<Clamp(m_origin[n][1] + dx, 1, WORLD_WIDTH - 1),
                     Clamp(m_origin[n][2] + dy, 1, WORLD_HEIGHT - 1)>> :
                   dx, dy \in -RESPAWN_RANGE .. RESPAWN_RANGE } : ~is_obstacle(t) }

\* process_npc_respawn.
Respawn(n, t) ==
    /\ Ready
    /\ Due(respawn_ev[n])
    /\ t \in RespawnTiles(n)
    /\ respawn_ev' = [respawn_ev EXCEPT ![n] = Handled(@)]
    /\ m_hp' = [m_hp EXCEPT ![n] = NpcMaxHp(n)]
    /\ target' = [target EXCEPT ![n] = NONE]
    /\ move_state' = [move_state EXCEPT ![n] = RestState(n)]
    /\ pos' = [pos EXCEPT ![n] = t]
    /\ LET sec == add_object_to_sector(sectors, n, t)
           viewers == Viewers(sec, t)
       IN  /\ sectors' = sec
           /\ visible' = [p \in PC |-> IF p \in viewers THEN visible[p] \cup {n}
                                                        ELSE visible[p]]
           /\ wake_up(move_ev, IF viewers = {} THEN {} ELSE {n})
    /\ UNCHANGED <<playerVars, regen_ev, worker>>

\* One tick of the clock, once everything due has been handled.
Tick ==
    /\ Ready
    /\ \A n \in NPC : ~Due(move_ev[n]) /\ ~Due(respawn_ev[n])
    /\ \A p \in PC : ~Due(regen_ev[p])
    /\ move_ev' = [n \in NPC |-> Elapsed(move_ev[n])]
    /\ respawn_ev' = [n \in NPC |-> Elapsed(respawn_ev[n])]
    /\ regen_ev' = [p \in PC |-> Elapsed(regen_ev[p])]
    /\ UNCHANGED <<playerVars, m_hp, pos, sectors, visible, active, move_state,
                   target, worker>>
-----------------------------------------------------------------------------
LoginAny(p) == \E t \in LoginTiles, l \in 1 .. MAX_LEVEL :
                  \E h \in 1 .. calc_max_hp(l) : Login(p, t, l, h)

PlayerAct(p) ==
    \/ LoginAny(p)
    \/ Disconnect(p)
    \/ \E d \in DIRECTION : Move(p, d) \/ Attack(p, d) \/ RangedAttack(p, d)
    \/ Skill(p)
    \/ UsePotion(p)

\* What a due NPC_MOVE event of n makes the worker do.
NpcMove(n) ==
    \/ DeadTick(n)
    \/ IdleTick(n)
    \/ \E d \in DIRECTION : Roam(n, d)
    \/ GiveUp(n)
    \/ \E p \in PC : ChaseStep(n, p) \/ AttackPlayer(n, p) \/ AreaAttack(n, p)

RespawnAny(n) == \E t \in Tiles : Respawn(n, t)

\* The rest of a handler that has begun.
Continue ==
    \/ SecondMove
    \/ \E n \in NPC : HitNpc(n) \/ KeepMoving(n) \/ FallAsleep(n)
    \/ \E p \in PC : AreaHit(p)

Next ==
    \/ \E p \in PC : PlayerAct(p) \/ HpRegen(p)
    \/ \E n \in NPC : NpcMove(n) \/ RespawnAny(n)
    \/ Continue
    \/ Tick

(***************************************************************************)
(* Fairness: a handler that has begun is finished; a due event is handled  *)
(* although players keep the worker busy, because the completion port is   *)
(* first in, first out; and time passes.                                   *)
(***************************************************************************)
Fairness ==
    /\ WF_vars(Continue)
    /\ SF_vars(Tick)
    /\ \A p \in PC : SF_vars(HpRegen(p))
    /\ \A n \in NPC : SF_vars(NpcMove(n)) /\ SF_vars(RespawnAny(n))

Spec == Init /\ [][Next]_vars
FairSpec == Spec /\ Fairness
-----------------------------------------------------------------------------
(***************************************************************************)
(* Properties.                                                             *)
(***************************************************************************)
Ops == {"idle", "move2", "attack", "skill", "resched", "area"}

\* Every variable has its type; a suspended handler belongs to an object.
TypeOK ==
    /\ m_state \in [PC -> {"CS_CONNECT", "CS_PLAYING", "CS_LOGOUT"}]
    /\ m_level \in [PC -> 1 .. MAX_LEVEL]
    /\ m_hp \in [Obj -> Int]
    /\ pos \in [Obj -> Tiles]
    /\ sectors \in [Sectors -> SUBSET Obj]
    /\ visible \in [PC -> SUBSET Obj]
    /\ active \in [NPC -> BOOLEAN]
    /\ move_state \in [NPC -> NPC_STATE]
    /\ target \in [NPC -> PC \cup {NONE}]
    /\ move_ev \in [NPC -> [Ticks -> Nat]]
    /\ respawn_ev \in [NPC -> [Ticks -> Nat]]
    /\ regen_ev \in [PC -> [Ticks -> Nat]]
    /\ worker \in [op : Ops, id : Obj \cup {NONE}, dir : DIRECTION,
                   todo : SUBSET Obj]
    /\ worker.op \in {"move2", "attack", "skill"} =>
          worker.id \in PC /\ Playing(worker.id)
    /\ worker.op \in {"resched", "area"} => worker.id \in NPC
    /\ worker.op \in {"attack", "skill"} => worker.todo \subseteq NPC
    /\ worker.op = "area" => worker.todo \subseteq PC

Alive(n) == m_hp[n] > 0
InWorld(o) == IF o \in PC THEN Playing(o) ELSE Alive(o)

\* The sector index and the objects agree: an object is listed in exactly
\* one sector, that of its position, while it plays or lives, and in none
\* otherwise, through every order of moves, deaths, respawns and logouts
\* (update_object_sector, disconnect, npc_die, process_npc_respawn).
SectorExact ==
    \A s \in Sectors, o \in Obj :
        o \in sectors[s] <=> InWorld(o) /\ sector_id(pos[o]) = s

\* m_visible_objects of a player is exactly the set of other objects in the
\* world within VIEW_RANGE: no ghost stays and nobody is missed, whoever
\* moved, died, came back or left (update_player_view, update_viewers).
ViewExact ==
    \A p \in PC :
        visible[p] = IF Playing(p)
                     THEN { o \in Obj \ {p} : InWorld(o) /\ can_see(pos[p], pos[o]) }
                     ELSE {}

\* The worker is between taking the NPC_MOVE event of n and its end.
InTick(n) == worker.op \in {"resched", "area"} /\ worker.id = n

\* m_active_npc counts NPC_MOVE events: an awake NPC has exactly one, a
\* sleeping one none, so NPCs neither stall nor run at double speed (the
\* compare-exchange of wake_up against the reposting in process_npc_move).
MoveToken ==
    \A n \in NPC : Alive(n) =>
        IF active[n] /\ ~InTick(n)
        THEN \E d \in Ticks : move_ev[n] = OneEvent(d)
        ELSE move_ev[n] = NoEvent

\* A dead NPC has exactly one NPC_RESPAWN event and a living one none; the
\* tick that was pending when it died comes due first and is dropped, so a
\* respawned NPC never has an old tick (npc_die, process_npc_respawn).
RespawnToken ==
    \A n \in NPC :
        IF Alive(n) THEN respawn_ev[n] = NoEvent
        ELSE /\ ~active[n]
             /\ \E e \in Ticks :
                   /\ respawn_ev[n] = OneEvent(e)
                   /\ \/ move_ev[n] = NoEvent
                      \/ \E d \in Ticks : d < e /\ move_ev[n] = OneEvent(d)

\* A NPC that roams or chases is awake whenever a player sees it: it never
\* stands frozen on a screen (the sleep at the end of process_npc_move
\* against wake_up on every way into a view).
SeenNpcAwake ==
    \A p \in PC, n \in NPC :
        n \in visible[p] /\ move_state[n] # "IDLE" => active[n]

\* Hit points stay between 1 and the maximum of the level: damage never
\* leaves a player dead in the world, no cure overshoots, and a player that
\* leaves is saved alive (HitPlayer, process_hp_regen, C2S_USE_ITEM).
HpInRange ==
    /\ \A p \in PC : Playing(p) => m_hp[p] \in 1 .. calc_max_hp(m_level[p])
    /\ \A n \in NPC : m_hp[n] <= NpcMaxHp(n)

\* A playing player has exactly one HP_REGEN event (process_hp_regen
\* requeues itself, a login queues the first).
RegenToken ==
    \A p \in PC : Playing(p) =>
        \E d \in Ticks : regen_ev[p] = OneEvent(d)

InDetectRange(n, p) == Playing(p) /\ Within(pos[n], pos[p], DetectRange(n))

\* An Agro roams only when no player at all is within its detection range:
\* scanning the nine sectors loses nobody (do_roaming_move).
AgroDetects ==
    [][\A n \in AGRO, d \in DIRECTION :
          Roam(n, d) => ~\E p \in PC : InDetectRange(n, p)]_vars

\* A killed NPC comes back (EVENT_NPC_RESPAWN).
DeadComesBack == \A n \in NPC : ~Alive(n) ~> Alive(n)

Seen(n) == \E p \in PC : n \in visible[p]

\* An Agro or Boss that a player sees goes for a player, unless it loses
\* sight of all of them or is killed before (do_roaming_move, wake_up).
\* A single hit must not kill a restored player, or a hunter at the spawn
\* point kills from ROAMING for ever: 8 against 100 in the code.
SeenHunterChases ==
    \A n \in AGRO \cup BOSS :
        Seen(n) ~> (move_state[n] = "CHASE" \/ ~Seen(n))

\* Once every player has left, all NPCs fall asleep for good, whatever
\* targets and ticks were left over (process_npc_move, CNPC::wake_up).
EmptyWorldSleeps ==
    (\A p \in PC : m_state[p] = "CS_LOGOUT") ~> [](\A n \in NPC : ~active[n])

=============================================================================
