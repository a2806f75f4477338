------------------------------ MODULE ViewRace ------------------------------
(***************************************************************************)
(* Moves, fights, NPC ticks, respawns and disconnects of the server at the *)
(* grain of its locks and atomics, by one worker or by several, and the    *)
(* mirror of the world that the game client builds from what it is sent.   *)
(*                                                                         *)
(* SendQueue and Framing show that the packets of a session are handled in *)
(* the order in which they are handed to do_send, so the mirror of the     *)
(* client is updated there.  Sectors are looked up at one instant.         *)
(***************************************************************************)
EXTENDS SectorGrid, Handlers

CONSTANTS
    PC, NPC,     \* players and NPCs (of the kinds that roam)
    MAX_HP,      \* m_max_hp of a NPC; a hit takes one
    m_origin,    \* where a NPC respawns
    MAX_RESPAWNS \* bound: no attack while as many respawns of a NPC are pending

Kinds == {"recv", "tick", "respawn", "drop"}     \* of handlers

ASSUME RaceAssumption ==
    /\ PC \cap NPC = {} /\ IsFiniteSet(PC) /\ IsFiniteSet(NPC)
    /\ NONE \notin Tiles \cup Kinds \X (PC \cup NPC)
    /\ MAX_HP \in Nat \ {0} /\ MAX_RESPAWNS \in Nat
    /\ m_origin \in [NPC -> Tiles]

Objects == PC \cup NPC

VARIABLES
    pos,          \* m_x, m_y
    sectors,      \* SectorManager::sectors
    clients,      \* players whose entry in clients is not null
    playing,      \* players with m_state = CS_PLAYING
    visible,      \* m_visible_objects
    saves,        \* DB_SAVE requests of each player
    m_hp, m_active_npc,
    moves,        \* EVENT_NPC_MOVE events pending per NPC
    respawns,     \* EVENT_NPC_RESPAWN events pending per NPC
    revived,      \* history: NPCs that a hit has brought back from the dead
    g_objs        \* per client: the tile where it draws an object, or NONE

vars == <<handlers, pos, sectors, clients, playing, visible, saves, m_hp,
          m_active_npc, moves, respawns, revived, g_objs>>

players == <<clients, playing, saves>>
npcs == <<m_hp, m_active_npc, moves, respawns, revived>>
-----------------------------------------------------------------------------
Alive(o) == o \in PC \/ m_hp[o] > 0
Sees(p, o) == o # p /\ can_see(pos[p], pos[o])

\* Players in the world and NPCs alive and asleep, nobody in the middle of
\* anything; the world has been quiet, so views and mirrors are right.
Init ==
    /\ Waiting
    /\ pos \in {f \in [Objects -> Tiles \ Obstacles] : \A n \in NPC : f[n] = m_origin[n]}
    /\ sectors = [s \in Sectors |-> {o \in Objects : sector_id(pos[o]) = s}]
    /\ clients = PC
    /\ playing = PC
    /\ visible = [p \in PC |-> {o \in Objects : Sees(p, o)}]
    /\ saves = [p \in PC |-> 0]
    /\ m_hp = [n \in NPC |-> MAX_HP]
    /\ m_active_npc = [n \in NPC |-> \E p \in PC : Sees(p, n)]
    /\ moves = [n \in NPC |-> IF m_active_npc[n] THEN 1 ELSE 0]
    /\ respawns = [n \in NPC |-> 0]
    /\ revived = {}
    /\ g_objs = [p \in PC |-> [o \in Objects |->
                    IF o \in visible[p] \cup {p} THEN pos[o] ELSE NONE]]

Known(o) == o \in NPC \/ o \in clients          \* get_object finds it
InGame(o) == o \in NPC \/ o \in playing         \* m_state = CS_PLAYING
can_send(p) == p \in clients
Around(t) == UNION {sectors[s] : s \in AdjacentSectors[t]}

Crossing(o, t, u) ==
    IF sector_id(t) = sector_id(u) THEN <<>>
    ELSE <<<<"leave", o, sector_id(t)>>, <<"enter", o, sector_id(u)>>>>

Leave(w) ==
    /\ Op(w, "leave")
    /\ sectors' = [sectors EXCEPT ![Arg(w, 2)] = @ \ {Arg(w, 1)}]
    /\ Then(w, <<>>)
    /\ UNCHANGED <<pos, visible, g_objs, players, npcs>>

Enter(w) ==
    /\ Op(w, "enter")
    /\ sectors' = [sectors EXCEPT ![Arg(w, 2)] = @ \cup {Arg(w, 1)}]
    /\ Then(w, <<>>)
    /\ UNCHANGED <<pos, visible, g_objs, players, npcs>>
-----------------------------------------------------------------------------
\* What the client of p does with S2C_ADD_PLAYER, S2C_REMOVE_PLAYER and
\* S2C_MOVE_PLAYER of object o.
Draw(p, o) == g_objs' = [g_objs EXCEPT ![p][o] = pos[o]]
Erase(p, o) == g_objs' = [g_objs EXCEPT ![p][o] = NONE]
Follow(p, o) == g_objs' = IF g_objs[p][o] = NONE THEN g_objs
                          ELSE [g_objs EXCEPT ![p][o] = pos[o]]

\* send_add_object: the critical section ...
SendAdd(w) ==
    /\ Op(w, "add")
    /\ LET p == Arg(w, 1)  o == Arg(w, 2) IN
          IF can_send(p) /\ Known(o) /\ InGame(o) /\ o \notin visible[p]
          THEN /\ visible' = [visible EXCEPT ![p] = @ \cup {o}]
               /\ Then(w, <<<<"put", p, o>>>>)
          ELSE Then(w, <<>>) /\ UNCHANGED visible
    /\ UNCHANGED <<pos, sectors, g_objs, players, npcs>>

\* ... and the packet, sent after the unlock.
PutAdd(w) ==
    /\ Op(w, "put")
    /\ Draw(Arg(w, 1), Arg(w, 2))
    /\ Then(w, <<>>)
    /\ UNCHANGED <<pos, sectors, visible, players, npcs>>

\* send_remove_object, in the same two steps.
SendRemove(w) ==
    /\ Op(w, "rem")
    /\ LET p == Arg(w, 1)  o == Arg(w, 2) IN
          IF can_send(p) /\ o \in visible[p]
          THEN /\ visible' = [visible EXCEPT ![p] = @ \ {o}]
               /\ Then(w, <<<<"del", p, o>>>>)
          ELSE Then(w, <<>>) /\ UNCHANGED visible
    /\ UNCHANGED <<pos, sectors, g_objs, players, npcs>>

PutRemove(w) ==
    /\ Op(w, "del")
    /\ Erase(Arg(w, 1), Arg(w, 2))
    /\ Then(w, <<>>)
    /\ UNCHANGED <<pos, sectors, visible, players, npcs>>

\* send_move_object.
SendMove(w) ==
    /\ Op(w, "mov")
    /\ LET p == Arg(w, 1)  o == Arg(w, 2) IN
          IF can_send(p) /\ Known(o) /\ InGame(o) THEN Follow(p, o) ELSE UNCHANGED g_objs
    /\ Then(w, <<>>)
    /\ UNCHANGED <<pos, sectors, visible, players, npcs>>

\* Mutant: wake_up without the compare_exchange.
WakeAlways(w) ==
    /\ Op(w, "wake")
    /\ moves' = [moves EXCEPT ![Arg(w, 1)] = @ + 1]
    /\ m_active_npc' = [m_active_npc EXCEPT ![Arg(w, 1)] = TRUE]
    /\ Then(w, <<>>)
    /\ UNCHANGED <<pos, sectors, visible, g_objs, m_hp, respawns, revived, players>>

\* CNPC::wake_up.
WakeUp(w) ==
    /\ Op(w, "wake")
    /\ LET n == Arg(w, 1) IN
          /\ moves' = [moves EXCEPT ![n] = IF m_active_npc[n] THEN @ ELSE @ + 1]
          /\ m_active_npc' = [m_active_npc EXCEPT ![n] = TRUE]
    /\ Then(w, <<>>)
    /\ UNCHANGED <<pos, sectors, visible, g_objs, m_hp, respawns, revived, players>>
-----------------------------------------------------------------------------
\* C2S_MOVE: do_move writes the position, then updates the sector and the
\* views.  The next receive of a session is posted after its handler.
Move(w, p) ==
    /\ p \in clients
    /\ \A v \in pool : job[v] # <<"recv", p>>
    /\ \E d \in DIRECTION :
          LET t == Neighbour(pos[p], d)
              u == IF is_obstacle(t) THEN pos[p] ELSE t
          IN /\ pos' = [pos EXCEPT ![p] = u]
             /\ Take(w, "recv", p, Crossing(p, pos[p], u) \o <<<<"view", p>>>>)
    /\ UNCHANGED <<sectors, visible, g_objs, players, npcs>>

\* update_player_view copies the old view ...
OldView(w) ==
    /\ Op(w, "view")
    /\ LET p == Arg(w, 1)
       IN Then(w, IF can_send(p) THEN <<<<"scan", p, visible[p]>>>> ELSE <<>>)
    /\ UNCHANGED <<pos, sectors, visible, g_objs, players, npcs>>

\* Mutant: the players who saw p before are not told that it moved.
TellNew(p, o, old) ==
    IF o \notin old
    THEN <<<<"add", p, o>>, IF o \in PC THEN <<"add", o, p>> ELSE <<"wake", o>>>>
    ELSE <<>>

\* What update_player_view does about an object o in the new view of p ...
Tell(p, o, old) ==
    IF o \notin old
    THEN <<<<"add", p, o>>, IF o \in PC THEN <<"add", o, p>> ELSE <<"wake", o>>>>
    ELSE IF o \in PC THEN <<<<"mov", o, p>>>> ELSE <<>>

\* ... and about one that is only in the old view.
Untell(p, o) == <<<<"rem", p, o>>>> \o (IF o \in PC THEN <<<<"rem", o, p>>>> ELSE <<>>)

\* ... then looks up the new one.
NewView(w) ==
    /\ Op(w, "scan")
    /\ LET p == Arg(w, 1)
           old == Arg(w, 2)
           new == {o \in Around(pos[p]) : Sees(p, o) /\ Known(o) /\ InGame(o)}
           Told(o) == Tell(p, o, old)
           Untold(o) == Untell(p, o)
       IN Then(w, <<<<"mov", p, p>>>> \o For(new, Told) \o For(old \ new, Untold))
    /\ UNCHANGED <<pos, sectors, visible, g_objs, players, npcs>>
-----------------------------------------------------------------------------
\* C2S_ATTACK copies the view and looks at each NPC in it.
Attack(w, p) ==
    /\ p \in clients
    /\ \A v \in pool : job[v] # <<"recv", p>>
    /\ \A n \in NPC : respawns[n] < MAX_RESPAWNS
    /\ LET Load(n) == <<<<"load", p, n>>>>
       IN Take(w, "recv", p, For(visible[p] \cap NPC, Load))
    /\ UNCHANGED <<pos, sectors, visible, g_objs, players, npcs>>

\* A NPC that is alive and next to the player is hit: m_hp is a plain short,
\* read ...
Hit(w) ==
    /\ Op(w, "load")
    /\ LET p == Arg(w, 1)  n == Arg(w, 2) IN
          \/ /\ Alive(n)
             /\ \E d \in DIRECTION : pos[n] = Neighbour(pos[p], d)
             /\ Then(w, <<<<"store", n, m_hp[n] - 1>>>>)
          \/ Then(w, <<>>)
    /\ UNCHANGED <<pos, sectors, visible, g_objs, players, npcs>>

\* ... and written: what another worker wrote in between is lost, a death too ...
Damage(w) ==
    /\ Op(w, "store")
    /\ LET n == Arg(w, 1)  hp == Arg(w, 2) IN
          /\ m_hp' = [m_hp EXCEPT ![n] = hp]
          /\ revived' = IF ~Alive(n) /\ hp > 0 THEN revived \cup {n} ELSE revived
          /\ Then(w, <<<<"check", n>>>>)
    /\ UNCHANGED <<pos, sectors, visible, g_objs, m_active_npc, moves, respawns,
                   players>>

\* ... and read again: npc_die removes a dead NPC from the views and its
\* sector, a living one is woken up to chase.
Judge(w) ==
    /\ Op(w, "check")
    /\ LET n == Arg(w, 1)
           Hide(p) == <<<<"rem", p, n>>>>
       IN Then(w, IF Alive(n) THEN <<<<"wake", n>>>>
                  ELSE For(Around(pos[n]) \cap clients, Hide)
                       \o <<<<"leave", n, sector_id(pos[n])>>, <<"bury", n>>>>)
    /\ UNCHANGED <<pos, sectors, visible, g_objs, players, npcs>>

\* Mutant: npc_die leaves the respawn to whoever finds the NPC active.
BuryActive(w) ==
    /\ Op(w, "bury")
    /\ LET n == Arg(w, 1) IN
          /\ respawns' = [respawns EXCEPT ![n] = IF m_active_npc[n] THEN @ + 1 ELSE @]
          /\ m_active_npc' = [m_active_npc EXCEPT ![n] = FALSE]
    /\ Then(w, <<>>)
    /\ UNCHANGED <<pos, sectors, visible, g_objs, m_hp, moves, revived, players>>

\* The end of npc_die.
Bury(w) ==
    /\ Op(w, "bury")
    /\ m_active_npc' = [m_active_npc EXCEPT ![Arg(w, 1)] = FALSE]
    /\ respawns' = [respawns EXCEPT ![Arg(w, 1)] = @ + 1]
    /\ Then(w, <<>>)
    /\ UNCHANGED <<pos, sectors, visible, g_objs, m_hp, moves, revived, players>>

\* process_npc_respawn.  It comes NPC_RESPAWN_TIME after the death: ticks and
\* fights from before are over.  When two workers have killed the NPC, the
\* second respawn meets a living NPC.
Respawn(w, n) ==
    /\ respawns[n] > 0
    /\ m_hp[n] <= 0 => /\ moves[n] = 0
                       /\ \A v \in pool : ~\E op \in Range(todo[v]) :
                            op[1] \in {"store", "check", "wake", "bury", "stay", "push", "sleep"}
    /\ respawns' = [respawns EXCEPT ![n] = @ - 1]
    /\ m_hp' = [m_hp EXCEPT ![n] = MAX_HP]
    /\ pos' = [pos EXCEPT ![n] = m_origin[n]]
    /\ Take(w, "respawn", n, <<<<"enter", n, sector_id(m_origin[n])>>, <<"greet", n>>>>)
    /\ UNCHANGED <<sectors, visible, g_objs, m_active_npc, moves, revived, players>>

Viewers(t) == {p \in Around(t) \cap clients : can_see(pos[p], t)}

\* The players around a respawned NPC are told, and it wakes up.
Greet(w) ==
    /\ Op(w, "greet")
    /\ LET n == Arg(w, 1)
           Show(p) == <<<<"add", p, n>>, <<"wake", n>>>>
       IN Then(w, For(Viewers(pos[n]), Show))
    /\ UNCHANGED <<pos, sectors, visible, g_objs, players, npcs>>
-----------------------------------------------------------------------------
\* process_npc_move: a dead NPC is left alone, another moves to any free tile
\* next to it or stays.
NpcTick(w, n) ==
    /\ moves[n] > 0
    /\ moves' = [moves EXCEPT ![n] = @ - 1]
    /\ IF ~Alive(n) THEN Take(w, "tick", n, <<>>) /\ UNCHANGED pos
       ELSE \/ Take(w, "tick", n, <<<<"stay", n>>>>) /\ UNCHANGED pos
            \/ \E d \in DIRECTION :
                  LET t == Neighbour(pos[n], d) IN
                  /\ ~is_obstacle(t)
                  /\ pos' = [pos EXCEPT ![n] = t]
                  /\ Take(w, "tick", n, <<<<"watch", n, pos[n]>>, <<"stay", n>>>>)
    /\ UNCHANGED <<sectors, visible, g_objs, m_hp, m_active_npc, respawns, revived,
                   players>>

\* update_viewers: who saw the NPC at its old tile ...
OldViewers(w) ==
    /\ Op(w, "watch")
    /\ LET n == Arg(w, 1)  t == Arg(w, 2)
       IN Then(w, Crossing(n, t, pos[n]) \o <<<<"seen", n, Viewers(t)>>>>)
    /\ UNCHANGED <<pos, sectors, visible, g_objs, players, npcs>>

\* ... and who sees it now.
NewViewers(w) ==
    /\ Op(w, "seen")
    /\ LET n == Arg(w, 1)
           new == Viewers(pos[n])
           See(p) == <<<<"see", p, n>>>>
           Lose(p) == <<<<"rem", p, n>>>>
       IN Then(w, For(new, See) \o For(Arg(w, 2) \ new, Lose))
    /\ UNCHANGED <<pos, sectors, visible, g_objs, players, npcs>>

\* already_visible, read in a critical section of its own.
AlreadyVisible(w) ==
    /\ Op(w, "see")
    /\ LET p == Arg(w, 1)  n == Arg(w, 2)
       IN Then(w, <<IF n \in visible[p] THEN <<"mov", p, n>> ELSE <<"add", p, n>>>>)
    /\ UNCHANGED <<pos, sectors, visible, g_objs, players, npcs>>

\* The end of process_npc_move: has_nearby is found out first ...
HasNearby(w) ==
    /\ Op(w, "stay")
    /\ LET n == Arg(w, 1)
       IN Then(w, <<IF Viewers(pos[n]) # {} THEN <<"push", n>> ELSE <<"sleep", n>>>>)
    /\ UNCHANGED <<pos, sectors, visible, g_objs, players, npcs>>

\* ... and acted upon.
PushMove(w) ==
    /\ Op(w, "push")
    /\ moves' = [moves EXCEPT ![Arg(w, 1)] = @ + 1]
    /\ Then(w, <<>>)
    /\ UNCHANGED <<pos, sectors, visible, g_objs, m_hp, m_active_npc, respawns, revived,
                   players>>

FallAsleep(w) ==
    /\ Op(w, "sleep")
    /\ m_active_npc' = [m_active_npc EXCEPT ![Arg(w, 1)] = FALSE]
    /\ Then(w, <<>>)
    /\ UNCHANGED <<pos, sectors, visible, g_objs, m_hp, moves, respawns, revived, players>>
-----------------------------------------------------------------------------
\* The receive or a send of p failed: disconnect, up to the save.
Disconnect(w, p) ==
    /\ p \in clients
    /\ saves' = [saves EXCEPT ![p] = IF p \in playing THEN @ + 1 ELSE @]
    /\ Take(w, "drop", p, <<<<"logout", p>>, <<"hide", p>>>>)
    /\ UNCHANGED <<pos, sectors, visible, g_objs, clients, playing, npcs>>

Logout(w) ==
    /\ Op(w, "logout")
    /\ LET p == Arg(w, 1) IN
          /\ playing' = playing \ {p}
          /\ Then(w, <<<<"leave", p, sector_id(pos[p])>>>>)
    /\ UNCHANGED <<pos, sectors, visible, g_objs, clients, saves, npcs>>

\* Mutant: the view is thrown away before it is copied.
ForgetView(w) ==
    /\ Op(w, "hide")
    /\ visible' = [visible EXCEPT ![Arg(w, 1)] = {}]
    /\ Then(w, <<<<"close", Arg(w, 1)>>>>)
    /\ UNCHANGED <<pos, sectors, g_objs, players, npcs>>

HideFromOthers(w) ==
    /\ Op(w, "hide")
    /\ LET p == Arg(w, 1)
           Lose(q) == <<<<"rem", q, p>>>>
       IN /\ visible' = [visible EXCEPT ![p] = {}]
          /\ Then(w, For(visible[p] \cap PC, Lose) \o <<<<"close", p>>>>)
    /\ UNCHANGED <<pos, sectors, g_objs, players, npcs>>

\* The socket is closed and the entry of clients cleared.
CloseSession(w) ==
    /\ Op(w, "close")
    /\ clients' = clients \ {Arg(w, 1)}
    /\ Then(w, <<>>)
    /\ UNCHANGED <<pos, sectors, visible, g_objs, playing, saves, npcs>>

Next == \E w \in Workers :
    \/ \E p \in PC : Move(w, p) \/ Attack(w, p) \/ Disconnect(w, p)
    \/ \E n \in NPC : NpcTick(w, n) \/ Respawn(w, n)
    \/ Leave(w) \/ Enter(w)
    \/ SendAdd(w) \/ PutAdd(w) \/ SendRemove(w) \/ PutRemove(w) \/ SendMove(w) \/ WakeUp(w)
    \/ OldView(w) \/ NewView(w)
    \/ Hit(w) \/ Damage(w) \/ Judge(w) \/ Bury(w) \/ Greet(w)
    \/ OldViewers(w) \/ NewViewers(w) \/ AlreadyVisible(w)
    \/ HasNearby(w) \/ PushMove(w) \/ FallAsleep(w)
    \/ Logout(w) \/ HideFromOthers(w) \/ CloseSession(w)

Spec == Init /\ [][Next]_vars
-----------------------------------------------------------------------------
\* Whenever no handler runs, every client draws itself and exactly the
\* players and living NPCs in its view, each at its tile.
MirrorExact ==
    Quiet => \A p \in clients, o \in Objects :
        g_objs[p][o] = IF o = p \/ (Sees(p, o) /\ Known(o) /\ Alive(o))
                       THEN pos[o] ELSE NONE

\* With one worker the mirror is exact: what two handlers send about a pair
\* of objects fits together.
SerialMirror == Cardinality(pool) = 1 => MirrorExact

\* With one worker a player that has left was saved once, however often its
\* disconnect was asked for, and is in no sector and in nobody's view.
SerialGone ==
    Cardinality(pool) = 1 /\ Quiet =>
        \A p \in PC \ clients :
            /\ saves[p] = 1
            /\ \A s \in Sectors : p \notin sectors[s]
            /\ \A q \in clients : p \notin visible[q]

\* Ticks of n that are pending or being handled.
Ticking(n) == moves[n] + Cardinality({w \in pool : job[w] = <<"tick", n>>})

\* However many workers wake, hit, kill and respawn a NPC at once, it never
\* has two ticks while it lives, so it never moves at double speed, unless a
\* hit overwrote its death: npc_die has put such a NPC to sleep although it
\* has a tick.
OneTick == \A n \in NPC \ revived : Alive(n) => Ticking(n) <= 1

\* A NPC killed by whichever worker comes back: while it is dead its respawn
\* is pending or somebody is about to make it so.
DeadReturns ==
    \A n \in NPC : ~Alive(n) =>
        \/ respawns[n] > 0
        \/ \E w \in pool, op \in {<<"check", n>>, <<"bury", n>>} : op \in Range(todo[w])
=============================================================================
