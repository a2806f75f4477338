------------------------------- MODULE Loot -------------------------------
(***************************************************************************)
(* What players gain and lose: items dropped by NPCs, picked up, used and  *)
(* given as rewards, experience and levels, quests, their rows in the      *)
(* database, and what the client shows of them.                            *)
(*                                                                         *)
(* All NPCs die on one tile; a player stands on it, near it (in the         *)
(* adjacent sectors, which broadcasts reach) or far away.  World items are *)
(* potions, the reward of the quest is a boost.                            *)
(***************************************************************************)
EXTENDS Handlers, FiniteSetsExt

CONSTANTS
    PC,           \* players
    Heroes,       \* those of them that do more than walk about
    EXP_BASE,     \* experience needed at level 1 (100)
    KILL_XP,      \* xp_gain of a kill
    TARGET,       \* kills that complete the quest
    REWARD_XP,    \* experience for completing it
    MAX_ITEMS,    \* bound on the items dropped
    MAX_EARNED,   \* bound: no kills by a player who has earned as much
    MAX_DEATHS    \* bound on the deaths of a player

Kinds == {"recv", "tick", "drop"}     \* of handlers

ASSUME LootAssumption ==
    /\ {EXP_BASE, KILL_XP, TARGET} \subseteq Nat \ {0}
    /\ {REWARD_XP, MAX_ITEMS, MAX_EARNED, MAX_DEATHS} \subseteq Nat
    /\ IsFiniteSet(PC) /\ Heroes \subseteq PC
    /\ NONE \notin Kinds \X PC

Items == 0 .. MAX_ITEMS - 1
Slots == {"potion", "boost"}

VARIABLES
    g_next_item_id,
    active,      \* world items with active = true
    place,       \* "on", "near" or "far"
    ingame,      \* players in the game
    hurt,        \* players with m_hp < m_max_hp
    me,          \* the session: [inv, kills, level, xp]
    row,         \* the database: the same record per player
    shown,       \* the client: the same record
    shownItems,  \* the client: g_world_items_cl
    picked,      \* history: how often each item was picked up
    used,        \* history: items used, per slot
    past,        \* history per player: [kills, deaths, rewards, earned, lost]
    strayed      \* history: players who were far away since they logged in

vars == <<handlers, g_next_item_id, active, place, ingame, hurt, me, row,
          shown, shownItems, picked, used, past, strayed>>

world == <<g_next_item_id, active, picked>>
where == <<place, strayed, ingame>>
client == <<shown, shownItems>>
-----------------------------------------------------------------------------
Fresh == [inv |-> [s \in Slots |-> 0], kills |-> 0, level |-> 1, xp |-> 0]

Init ==
    /\ Waiting
    /\ g_next_item_id = 0
    /\ active = {}
    /\ place = [p \in PC |-> "near"]
    /\ ingame = PC
    /\ hurt = {}
    /\ me = [p \in PC |-> Fresh]
    /\ row = [p \in PC |-> Fresh]
    /\ shown = [p \in PC |-> Fresh]
    /\ shownItems = [p \in PC |-> {}]
    /\ picked = [i \in Items |-> 0]
    /\ used = [s \in Slots |-> 0]
    /\ past = [p \in PC |-> [kills |-> 0, deaths |-> 0, rewards |-> 0, earned |-> 0,
                             lost |-> 0]]
    /\ strayed = {}

Alone(kind, p) == \A v \in pool : job[v] # <<kind, p>>

Near == {p \in ingame : place[p] # "far"}
-----------------------------------------------------------------------------
\* The packets still to be sent.
Stat(p) == <<"stat", p>>
ItemAdd(p, s) == <<"item_add", p, s>>
QuestUpdate(p) == <<"quest_update", p>>

\* What handle_packet of the client of p does with S2C_STAT_INFO and
\* S2C_AVATAR_INFO, S2C_ITEM_ADD, S2C_QUEST_UPDATE, S2C_ITEM_APPEAR and
\* S2C_ITEM_REMOVE.
OnStat(p, r) == shown' = [shown EXCEPT ![p].level = r.level, ![p].xp = r.xp]
OnItemAdd(p, s, count) == shown' = [shown EXCEPT ![p].inv[s] = count]
OnQuestUpdate(p, current) == shown' = [shown EXCEPT ![p].kills = current]
OnItemAppear(p, i) == shownItems' = [shownItems EXCEPT ![p] = @ \cup {i}]
OnItemRemove(p, i) == shownItems' = [shownItems EXCEPT ![p] = @ \ {i}]

\* The server sends them, if the session has a socket.
SendStat(w) ==
    /\ Op(w, "stat")
    /\ LET p == Arg(w, 1)
       IN IF p \in ingame THEN OnStat(p, me[p]) ELSE UNCHANGED shown
    /\ Then(w, <<>>)
    /\ UNCHANGED <<world, where, hurt, me, row, shownItems, used, past>>

SendItemAdd(w) ==
    /\ Op(w, "item_add")
    /\ LET p == Arg(w, 1)  s == Arg(w, 2)
       IN IF p \in ingame THEN OnItemAdd(p, s, me[p].inv[s]) ELSE UNCHANGED shown
    /\ Then(w, <<>>)
    /\ UNCHANGED <<world, where, hurt, me, row, shownItems, used, past>>

SendQuestUpdate(w) ==
    /\ Op(w, "quest_update")
    /\ LET p == Arg(w, 1)
       IN IF p \in ingame THEN OnQuestUpdate(p, me[p].kills) ELSE UNCHANGED shown
    /\ Then(w, <<>>)
    /\ UNCHANGED <<world, where, hurt, me, row, shownItems, used, past>>

SendItemAppear(w) ==
    /\ Op(w, "appear")
    /\ IF Arg(w, 1) \in ingame THEN OnItemAppear(Arg(w, 1), Arg(w, 2))
                               ELSE UNCHANGED shownItems
    /\ Then(w, <<>>)
    /\ UNCHANGED <<world, where, hurt, me, row, shown, used, past>>

SendItemRemove(w) ==
    /\ Op(w, "vanish")
    /\ IF Arg(w, 1) \in ingame THEN OnItemRemove(Arg(w, 1), Arg(w, 2))
                               ELSE UNCHANGED shownItems
    /\ Then(w, <<>>)
    /\ UNCHANGED <<world, where, hurt, me, row, shown, used, past>>
-----------------------------------------------------------------------------
\* A hit of C2S_ATTACK, C2S_SKILL or C2S_RANGED_ATTACK kills a NPC, which may
\* drop an item: npc_die, the experience, the quest, if it is one of a kind
\* that counts, and what the client is told.
Kill(w, p) ==
    /\ p \in Near \cap Heroes
    /\ Alone("recv", p)
    /\ past[p].earned < MAX_EARNED
    /\ \E drop, counts \in BOOLEAN :
          Take(w, "recv", p,
               (IF drop THEN <<<<"spawn">>>> ELSE <<>>)
               \o <<<<"read", p, KILL_XP>>>>
               \o (IF counts THEN <<<<"quest", p>>>> ELSE <<>>)
               \o <<Stat(p)>>)
    /\ UNCHANGED <<world, where, hurt, me, row, client, used, past>>

\* spawn_item, up to the broadcast (nothing is dropped at the bound).
SpawnItem(w) ==
    /\ Op(w, "spawn")
    /\ IF g_next_item_id = MAX_ITEMS THEN Then(w, <<>>) /\ UNCHANGED <<g_next_item_id, active>>
       ELSE /\ g_next_item_id' = g_next_item_id + 1
            /\ active' = active \cup {g_next_item_id}
            /\ LET Appear(p) == <<<<"appear", p, g_next_item_id>>>>
               IN Then(w, For(Near, Appear))
    /\ UNCHANGED <<picked, where, hurt, me, row, client, used, past>>

exp_for_next_level(l) == EXP_BASE * 2 ^ (l - 1)

\* The loop that follows every m_xp += : <<m_level, m_xp>> after it.
LevelUp[lx \in (Nat \ {0}) \X Nat] ==
    IF lx[2] >= exp_for_next_level(lx[1])
    THEN LevelUp[<<lx[1] + 1, lx[2] - exp_for_next_level(lx[1])>>]
    ELSE lx

\* Mutant: one level at most for each gain.
LevelledOnce(l, x) == IF x >= exp_for_next_level(l) THEN <<l + 1, x - exp_for_next_level(l)>>
                                                    ELSE <<l, x>>
Levelled(l, x) == LevelUp[<<l, x>>]

\* m_xp is a plain int, read ...
ReadXp(w) ==
    /\ Op(w, "read")
    /\ Then(w, <<<<"write", Arg(w, 1), Arg(w, 2), me[Arg(w, 1)].xp + Arg(w, 2)>>>>)
    /\ UNCHANGED <<world, where, hurt, me, row, client, used, past>>

\* ... and written back; gaining experience also cures.
WriteXp(w) ==
    /\ Op(w, "write")
    /\ LET p == Arg(w, 1)
           lx == Levelled(me[p].level, Arg(w, 3))
       IN /\ me' = [me EXCEPT ![p].level = lx[1], ![p].xp = lx[2]]
          /\ hurt' = hurt \ {p}
          /\ past' = [past EXCEPT ![p].earned = @ + Arg(w, 2)]
    /\ Then(w, <<>>)
    /\ UNCHANGED <<world, where, row, client, used>>

\* process_quest_kill.
ProcessQuestKill(w) ==
    /\ Op(w, "quest")
    /\ LET p == Arg(w, 1)
           k == me[p].kills + 1
       IN /\ me' = [me EXCEPT ![p].kills = IF k >= TARGET THEN 0 ELSE k]
          /\ past' = [past EXCEPT ![p].kills = @ + 1]
          /\ Then(w, (IF k >= TARGET
                      THEN <<<<"read", p, REWARD_XP>>, <<"gift", p>>, Stat(p)>>
                      ELSE <<>>) \o <<QuestUpdate(p)>>)
    /\ UNCHANGED <<world, where, hurt, row, client, used>>

Gift(w) ==
    /\ Op(w, "gift")
    /\ LET p == Arg(w, 1) IN
          /\ me' = [me EXCEPT ![p].inv["boost"] = @ + 1]
          /\ past' = [past EXCEPT ![p].rewards = @ + 1]
          /\ Then(w, <<ItemAdd(p, "boost")>>)
    /\ UNCHANGED <<world, where, hurt, row, client, used>>
-----------------------------------------------------------------------------
\* C2S_MOVE: do_move looks for items on the tile it has reached.
Move(w, p) ==
    /\ p \in ingame
    /\ Alone("recv", p)
    /\ \E t \in {"on", "near", "far"} \ {place[p]} :
          /\ place' = [place EXCEPT ![p] = t]
          /\ strayed' = IF t = "far" THEN strayed \cup {p} ELSE strayed
          /\ LET PickUp(i) == <<<<"pick", p, i>>>>
             IN Take(w, "recv", p, IF t = "on" THEN For(active, PickUp) ELSE <<>>)
    /\ UNCHANGED <<world, ingame, hurt, me, row, client, used, past>>

\* Mutant: active is tested and cleared, but not in one step with the rest.
PickStale(w) ==
    /\ Op(w, "pick")
    /\ active' = active \ {Arg(w, 2)}
    /\ picked' = [picked EXCEPT ![Arg(w, 2)] = @ + 1]
    /\ Then(w, <<<<"got", Arg(w, 1), Arg(w, 2)>>>>)
    /\ UNCHANGED <<g_next_item_id, where, hurt, me, row, client, used, past>>

\* The compare_exchange on active decides who gets the item.
PickUpItem(w) ==
    /\ Op(w, "pick")
    /\ LET p == Arg(w, 1)  i == Arg(w, 2) IN
          IF i \in active
          THEN /\ active' = active \ {i}
               /\ picked' = [picked EXCEPT ![i] = @ + 1]
               /\ Then(w, <<<<"got", p, i>>>>)
          ELSE Then(w, <<>>) /\ UNCHANGED <<active, picked>>
    /\ UNCHANGED <<g_next_item_id, where, hurt, me, row, client, used, past>>

\* Mutant: only the finder is told that the item is gone.
Witnesses(p) == {p}
\* broadcast_item_remove reaches the players around the item.
Audience(p) == Near

\* The rest of the pick-up: m_inventory, broadcast_item_remove, send_item_add.
Got(w) ==
    /\ Op(w, "got")
    /\ LET p == Arg(w, 1)  i == Arg(w, 2)
           Vanish(q) == <<<<"vanish", q, i>>>>
       IN /\ me' = [me EXCEPT ![p].inv["potion"] = @ + 1]
          /\ Then(w, For(Audience(p), Vanish) \o <<ItemAdd(p, "potion")>>)
    /\ UNCHANGED <<world, where, hurt, row, client, used, past>>

\* C2S_USE_ITEM: a potion is only used when it cures something.
UseItem(w, p, s) ==
    /\ p \in ingame
    /\ Alone("recv", p)
    /\ me[p].inv[s] > 0
    /\ p \in hurt \/ s = "boost"
    /\ me' = [me EXCEPT ![p].inv[s] = @ - 1]
    /\ \E cured \in IF s = "potion" THEN BOOLEAN ELSE {FALSE} :
          hurt' = IF cured THEN hurt \ {p} ELSE hurt
    /\ used' = [used EXCEPT ![s] = @ + 1]
    /\ Take(w, "recv", p, <<Stat(p), ItemAdd(p, s)>>)
    /\ UNCHANGED <<world, where, row, client, past>>

\* A NPC hits p: a wound ...
Wound(w, p) ==
    /\ p \in (ingame \cap Heroes) \ hurt
    /\ hurt' = hurt \cup {p}
    /\ Take(w, "tick", p, <<Stat(p)>>)
    /\ UNCHANGED <<world, where, me, row, client, used, past>>

\* ... or death: half of the experience, read ...
Die(w, p) ==
    /\ p \in ingame \cap Heroes
    /\ past[p].deaths < MAX_DEATHS
    /\ Take(w, "tick", p, <<<<"halve", p, me[p].xp>>, Stat(p)>>)
    /\ UNCHANGED <<world, where, hurt, me, row, client, used, past>>

\* ... and written back; the player returns to the spawn point.
Halve(w) ==
    /\ Op(w, "halve")
    /\ LET p == Arg(w, 1)  x == Arg(w, 2) IN
          /\ me' = [me EXCEPT ![p].xp = x \div 2]
          /\ past' = [past EXCEPT ![p].deaths = @ + 1, ![p].lost = @ + x - x \div 2]
          /\ hurt' = hurt \ {p}
          /\ place' = [place EXCEPT ![p] = "far"]
          /\ strayed' = strayed \cup {p}
    /\ Then(w, <<>>)
    /\ UNCHANGED <<world, ingame, row, client, used>>
-----------------------------------------------------------------------------
\* disconnect saves what the session holds (the database accepts it).
Disconnect(w, p) ==
    /\ p \in ingame \cap Heroes
    /\ ingame' = ingame \ {p}
    /\ row' = [row EXCEPT ![p] = me[p]]
    /\ Take(w, "drop", p, <<>>)
    /\ UNCHANGED <<world, place, strayed, hurt, me, client, used, past>>

\* Mutants: the kill counts, or the items, are left as the constructor set them.
RestoredWithoutQuests(r) == [r EXCEPT !.kills = 0]
RestoredWithoutItems(r) == [r EXCEPT !.inv = Fresh.inv]
\* What IO_DB_LOGIN takes from the row.
Restored(r) == r

\* IO_DB_LOGIN of a client that has just been started.
Login(w, p) ==
    /\ p \notin ingame
    /\ Alone("recv", p) /\ Alone("tick", p)
    /\ ingame' = ingame \cup {p}
    /\ me' = [me EXCEPT ![p] = Restored(row[p])]
    /\ hurt' \in {hurt \cup {p}, hurt \ {p}}
    /\ \E t \in {"on", "near", "far"} :
          /\ place' = [place EXCEPT ![p] = t]
          /\ strayed' = IF t = "far" THEN strayed \cup {p} ELSE strayed \ {p}
    /\ shown' = [shown EXCEPT ![p] = Fresh]
    /\ shownItems' = [shownItems EXCEPT ![p] = {}]
    /\ LET Add(s) == <<ItemAdd(p, s)>>
           List(i) == <<<<"list", p, i>>>>
       IN Take(w, "recv", p,
               <<Stat(p)>> \o For({s \in Slots : row[p].inv[s] > 0}, Add)
               \o For(active, List) \o <<QuestUpdate(p)>>)
    /\ UNCHANGED <<world, row, used, past>>

\* send_all_world_items: active is tested, then the packet is sent.
ListItem(w) ==
    /\ Op(w, "list")
    /\ Then(w, IF Arg(w, 2) \in active THEN <<<<"appear", Arg(w, 1), Arg(w, 2)>>>> ELSE <<>>)
    /\ UNCHANGED <<world, where, hurt, me, row, client, used, past>>

Next == \E w \in Workers :
    \/ \E p \in PC : \/ Kill(w, p) \/ Move(w, p) \/ Wound(w, p) \/ Die(w, p)
                     \/ Disconnect(w, p) \/ Login(w, p)
                     \/ \E s \in Slots : UseItem(w, p, s)
    \/ SendStat(w) \/ SendItemAdd(w) \/ SendQuestUpdate(w) \/ SendItemAppear(w)
    \/ SendItemRemove(w) \/ SpawnItem(w) \/ ReadXp(w) \/ WriteXp(w) \/ ProcessQuestKill(w)
    \/ Gift(w) \/ PickUpItem(w) \/ Got(w) \/ Halve(w) \/ ListItem(w)

Spec == Init /\ [][Next]_vars
-----------------------------------------------------------------------------
Settled == Cardinality(pool) = 1 /\ Quiet

\* However many players step on an item at once, one of them gets it, once.
OnePicker == \A i \in Items : picked[i] <= 1

Held(p) == IF p \in ingame THEN me[p] ELSE row[p]
HeldBy(s) == SumFunction([p \in PC |-> Held(p).inv[s]])

\* With one worker nothing is lost or made from nothing, through pick-ups,
\* rewards, use, logouts and logins: every item dropped lies in the world, is
\* held by a player or its row, or was used, and the same goes for rewards.
Conserved ==
    Settled =>
        /\ g_next_item_id = Cardinality(active) + HeldBy("potion") + used["potion"]
        /\ SumFunction([p \in PC |-> past[p].rewards]) = HeldBy("boost") + used["boost"]

\* With one worker the client of a player shows the inventory, the level, the
\* experience and the quest of its session, and, if the player has not been
\* far away, exactly the items that lie in the world.
ClientKnows ==
    Settled => \A p \in ingame : /\ shown[p] = me[p]
                                 /\ p \notin strayed => shownItems[p] = active

\* Every TARGET kills are rewarded once, also across logouts.
QuestExact ==
    Settled => \A p \in PC :
        past[p].kills = past[p].rewards * TARGET + Held(p).kills

\* Levels cost what exp_for_next_level says and experience goes nowhere else
\* than into levels and half of it into each death; what is left is less than
\* the next level costs.
XpAccounts ==
    Settled => \A p \in PC :
        LET h == Held(p)
        IN /\ past[p].earned = EXP_BASE * (2 ^ (h.level - 1) - 1) + h.xp + past[p].lost
           /\ h.xp < exp_for_next_level(h.level)
=============================================================================
