# Game server verification

TLA+ models, TLC runs and TLAPS proofs for the IOCP game server under
`src/GameServer_2021184018/SERVER` (C++, Windows) and for the way its client
and its stress test talk to it. Paths below are relative to that directory
unless they start with `src/`.

## 1. The system

One process. A completion port (`g_iocp`) is served by one worker thread per
core (`worker_thread`); a timer thread turns due events of a priority queue
into completions; a database thread serves a queue of logins and saves over
ODBC. Players are `SESSION`s, monsters are `CNPC`s, both are `CObject`s in the
concurrent map `clients`. The world is 2000 x 2000 tiles cut into sectors of
11 x 11, with up to 10,000 players and 200,000 NPCs.

| Component | State | Operations | Talks to |
|---|---|---|---|
| Sector index (`sector.h`) | a set of ids per sector, one mutex each | add, remove, update, lookup of the 3 x 3 sectors around a tile | called by every handler that moves something |
| Visibility (`network.cpp` `update_player_view`, `npc.cpp` `update_viewers`) | `m_visible_objects` of each player | ADD and REMOVE packets to both ends of a pair, waking NPCs | sector index, send path, NPCs |
| NPC behaviour (`npc.cpp`, `NPC.h`) | `m_move_state`, `m_target_id`, `m_active_npc`, hit points | tick: roam, detect, chase, attack (boss phases, area attack), sleep; wake-up; death; respawn | timer, sector index, visibility, players |
| Combat (`session.cpp`) | hit points, level | attack arc, skill, ranged attack, potions | NPCs, send path |
| Timer (`timer_thread`) | `timer_queue` | posts NPC_MOVE, NPC_RESPAWN and HP_REGEN when due | completion port |
| HP regeneration (`process_hp_regen`) | one self-renewing event per player | heal, requeue | timer |
| Send path (`session.cpp` 5-101) | `m_send_queue`, `m_send_pending` | `do_send` by any thread, batching, partial completions, failure | WSASend, disconnect |
| Session life cycle (`network.cpp`) | `clients`, `player_index`, `m_state` | accept, login, disconnect | database thread, sector index |
| Database thread (`db.cpp`) | `db_queue`, the rows | login or create, save | completion port |
| Receive framing (`IO_RECV`) | the rest of a packet in the buffer | cut the stream into packets | `process_packet` |
| Path finding (`astar.h`) | none | `astar_next_step`, a bounded A* | NPC behaviour |
| World items, inventory (`session.cpp`) | `g_world_items`, `m_inventory` | drop, pick up by compare-exchange, use | combat, send path, rows |
| Experience, quests (`session.cpp`, `session.h`) | `m_xp`, `m_level`, `m_quests` | gain, level up, quest rewards | combat |
| Map loading, server start (`lua_manager.cpp`, `GameServer.cpp`, `InitializeNPC`) | `g_obstacle_map`, `obstacles.bin`, the first NPCs | read the script, write the file, place the NPCs, accept | the client, through the file |
| Chat, wire protocol | - | broadcast; packet layouts | - |
| Client (`src/CLIENT`) | a mirror of objects, items, progress and obstacles | requests, receiving thread, display | the server |
| Stress test (`src/STRESS_TEST`) | bots, their number, the delay they measure | connect, close, move, count | the server |

What is hard here, and hard to test:

* every handler may run on any worker, so two packets, a tick and a
  disconnect that concern the same object interleave; fields of players and
  NPCs are read and written without a lock;
* three structures must agree without a common lock: positions, the sector
  index and the views of all players;
* an NPC lives on a single timer event, renewed by its own tick, handed over
  by a compare-exchange on `m_active_npc`;
* the queue of a session is drained by whichever thread found it idle, and
  the responsibility is handed on by `m_send_pending`;
* sends complete partly or fail, connections break at any moment, sessions
  end while the database still works for them.

`PROJECT.json` lists the hazards at their lines, with the properties that
would catch them.

What makes each component correct, in a sentence: the index and the views are
exactly what positions say (`SectorExact`, `ViewExact`); an NPC has the events
its state calls for, no more and no fewer (`MoveToken`, `RespawnToken`), is
awake when seen and comes back when killed; the client gets a prefix of the
bytes accepted for it (`ImplementsPipe`), and all of them while the connection
lasts; a session that ends is saved, leaves no trace and its progress is
there at the next login; the packet handlers get the packets that were sent
(`ImplementsStream`); the screen of a client shows what the server holds
(`SerialMirror`, `ClientKnows`, `MapAgrees`); items, kills and experience are
neither lost nor made up (`Conserved`, `QuestExact`, `XpAccounts`); a chasing
NPC takes a shortest way (`ShortestStep`); the stress test never takes itself
for less than it is (`NeverUndercounts`).

## 2. Modules

| Module | Models | Used by |
|---|---|---|
| `SectorGrid` | tiles, sectors, adjacency, view distance, obstacles, steps (`globals.h`, `sector.h`, `Object.h`) | `GameWorld`, `ViewRace`, `Astar` |
| `GameWorld` | sector index, views, NPC behaviour, combat, timer, regeneration (`npc.cpp`, `network.cpp`, `session.cpp`) | `MCGameWorld`, `GameWorldProofs` |
| `Handlers` | the workers of the completion port, for the modules that cut handlers where they touch shared state | `ViewRace`, `Loot` |
| `ViewRace` | moves, hits, ticks, respawns and disconnects cut at every lock, shared field, atomic and send; the client's mirror (`src/CLIENT`) | `MCViewRace`, `ViewRaceProofs` |
| `Loot` | items, inventory, experience, quests, rows; what the client shows of them | the run `loot`, `LootProofs` |
| `BytePipe` | abstract: what the send path promises | `SendQueue` (`ImplementsPipe`) |
| `SendQueue` | the send path of one session, several threads (`session.cpp`) | `MCSendQueue`, `SendQueueProofs` |
| `PacketStream` | abstract: what a reader promises its packet handler | `Framing` (`ImplementsStream`) |
| `Framing` | the receiving side of the server, the client and the bots | `MCFraming`, `FramingProofs` |
| `SessionLife` | accept, login, disconnect, database thread (`network.cpp`, `db.cpp`) | `MCSessionLife`, `SessionLifeProofs` |
| `StressBot` | the bots of the stress test and their number (`NetworkModule.cpp`) | the run `bots`, `StressBotProofs` |
| `Astar` | `astar_next_step` (`astar.h`), round by round | `WorldSetup`, `WorldSetupProofs` |
| `WorldSetup` | start of the server, map script, `obstacles.bin`, placing of the NPCs, the client's map | `MCWorldSetup`, `WorldSetupProofs` |
| `GameWorldProofs`, `SendQueueProofs`, `FramingProofs`, `SessionLifeProofs`, `StressBotProofs`, `ViewRaceProofs`, `LootProofs`, `WorldSetupProofs` | theorems | - |
| `MC...` | instances for TLC | the runs |

The two refinements are instances with a mapping of every variable:
`Pipe == INSTANCE BytePipe WITH ...` in `SendQueue` and
`Stream == INSTANCE PacketStream WITH ...` in `Framing`. Together they carry a
packet from `do_send` on one side to the packet handler on the other, which is
why `ViewRace` and `Loot` may treat a send as the client's handling of it.

An operator marked `Mutant:` in front of a definition is a plausible mistake in
that definition (a dropped guard, a missing reset). The specification never
uses it; replacing the definition by it makes the property named in
`PROJECT.json` fail, which shows that the property depends on that code.

### GameWorld

State: `m_state`, `m_level`, `m_hp` and `pos` are the fields of the objects;
`sectors` and `visible` the two indexes; `active`, `move_state`, `target` the
NPC's `m_active_npc`, `m_move_state`, `m_target_id`; `move_ev`, `respawn_ev`
and `regen_ev` hold, per object, how many events of the timer queue are due in
how many ticks, an event that the timer has posted but no worker has taken
included (0 ticks). `worker` is the handler in progress.

There is one action per handler, and one per iteration where a handler loops
over victims (`HitNpc`, `AreaHit`), repeats a move (`SecondMove`) or ends in
`process_npc_move`'s rescheduling (`KeepMoving`, `FallAsleep`), because these
iterations read what the previous one wrote. While one handler is between its
steps no other starts: the module is the server with a single worker. That is
the behaviour the code is written for, and the one in which all its invariants
hold; what two workers do to the same object is the subject of `ViewRace`.

Abstractions:

* Experience is not kept: a kill may raise the level to any level up to
  `MAX_LEVEL`, which includes what `exp_for_next_level` and quest rewards do
  (`Loot` has the exact rules).
* Cooldowns of attacks are dropped (an attack is possible at any time), boosts
  are a nondeterministic choice at the hit, the direction an attack uses is
  any direction. Each permits more than the code does.
* `astar_next_step` may return any free neighbouring tile or no step, a
  superset of what A* returns (`Astar` is the algorithm itself); inventories
  are left out, so a potion is always at hand.
* A player logs in at any tile of `LoginTiles` with any level and hit points a
  row may hold; its session is used once, as an id is.
* Attacks and moves are sent by playing clients only. The server does not test
  the state for C2S_MOVE and C2S_ATTACK; the client
  (`src/CLIENT/client/client.cpp` 255-260) and the bots send them only after
  the login is answered.
* Time advances by ticks, and only when everything due has been handled, so
  that the order of two events depends on their delays. A real server under
  overload may handle a tick later than that; the proofs say which inequality
  between delays is needed (section 5).

### SendQueue

`DoSend`, `StartNextSend`, `PostSend`, `FailSend`, `Completion`, `Disconnect`,
`CloseSocket` and `Unregister` are the critical sections and calls of
`do_send`, `start_next_send`, `post_send`, `fail_send`, `on_send_complete` and
`disconnect`; `pc[w]` says where worker `w` is, and any number of workers
interleave between them. Bytes are positions in the stream of accepted bytes:
a chunk of a buffer is an interval, so a gap, a repetition or a wrong resume
offset shows as a mismatch of positions. The kernel (external) completes a
send wholly, partly or with an error; a connection may break at any time and
stays broken. `TransientFailure` lets WSASend also fail on a connection that
works.

### SessionLife

Each step of `worker_thread`, `process_packet` (C2S_LOGIN), `disconnect` and
`db_thread` that touches state another thread can see is an action; `job[w]`
is where worker `w` stands. The completion port and the database queue are
sequences. What a player gains is one number, `progress`; `gained` records
what the account really achieved and is compared with what a login loads.
Clients connect, log in, play and close; a client that reconnects has closed
its old connection, and its end reaches the server before the new connection
does. When a player's connection closes, a send that is under way may fail
too, so two completions of one session can end it. `deployment` is how the
server was started: one worker or two, a database that refuses logins or not.

### ViewRace

A handler is a sequence of operations, `todo[w]` (`Handlers`): each is one
critical section (`SendAdd` changes `m_visible_objects`), one access to a field
others write (`WakeUp` is the compare-exchange on `m_active_npc`; `m_hp` is a
plain `short`, which a hit reads in `Hit` and writes in `Damage`) or one packet
(`PutAdd`).
Operations that read what another thread may change meanwhile (`OldView`,
`NewView`, `HasNearby`, `AlreadyVisible`) are steps of their own and put the
operations they decide on in front of the rest. `pool` is `{w1}` or `{w1, w2}`:
with one worker handlers run one after the other, with two they interleave at
every operation. `g_objs` is the mirror the client keeps. Of the fights only
hits, death and respawn are kept, of the NPCs the kinds that roam. `revived` is
history: the NPCs whose death was overwritten by a hit that had read their hit
points before. `npc_die` has put such an NPC to sleep although its tick is still
pending, so its next wake-up gives it a second one; `OneTick` is about all
others.

### Loot

Built like `ViewRace`. The session, its row in the database and what the
client shows are records of the same shape (`me`, `row`, `shown`), so that
saving, restoring and telling are copies of one to the other, or not. `picked`,
`used` and `past` are history: what was really earned. Experience costs
`EXP_BASE * 2^(level-1)` as in `exp_for_next_level`. Geometry is reduced to
what the handlers ask: on the item's tile, in the adjacent sectors, or far.

### Framing

A packet is an interval of stream offsets and only its first byte, the size,
has a value. `reader` is one of the three programs. Server and client keep the
rest of a packet at the front of the receive buffer (`held`), the bot copies
it to `packet_buf` (`held`) and goes through the bytes of this receive
(`fresh`). A receive returns any number of the bytes that were sent.

### StressBot

The test thread (`AdjustClose`, `AdjustSlow`, `AdjustConnect`, `BotMoves`) and
the workers (`Work`, `CountUp`) run at once; `DisconnectClient` may be called
by any of them for any bot. `connected = true` and `active_clients++` are two
steps (`entering`), as are the exchange of `connected` and `active_clients--`
(`leaving`). The server is external: ids from 1, each handed out once.

### Astar and WorldSetup

`Astar` keeps the local indexes, `g_cost`, `parent`, `closed` and the priority
queue; one step takes one node from the queue or goes back one parent. Nodes
with the same `f` leave the queue in any order, so the result is checked for
every order. `WorldSetup` is `main`: script, `obstacles.bin`, bosses, groups,
fill, accept. A client may start at any moment and reads what the file then
holds; the server may be killed at any step and started with another script.
`fopen_s` opens a file exclusively for writing and shared for reading. The
chase that follows is one call of `astar_next_step` by an NPC that was placed.

## 3. Runs

| Run | Instance | Shows |
|---|---|---|
| `world_boss` | 2 players, 1 Boss with 3 hit points (each phase occurs), 7 x 2 tiles (3 sectors in a row), view 1 | sectors, views, event tokens, sleep, hit points and regeneration stay consistent through phases, area attacks that kill one or both players, deaths, respawns and logouts |
| `world_mixed` | 1 player, 1 Peace and 1 Agro on the same tile | one attack with several victims, provoked Peace NPCs, overlapping ticks and respawns; an Agro overlooks nobody (`AgroDetects`) |
| `world_live` | 1 player, 1 Agro, 2 levels, potions of 1 and 2, fair | `DeadComesBack`, `SeenHunterChases`, `EmptyWorldSleeps` |
| `send_queue` | 3 workers, packets of 1 and 2 bytes, batches of 3, 7 bytes | `OneSender`, `NoStall`, `BatchFits`, refinement of `BytePipe` |
| `send_live` | 2 workers, 4 bytes, transient failures of WSASend, fair | `AllDelivered`, `BrokenIsClosed`; a queue thrown away leaves a gap, but nothing is repeated or overtaken (`NoReorder`) |
| `session` | 1 or 2 workers, an account that connects twice, a bot, 2 ids, a database that refuses or not, fair | `ClosedIsFreed`, `LoginAnswered` always; `SerialNoGhost`, `ProgressRestored` with one worker |
| `race` | 2 players, 1 NPC with 2 hit points, 4 tiles in 2 sectors, 1 or 2 workers, one overlap of handlers | with one worker the mirror is exact and who left is gone (`SerialMirror`, `SerialGone`); with two a NPC still has at most one tick, unless a hit overwrote its death, and comes back (`OneTick`, `DeadReturns`) |
| `loot` | 2 players, 1 item, a quest of 2 kills, rewards worth several levels, 1 or 2 workers, one overlap | `OnePicker` always; `Conserved`, `QuestExact`, `XpAccounts`, `ClientKnows` with one worker |
| `framing` | packets of 1, 2, 3 bytes, buffers of 3 (client: 4), 8 bytes, fair | refinement of `PacketStream`, `RoomToRead`, `AllHandled` |
| `bots` | 3 connections, 2 ids, delays around both limits | `NeverUndercounts`, `CloudFits`, `MapRoundTrip` |
| `setup` | 5 x 3 tiles, 4 scripts, 3 old files, 2 starts, 3 NPCs | `MapAgrees`, `PopulationExact`, `ShortestStep` |
| `session_ghost` | 2 workers | violation, see section 6 |

Bounds. The corridor is the smallest world in which a player can be in the
NPC's sector, in an adjacent one and out of reach, and in which view distance
ends inside and at the border of a sector; row 0 is wall, as respawn never
picks row 0. Two players are enough for the symmetric view updates (each pair
is treated on its own) and for an area attack with two victims; the proofs
cover any number. NPC_ATTACK_DMG and hit points of 2 or 3 reach exactly zero,
below zero and, with a boost, a survivor. In `world_live` a hit takes less than
the hit points of a restored player, as in the code (8 of 100): otherwise a
hunter beside the spawn point kills at every tick and never shows CHASE. Delays are 1 tick for moves and 2
for respawns, the smallest that keep the order NPC_MOVE before NPC_RESPAWN.
In `SendQueue`, 7 bytes fill more than two batches, so a batch is cut,
continued after a partial completion, and followed by packets queued in the
meantime; three workers allow a sender, a second caller and a completion at
once. In `SessionLife`, three connections on two ids let an account come back
and the ids run out. In `race` and `loot` one handler may start while another
runs: that is two handlers interleaved at every operation, twice in a row
after each other if they fit, and every race in section 6 shows with one
overlap, except the second tick of a revived NPC, which takes two; both exceed
TLC's reach with two. `OneTick`, `DeadReturns` and `OnePicker` are proved for
any number of overlaps. In `framing` the largest packet
fills the buffer of the server exactly, and 8 bytes are more than two buffers.
In `bots` more connections than ids, and than bots that may be active, are
tried. In `setup` the scripts have a wall with a gap, a pocket that needs a
detour which `MARGIN` = 1 sometimes cuts off, rectangles that stick out, a boss
inside a wall, too many and too few NPCs, and one fails. Symmetry (players, workers) is used only in runs without
liveness properties. `CHECK_DEADLOCK FALSE` stands where clients may all have
gone, or the bound on bytes is reached.

## 4. Fairness

* `GameWorld!FairSpec`: a handler that has begun is finished (weak fairness of
  `Continue`, a thread runs on); due events are handled although players keep
  sending (strong fairness of `NpcMove`, `RespawnAny`, `HpRegen`: the
  completion port is first in first out, so a posted event is reached); time
  passes (strong fairness of `Tick`: it waits for the due events, of which
  each instant has finitely many, and not for players). Nothing is assumed of
  players.
* `SendQueue!FairSpec`: threads run on; the kernel completes or aborts a posted
  send, which Windows guarantees for overlapped I/O; a completion that waits is
  taken although workers have other work. A connection need not break, and a
  break is noticed by the outstanding receive.
* `SessionLife!FairSpec`: workers and the database thread make progress;
  nothing is assumed of clients.
* `Framing!FairSpec`: bytes that were sent arrive, and the loop that cuts them
  runs on.

## 5. Proofs

All theorems are for arbitrary constants under the named assumptions of the
modules, which TLC evaluates in the runs.

Some modules begin with facts that need no model: integer division changes by at
most one over a distance of at most the divisor; a sequence made of one sequence
for every member of a set has their elements and no others, whatever the order.
The latter are proved by induction in the form of the least number that is not in
a set (`Least`, `Induction`), which needs no operator parameter.

**GameWorldProofs.** `SectorIdInRange`: `sector_id` of a tile is a valid
index of the sector array, although the size of the world is no multiple of the
sector size. `AdjacentCovers`: two tiles at distance at most `SECTOR_SIZE` lie
in adjacent sectors; `ViewCovered`: so does whatever a player can see. It is why
scanning nine sectors is enough for the view range and the Agro's detection
range, and why it is not for the Boss's, which is larger.

`TypeCorrect`, `SectorsExact`, `OneMoveEvent`,
`OneRespawnEvent` (invariants `TypeOK`, `SectorExact`, `MoveToken`,
`RespawnToken`) and `NobodyMissed` (the action property `AgroDetects`), for any
world, players, NPCs and delays with every move delay shorter than every
respawn time (at most 1 s against 30 s in the code). The inductive invariant is
`IInv == TypeOK /\ SectorExact /\ Tokens /\ TodoInWorld`. `SectorExact` is not
inductive alone: a handler that has been suspended removes a dying NPC, or
moves a player, from the sector of its position, which is right only if the
object is still in the world (`TodoInWorld`). `MoveToken` and `RespawnToken`
need each other and the state of the suspended handler: a tick that was taken
and not yet renewed counts as the NPC's only event, and the tick that a killed
NPC leaves behind is due before the respawn, so it is dropped while the NPC is
still dead. `Tokens` says this. `NobodyMissed` follows from `SectorExact` and
`AdjacentCovers`.

Four more invariants rest on `IInv`. `HpStaysInRange` (`HpInRange`): no hit,
potion, level or regeneration takes a playing player out of 1 to the maximum of
its level; it is inductive with the types. `OneRegenEvent` (`RegenToken`) is
inductive once it says too that a player who has not logged in has no event yet
(`RegenEvents`). `ViewsExact` (`ViewExact`): a view changes pair by pair, and
both ends of a pair agree because sight is mutual; that the nine scanned sectors
hold everybody who could enter or leave the view is `SectorExact` with
`AdjacentCovers`. `SeenIsAwake` (`SeenNpcAwake`): an NPC comes into a view only
by a `wake_up` or by its own tick, and a tick ends asleep only when nobody in
the nine sectors is near enough to keep the NPC awake; the distance it uses is at
least `VIEW_RANGE`, which is where `VIEW_RANGE <= AGRO_DETECT_RANGE <=
SECTOR_SIZE` (5, 10 and 11 in `globals.h`) is needed.

**SendQueueProofs.** `TypeCorrect`; `OneSend` (`OneSender`, for any number of
threads); `Refines`: as long as WSASend fails only on connections that are
gone, the send path implements `BytePipe`. `OneSend` rests on `Single`:
exactly one of a responsible thread, a posted send or a waiting completion
exists when `m_send_pending` is set, none when it is not. The refinement rests
on `SInv == TypeOK /\ Single /\ QueueOK /\ Flow`: the chunk that is held by
the one responsible party continues at the byte after the last delivered one,
the queue's packets continue the chunk without a gap and end at `accepted`.
Without `Single` there would be two chunks and `Flow` could not be stated.
`NothingWaits` (`NoStall`) needs the converse of `Single`, `Attended`: while the
session has a socket and either `m_send_pending` is set or the queue is not
empty, some thread, posted send or completion is responsible. `BatchesFit`
(`BatchFits`) and `NeverReorders` (the action property `NoReorder`) also hold
when WSASend fails on a working connection and a queue is thrown away, where
`Flow` does not; they rest on the weaker `BInv == TypeOK /\ Single /\ QueueOK /\
Ahead`: the chunk under way lies behind the last delivered byte and before the
queue, gaps allowed.

**FramingProofs.** `NeverFull` (`RoomToRead`) and `FramingRefines`
(`ImplementsStream`): for every set of packet sizes and every buffer that holds
the largest, in all three programs. The assumption is that no packet is larger
than a buffer; a size is one byte and the buffers have more than 255. The
inductive invariant is `FInv == FTypeOK /\ Contiguous /\ Prefix /\ Buffered`.
`Contiguous` orders all packets of the stream pairwise (it cannot be derived
from their adjacency without induction), which makes the packet that starts
behind `base` unique, so the size byte read there is that of the next packet
(`NextByte`). `Buffered` says that between receives less than one packet is
held, from which the room follows, and that a bot which remembers a size
remembers that of the next packet.

**StressBotProofs.** `CountIsSafe` (`NeverUndercounts`): for any number of bots
and workers, the number shown, corrected by the threads that are between two
steps, is never below the number connected. `IdsLeadBack` (`MapRoundTrip`) and
`PointsFit` (`CloudFits`) follow from `IdsKept`: `Typed /\ Owned /\ Known`. An id
is held by one bot at most, wherever it is on its way (the server's session, a
packet in the inbox, a worker between two steps, the bot itself), and is below
the server's next id; an id a bot has leads back to it. The bound on the points
drawn follows because connected bots then have different ids.

**SessionLifeProofs.** `SessionsNumbered` holds for any pool of workers: each id
is handed out once and in order and has one connection; completions, database
requests and handlers are about ids that were handed out; a socket is open
exactly while its session is in `clients`. Above it, `One` is the inductive
invariant with a single worker, from which `NoGhostAlone` (`SerialNoGhost`) and
`ProgressIsRestored` (the action property `ProgressRestored`) follow, for any
connections, accounts and ids:

* `Stated`: an id in a sector plays, or the worker is about to take it out; the
  step of a login that enters the sector finds its session still in play, since
  one worker runs no `disconnect` in between. This is `SerialNoGhost`.
* `Noticed` and `Playing`: a registered session has a posted receive, a
  completion that will end it or a handler at work, and the end of a connection
  is noticed after it; who may play has a session that plays.
* `Ordered`: accounts that come back. A client closes its old connection before
  it opens a new one, so in the completion port every packet of the old session
  comes before the new AcceptEx (`Before`), and the completion that ends the old
  session before every packet of the new one (`After`). Without this the next
  part is not inductive: a login could be queued before the old session's save.
* `Restored`: while an account is in play its session has all its progress;
  otherwise the last save in `db_queue` has, or the row if none is queued; a
  login in `db_queue` whose session waits has no save of its account behind it,
  so what it reads is what the account made.

**ViewRaceProofs.** `TicksArePaced` (`OneTick`) and `TheDeadReturn`
(`DeadReturns`), for any pool of workers and any number of overlaps. The
inductive invariant is `IInv == Typed /\ Shape /\ Paced /\ Returns`. `Shape` says
that the last operation of a tick, and only that, decides whether the NPC goes
on, so a tick being handled still counts as one. `Paced` adds to `OneTick` that
a living NPC that sleeps has no tick, and that an NPC is dead while `npc_die` is
at work on it; a hit that overwrites the death breaks the last part, which is how
`revived` was found.

`MirrorsAreExact` (`SerialMirror`) and `GoneForGood` (`SerialGone`) are about one
worker and any world, players and NPCs. What the client draws, the view under its
lock, the position and the sectors change at different steps of a handler, so
between two steps little is right by itself; the inductive invariant `One` says
that whatever is wrong is put right by an operation that is left in `todo`:

* `Ranked` is the order of the operations: sectors first, then what is looked up,
  then what is told about pairs of objects. So nothing is looked up in a sector
  that is still to be changed, and a pair has no second cause in the same handler.
* `Aim`: what is still to be told about a pair is right when it is told.
* `Clear`: a pair is shown rightly (`Fixed`), or an operation on it is left that
  corrects it (`Ask`), or its view is still to be looked at (`Read`): after a move
  of a player or an NPC, a death that nobody has noticed yet, a respawn, or a
  logout before its `hide`. `Read` says which of view, drawing and position the
  pair still agrees on; without it the next step could not be shown to find the
  difference.
* `Placed`: an object is listed in the sector it belongs to, or a step that moves
  it there is left.
* `Roll`: who is registered and does not play is about to be closed, and each
  player has been saved exactly once unless it plays.
* `Dying`: a death has one respawn, and what is told about an NPC other than its
  death is told while it lives.

Between two handlers nothing is left, so every pair is `Fixed`, every object is
listed where it belongs and nobody is half logged out (`Settled`). That a worker
which looks for viewers in the nine sectors finds all of them is `ViewCovered`,
and that both ends of a pair are told is that sight is mutual.

**LootProofs.** `TypeCorrect`; `PickedOnce` (`OnePicker`), for any pool and any
overlaps, from `Once`: an active item has not been picked and its id has been
given out. The others hold with one worker and are proved for any players,
items, target and costs. The step that gains something and the one that records
or tells it are apart, so each invariant counts what is still in `todo`:

* `Scripted` is the form of what is left of a handler: a value that was read is
  written in the next step (`Soon`), a handler has one kill to count (`Single`),
  it drops or shows items or picks them up, not both (`Apart`), whoever gains
  experience is told afterwards (`Told`), everybody concerned is in the game
  (`Present`).
* `QuestsAreExact` (`QuestExact`) from `Counted`: kills are rewards times the
  target, plus the kills of the running quest, plus the target if a reward is
  on its way.
* `ExperienceAddsUp` (`XpAccounts`) from `Accounted`: level and experience are
  those of what was earned and lost, and the value to be written is up to date.
  `LevelUp` is a recursive function; what it returns is proved by `Induction`.
* `ClientsKnow` (`ClientKnows`) from `Clear`: each field the client shows is
  right or a packet that says so is still to be sent; the same for the items of
  a player who has never been far away.
* `ItemsAreKept` (`Conserved`) from `Saved`: ids given out are items in the
  world, in inventories, used, or between the compare-exchange and the
  increment of an inventory. The sums over all players are `SumFunction`, whose
  change by one summand (`SumAdds`) is again proved by `Induction`.

**WorldSetupProofs.** `MapsAgree` (`MapAgrees`), `PopulationIsExact`
(`PopulationExact`) and `StepsAreShortest` (`ShortestStep`), for any world, scripts,
old files, bosses, number of ids and margin. Assumed are `ScriptAssumption`: the
numbers of a script fit the 16 bits of `obstacles.bin`, as those of the
repository's `map.lua` do (otherwise the cast of `int16` changes them);
`SetupAssumption`: the places of the bosses are at least `BOSS_SHIFT` from the
edge, as they are in `InitializeNPC`, which does not clip what it shifts; and
`CostAssumption`: no way costs as much as `INF` (4 million tiles against 1e9). The
inductive invariant is `SetupInv`, the start and the search together:

* `Mapped`: the obstacle map is the part inside the world of the rectangles read so
  far (`CoveredMore` for one rectangle more).
* `Recorded`: a file written by the running server is a prefix of these
  rectangles, and whole once it is closed; no rectangle is read after it was
  opened; a client relies on it only when it is closed. `MapAgrees` follows at the
  step that reads the file, and nothing changes afterwards until a restart.
* `Populated`: the NPCs have the first ids, and an id is in a sector exactly if it
  is that of its NPC's tile.
* `SearchInv`: the tiles of the box are the nodes of a graph, and the search is
  `Sound`: every node reached has a parent that is closed and one step cheaper
  (`Ways`), the queue holds what is reached and open (`Queued`), and the
  neighbours of a closed node cost at most one more (`Relaxed`).

That the step found is one of a shortest way is shown in four parts. The Manhattan
distance is never more than the rest of a way, nor more than one above that of a
neighbour (`SearchGraph`), so the cheapest entry of the queue bounds every way
that is left (`Cheapest`, `FoundIsShortest`): the target is closed at the cost of a
shortest way. An empty queue means no way is left (`NothingLeft`). Going back from
the target stays on that way, one step cheaper each time (`OnWay`). And the
recursive function `Nearest`, against which `ShortestStep` compares, is solved by
the layers of tiles that reach the target in 0, 1, 2, ... steps
(`TailRecursion`, `GrownIs`, `NearestFound`, `NearestNone`): it ends because a set
that grows inside a finite box stops growing. The order in which entries of equal
estimate leave the queue does not matter.

Only model-checked: the liveness properties, since ENABLED and fairness are outside
the reach of TLAPS 1.4.5. Every invariant that a passing run checks is proved.

## 6. Where the code disagrees with its documents

One run shows a violation:

* `session_ghost`: with two workers, `disconnect` may run between the state test
  and the `add_object_to_sector` of IO_DB_LOGIN, and the id stays in a sector
  after the session is gone (`src/docs/게임설명서.md` line 353).

Met while modelling, and seen in runs of the same modules with a stronger
property or another instance that the project does not keep:

* A Boss roams although a player stands within `BOSS_DETECT_RANGE`: the scan
  looks into 3 x 3 sectors, which reach 11 tiles for sure; the range is 15
  (line 394).
* With two workers, a quick reconnect may have its DB_LOGIN queued before the
  DB_SAVE of the session it replaces, and loses that progress (line 192).
* A login the database refuses sets CS_LOGOUT and answers nothing (lines 158
  and 194).
* With two workers the mirror of a client may stay wrong (`MirrorExact`): the
  view is changed under its lock and the packet sent after it, so an ADD may
  overtake a REMOVE (line 453).
* With two workers, `wake_up` may follow `npc_die` on an NPC that was alive when
  it was hit: it is dead, active and without a tick, and never moves after its
  respawn (line 281).
* With two workers, a hit may write hit points it read before another hit killed
  the NPC (`session.cpp` 526): `npc_die` then removes a living NPC, which is
  woken again while its old tick is pending and from then on moves at double
  speed.
* The stress test counts a bot again whenever its avatar dies, because
  S2C_AVATAR_INFO is sent again: the number shown is too high (line 51).
* A player who is far away when an item appears or goes is not told; it sees
  items that are gone, and not those that came (lines 58-59).
* A script with an error empties `obstacles.bin` for the clients before the
  server reads outside the empty `g_obstacle_map`.
* After 10,000 connections the server is "full" with nobody on it, since ids are
  never handed out again.
* The map script asks for about 181,000 NPCs; the other 19,000 are placed
  without a look at the obstacles.

`player_die` (`session.cpp` 420) is never called; deaths of players are handled
inline in `do_chase_move`, three times with the same statements.

## 7. Not modelled

* Chat, packet layouts, drawing in the client and the stress test, and the
  documentation generator have no behaviour the properties tell apart; the Lua
  headers are third-party code.
* SQL: a save that fails is lost in the code; a row is a record here.
* The user interface of the client: its login screen can be submitted twice,
  which starts two receiving threads (`client.cpp` 464), and the end of the
  connection leaves it in the game. What it should do instead is said nowhere.
* Cooldowns of skills and boosts (wall-clock comparisons within one handler).

## 8. Plan

Done: all modules of section 2, their runs and the proofs of section 5. What is
left is outside the reach of the tools named there: proofs of the liveness
properties, and runs of `race` and `loot` with more than one overlap of handlers.
