----------------------------- MODULE StressBot -----------------------------
(***************************************************************************)
(* The stress test (STRESS_TEST/NetworkModule.cpp): the test thread raises *)
(* and lowers the number of bots by the measured delay, six workers handle *)
(* what the server sends, GetPointCloud draws the connected bots.          *)
(*                                                                         *)
(* The server is external here: it hands out player ids once, refuses when *)
(* none is left, answers a login with S2C_AVATAR_INFO, and sends it again  *)
(* whenever the avatar dies.  Time since last_connect_time is counted in   *)
(* units of ACCEPT_DELY; positions and the packets that the bots ignore    *)
(* are left out.                                                           *)
(***************************************************************************)
EXTENDS Integers, Sequences, FiniteSets

CONSTANTS
    MAX_TEST,      \* bots that should be active at once
    MAX_CLIENTS,   \* connections in all
    MAX_PLAYERS,   \* NPC_ID_START: player ids are smaller
    DELAY_LIMIT,   \* no new bots above this delay
    DELAY_LIMIT2,  \* bots are closed above this delay
    SLOW,          \* delay_multiplier once the delay was high (10)
    KEEP,          \* bots are not closed when fewer are active (100)
    SHARE,         \* the limit is undershot by this part of it (20)
    MAXINT,        \* no limit
    MAX_INBOX,     \* bound on the packets under way to a bot
    MAX_COUNT      \* bound: nobody is killed when as many bots are counted

Bots == 0 .. MAX_CLIENTS - 1
Ids == 1 .. MAX_PLAYERS - 1
NO_ID == -1

ASSUME StressAssumption ==
    /\ {MAX_TEST, MAX_CLIENTS, MAX_PLAYERS, DELAY_LIMIT, DELAY_LIMIT2, KEEP,
        MAXINT, MAX_INBOX, MAX_COUNT} \subseteq Nat
    /\ {SLOW, SHARE} \subseteq Nat \ {0}
    /\ MAX_PLAYERS <= MAX_TEST + 1
    /\ DELAY_LIMIT < DELAY_LIMIT2

VARIABLES
    connected,        \* g_clients[i].connected, as the set of those i
    id,               \* g_clients[i].id
    client_map,       \* player id to bot
    entering,         \* the id a worker is about to note for each bot, or NO_ID
    leaving,          \* threads in DisconnectClient that will count down
    active_clients,
    num_connections,
    client_to_close,
    global_delay,
    delay_multiplier, max_limit, increasing,  \* statics of the test thread
    since,            \* time since last_connect_time
    player_index,     \* server: the next id
    session,          \* server: the id of each bot's session, or NO_ID
    inbox             \* packets under way to each bot

vars == <<connected, id, client_map, entering, leaving, active_clients,
          num_connections, client_to_close, global_delay, delay_multiplier,
          max_limit, increasing, since, player_index, session, inbox>>

counters == <<connected, entering, leaving, active_clients>>
statics == <<delay_multiplier, max_limit, increasing, client_to_close>>
server == <<player_index, session>>

Result(ok) == [type |-> "LOGIN_RESULT", success |-> ok]
Avatar(i) == [type |-> "AVATAR_INFO", playerId |-> i]
Moved(i) == [type |-> "MOVE_PLAYER", playerId |-> i]

\* InitializeNetwork.
Init ==
    /\ connected = {}
    /\ id = [b \in Bots |-> NO_ID]
    /\ client_map = [i \in Ids |-> -1]
    /\ entering = [b \in Bots |-> NO_ID]
    /\ leaving = 0
    /\ active_clients = 0
    /\ num_connections = 0
    /\ client_to_close = 0
    /\ global_delay = 0
    /\ delay_multiplier = 1
    /\ max_limit = MAXINT
    /\ increasing = TRUE
    /\ since = 0
    /\ player_index = 1
    /\ session = [b \in Bots |-> NO_ID]
    /\ inbox = [b \in Bots |-> <<>>]

\* Mutant: DisconnectClient counts down without looking at connected.
DisconnectAlways(b) == connected' = connected \ {b} /\ leaving' = leaving + 1

\* DisconnectClient up to the exchange of connected: only the thread that
\* finds it true closes the socket and goes on to count down.
DisconnectClient(b) ==
    /\ connected' = connected \ {b}
    /\ leaving' = leaving + (IF b \in connected THEN 1 ELSE 0)

\* The end of DisconnectClient.
CountDown ==
    /\ leaving > 0
    /\ leaving' = leaving - 1
    /\ active_clients' = active_clients - 1
    /\ UNCHANGED <<connected, id, client_map, entering, num_connections, global_delay,
                   since, statics, server, inbox>>
-----------------------------------------------------------------------------
\* Adjust_Number_Of_Client: the tests all its branches start with.
MayAdjust == /\ active_clients < MAX_TEST
             /\ num_connections < MAX_CLIENTS
             /\ delay_multiplier <= since

\* Adjust_Number_Of_Client at a delay over DELAY_LIMIT2: the number of bots
\* is remembered once, then one bot is closed at a time.  The array g_clients
\* ends at MAX_CLIENTS.
AdjustClose ==
    /\ MayAdjust
    /\ DELAY_LIMIT2 < global_delay
    /\ max_limit' = IF increasing THEN active_clients ELSE max_limit
    /\ increasing' = FALSE
    /\ IF KEEP > active_clients \/ since < SLOW
       THEN UNCHANGED <<connected, leaving, client_to_close, since>>
       ELSE /\ client_to_close \in Bots
            /\ DisconnectClient(client_to_close)
            /\ client_to_close' = client_to_close + 1
            /\ since' = 0
    /\ UNCHANGED <<id, client_map, entering, active_clients, num_connections, global_delay,
                   delay_multiplier, server, inbox>>

\* Adjust_Number_Of_Client at a delay over DELAY_LIMIT: slower from now on.
AdjustSlow ==
    /\ MayAdjust
    /\ DELAY_LIMIT < global_delay /\ global_delay <= DELAY_LIMIT2
    /\ delay_multiplier' = SLOW
    /\ UNCHANGED <<counters, id, client_map, num_connections, global_delay, max_limit,
                   increasing, client_to_close, since, server, inbox>>

\* Mutant: the server starts over with its ids.
AnswerReused(b) ==
    LET i == 1 + (player_index % (MAX_PLAYERS - 1))
    IN /\ player_index' = player_index + 1
       /\ session' = [session EXCEPT ![b] = i]
       /\ inbox' = [inbox EXCEPT ![b] = <<Result(TRUE), Avatar(i)>>]

\* The server answers the login of bot b: get_new_player_id gives every
\* connection an id that no other had, until none is left.
Answer(b) ==
    \/ /\ player_index < MAX_PLAYERS
       /\ player_index' = player_index + 1
       /\ session' = [session EXCEPT ![b] = player_index]
       /\ inbox' = [inbox EXCEPT ![b] = <<Result(TRUE), Avatar(player_index)>>]
    \/ /\ player_index >= MAX_PLAYERS
       /\ inbox' = [inbox EXCEPT ![b] = <<Result(FALSE)>>]
       /\ UNCHANGED server

\* Adjust_Number_Of_Client connects the next bot and logs it in, or fails to:
\* at once, or after the server has spent an id on the connection.
AdjustConnect ==
    /\ MayAdjust
    /\ global_delay <= DELAY_LIMIT
    /\ max_limit - max_limit \div SHARE >= active_clients
    /\ increasing' = TRUE
    /\ since' = 0
    /\ \/ /\ Answer(num_connections)
          /\ num_connections' = num_connections + 1
       \/ /\ player_index' \in {player_index, player_index + 1} \cap (1 .. MAX_PLAYERS)
          /\ UNCHANGED <<session, inbox, num_connections>>
    /\ UNCHANGED <<counters, id, client_map, global_delay, delay_multiplier, max_limit,
                   client_to_close>>

\* Time passes; only SLOW units matter.
Tick ==
    /\ since < SLOW
    /\ since' = since + 1
    /\ UNCHANGED <<counters, id, client_map, num_connections, global_delay, statics,
                   server, inbox>>
-----------------------------------------------------------------------------
Put(b, p) == /\ Len(inbox[b]) < MAX_INBOX
             /\ inbox' = [inbox EXCEPT ![b] = Append(@, p)]

\* Test_Thread moves a connected bot; the server tells it where it is.
BotMoves(b) ==
    /\ b \in connected /\ session[b] # NO_ID
    /\ Put(b, Moved(session[b]))
    /\ UNCHANGED <<counters, id, client_map, num_connections, global_delay, statics,
                   since, server>>

\* The avatar of b is killed: the server sends S2C_AVATAR_INFO.
AvatarDies(b) ==
    /\ session[b] # NO_ID
    /\ active_clients < MAX_COUNT
    /\ Put(b, Avatar(session[b]))
    /\ UNCHANGED <<counters, id, client_map, num_connections, global_delay, statics,
                   since, server>>

\* ProcessPacket of S2C_LOGIN_RESULT.
OnResult(b, p) ==
    /\ p.type = "LOGIN_RESULT"
    /\ IF p.success THEN UNCHANGED <<connected, leaving>> ELSE DisconnectClient(b)
    /\ UNCHANGED <<id, client_map, entering, global_delay>>

\* ProcessPacket of S2C_AVATAR_INFO, up to connected = true.
OnAvatar(b, p) ==
    /\ p.type = "AVATAR_INFO"
    /\ connected' = connected \cup {b}
    /\ entering' = [entering EXCEPT ![b] = p.playerId]
    /\ UNCHANGED <<leaving, id, client_map, global_delay>>

\* ProcessPacket of S2C_MOVE_PLAYER: the delay follows what a bot measures
\* on its own avatar by one millisecond at a time.
OnMove(b, p) ==
    /\ p.type = "MOVE_PLAYER"
    /\ IF client_map[p.playerId] = b
       THEN global_delay' \in {global_delay - 1, global_delay, global_delay + 1}
                                  \cap (0 .. DELAY_LIMIT2 + 1)
       ELSE UNCHANGED global_delay
    /\ UNCHANGED <<connected, leaving, entering, id, client_map>>

\* A worker handles the next packet of b; the receive of b is not posted
\* again before it has done so.
Work(b) ==
    /\ entering[b] = NO_ID
    /\ inbox[b] # <<>>
    /\ LET p == Head(inbox[b])
       IN OnResult(b, p) \/ OnAvatar(b, p) \/ OnMove(b, p)
    /\ inbox' = [inbox EXCEPT ![b] = Tail(@)]
    /\ UNCHANGED <<active_clients, num_connections, since, statics, server>>

\* Mutant: client_map is filled at the index of the bot.
CountUpByIndex(b) ==
    /\ entering[b] # NO_ID
    /\ active_clients' = active_clients + 1
    /\ client_map' = [client_map EXCEPT ![b] = b]
    /\ id' = [id EXCEPT ![b] = entering[b]]
    /\ entering' = [entering EXCEPT ![b] = NO_ID]
    /\ UNCHANGED <<connected, leaving, num_connections, global_delay, since, statics,
                   server, inbox>>

\* The rest of S2C_AVATAR_INFO: the bot is counted and its id noted.
CountUp(b) ==
    /\ entering[b] # NO_ID
    /\ active_clients' = active_clients + 1
    /\ client_map' = [client_map EXCEPT ![entering[b]] = b]
    /\ id' = [id EXCEPT ![b] = entering[b]]
    /\ entering' = [entering EXCEPT ![b] = NO_ID]
    /\ UNCHANGED <<connected, leaving, num_connections, global_delay, since, statics,
                   server, inbox>>

\* A send or a receive of b fails or ends: DisconnectClient, and the server
\* drops the session.  Packets already received are still handled.
ConnectionEnds(b) ==
    /\ b < num_connections
    /\ DisconnectClient(b)
    /\ session' = [session EXCEPT ![b] = NO_ID]
    /\ UNCHANGED <<entering, active_clients, id, client_map, num_connections, global_delay,
                   since, statics, player_index, inbox>>

Next == \/ AdjustClose \/ AdjustSlow \/ AdjustConnect \/ Tick \/ CountDown
        \/ \E b \in Bots : \/ BotMoves(b) \/ AvatarDies(b) \/ Work(b) \/ CountUp(b)
                           \/ ConnectionEnds(b)

Spec == Init /\ [][Next]_vars
-----------------------------------------------------------------------------
\* The bots that some worker is about to count.
Counting == {b \in Bots : entering[b] # NO_ID}

TypeOK ==
    /\ connected \subseteq Bots
    /\ {id, entering, session} \subseteq [Bots -> Ids \cup {NO_ID}]
    /\ client_map \in [Ids -> Bots \cup {-1}]
    /\ leaving \in Nat /\ active_clients \in Int
    /\ num_connections \in 0 .. MAX_CLIENTS /\ client_to_close \in Nat
    /\ player_index \in Nat

\* Whatever the order of logins, deaths, failures and closings, bots are
\* never counted too low: the count, corrected by the threads that are about
\* to change it, is at least the number of connected bots, so the limits of
\* Adjust_Number_Of_Client are never exceeded because of the count.
NeverUndercounts ==
    active_clients + Cardinality(Counting) - leaving >= Cardinality(connected)

\* GetPointCloud writes one point for each bot it finds connected into an
\* array for MAX_TEST of them, although twice as many connections are made.
\* It fits, even if bots come and go while it scans them, because the server
\* has fewer than MAX_PLAYERS ids to give.
CloudFits ==
    Cardinality(connected \cup {b \in Bots : id[b] # NO_ID}) <= MAX_TEST

\* The id of a bot leads back to it and to no other, so that a MOVE_PLAYER
\* moves, and measures the delay of, the right bot.
MapRoundTrip == \A b \in connected \ Counting : id[b] \in Ids /\ client_map[id[b]] = b
=============================================================================
