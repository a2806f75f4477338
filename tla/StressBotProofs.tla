-------------------------- MODULE StressBotProofs --------------------------
(***************************************************************************)
(* For any number of bots, any limits and any order of logins, deaths,     *)
(* failures and closings, the stress test never counts its bots too low,   *)
(* the id of a bot leads back to it, and the points it draws fit.          *)
(***************************************************************************)
EXTENDS StressBot, FiniteSetTheorems, FunctionTheorems, TLAPS

Packets == {Result(ok) : ok \in BOOLEAN} \cup {Avatar(i) : i \in Ids}
              \cup {Moved(i) : i \in Ids}

Typed ==
    /\ connected \in SUBSET Bots
    /\ id \in [Bots -> Ids \cup {NO_ID}]
    /\ entering \in [Bots -> Ids \cup {NO_ID}]
    /\ session \in [Bots -> Ids \cup {NO_ID}]
    /\ client_map \in [Ids -> Bots \cup {-1}]
    /\ inbox \in [Bots -> Seq(Packets)]
    /\ leaving \in Nat /\ active_clients \in Int
    /\ num_connections \in 0 .. MAX_CLIENTS /\ client_to_close \in Nat
    /\ player_index \in Nat \ {0}

\* The ids that the server, a worker or a packet under way knows for bot b.
Holds(b) == {i \in Ids : \/ i \in {session[b], entering[b], id[b]}
                         \/ \E k \in 1 .. Len(inbox[b]) : inbox[b][k] = Avatar(i)}

\* An id is given to one bot only, and only after player_index has passed it.
Owned ==
    /\ \A b \in Bots : \A i \in Holds(b) : i < player_index
    /\ \A b, c \in Bots : b # c => Holds(b) \cap Holds(c) = {}

\* A connected bot has an id or is about to get one; an id leads back.
Known ==
    /\ \A b \in connected : id[b] # NO_ID \/ entering[b] # NO_ID
    /\ \A b \in Bots : id[b] # NO_ID => client_map[id[b]] = b

-----------------------------------------------------------------------------
LEMMA Constants ==
    /\ MAX_CLIENTS \in Nat /\ MAX_PLAYERS \in Nat /\ MAX_TEST \in Nat
    /\ MAX_PLAYERS <= MAX_TEST + 1
    /\ NO_ID \notin Ids
    /\ \A i \in Ids : i \in Nat \ {0} /\ i < MAX_PLAYERS
    /\ \A i \in Nat \ {0} : i < MAX_PLAYERS => i \in Ids
  BY StressAssumption DEF Ids, NO_ID

\* A packet is of one of three kinds.
LEMMA PacketKinds ==
    ASSUME NEW p \in Packets
    PROVE  /\ p.type = "AVATAR_INFO" => p.playerId \in Ids /\ p = Avatar(p.playerId)
           /\ p.type = "MOVE_PLAYER" => p.playerId \in Ids
  <1>1. CASE p \in {Result(ok) : ok \in BOOLEAN}
    BY <1>1 DEF Result
  <1>2. CASE p \in {Avatar(i) : i \in Ids}
    BY <1>2 DEF Avatar
  <1>3. CASE p \in {Moved(i) : i \in Ids}
    BY <1>3 DEF Moved
  <1> QED BY <1>1, <1>2, <1>3 DEF Packets

\* Packets of different kinds, or for different ids, are different.
LEMMA PacketsDiffer ==
    /\ \A i, j : Avatar(i) = Avatar(j) => i = j
    /\ \A i, j : Moved(j) # Avatar(i)
    /\ \A i, ok : Result(ok) # Avatar(i)
  <1>1. \A i : Avatar(i).playerId = i /\ Avatar(i).type = "AVATAR_INFO"
    BY DEF Avatar
  <1>2. \A i : Moved(i).type = "MOVE_PLAYER"
    BY DEF Moved
  <1>3. \A ok : Result(ok).type = "LOGIN_RESULT"
    BY DEF Result
  <1> QED BY <1>1, <1>2, <1>3

LEMMA PacketTypes ==
    /\ \A ok \in BOOLEAN : Result(ok) \in Packets
    /\ \A i \in Ids : Avatar(i) \in Packets /\ Moved(i) \in Packets
  BY DEF Packets

\* What the server answers to a login.
LEMMA LoginAnswer ==
    /\ \A i \in Ids : <<Result(TRUE), Avatar(i)>> \in Seq(Packets)
    /\ <<Result(FALSE)>> \in Seq(Packets)
  <1>1. \A S : \A x, y \in S : <<x, y>> \in Seq(S) /\ <<x>> \in Seq(S)
    OBVIOUS
  <1>2. Result(TRUE) \in Packets /\ Result(FALSE) \in Packets
    BY PacketTypes
  <1> QED BY <1>1, <1>2, PacketTypes

\* What the head and the tail of an inbox hold.
LEMMA HeadTail ==
    ASSUME NEW S, NEW s \in Seq(S), s # <<>>
    PROVE  /\ Head(s) = s[1] /\ Head(s) \in S /\ Len(s) \in Nat /\ 1 \in 1 .. Len(s)
           /\ Tail(s) \in Seq(S)
           /\ Len(Tail(s)) = Len(s) - 1
           /\ \A k \in 1 .. Len(Tail(s)) : k + 1 \in 1 .. Len(s) /\ Tail(s)[k] = s[k + 1]
  OBVIOUS

LEMMA Appended ==
    ASSUME NEW S, NEW s \in Seq(S), NEW x \in S
    PROVE  /\ Append(s, x) \in Seq(S)
           /\ \A k \in 1 .. Len(Append(s, x)) :
                 \/ k \in 1 .. Len(s) /\ Append(s, x)[k] = s[k]
                 \/ Append(s, x)[k] = x
  OBVIOUS
-----------------------------------------------------------------------------
LEMMA InitTyped == Init => Typed
  BY Constants DEF Init, Typed, Bots

\* DisconnectClient takes a bot out of connected and owes a count for it.
LEMMA Disconnected ==
    ASSUME Typed, NEW b, DisconnectClient(b)
    PROVE  /\ connected' \in SUBSET Bots /\ connected' \subseteq connected
           /\ leaving' \in Nat
  BY DEF Typed, DisconnectClient

LEMMA NextTyped ==
    ASSUME Typed, [Next]_vars
    PROVE  Typed'
  <1> USE Constants
  <1>1. CASE AdjustClose
    <2>1. CASE KEEP > active_clients \/ since < SLOW
      BY <1>1, <2>1 DEF AdjustClose, Typed, server
    <2>2. CASE ~(KEEP > active_clients \/ since < SLOW)
      <3>1. DisconnectClient(client_to_close) /\ client_to_close' = client_to_close + 1
        BY <1>1, <2>2 DEF AdjustClose
      <3> QED BY <1>1, <3>1, Disconnected DEF AdjustClose, Typed, server
    <2> QED BY <2>1, <2>2
  <1>2. CASE AdjustSlow \/ Tick
    BY <1>2 DEF AdjustSlow, Tick, Typed, counters, server, statics
  <1>3. CASE AdjustConnect
    <2>1. /\ num_connections \in Bots /\ num_connections + 1 \in 0 .. MAX_CLIENTS
          /\ UNCHANGED <<counters, id, client_map, client_to_close>>
      BY <1>3 DEF AdjustConnect, MayAdjust, Typed, Bots
    <2>2. CASE Answer(num_connections) /\ num_connections' = num_connections + 1
      <3>1. CASE player_index < MAX_PLAYERS
        <4>0. player_index \in Ids /\ ~(player_index >= MAX_PLAYERS)
          BY <3>1 DEF Typed
        <4>1. /\ player_index' = player_index + 1
              /\ session' = [session EXCEPT ![num_connections] = player_index]
              /\ inbox' = [inbox EXCEPT ![num_connections] =
                                <<Result(TRUE), Avatar(player_index)>>]
          BY <2>2, <4>0 DEF Answer
        <4>2. <<Result(TRUE), Avatar(player_index)>> \in Seq(Packets)
          BY <4>0, LoginAnswer
        <4>3. inbox' \in [Bots -> Seq(Packets)] /\ session' \in [Bots -> Ids \cup {NO_ID}]
          BY <4>0, <4>1, <4>2 DEF Typed
        <4>4. player_index' \in Nat \ {0}
          BY <4>1 DEF Typed
        <4> QED BY <2>1, <2>2, <4>3, <4>4 DEF Typed, counters
      <3>2. CASE player_index >= MAX_PLAYERS
        <4>1. /\ UNCHANGED server
              /\ inbox' = [inbox EXCEPT ![num_connections] = <<Result(FALSE)>>]
          <5>1. ~(player_index < MAX_PLAYERS)
            BY <3>2 DEF Typed
          <5> QED BY <2>2, <5>1 DEF Answer
        <4>2. <<Result(FALSE)>> \in Seq(Packets)
          BY LoginAnswer
        <4>3. inbox' \in [Bots -> Seq(Packets)]
          BY <4>1, <4>2 DEF Typed
        <4> QED BY <2>1, <2>2, <4>1, <4>3 DEF Typed, counters, server
      <3> QED BY <3>1, <3>2 DEF Typed
    <2>3. CASE /\ player_index' \in {player_index, player_index + 1} \cap (1 .. MAX_PLAYERS)
               /\ UNCHANGED <<session, inbox, num_connections>>
      BY <2>1, <2>3 DEF Typed, counters
    <2> QED BY <1>3, <2>2, <2>3 DEF AdjustConnect
  <1>4. CASE CountDown
    BY <1>4 DEF CountDown, Typed, statics, server
  <1>5. ASSUME NEW b \in Bots, BotMoves(b) \/ AvatarDies(b) PROVE Typed'
    <2>1. session[b] \in Ids
      BY <1>5 DEF BotMoves, AvatarDies, Typed
    <2>2. PICK p \in Packets : inbox' = [inbox EXCEPT ![b] = Append(@, p)]
      BY <1>5, <2>1, PacketTypes DEF BotMoves, AvatarDies, Put
    <2>3. inbox[b] \in Seq(Packets)
      BY DEF Typed
    <2>4. Append(inbox[b], p) \in Seq(Packets)
      BY <2>3, Appended
    <2>5. inbox' \in [Bots -> Seq(Packets)]
      BY <2>2, <2>4 DEF Typed
    <2> QED BY <1>5, <2>5 DEF BotMoves, AvatarDies, Typed, counters, statics, server
  <1>6. ASSUME NEW b \in Bots, Work(b) PROVE Typed'
    <2> DEFINE p == Head(inbox[b])
    <2>1. /\ inbox[b] # <<>> /\ inbox[b] \in Seq(Packets)
          /\ inbox' = [inbox EXCEPT ![b] = Tail(@)]
          /\ UNCHANGED <<active_clients, num_connections, since, statics, server>>
      BY <1>6 DEF Work, Typed
    <2>2. p \in Packets /\ Tail(inbox[b]) \in Seq(Packets)
      BY <2>1, HeadTail
    <2>3. inbox' \in [Bots -> Seq(Packets)]
      BY <2>1, <2>2 DEF Typed
    <2> HIDE DEF p
    <2>4. CASE OnResult(b, p)
      <3>1. UNCHANGED <<connected, leaving>> \/ DisconnectClient(b)
        BY <2>4 DEF OnResult
      <3>2. connected' \in SUBSET Bots /\ leaving' \in Nat
        BY <3>1, Disconnected DEF Typed
      <3> QED BY <2>1, <2>3, <2>4, <3>2 DEF OnResult, Typed, statics, server
    <2>5. CASE OnAvatar(b, p)
      <3>1. p.playerId \in Ids
        BY <2>2, <2>5, PacketKinds DEF OnAvatar
      <3> QED BY <2>1, <2>3, <2>5, <3>1 DEF OnAvatar, Typed, statics, server
    <2>6. CASE OnMove(b, p)
      BY <2>1, <2>3, <2>6 DEF OnMove, Typed, statics, server
    <2> QED BY <1>6, <2>4, <2>5, <2>6 DEF Work, p
  <1>7. ASSUME NEW b \in Bots, CountUp(b) PROVE Typed'
    <2>1. entering[b] \in Ids
      BY <1>7 DEF CountUp, Typed
    <2> QED BY <1>7, <2>1 DEF CountUp, Typed, statics, server
  <1>8. ASSUME NEW b \in Bots, ConnectionEnds(b) PROVE Typed'
    <2>1. DisconnectClient(b)
      BY <1>8 DEF ConnectionEnds
    <2> QED BY <1>8, <2>1, Disconnected DEF ConnectionEnds, Typed, statics
  <1>9. CASE UNCHANGED vars
    BY <1>9 DEF vars, Typed
  <1> QED BY <1>1, <1>2, <1>3, <1>4, <1>5, <1>6, <1>7, <1>8, <1>9 DEF Next
-----------------------------------------------------------------------------
(***************************************************************************)
(* The count.                                                              *)
(***************************************************************************)
LEMMA FiniteBots ==
    ASSUME NEW S \in SUBSET Bots
    PROVE  IsFiniteSet(S) /\ Cardinality(S) \in Nat
  <1>1. IsFiniteSet(Bots)
    <2>1. 0 \in Int /\ MAX_CLIENTS - 1 \in Int
      BY Constants
    <2> QED BY <2>1, FS_Interval DEF Bots
  <1>2. IsFiniteSet(S)
    BY <1>1, FS_Subset
  <1> QED BY <1>2, FS_CardinalityType

LEMMA InitCount == Init => NeverUndercounts
  <1> SUFFICES ASSUME Init PROVE NeverUndercounts
    OBVIOUS
  <1>1. connected = {} /\ Counting = {} /\ active_clients = 0 /\ leaving = 0
    BY DEF Init, Counting
  <1> QED BY <1>1, FS_EmptySet DEF NeverUndercounts

\* DisconnectClient owes a count for every bot it takes out.
LEMMA DisconnectCounts ==
    ASSUME Typed, NEW b, DisconnectClient(b)
    PROVE  leaving' + Cardinality(connected') = leaving + Cardinality(connected)
  <1>1. IsFiniteSet(connected) /\ Cardinality(connected) \in Nat
    BY FiniteBots DEF Typed
  <1>2. Cardinality(connected \ {b}) =
           IF b \in connected THEN Cardinality(connected) - 1 ELSE Cardinality(connected)
    BY <1>1, FS_RemoveElement
  <1> QED BY <1>1, <1>2 DEF Typed, DisconnectClient

\* A bot that is taken out and owed leaves the corrected count alone.
LEMMA Balance ==
    ASSUME NEW a \in Int, NEW c \in Nat, NEW l \in Nat, NEW k \in Nat,
           NEW l2 \in Nat, NEW k2 \in Nat,
           a + c - l >= k, l2 + k2 = l + k
    PROVE  a + c - l2 >= k2
  OBVIOUS

LEMMA NextCount ==
    ASSUME Typed, Typed', NeverUndercounts, [Next]_vars
    PROVE  NeverUndercounts'
  <1> DEFINE n == Cardinality(connected)  m == Cardinality(Counting)
  <1>0. /\ IsFiniteSet(connected) /\ n \in Nat
        /\ IsFiniteSet(Counting) /\ m \in Nat
        /\ n' \in Nat /\ m' \in Nat
    <2>1. Counting \in SUBSET Bots /\ Counting' \in SUBSET Bots
      BY DEF Counting
    <2>2. connected \in SUBSET Bots /\ connected' \in SUBSET Bots
      BY DEF Typed
    <2> QED BY <2>1, <2>2, FiniteBots
  <1>typ. /\ leaving \in Nat /\ leaving' \in Nat
          /\ active_clients \in Int /\ active_clients' \in Int
    BY DEF Typed
  \* Steps of DisconnectClient.
  <1>1. ASSUME NEW b, DisconnectClient(b), UNCHANGED <<entering, active_clients>>
        PROVE  NeverUndercounts'
    <2>1. m' = m
      BY <1>1 DEF Counting
    <2>2. leaving' + n' = leaving + n
      BY <1>1, DisconnectCounts
    <2> HIDE DEF n, m
    <2>3. active_clients + m - leaving >= n
      BY DEF NeverUndercounts, n, m
    <2>4. active_clients' + m' - leaving' >= n'
      <3>1. active_clients' = active_clients
        BY <1>1
      <3>2. active_clients + m - leaving' >= n'
        BY <1>0, <1>typ, <2>2, <2>3, Balance
      <3> QED BY <3>1, <3>2, <2>1
    <2> QED BY <2>4 DEF NeverUndercounts, n, m
  \* Steps that leave the counters alone.
  <1>2. ASSUME UNCHANGED counters PROVE NeverUndercounts'
    BY <1>2 DEF NeverUndercounts, Counting, counters
  <1>3. CASE AdjustClose
    BY <1>1, <1>2, <1>3 DEF AdjustClose, counters
  <1>4. CASE AdjustSlow \/ AdjustConnect \/ Tick
    BY <1>2, <1>4 DEF AdjustSlow, AdjustConnect, Tick
  <1>5. CASE CountDown
    <2>1. m' = m /\ n' = n
      BY <1>5 DEF CountDown, Counting
    <2>2. active_clients + m - leaving >= n
      BY DEF NeverUndercounts
    <2>3. leaving' = leaving - 1 /\ active_clients' = active_clients - 1
      BY <1>5 DEF CountDown
    <2> HIDE DEF n, m
    <2>4. active_clients' + m' - leaving' >= n'
      BY <1>0, <1>typ, <2>1, <2>2, <2>3
    <2> QED BY <2>4 DEF NeverUndercounts, n, m
  <1>6. ASSUME NEW b \in Bots, BotMoves(b) \/ AvatarDies(b) PROVE NeverUndercounts'
    BY <1>2, <1>6 DEF BotMoves, AvatarDies
  <1>7. ASSUME NEW b \in Bots, Work(b) PROVE NeverUndercounts'
    <2> DEFINE p == Head(inbox[b])
    <2>1. /\ OnResult(b, p) \/ OnAvatar(b, p) \/ OnMove(b, p)
          /\ UNCHANGED active_clients /\ entering[b] = NO_ID
          /\ inbox[b] # <<>> /\ inbox[b] \in Seq(Packets)
      BY <1>7 DEF Work, Typed
    <2>2. p \in Packets
      BY <2>1, HeadTail
    <2> HIDE DEF p
    <2>3. CASE OnResult(b, p)
      BY <1>1, <1>2, <2>1, <2>3 DEF OnResult, counters
    <2>4. CASE OnMove(b, p)
      BY <1>2, <2>1, <2>4 DEF OnMove, counters
    <2>5. CASE OnAvatar(b, p)
      <3>1. p.playerId \in Ids /\ p.playerId # NO_ID
        BY <2>2, <2>5, PacketKinds, Constants DEF OnAvatar
      <3>2. Counting' = Counting \cup {b} /\ b \notin Counting
        BY <2>1, <2>5, <3>1 DEF OnAvatar, Counting, Typed
      <3>3. m' = m + 1
        BY <1>0, <3>2, FS_AddElement
      <3>4. n' <= n + 1
        <4>1. n' = IF b \in connected THEN n ELSE n + 1
          BY <1>0, <2>5, FS_AddElement DEF OnAvatar
        <4> HIDE DEF n
        <4> QED BY <1>0, <4>1
      <3>5. active_clients + m - leaving >= n /\ leaving' = leaving
        BY <2>5 DEF NeverUndercounts, OnAvatar
      <3> HIDE DEF n, m
      <3>6. active_clients' + m' - leaving' >= n'
        BY <1>0, <1>typ, <2>1, <3>3, <3>4, <3>5
      <3> QED BY <3>6 DEF NeverUndercounts, n, m
    <2> QED BY <2>1, <2>3, <2>4, <2>5
  <1>8. ASSUME NEW b \in Bots, CountUp(b) PROVE NeverUndercounts'
    <2>1. Counting' = Counting \ {b} /\ b \in Counting
      BY <1>8 DEF CountUp, Counting, Typed
    <2>2. m' = m - 1
      BY <1>0, <2>1, FS_RemoveElement
    <2>3. /\ active_clients + m - leaving >= n /\ leaving' = leaving /\ n' = n
          /\ active_clients' = active_clients + 1
      BY <1>8 DEF NeverUndercounts, CountUp
    <2> HIDE DEF n, m
    <2>4. active_clients' + m' - leaving' >= n'
      BY <1>0, <1>typ, <2>2, <2>3
    <2> QED BY <2>4 DEF NeverUndercounts, n, m
  <1>9. ASSUME NEW b \in Bots, ConnectionEnds(b) PROVE NeverUndercounts'
    BY <1>1, <1>9 DEF ConnectionEnds
  <1>10. CASE UNCHANGED vars
    BY <1>2, <1>10 DEF vars, counters
  <1> QED BY <1>3, <1>4, <1>5, <1>6, <1>7, <1>8, <1>9, <1>10 DEF Next

\* However logins, deaths, failed connections and closings interleave, the
\* number of bots that Adjust_Number_Of_Client compares with its limits is,
\* corrected by the threads about to change it, never below the number that
\* are connected.
THEOREM CountIsSafe == Spec => []NeverUndercounts
  <1>1. Init => Typed /\ NeverUndercounts
    BY InitTyped, InitCount
  <1>2. Typed /\ NeverUndercounts /\ [Next]_vars => Typed' /\ NeverUndercounts'
    BY NextTyped, NextCount
  <1> QED BY <1>1, <1>2, PTL DEF Spec
-----------------------------------------------------------------------------
(***************************************************************************)
(* The ids.                                                                *)
(***************************************************************************)
LEMMA InitOwned == Init => Owned /\ Known
  <1> SUFFICES ASSUME Init PROVE Owned /\ Known
    OBVIOUS
  <1>1. \A b \in Bots : /\ id[b] = NO_ID /\ session[b] = NO_ID /\ entering[b] = NO_ID
                        /\ inbox[b] = <<>>
    BY DEF Init
  <1>2. \A b \in Bots : Holds(b) = {}
    BY <1>1, Constants DEF Holds
  <1>3. connected = {}
    BY DEF Init
  <1> QED BY <1>1, <1>2, <1>3 DEF Owned, Known

\* Where no bot comes to hold an id, the ids stay apart.
LEMMA NothingGiven ==
    ASSUME Typed, Typed', Owned, player_index' >= player_index,
           \A c \in Bots : Holds(c)' \subseteq Holds(c)
    PROVE  Owned'
  <1>1. \A c \in Bots : \A i \in Holds(c)' : i < player_index'
    <2> SUFFICES ASSUME NEW c \in Bots, NEW i \in Holds(c)' PROVE i < player_index'
      OBVIOUS
    <2>1. i \in Holds(c) /\ i \in Ids
      BY DEF Holds
    <2>2. i < player_index
      BY <2>1 DEF Owned
    <2> QED BY <2>1, <2>2, Constants DEF Typed
  <1>2. \A b, c \in Bots : b # c => Holds(b)' \cap Holds(c)' = {}
    BY DEF Owned
  <1> QED BY <1>1, <1>2 DEF Owned

\* What an inbox holds decides what its bot holds.
LEMMA HoldsLess ==
    ASSUME NEW c \in Bots,
           \A i \in Ids : i \in {session[c]', entering[c]', id[c]'} => i \in Holds(c),
           \A i \in Ids : \A k \in 1 .. Len(inbox[c]') :
                 inbox[c]'[k] = Avatar(i) => i \in Holds(c)
    PROVE  Holds(c)' \subseteq Holds(c)
  <1> SUFFICES ASSUME NEW i \in Holds(c)' PROVE i \in Holds(c)
    OBVIOUS
  <1>1. /\ i \in Ids
        /\ \/ i \in {session[c]', entering[c]', id[c]'}
           \/ \E k \in 1 .. Len(inbox[c]') : inbox[c]'[k] = Avatar(i)
    BY DEF Holds
  <1> QED BY <1>1

LEMMA HoldsSame ==
    ASSUME NEW c \in Bots, session[c]' \in {session[c], NO_ID}, entering[c]' = entering[c],
           id[c]' = id[c], inbox[c]' = inbox[c]
    PROVE  Holds(c)' \subseteq Holds(c)
  <1>1. \A i \in Ids : i \in {session[c]', entering[c]', id[c]'} => i \in Holds(c)
    BY Constants DEF Holds
  <1>2. \A i \in Ids : \A k \in 1 .. Len(inbox[c]') :
                 inbox[c]'[k] = Avatar(i) => i \in Holds(c)
    BY DEF Holds
  <1> QED BY <1>1, <1>2, HoldsLess

\* The server gives the id that player_index passes, and no other bot holds it.
LEMMA IdGiven ==
    ASSUME Typed, Typed', Owned, NEW b \in Bots,
           player_index \in Ids, player_index' = player_index + 1,
           Holds(b)' \subseteq Holds(b) \cup {player_index},
           \A c \in Bots \ {b} : Holds(c)' \subseteq Holds(c)
    PROVE  Owned'
  <1>1. \A c \in Bots : \A i \in Holds(c)' : i < player_index'
    <2> SUFFICES ASSUME NEW c \in Bots, NEW i \in Holds(c)' PROVE i < player_index'
      OBVIOUS
    <2>1. i \in Holds(c) \/ i = player_index
      BY DEF Holds
    <2>2. i \in Ids
      BY DEF Holds
    <2>3. i \in Holds(c) => i < player_index
      BY DEF Owned
    <2> QED BY <2>1, <2>2, <2>3, Constants DEF Typed
  <1>2. \A c \in Bots : player_index \notin Holds(c)
    BY Constants DEF Owned
  <1>3. \A c, d \in Bots : c # d => Holds(c)' \cap Holds(d)' = {}
    <2> SUFFICES ASSUME NEW c \in Bots, NEW d \in Bots, c # d,
                        NEW i \in Holds(c)' \cap Holds(d)'
                 PROVE  FALSE
      OBVIOUS
    <2>1. CASE c = b
      <3>1. i \in Holds(d)
        BY <2>1
      <3>2. i \notin Holds(c)
        BY <3>1 DEF Owned
      <3>3. i = player_index
        BY <2>1, <3>2
      <3> QED BY <1>2, <3>1, <3>3
    <2>2. CASE d = b
      <3>1. i \in Holds(c)
        BY <2>2
      <3>2. i \notin Holds(d)
        BY <3>1 DEF Owned
      <3>3. i = player_index
        BY <2>2, <3>2
      <3> QED BY <1>2, <3>1, <3>3
    <2>3. CASE c # b /\ d # b
      <3>1. i \in Holds(c) /\ i \in Holds(d)
        BY <2>3
      <3> QED BY <3>1 DEF Owned
    <2> QED BY <2>1, <2>2, <2>3
  <1> QED BY <1>1, <1>3 DEF Owned

LEMMA NextOwned ==
    ASSUME Typed, Typed', Owned, [Next]_vars
    PROVE  Owned'
  <1>0. player_index \in Nat /\ player_index >= player_index
    BY DEF Typed
  \* Steps that leave alone what the bots hold, or end a session.
  <1>1. ASSUME player_index' >= player_index, UNCHANGED <<session, entering, id, inbox>>
        PROVE  Owned'
    <2>1. \A c \in Bots : Holds(c)' \subseteq Holds(c)
      BY <1>1, HoldsSame
    <2> QED BY <1>1, <2>1, NothingGiven
  <1>2. CASE AdjustClose \/ AdjustSlow \/ Tick \/ CountDown \/ UNCHANGED vars
    <2>1. UNCHANGED <<player_index, session, entering, id, inbox>>
      BY <1>2 DEF AdjustClose, AdjustSlow, Tick, CountDown, vars, counters, server
    <2> QED BY <1>0, <1>1, <2>1
  <1>3. CASE AdjustConnect
    <2> DEFINE b == num_connections
    <2>1. b \in Bots /\ UNCHANGED <<entering, id>>
      BY <1>3, Constants DEF AdjustConnect, MayAdjust, Typed, Bots, counters
    <2>2. CASE UNCHANGED <<session, inbox>> /\ player_index' \in {player_index, player_index + 1}
      <3>1. player_index' >= player_index
        BY <1>0, <2>2
      <3> QED BY <1>1, <2>1, <2>2, <3>1
    <2>3. CASE Answer(b)
      <3> HIDE DEF b
      <3>1. \A c \in Bots \ {b} : Holds(c)' \subseteq Holds(c)
        <4> SUFFICES ASSUME NEW c \in Bots \ {b} PROVE Holds(c)' \subseteq Holds(c)
          OBVIOUS
        <4>1. session[c]' = session[c] /\ inbox[c]' = inbox[c]
          BY <2>3 DEF Answer, server, Typed
        <4> QED BY <2>1, <4>1, HoldsSame
      <3>2. PICK d \in Bots : d = b
        BY <2>1
      <3>3. CASE player_index < MAX_PLAYERS
        <4>1. player_index \in Ids /\ ~(player_index >= MAX_PLAYERS)
          BY <3>3, Constants DEF Typed
        <4>2. /\ player_index' = player_index + 1
              /\ session' = [session EXCEPT ![d] = player_index]
              /\ inbox' = [inbox EXCEPT ![d] = <<Result(TRUE), Avatar(player_index)>>]
          BY <2>3, <3>2, <4>1 DEF Answer
        <4>3. /\ session[d]' = player_index /\ entering[d]' = entering[d] /\ id[d]' = id[d]
              /\ inbox[d]' = <<Result(TRUE), Avatar(player_index)>>
          BY <2>1, <4>2 DEF Typed
        <4>4. Holds(d)' \subseteq Holds(d) \cup {player_index}
          <5> SUFFICES ASSUME NEW i \in Holds(d)', i # player_index PROVE i \in Holds(d)
            OBVIOUS
          <5>1. \A k \in 1 .. Len(inbox[d]') : inbox[d]'[k] # Avatar(i)
            <6>1. \A k \in 1 .. Len(inbox[d]') : k = 1 \/ k = 2
              BY <4>3
            <6>2. inbox[d]'[1] = Result(TRUE) /\ inbox[d]'[2] = Avatar(player_index)
              BY <4>3
            <6> QED BY <6>1, <6>2, PacketsDiffer
          <5>2. i \in Ids /\ i \in {entering[d], id[d]}
            BY <4>3, <5>1 DEF Holds
          <5> QED BY <5>2 DEF Holds
        <4> QED BY <3>1, <3>2, <4>1, <4>2, <4>4, IdGiven
      <3>4. CASE ~(player_index < MAX_PLAYERS)
        <4>1. UNCHANGED server /\ inbox' = [inbox EXCEPT ![d] = <<Result(FALSE)>>]
          BY <2>3, <3>2, <3>4 DEF Answer
        <4>2. /\ session[d]' = session[d] /\ entering[d]' = entering[d] /\ id[d]' = id[d]
              /\ inbox[d]' = <<Result(FALSE)>>
          BY <2>1, <4>1 DEF Typed, server
        <4>3. \A i : \A k \in 1 .. Len(inbox[d]') : inbox[d]'[k] # Avatar(i)
          <5>1. \A k \in 1 .. Len(inbox[d]') : k = 1
            BY <4>2
          <5>2. inbox[d]'[1] = Result(FALSE)
            BY <4>2
          <5> QED BY <5>1, <5>2, PacketsDiffer
        <4>4. \A i \in Ids : i \in {session[d]', entering[d]', id[d]'} => i \in Holds(d)
          BY <4>2 DEF Holds
        <4>5. Holds(d)' \subseteq Holds(d)
          BY <4>3, <4>4, HoldsLess
        <4>6. player_index' >= player_index
          BY <1>0, <4>1 DEF server
        <4> QED BY <3>1, <3>2, <4>5, <4>6, NothingGiven
      <3> QED BY <3>3, <3>4
    <2> QED BY <1>3, <2>2, <2>3 DEF AdjustConnect
  \* The other steps concern one bot and give no id.
  <1>4. ASSUME NEW b \in Bots, player_index' = player_index,
               \A c \in Bots \ {b} : /\ session[c]' = session[c] /\ entering[c]' = entering[c]
                                     /\ id[c]' = id[c] /\ inbox[c]' = inbox[c],
               Holds(b)' \subseteq Holds(b)
        PROVE  Owned'
    <2>1. \A c \in Bots : Holds(c)' \subseteq Holds(c)
      BY <1>4, HoldsSame
    <2>2. player_index' >= player_index
      BY <1>0, <1>4
    <2> QED BY <2>1, <2>2, NothingGiven
  <1>5. ASSUME NEW b \in Bots, BotMoves(b) \/ AvatarDies(b) PROVE Owned'
    <2>1. session[b] \in Ids /\ inbox[b] \in Seq(Packets)
      BY <1>5 DEF BotMoves, AvatarDies, Typed
    <2>2. PICK p \in {Moved(session[b]), Avatar(session[b])} :
              inbox' = [inbox EXCEPT ![b] = Append(@, p)]
      BY <1>5 DEF BotMoves, AvatarDies, Put
    <2>3. UNCHANGED <<player_index, session, entering, id>>
      BY <1>5 DEF BotMoves, AvatarDies, counters, server
    <2>4. inbox[b]' = Append(inbox[b], p)
      BY <2>2 DEF Typed
    <2>5. p \in Packets
      BY <2>1, <2>2, PacketTypes
    <2>6. \A i \in Ids : \A k \in 1 .. Len(inbox[b]') :
                 inbox[b]'[k] = Avatar(i) => i \in Holds(b)
      <3> SUFFICES ASSUME NEW i \in Ids, NEW k \in 1 .. Len(inbox[b]'),
                          inbox[b]'[k] = Avatar(i)
                   PROVE  i \in Holds(b)
        OBVIOUS
      <3>1. CASE k \in 1 .. Len(inbox[b]) /\ inbox[b]'[k] = inbox[b][k]
        BY <3>1 DEF Holds
      <3>2. CASE inbox[b]'[k] = p
        <4>1. p = Avatar(i)
          BY <3>2
        <4>2. i = session[b]
          BY <2>2, <4>1, PacketsDiffer
        <4> QED BY <4>2 DEF Holds
      <3> QED BY <2>1, <2>4, <2>5, <3>1, <3>2, Appended
    <2>7. \A i \in Ids : i \in {session[b]', entering[b]', id[b]'} => i \in Holds(b)
      BY <2>3 DEF Holds
    <2>8. Holds(b)' \subseteq Holds(b)
      BY <2>6, <2>7, HoldsLess
    <2>9. \A c \in Bots \ {b} : inbox[c]' = inbox[c]
      BY <2>2 DEF Typed
    <2> QED BY <1>4, <2>3, <2>8, <2>9
  <1>6. ASSUME NEW b \in Bots, Work(b) PROVE Owned'
    <2> DEFINE p == Head(inbox[b])
    <2>1. /\ inbox[b] # <<>> /\ inbox[b] \in Seq(Packets)
          /\ inbox' = [inbox EXCEPT ![b] = Tail(@)]
          /\ UNCHANGED <<player_index, session>>
      BY <1>6 DEF Work, Typed, server
    <2>2. /\ p \in Packets /\ p = inbox[b][1] /\ 1 \in 1 .. Len(inbox[b])
          /\ \A k \in 1 .. Len(Tail(inbox[b])) :
                k + 1 \in 1 .. Len(inbox[b]) /\ Tail(inbox[b])[k] = inbox[b][k + 1]
      BY <2>1, HeadTail
    <2>3. inbox[b]' = Tail(inbox[b]) /\ \A c \in Bots \ {b} : inbox[c]' = inbox[c]
      BY <2>1 DEF Typed
    <2>4. id' = id /\ \A c \in Bots \ {b} : entering[c]' = entering[c]
      BY <1>6 DEF Work, OnResult, OnAvatar, OnMove, Typed
    <2>5. \A i \in Ids : i = entering[b]' => i \in Holds(b)
      <3>1. entering' = entering \/ OnAvatar(b, p)
        BY <1>6 DEF Work, OnResult, OnMove
      <3>2. CASE entering' = entering
        BY <3>2 DEF Holds
      <3>3. CASE OnAvatar(b, p)
        <4> HIDE DEF p
        <4>1. entering[b]' = p.playerId /\ p = Avatar(p.playerId) /\ p.playerId \in Ids
          BY <2>2, <3>3, PacketKinds DEF OnAvatar, Typed
        <4> QED BY <2>2, <4>1 DEF Holds
      <3> QED BY <3>1, <3>2, <3>3
    <2>6. \A i \in Ids : i \in {session[b]', entering[b]', id[b]'} => i \in Holds(b)
      BY <2>1, <2>4, <2>5 DEF Holds
    <2>7. \A i \in Ids : \A k \in 1 .. Len(inbox[b]') :
                 inbox[b]'[k] = Avatar(i) => i \in Holds(b)
      BY <2>2, <2>3 DEF Holds
    <2>8. Holds(b)' \subseteq Holds(b)
      BY <2>6, <2>7, HoldsLess
    <2> QED BY <1>4, <2>1, <2>3, <2>4, <2>8
  <1>7. ASSUME NEW b \in Bots, CountUp(b) PROVE Owned'
    <2>1. /\ UNCHANGED <<player_index, session, inbox>>
          /\ id[b]' = entering[b] /\ entering[b]' = NO_ID
          /\ \A c \in Bots \ {b} : id[c]' = id[c] /\ entering[c]' = entering[c]
      BY <1>7 DEF CountUp, Typed, server
    <2>2. \A i \in Ids : i \in {session[b]', entering[b]', id[b]'} => i \in Holds(b)
      BY <2>1, Constants DEF Holds
    <2>3. \A i \in Ids : \A k \in 1 .. Len(inbox[b]') :
                 inbox[b]'[k] = Avatar(i) => i \in Holds(b)
      BY <2>1 DEF Holds
    <2>4. Holds(b)' \subseteq Holds(b)
      BY <2>2, <2>3, HoldsLess
    <2> QED BY <1>4, <2>1, <2>4
  <1>8. ASSUME NEW b \in Bots, ConnectionEnds(b) PROVE Owned'
    <2>1. /\ UNCHANGED <<player_index, entering, id, inbox>>
          /\ session[b]' = NO_ID
          /\ \A c \in Bots \ {b} : session[c]' = session[c]
      BY <1>8 DEF ConnectionEnds, Typed
    <2>2. Holds(b)' \subseteq Holds(b)
      BY <2>1, HoldsSame
    <2> QED BY <1>4, <2>1, <2>2
  <1> QED BY <1>2, <1>3, <1>5, <1>6, <1>7, <1>8 DEF Next

LEMMA NextKnown ==
    ASSUME Typed, Typed', Owned, Known, [Next]_vars
    PROVE  Known'
  \* Steps that connect nobody and note no id.
  <1>1. ASSUME connected' \subseteq connected, UNCHANGED <<entering, id, client_map>>
        PROVE  Known'
    BY <1>1 DEF Known
  <1>2. CASE AdjustClose \/ AdjustSlow \/ AdjustConnect \/ Tick \/ CountDown \/ UNCHANGED vars
    <2>1. UNCHANGED <<entering, id, client_map>>
      BY <1>2 DEF AdjustClose, AdjustSlow, AdjustConnect, Tick, CountDown, vars, counters
    <2>2. connected' \subseteq connected
      BY <1>2 DEF AdjustClose, AdjustSlow, AdjustConnect, Tick, CountDown, vars, counters,
                  DisconnectClient
    <2> QED BY <1>1, <2>1, <2>2
  <1>3. ASSUME NEW b \in Bots, BotMoves(b) \/ AvatarDies(b) \/ ConnectionEnds(b) PROVE Known'
    <2>1. UNCHANGED <<entering, id, client_map>>
      BY <1>3 DEF BotMoves, AvatarDies, ConnectionEnds, counters
    <2>2. connected' \subseteq connected
      BY <1>3 DEF BotMoves, AvatarDies, ConnectionEnds, counters, DisconnectClient
    <2> QED BY <1>1, <2>1, <2>2
  <1>4. ASSUME NEW b \in Bots, Work(b) PROVE Known'
    <2> DEFINE p == Head(inbox[b])
    <2>1. /\ inbox[b] # <<>> /\ inbox[b] \in Seq(Packets)
          /\ OnResult(b, p) \/ OnAvatar(b, p) \/ OnMove(b, p)
      BY <1>4 DEF Work, Typed
    <2>2. p \in Packets
      BY <2>1, HeadTail
    <2> HIDE DEF p
    <2>3. CASE OnResult(b, p) \/ OnMove(b, p)
      BY <1>1, <2>3 DEF OnResult, OnMove, DisconnectClient
    <2>4. CASE OnAvatar(b, p)
      <3>1. p.playerId # NO_ID
        BY <2>2, <2>4, PacketKinds, Constants DEF OnAvatar
      <3>2. /\ entering[b]' # NO_ID /\ \A c \in Bots \ {b} : entering[c]' = entering[c]
            /\ connected' = connected \cup {b} /\ UNCHANGED <<id, client_map>>
        BY <2>4, <3>1 DEF OnAvatar, Typed
      <3>3. connected \subseteq Bots
        BY DEF Typed
      <3> QED BY <3>2, <3>3 DEF Known
    <2> QED BY <2>1, <2>3, <2>4
  <1>5. ASSUME NEW b \in Bots, CountUp(b) PROVE Known'
    <2>1. /\ entering[b] \in Ids /\ entering[b] # NO_ID /\ UNCHANGED connected
          /\ id[b]' = entering[b] /\ client_map'[entering[b]] = b
          /\ \A i \in Ids \ {entering[b]} : client_map'[i] = client_map[i]
          /\ \A c \in Bots \ {b} : id[c]' = id[c] /\ entering[c]' = entering[c]
      BY <1>5 DEF CountUp, Typed
    <2>2. ASSUME NEW c \in Bots \ {b}, id[c] # NO_ID
          PROVE  client_map'[id[c]] = c
      <3>1. id[c] \in Ids /\ id[c] \in Holds(c) /\ entering[b] \in Holds(b)
        BY <2>1, <2>2 DEF Holds, Typed
      <3>2. id[c] # entering[b]
        BY <3>1 DEF Owned
      <3>3. client_map[id[c]] = c
        BY <2>2 DEF Known
      <3> QED BY <2>1, <3>1, <3>2, <3>3
    <2>3. \A c \in connected' : id[c]' # NO_ID \/ entering[c]' # NO_ID
      BY <2>1 DEF Known, Typed
    <2>4. \A c \in Bots : id[c]' # NO_ID => client_map'[id[c]'] = c
      BY <2>1, <2>2
    <2> QED BY <2>3, <2>4 DEF Known
  <1> QED BY <1>2, <1>3, <1>4, <1>5 DEF Next

\* The strengthening that the next two theorems rest on: ids are given once,
\* and a connected bot has one or is about to note it.
THEOREM IdsKept == Spec => [](Typed /\ Owned /\ Known)
  <1>1. Init => Typed /\ Owned /\ Known
    BY InitTyped, InitOwned
  <1>2. Typed /\ Owned /\ Known /\ [Next]_vars => (Typed /\ Owned /\ Known)'
    BY NextTyped, NextOwned, NextKnown
  <1> QED BY <1>1, <1>2, PTL DEF Spec

\* The id that a bot noted on S2C_AVATAR_INFO leads client_map back to it and
\* to no other bot, so S2C_MOVE_PLAYER measures the delay of the right one.
THEOREM IdsLeadBack == Spec => []MapRoundTrip
  <1>1. Typed /\ Owned /\ Known => MapRoundTrip
    BY DEF Typed, Known, MapRoundTrip, Counting
  <1> QED BY <1>1, IdsKept, PTL

\* Every point that GetPointCloud writes has room in an array for MAX_TEST:
\* each bot it can find connected has, or is about to note, an id of its own.
THEOREM PointsFit == Spec => []CloudFits
  <1>1. ASSUME Typed, Owned, Known PROVE CloudFits
    <2> DEFINE S == connected \cup {b \in Bots : id[b] # NO_ID}
               f == [b \in S |-> IF id[b] # NO_ID THEN id[b] ELSE entering[b]]
    <2>1. \A b \in S : b \in Bots /\ f[b] \in Ids /\ f[b] \in Holds(b)
      BY <1>1 DEF Typed, Known, Holds
    <2>2. \A b, c \in S : f[b] = f[c] => b = c
      BY <1>1, <2>1 DEF Owned
    <2>3. f \in [S -> Ids]
      BY <2>1
    <2> HIDE DEF S, f
    <2>4. f \in Injection(S, Ids)
      BY <2>2, <2>3, Fun_IsInj
    <2>5. /\ IsFiniteSet(Ids)
          /\ Cardinality(Ids) = IF 1 > MAX_PLAYERS - 1 THEN 0 ELSE MAX_PLAYERS - 1
      <3>1. /\ IsFiniteSet(1 .. MAX_PLAYERS - 1)
            /\ Cardinality(1 .. MAX_PLAYERS - 1) =
                 IF 1 > MAX_PLAYERS - 1 THEN 0 ELSE MAX_PLAYERS - 1 - 1 + 1
        <4>1. 1 \in Int /\ MAX_PLAYERS - 1 \in Int
          BY Constants
        <4> QED BY <4>1, FS_Interval
      <3> QED BY <3>1, Constants DEF Ids
    <2>6. IsFiniteSet(S) /\ Cardinality(S) <= Cardinality(Ids)
      BY <2>4, <2>5, FS_Injection
    <2>7. Cardinality(S) \in Nat
      BY <2>6, FS_CardinalityType
    <2>8. Cardinality(S) <= MAX_TEST
      BY <2>5, <2>6, <2>7, Constants
    <2> QED BY <2>8 DEF S, CloudFits
  <1>2. Typed /\ Owned /\ Known => CloudFits
    BY <1>1
  <1> QED BY <1>2, IdsKept, PTL
=============================================================================
