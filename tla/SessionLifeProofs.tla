------------------------- MODULE SessionLifeProofs -------------------------
(***************************************************************************)
(* What one worker guarantees, for any connections, accounts and ids: a    *)
(* session that ends leaves its sector, and a login restores all the       *)
(* progress the account made before.                                       *)
(***************************************************************************)
EXTENDS SessionLife, FiniteSetTheorems, TLAPS

Early == {"login", "play"}                  \* a packet of the client
Ends == {"eof", "senderr"}                  \* the end of the connection
Entering == {"login", "play", "bot_enter"}  \* the receive is not posted yet
Leaving == {"save", "logout", "leave", "free"}
JobOps == {"idle", "login", "play", "bot_enter", "db_load", "db_enter",
           "save", "logout", "leave", "free"}

Jobs == {Idle} \cup [op : JobOps \ {"idle"}, id : Ids, val : Int]
Events == [kind : {"accept"}, id : {0}, val : Conns]
            \cup [kind : Early \cup Ends \cup {"db"}, id : Ids, val : Int]
Requests == [kind : {"DB_LOGIN", "DB_SAVE"}, id : Ids, val : Int]
ClStates == {"CS_FREE", "CS_CONNECT", "CS_DB_WAIT", "CS_PLAYING", "CS_LOGOUT"}
ConnStates == {"new", "connecting", "connected", "waiting", "in", "closed", "refused"}

Typed ==
    /\ deployment \in Deployments
    /\ conn \in [Conns -> ConnStates]
    /\ conn_of \in [Ids -> Conns \cup {NOBODY}]
    /\ player_index \in Nat \ {0}
    /\ registered \in [Ids -> BOOLEAN]
    /\ m_state \in [Ids -> ClStates]
    /\ progress \in [Ids -> Int]
    /\ in_sector \in [Ids -> BOOLEAN]
    /\ socket \in [Ids -> BOOLEAN]
    /\ recv_posted \in [Ids -> BOOLEAN]
    /\ port \in Seq(Events)
    /\ db_queue \in Seq(Requests)
    /\ rows \in [Accounts -> Int]
    /\ job \in [Workers -> Jobs]
    /\ gained \in [Accounts -> Int]
    /\ \A w \in Workers : w \notin deployment.workers => job[w] = Idle

\* The ids that get_new_player_id has handed out.
Handed(id) == conn_of[id] # NOBODY

Numbered ==
    /\ \A id \in Ids : Handed(id) <=> id < player_index
    /\ \A id \in Ids : registered[id] => Handed(id)
    /\ \A id \in Ids : Handed(id) => m_state[id] # "CS_FREE"
    /\ \A id \in Ids : socket[id] = registered[id]
    /\ \A w \in Workers : job[w] # Idle => Handed(job[w].id)
    /\ \A k \in 1 .. Len(port) : port[k].kind # "accept" => Handed(port[k].id)
    /\ \A k \in 1 .. Len(db_queue) : Handed(db_queue[k].id)

Connected ==
    /\ \A id \in Ids : Handed(id) =>
          conn[conn_of[id]] \in {"connected", "waiting", "in", "closed"}
    /\ \A i, j \in Ids : Handed(i) /\ conn_of[i] = conn_of[j] => i = j
    /\ \A k \in 1 .. Len(port) : port[k].kind = "accept" => conn[port[k].val] = "connecting"
    /\ \A k, l \in 1 .. Len(port) :
          port[k].kind = "accept" /\ port[l].kind = "accept" /\ port[k].val = port[l].val => k = l
    /\ \A c, d \in Conns : c # d /\ AccountOf[c] = AccountOf[d] => Gone(c) \/ Gone(d)

\* j was connected after i, for the same account.
Newer(i, j) == i < j /\ Handed(i) /\ Handed(j) /\ Account(i) = Account(j)

About(w, ops, id) == job[w].op \in ops /\ job[w].id = id
Is(k, kinds, id) == port[k].kind \in kinds /\ port[k].id = id
Posted(kinds, id) == \E k \in 1 .. Len(port) : Is(k, kinds, id)
Accepting(k, c) == port[k].kind = "accept" /\ port[k].val = c

\* States.
Stated(w) ==
    /\ \A id \in Ids : in_sector[id] =>
          registered[id] /\ (m_state[id] = "CS_PLAYING" \/ About(w, {"leave"}, id))
    /\ \A id \in Ids : About(w, {"bot_enter", "db_enter"}, id) =>
          registered[id] /\ m_state[id] = "CS_PLAYING"
    /\ \A id \in Ids : About(w, {"db_load"}, id) => registered[id] /\ m_state[id] = "CS_DB_WAIT"
    /\ \A id \in Ids : About(w, {"free"}, id) => ~in_sector[id]
    /\ \A id \in Ids : About(w, {"leave", "free"}, id) => m_state[id] = "CS_LOGOUT"
    /\ \A id \in Ids : About(w, Leaving, id) => registered[id]
    /\ \A id \in Ids : m_state[id] = "CS_DB_WAIT" => ~IsBot(id)

\* The end of a connection is noticed.
Noticed(w) ==
    /\ \A id \in Ids : recv_posted[id] => Handed(id) /\ ~Closed(id)
    /\ \A id \in Ids : Posted(Ends, id) \/ About(w, Leaving, id) => Closed(id)
    /\ \A id \in Ids : registered[id] =>
          recv_posted[id] \/ Posted(Early \cup Ends, id) \/ About(w, Entering \cup Leaving, id)

Playing(w) ==
    /\ \A id \in Ids : Handed(id) /\ conn[conn_of[id]] = "in" /\ registered[id] =>
          m_state[id] = "CS_PLAYING"
    /\ \A id \in Ids : Posted({"play"}, id) /\ registered[id] =>
          m_state[id] = "CS_PLAYING" \/ About(w, {"leave", "free"}, id)
    /\ \A id \in Ids : About(w, {"play"}, id) /\ registered[id] => m_state[id] = "CS_PLAYING"

\* Accounts that come back: the older session has seen its last packet, ...
Ended(w) ==
    \A i, j \in Ids : Newer(i, j) => Closed(i) /\ ~Posted(Early, i) /\ ~About(w, Entering, i)

\* ... all its packets come before the completion of the new AcceptEx, ...
Before(w) ==
    \A i \in Ids, c \in Conns :
        Handed(i) /\ c # conn_of[i] /\ AccountOf[c] = Account(i) /\ ~Gone(c) =>
            /\ \A k \in 1 .. Len(port) : Is(k, Early, i) =>
                  \E l \in 1 .. Len(port) : l > k /\ Accepting(l, c)
            /\ About(w, Entering, i) => \E l \in 1 .. Len(port) : Accepting(l, c)

\* ... and while it is in clients its end comes before every new packet.
After(w) ==
    \A i, j \in Ids : Newer(i, j) /\ registered[i] =>
        /\ \A k \in 1 .. Len(port) : Is(k, Early, j) =>
              \/ About(w, Leaving, i)
              \/ \E l \in 1 .. Len(port) : l < k /\ Is(l, Ends, i)
        /\ ~About(w, Entering, j)
        /\ m_state[j] \in {"CS_CONNECT", "CS_LOGOUT"}

Ordered(w) == Ended(w) /\ Before(w) /\ After(w)

Save(k, a) == db_queue[k].kind = "DB_SAVE" /\ Account(db_queue[k].id) = a
Settled(a) ==
    \/ /\ \A k \in 1 .. Len(db_queue) : ~Save(k, a)
       /\ rows[a] = gained[a]
    \/ \E k \in 1 .. Len(db_queue) :
          /\ Save(k, a) /\ db_queue[k].val = gained[a]
          /\ \A l \in 1 .. Len(db_queue) : l > k => ~Save(l, a)

InPlay(id) == registered[id] /\ m_state[id] = "CS_PLAYING"
Wait(id) == registered[id] /\ m_state[id] = "CS_DB_WAIT"

\* A session in play has all the progress of its account, ...
Current(w) ==
    \A id \in Ids : InPlay(id) /\ ~IsBot(id) /\ ~About(w, {"logout"}, id) =>
        progress[id] = gained[Account(id)]

\* ... and when none is, the row has it or will.
Backed(w) ==
    \A a \in Accounts \ Bots :
        \/ Settled(a)
        \/ \E id \in Ids : InPlay(id) /\ Account(id) = a /\ ~About(w, {"logout"}, id)

\* A login that the database has not read yet comes after every save, ...
Asked ==
    \A k \in 1 .. Len(db_queue) : db_queue[k].kind = "DB_LOGIN" =>
        /\ m_state[db_queue[k].id] # "CS_CONNECT"
        /\ Wait(db_queue[k].id) =>
              \A l \in 1 .. Len(db_queue) : l > k => ~Save(l, Account(db_queue[k].id))

\* ... so it reads what the account made.
Told ==
    \A k \in 1 .. Len(port) : port[k].kind = "db" =>
        /\ m_state[port[k].id] # "CS_CONNECT"
        /\ Wait(port[k].id) => port[k].val \in {-1, gained[Account(port[k].id)]}

Loading(w) ==
    \A id \in Ids : About(w, {"db_load"}, id) => job[w].val = gained[Account(id)]

Restored(w) == Current(w) /\ Backed(w) /\ Asked /\ Told /\ Loading(w)

-----------------------------------------------------------------------------
(***************************************************************************)
(* Sequences: what Append, \o and Tail do to a queue.                      *)
(***************************************************************************)
Shift(p, q) == /\ Len(p) > 0 /\ Len(q) = Len(p) - 1
               /\ \A k \in 1 .. Len(q) : q[k] = p[k + 1]
Grow(p, q, X) == /\ Len(p) <= Len(q)
                 /\ \A k \in 1 .. Len(p) : q[k] = p[k]
                 /\ \A k \in 1 .. Len(q) : k > Len(p) => q[k] \in X

LEMMA TailShifts ==
    ASSUME NEW S, NEW p \in Seq(S), p # <<>>
    PROVE  /\ Tail(p) \in Seq(S) /\ Len(p) \in Nat /\ Len(Tail(p)) \in Nat
           /\ Shift(p, Tail(p)) /\ Head(p) = p[1] /\ p[1] \in S
  <1>1. Len(p) \in Nat /\ Len(p) > 0
    OBVIOUS
  <1>2. \A k \in 1 .. Len(Tail(p)) : Tail(p)[k] = p[k + 1]
    OBVIOUS
  <1> QED BY <1>1, <1>2 DEF Shift

LEMMA AppendGrows ==
    ASSUME NEW S, NEW p \in Seq(S), NEW e \in S
    PROVE  /\ Append(p, e) \in Seq(S) /\ Len(p) \in Nat /\ Len(Append(p, e)) = Len(p) + 1
           /\ Append(p, e)[Len(p) + 1] = e
           /\ Grow(p, Append(p, e), {e})
  BY DEF Grow

LEMMA ConcatGrows ==
    ASSUME NEW S, NEW p \in Seq(S), NEW q \in Seq(S)
    PROVE  /\ p \o q \in Seq(S) /\ Len(p) \in Nat /\ Len(p \o q) = Len(p) + Len(q)
           /\ Grow(p, p \o q, {q[k] : k \in 1 .. Len(q)})
           /\ \A k \in 1 .. Len(q) : (p \o q)[Len(p) + k] = q[k]
  <1>1. Len(p) \in Nat /\ Len(q) \in Nat
    OBVIOUS
  <1>2. \A k \in 1 .. Len(p \o q) : k > Len(p) =>
            k - Len(p) \in 1 .. Len(q) /\ (p \o q)[k] = q[k - Len(p)]
    OBVIOUS
  <1> QED BY <1>1, <1>2 DEF Grow

LEMMA StaysGrows ==
    ASSUME NEW S, NEW p \in Seq(S)
    PROVE  Grow(p, p, {}) /\ Len(p) \in Nat
  BY DEF Grow
-----------------------------------------------------------------------------
(***************************************************************************)
(* Types.                                                                  *)
(***************************************************************************)
LEMMA EventTypes ==
    ASSUME NEW e \in Events
    PROVE  /\ e.kind \in Early \cup Ends \cup {"db", "accept"}
           /\ e.kind = "accept" => e.val \in Conns
           /\ e.kind # "accept" => e.id \in Ids /\ e.val \in Int
  BY DEF Events, Early, Ends

LEMMA MadeEvent ==
    ASSUME NEW kind \in Early \cup Ends \cup {"db"}, NEW id \in Ids, NEW v \in Int
    PROVE  /\ Event(kind, id, v) \in Events
           /\ Event(kind, id, v).kind = kind /\ Event(kind, id, v).id = id
           /\ Event(kind, id, v).val = v
  BY DEF Event, Events, Early, Ends

LEMMA MadeAccept ==
    ASSUME NEW c \in Conns
    PROVE  [kind |-> "accept", id |-> 0, val |-> c] \in Events
  BY DEF Events

LEMMA MadeRequest ==
    ASSUME NEW kind \in {"DB_LOGIN", "DB_SAVE"}, NEW id \in Ids, NEW v \in Int
    PROVE  /\ Event(kind, id, v) \in Requests
           /\ Event(kind, id, v).kind = kind /\ Event(kind, id, v).id = id
           /\ Event(kind, id, v).val = v
  BY DEF Event, Requests

LEMMA JobTypes ==
    ASSUME Typed, NEW w \in Workers
    PROVE  /\ job[w].op \in JobOps
           /\ job[w].op # "idle" => /\ job[w].id \in Ids /\ job[w].val \in Int
                                    /\ w \in deployment.workers /\ job[w] # Idle
           /\ job[w].op = "idle" => job[w] = Idle
  BY DEF Typed, Jobs, Idle, JobOps

LEMMA MadeJob ==
    ASSUME Typed, NEW w \in Workers, NEW op \in JobOps \ {"idle"}, NEW id \in Ids, NEW v \in Int,
           Do(w, op, id, v), deployment' = deployment, w \in deployment.workers
    PROVE  /\ job' \in [Workers -> Jobs]
           /\ \A u \in Workers : u \notin deployment'.workers => job'[u] = Idle
           /\ job'[w].op = op /\ job'[w].id = id /\ job'[w].val = v
           /\ \A u \in Workers : u # w => job'[u] = job[u]
  BY DEF Do, Typed, Jobs

LEMMA DoneJob ==
    ASSUME Typed, NEW w \in Workers, Done(w), deployment' = deployment
    PROVE  /\ job' \in [Workers -> Jobs]
           /\ \A u \in Workers : u \notin deployment'.workers => job'[u] = Idle
           /\ job'[w] = Idle
           /\ \A u \in Workers : u # w => job'[u] = job[u]
  BY DEF Done, Typed, Jobs

LEMMA Port ==
    ASSUME Typed
    PROVE  /\ port \in Seq(Events) /\ Len(port) \in Nat
           /\ \A k \in 1 .. Len(port) : port[k] \in Events
           /\ db_queue \in Seq(Requests) /\ Len(db_queue) \in Nat
           /\ \A k \in 1 .. Len(db_queue) : db_queue[k] \in Requests
  BY DEF Typed

\* A receive that is posted, or completes at once.
LEMMA Receives ==
    ASSUME Typed, NEW id \in Ids, do_recv(id)
    PROVE  /\ port' \in Seq(Events) /\ recv_posted' \in [Ids -> BOOLEAN]
           /\ Grow(port, port', {Event("eof", id, 0)}) /\ Len(port) \in Nat /\ Len(port') \in Nat
           /\ \A i \in Ids : i # id => recv_posted'[i] = recv_posted[i]
           /\ Closed(id) /\ socket[id] =>
                \E k \in 1 .. Len(port') : port'[k] = Event("eof", id, 0)
           /\ Closed(id) => recv_posted' = recv_posted
           /\ ~Closed(id) => recv_posted'[id] = socket[id] /\ port' = port
  <1>1. Event("eof", id, 0) \in Events
    BY MadeEvent DEF Early, Ends
  <1>2. port \in Seq(Events) /\ recv_posted \in [Ids -> BOOLEAN] /\ socket \in [Ids -> BOOLEAN]
    BY DEF Typed
  <1>3. CASE Closed(id) /\ socket[id]
    <2>1. port' = Append(port, Event("eof", id, 0)) /\ recv_posted' = recv_posted
      BY <1>3 DEF do_recv
    <2>2. Len(port) + 1 \in 1 .. Len(port')
      BY <1>1, <1>2, <2>1, AppendGrows
    <2> QED BY <1>1, <1>2, <1>3, <2>1, <2>2, AppendGrows
  <1>4. CASE Closed(id) /\ ~socket[id]
    <2>1. port' = port /\ recv_posted' = recv_posted
      BY <1>4 DEF do_recv
    <2> QED BY <1>2, <1>4, <2>1 DEF Grow
  <1>5. CASE ~Closed(id)
    <2>1. port' = port /\ recv_posted' = [recv_posted EXCEPT ![id] = socket[id]]
      BY <1>5 DEF do_recv
    <2> QED BY <1>2, <1>5, <2>1 DEF Grow
  <1> QED BY <1>3, <1>4, <1>5

LEMMA Answers ==
    ASSUME Typed, NEW id \in Ids, Handed(id), Answer(id)
    PROVE  /\ conn' \in [Conns -> ConnStates]
           /\ \A c \in Conns : c # conn_of[id] => conn'[c] = conn[c]
           /\ conn'[conn_of[id]] # conn[conn_of[id]] =>
                conn[conn_of[id]] = "waiting" /\ conn'[conn_of[id]] = "in"
  BY DEF Typed, Answer, Handed, ConnStates

\* Data of a client, or its end.
LEMMA Arrivals ==
    ASSUME Typed, NEW id \in Ids, NEW kind \in Early, Arrives(id, kind)
    PROVE  /\ port' \in Seq(Events) /\ recv_posted' \in [Ids -> BOOLEAN]
           /\ Grow(port, port', {Event(kind, id, 0)}) /\ Len(port) \in Nat
           /\ Len(port') = Len(port) + 1 /\ port'[Len(port')] = Event(kind, id, 0)
           /\ \A i \in Ids : i # id => recv_posted'[i] = recv_posted[i]
           /\ recv_posted[id] /\ ~recv_posted'[id]
  <1>1. Event(kind, id, 0) \in Events
    BY MadeEvent
  <1>2. port \in Seq(Events) /\ recv_posted \in [Ids -> BOOLEAN]
    BY DEF Typed
  <1> QED BY <1>1, <1>2, AppendGrows DEF Arrives

\* One event, or none, added at the end.
LEMMA Singles ==
    ASSUME NEW S, NEW a \in S, NEW x \in {<<>>, <<a>>}
    PROVE  /\ x \in Seq(S) /\ Len(x) \in Nat
           /\ \A k \in 1 .. Len(x) : x[k] = a
           /\ x = <<a>> => Len(x) = 1
  <1>1. CASE x = <<>>
    <2>1. Len(x) = 0 /\ x \in Seq(S)
      BY <1>1
    <2>2. x # <<a>>
      BY <1>1
    <2> QED BY <2>1, <2>2
  <1>2. CASE x = <<a>>
    BY <1>2
  <1> QED BY <1>1, <1>2

LEMMA GrowsByOne ==
    ASSUME NEW S, NEW p \in Seq(S), NEW a \in S, NEW x \in {<<>>, <<a>>}
    PROVE  /\ p \o x \in Seq(S) /\ Len(p) \in Nat /\ Len(p \o x) \in Nat
           /\ Grow(p, p \o x, {a})
           /\ x = <<a>> => Len(p) + 1 \in 1 .. Len(p \o x) /\ (p \o x)[Len(p) + 1] = a
  <1>1. /\ x \in Seq(S) /\ Len(x) \in Nat /\ \A k \in 1 .. Len(x) : x[k] = a
        /\ x = <<a>> => Len(x) = 1
    BY Singles, ZenonT(60)
  <1>2. /\ p \o x \in Seq(S) /\ Len(p) \in Nat /\ Len(p \o x) = Len(p) + Len(x)
        /\ Grow(p, p \o x, {x[k] : k \in 1 .. Len(x)})
        /\ \A k \in 1 .. Len(x) : (p \o x)[Len(p) + k] = x[k]
    BY <1>1, ConcatGrows
  <1>3. {x[k] : k \in 1 .. Len(x)} \subseteq {a}
    BY <1>1
  <1> PICK q : q = p \o x
    OBVIOUS
  <1>4. Grow(p, q, {a})
    BY <1>2, <1>3 DEF Grow
  <1>5. x = <<a>> => Len(p) + 1 \in 1 .. Len(q) /\ q[Len(p) + 1] = a
    BY <1>1, <1>2
  <1> QED BY <1>1, <1>2, <1>4, <1>5

LEMMA GrowsOn ==
    ASSUME NEW p, NEW q, NEW r, NEW X, NEW Y, Grow(p, q, X), Grow(q, r, Y),
           Len(p) \in Nat, Len(q) \in Nat, Len(r) \in Nat
    PROVE  Grow(p, r, X \cup Y)
  BY DEF Grow

LEMMA Closes ==
    ASSUME Typed, NEW id \in Ids, Close(id)
    PROVE  /\ port' \in Seq(Events)
           /\ recv_posted' = [recv_posted EXCEPT ![id] = FALSE]
           /\ Grow(port, port', {Event("eof", id, 0), Event("senderr", id, 0)})
           /\ Len(port) \in Nat /\ Len(port') \in Nat
           /\ recv_posted[id] => \E k \in 1 .. Len(port') : port'[k] = Event("eof", id, 0)
  <1> DEFINE a == Event("eof", id, 0)
             b == Event("senderr", id, 0)
  <1>1. a \in Events /\ b \in Events
    BY MadeEvent DEF Early, Ends
  <1>2. port \in Seq(Events)
    BY DEF Typed
  <1>3. PICK y \in {<<>>, <<b>>} :
            port' = port \o (IF recv_posted[id] THEN <<a>> ELSE <<>>) \o y
    BY DEF Close
  <1>4. PICK x \in {<<>>, <<a>>} : port' = (port \o x) \o y /\ (recv_posted[id] => x = <<a>>)
    BY <1>3
  <1> HIDE DEF a, b
  <1>5. PICK q : q = port \o x
    OBVIOUS
  <1>6. /\ q \in Seq(Events) /\ Len(port) \in Nat /\ Len(q) \in Nat /\ Grow(port, q, {a})
        /\ x = <<a>> => Len(port) + 1 \in 1 .. Len(q) /\ q[Len(port) + 1] = a
    BY <1>1, <1>2, <1>5, GrowsByOne, ZenonT(60)
  <1>7. /\ port' \in Seq(Events) /\ Len(port') \in Nat /\ Grow(q, port', {b})
    BY <1>1, <1>4, <1>5, <1>6, GrowsByOne, ZenonT(60)
  <1>8. Grow(port, port', {a} \cup {b})
    BY <1>6, <1>7, GrowsOn
  <1>9. recv_posted[id] => \E k \in 1 .. Len(port') : port'[k] = a
    BY <1>4, <1>6, <1>7 DEF Grow
  <1>10. {a} \cup {b} = {a, b}
    OBVIOUS
  <1> QED BY <1>6, <1>7, <1>8, <1>9, <1>10 DEF Close, a, b

LEMMA Pops ==
    ASSUME Typed, port # <<>>, port' = Tail(port)
    PROVE  /\ port' \in Seq(Events) /\ Len(port) \in Nat /\ Len(port') \in Nat
           /\ Shift(port, port') /\ Head(port) = port[1] /\ port[1] \in Events
  BY TailShifts DEF Typed
-----------------------------------------------------------------------------
(***************************************************************************)
(* Ids and connections, with any number of workers.                        *)
(***************************************************************************)
Base == Typed /\ Numbered /\ Connected

\* A step that hands out no id; a connection only goes on towards its end.
Onward ==
    /\ UNCHANGED <<deployment, conn_of, player_index>>
    /\ \A id \in Ids : socket'[id] = registered'[id] /\ (registered'[id] => registered[id])
    /\ \A id \in Ids : m_state'[id] # "CS_FREE" \/ m_state'[id] = m_state[id]
    /\ \A u \in Workers : job'[u] = Idle \/ Handed(job'[u].id)
    /\ \A k \in 1 .. Len(db_queue') : Handed(db_queue'[k].id)
    /\ \A c \in Conns : \/ conn'[c] = conn[c]
                        \/ /\ conn[c] \in {"connected", "waiting", "in"}
                           /\ conn'[c] \in {"waiting", "in", "closed"}

LEMMA OnwardNumbered ==
    ASSUME Base, Onward,
           \A k \in 1 .. Len(port') : port'[k].kind # "accept" => Handed(port'[k].id)
    PROVE  Numbered'
  <1>1. \A id \in Ids : Handed(id)' <=> Handed(id)
    BY DEF Onward, Handed
  <1>2. \A id \in Ids : Handed(id) <=> id < player_index
    BY DEF Base, Numbered
  <1>3. \A id \in Ids : registered[id] => Handed(id)
    BY DEF Base, Numbered
  <1>4. \A id \in Ids : Handed(id) => m_state[id] # "CS_FREE"
    BY DEF Base, Numbered
  <1>5. player_index' = player_index /\ conn_of' = conn_of
    BY DEF Onward
  <1>6. \A k \in 1 .. Len(port') : port'[k].kind # "accept" => conn_of'[port'[k].id] # NOBODY
    BY <1>5 DEF Handed
  <1>7. \A k \in 1 .. Len(db_queue') : conn_of'[db_queue'[k].id] # NOBODY
    BY <1>5 DEF Handed, Onward
  <1>8. \A u \in Workers : job'[u] # Idle => conn_of'[job'[u].id] # NOBODY
    BY <1>5 DEF Handed, Onward
  <1>9. \A id \in Ids : conn_of'[id] # NOBODY => m_state'[id] # "CS_FREE"
    BY <1>4, <1>5 DEF Handed, Onward
  <1>10. \A id \in Ids : registered'[id] => conn_of'[id] # NOBODY
    BY <1>3, <1>5 DEF Handed, Onward
  <1>11. \A id \in Ids : conn_of'[id] # NOBODY <=> id < player_index'
    BY <1>2, <1>5 DEF Handed
  <1>12. \A id \in Ids : socket'[id] = registered'[id]
    BY DEF Onward
  <1> QED BY <1>6, <1>7, <1>8, <1>9, <1>10, <1>11, <1>12 DEF Numbered, Handed, Idle

\* Every completion of an AcceptEx was there before, n places later.
Held(n) == \A k \in 1 .. Len(port') : port'[k].kind = "accept" =>
               k + n \in 1 .. Len(port) /\ port'[k] = port[k + n]

LEMMA OnwardConnected ==
    ASSUME Base, Onward, Typed', NEW n \in Int, Len(port) \in Nat, Len(port') \in Nat, Held(n)
    PROVE  Connected'
  <1>1. conn_of' = conn_of
    BY DEF Onward
  <1>2. \A id \in Ids : Handed(id)' => conn'[conn_of'[id]] \in {"connected", "waiting", "in", "closed"}
    BY <1>1 DEF Base, Connected, Onward, Handed, Typed
  <1>3. \A i, j \in Ids : Handed(i)' /\ conn_of'[i] = conn_of'[j] => i = j
    BY <1>1 DEF Base, Connected, Handed
  <1>4. \A k \in 1 .. Len(port') : port'[k].kind = "accept" => conn'[port'[k].val] = "connecting"
    <2> SUFFICES ASSUME NEW k \in 1 .. Len(port'), port'[k].kind = "accept"
                 PROVE  conn'[port'[k].val] = "connecting"
      OBVIOUS
    <2>1. k + n \in 1 .. Len(port) /\ port'[k] = port[k + n]
      BY DEF Held
    <2>2. conn[port[k + n].val] = "connecting"
      BY <2>1 DEF Base, Connected
    <2>3. port[k + n].val \in Conns
      BY <2>1, Port, EventTypes DEF Base
    <2> QED BY <2>1, <2>2, <2>3 DEF Onward
  <1>5. \A k, l \in 1 .. Len(port') :
          port'[k].kind = "accept" /\ port'[l].kind = "accept" /\ port'[k].val = port'[l].val => k = l
    <2> SUFFICES ASSUME NEW k \in 1 .. Len(port'), NEW l \in 1 .. Len(port'),
                        port'[k].kind = "accept", port'[l].kind = "accept", port'[k].val = port'[l].val
                 PROVE  k = l
      OBVIOUS
    <2>1. k + n \in 1 .. Len(port) /\ l + n \in 1 .. Len(port)
          /\ port'[k] = port[k + n] /\ port'[l] = port[l + n]
      BY DEF Held
    <2>2. k + n = l + n
      BY <2>1 DEF Base, Connected
    <2> QED BY <2>2
  <1>6. \A c, d \in Conns : c # d /\ AccountOf[c] = AccountOf[d] => Gone(c)' \/ Gone(d)'
    <2>1. \A c \in Conns : Gone(c) => Gone(c)'
      BY DEF Gone, Onward
    <2> QED BY <2>1 DEF Base, Connected
  <1> QED BY <1>2, <1>3, <1>4, <1>5, <1>6 DEF Connected

\* The queue loses its head, or gets events of ids that are handed out.
LEMMA OnwardShift ==
    ASSUME Base, Onward, Typed', port # <<>>, port' = Tail(port)
    PROVE  Base'
  <1>1. Shift(port, port') /\ Len(port) \in Nat /\ Len(port') \in Nat
    BY Pops DEF Base
  <1>2. \A k \in 1 .. Len(port') : k + 1 \in 1 .. Len(port) /\ port'[k] = port[k + 1]
    BY <1>1 DEF Shift
  <1>3. \A k \in 1 .. Len(port') : port'[k].kind # "accept" => Handed(port'[k].id)
    BY <1>2 DEF Base, Numbered
  <1>4. Numbered'
    BY <1>3, OnwardNumbered
  <1>5. Held(1)
    BY <1>2 DEF Held
  <1>6. Connected'
    BY <1>1, <1>5, OnwardConnected
  <1> QED BY <1>4, <1>6 DEF Base

LEMMA OnwardGrow ==
    ASSUME Base, Onward, Typed', NEW X, Grow(port, port', X),
           \A e \in X : e.kind # "accept" /\ Handed(e.id)
    PROVE  Base'
  <1>1. Len(port) \in Nat /\ Len(port') \in Nat
    BY DEF Base, Typed
  <1>2. \A k \in 1 .. Len(port') :
            (k \in 1 .. Len(port) /\ port'[k] = port[k]) \/ port'[k] \in X
    BY <1>1 DEF Grow
  <1>3. \A k \in 1 .. Len(port') : port'[k].kind # "accept" => Handed(port'[k].id)
    BY <1>2 DEF Base, Numbered
  <1>4. Held(0)
    BY <1>1, <1>2 DEF Held
  <1>5. Numbered'
    BY <1>3, OnwardNumbered
  <1>6. Connected'
    BY <1>1, <1>4, OnwardConnected
  <1> QED BY <1>5, <1>6 DEF Base

LEMMA OnwardSame ==
    ASSUME Base, Onward, Typed', port' = port
    PROVE  Base'
  <1>1. Grow(port, port', {})
    BY StaysGrows DEF Base, Typed
  <1> QED BY <1>1, OnwardGrow

LEMMA Busy ==
    ASSUME Base, NEW w \in Workers, job[w].op # "idle"
    PROVE  /\ job[w].id \in Ids /\ job[w].val \in Int /\ w \in deployment.workers
           /\ Handed(job[w].id) /\ conn_of[job[w].id] \in Conns /\ Account(job[w].id) \in Accounts
  <1>1. /\ job[w].id \in Ids /\ job[w].val \in Int
        /\ w \in deployment.workers /\ job[w] # Idle
    BY JobTypes DEF Base
  <1>2. Handed(job[w].id)
    BY <1>1 DEF Base, Numbered
  <1>3. conn_of[job[w].id] \in Conns
    BY <1>1, <1>2 DEF Base, Typed, Handed
  <1> QED BY <1>1, <1>2, <1>3 DEF Account, Accounts

LEMMA First ==
    ASSUME Base, port # <<>>
    PROVE  /\ Head(port) \in Events
           /\ Head(port).kind \in Early \cup Ends \cup {"db", "accept"}
           /\ Head(port).kind = "accept" =>
                /\ Head(port).val \in Conns
                /\ conn[Head(port).val] = "connecting"
                /\ \A k \in 1 .. Len(port) : k > 1 /\ port[k].kind = "accept" =>
                       port[k].val # Head(port).val
           /\ Head(port).kind # "accept" =>
                Head(port).id \in Ids /\ Head(port).val \in Int /\ Handed(Head(port).id)
  <1>1. Head(port) = port[1] /\ port[1] \in Events /\ Len(port) \in Nat /\ 1 \in 1 .. Len(port)
    BY TailShifts DEF Base, Typed, Shift
  <1>2. port[1].kind # "accept" => Handed(port[1].id)
    BY <1>1 DEF Base, Numbered
  <1>3. port[1].kind = "accept" =>
            /\ conn[port[1].val] = "connecting"
            /\ \A k \in 1 .. Len(port) : k > 1 /\ port[k].kind = "accept" =>
                   port[k].val # port[1].val
    BY <1>1 DEF Base, Connected
  <1> QED BY <1>1, <1>2, <1>3, EventTypes

LEMMA FirstRequest ==
    ASSUME Base, db_queue # <<>>, db_queue' = Tail(db_queue)
    PROVE  /\ Head(db_queue) = db_queue[1] /\ 1 \in 1 .. Len(db_queue)
           /\ Head(db_queue).kind \in {"DB_LOGIN", "DB_SAVE"}
           /\ Head(db_queue).id \in Ids /\ Head(db_queue).val \in Int /\ Handed(Head(db_queue).id)
           /\ Account(Head(db_queue).id) \in Accounts
           /\ db_queue' \in Seq(Requests) /\ Shift(db_queue, db_queue')
           /\ Len(db_queue) \in Nat /\ Len(db_queue') \in Nat
  <1>1. /\ Head(db_queue) = db_queue[1] /\ db_queue[1] \in Requests
        /\ Len(db_queue) \in Nat /\ 1 \in 1 .. Len(db_queue)
        /\ db_queue' \in Seq(Requests) /\ Shift(db_queue, db_queue') /\ Len(db_queue') \in Nat
    BY TailShifts DEF Base, Typed, Shift
  <1>2. Handed(db_queue[1].id)
    BY <1>1 DEF Base, Numbered
  <1>3. /\ db_queue[1].kind \in {"DB_LOGIN", "DB_SAVE"}
        /\ db_queue[1].id \in Ids /\ db_queue[1].val \in Int
    BY <1>1 DEF Requests
  <1>4. conn_of[db_queue[1].id] \in Conns
    BY <1>2, <1>3 DEF Base, Typed, Handed
  <1> QED BY <1>1, <1>2, <1>3, <1>4 DEF Account, Accounts

\* What Onward asks when the action leaves most of the state alone.
LEMMA OnwardJobs ==
    ASSUME Base, UNCHANGED <<deployment, conn_of, player_index, registered, socket, m_state,
                             conn, db_queue>>,
           \A u \in Workers : job'[u] = job[u] \/ job'[u] = Idle \/ Handed(job'[u].id)
    PROVE  Onward
  BY DEF Onward, Base, Numbered

LEMMA OnwardState ==
    ASSUME Base, UNCHANGED <<deployment, conn_of, player_index, registered, socket, conn>>,
           NEW id \in Ids, NEW s \in ClStates \ {"CS_FREE"},
           m_state' = [m_state EXCEPT ![id] = s] \/ m_state' = m_state,
           \A u \in Workers : job'[u] = job[u] \/ job'[u] = Idle \/ Handed(job'[u].id),
           \A k \in 1 .. Len(db_queue') : Handed(db_queue'[k].id)
    PROVE  Onward
  BY DEF Onward, Base, Numbered, Typed

LEMMA QueueGrows ==
    ASSUME Base, NEW id \in Ids, Handed(id), NEW v \in Int, NEW kind \in {"DB_LOGIN", "DB_SAVE"},
           db_queue' = Append(db_queue, Event(kind, id, v))
    PROVE  /\ db_queue' \in Seq(Requests) /\ Grow(db_queue, db_queue', {Event(kind, id, v)})
           /\ Len(db_queue) \in Nat /\ Len(db_queue') = Len(db_queue) + 1
           /\ db_queue'[Len(db_queue')] = Event(kind, id, v)
           /\ \A k \in 1 .. Len(db_queue') : Handed(db_queue'[k].id)
  <1> PICK e : e = Event(kind, id, v)
    OBVIOUS
  <1>1. e \in Requests /\ e.id = id
    BY MadeRequest
  <1>2. /\ db_queue' \in Seq(Requests) /\ Grow(db_queue, db_queue', {e})
        /\ Len(db_queue) \in Nat /\ Len(db_queue') = Len(db_queue) + 1
        /\ db_queue'[Len(db_queue')] = e
    <2>1. db_queue \in Seq(Requests)
      BY DEF Base, Typed
    <2>2. db_queue' = Append(db_queue, e)
      OBVIOUS
    <2> QED BY <1>1, <2>1, <2>2, AppendGrows
  <1>3. \A k \in 1 .. Len(db_queue') :
            (k \in 1 .. Len(db_queue) /\ db_queue'[k] = db_queue[k]) \/ db_queue'[k] = e
    BY <1>2 DEF Grow
  <1>4. \A k \in 1 .. Len(db_queue') : Handed(db_queue'[k].id)
    BY <1>1, <1>3 DEF Base, Numbered
  <1> QED BY <1>2, <1>4
-----------------------------------------------------------------------------
LEMMA BaseInit ==
    ASSUME Init
    PROVE  Base
  <1>1. Typed
    <2>1. Idle \in Jobs
      BY DEF Jobs
    <2> QED BY <2>1 DEF Init, Typed, ConnStates, ClStates
  <1>2. Numbered
    BY DEF Init, Numbered, Handed, Ids
  <1>3. Connected
    BY DEF Init, Connected, Handed, Gone
  <1> QED BY <1>1, <1>2, <1>3 DEF Base

LEMMA BaseStutter ==
    ASSUME Base, UNCHANGED vars
    PROVE  Base'
  <1>1. Typed'
    BY DEF Base, Typed, vars
  <1>2. Numbered'
    BY DEF Base, Numbered, Handed, vars
  <1>3. Connected'
    BY DEF Base, Connected, Handed, Gone, vars
  <1> QED BY <1>1, <1>2, <1>3 DEF Base

LEMMA BaseConnect ==
    ASSUME Base, NEW c \in Conns, Connect(c)
    PROVE  Base'
  <1> DEFINE e == [kind |-> "accept", id |-> 0, val |-> c]
  <1>1. e \in Events /\ e.kind = "accept" /\ e.val = c
    BY MadeAccept
  <1>2. /\ port' = Append(port, e) /\ conn' = [conn EXCEPT ![c] = "connecting"] /\ conn[c] = "new"
        /\ \A d \in Conns \ {c} : AccountOf[d] = AccountOf[c] => Gone(d)
        /\ UNCHANGED <<deployment, conn_of, player_index, registered, m_state, progress, in_sector,
                       socket, recv_posted, db_queue, rows, job, gained>>
    BY DEF Connect, sessionVars
  <1> HIDE DEF e
  <1>3. /\ port' \in Seq(Events) /\ Len(port) \in Nat /\ Len(port') = Len(port) + 1
        /\ port'[Len(port) + 1] = e
        /\ \A k \in 1 .. Len(port) : port'[k] = port[k]
    BY <1>1, <1>2, AppendGrows DEF Base, Typed, Grow
  <1>4. conn' \in [Conns -> ConnStates] /\ conn'[c] = "connecting"
        /\ \A d \in Conns : d # c => conn'[d] = conn[d]
    BY <1>2 DEF Base, Typed, ConnStates
  <1>5. Typed'
    BY <1>2, <1>3, <1>4 DEF Base, Typed
  <1>6. \A k \in 1 .. Len(port') :
            (k \in 1 .. Len(port) /\ port'[k] = port[k]) \/ (k = Len(port) + 1 /\ port'[k] = e)
    BY <1>3
  <1>7. Numbered'
    <2>1. \A k \in 1 .. Len(port') : port'[k].kind # "accept" => Handed(port'[k].id)
      BY <1>1, <1>6 DEF Base, Numbered
    <2> QED BY <1>2, <2>1 DEF Base, Numbered, Handed
  <1>8. \A k \in 1 .. Len(port) : port[k].kind = "accept" =>
            port[k].val \in Conns /\ port[k].val # c /\ conn[port[k].val] = "connecting"
    BY <1>2, Port, EventTypes DEF Base, Connected
  <1>9. Connected'
    <2>1. \A id \in Ids : Handed(id)' =>
              conn'[conn_of'[id]] \in {"connected", "waiting", "in", "closed"}
      BY <1>2, <1>4 DEF Base, Connected, Handed, Typed
    <2>2. \A k \in 1 .. Len(port') : port'[k].kind = "accept" => conn'[port'[k].val] = "connecting"
      BY <1>1, <1>4, <1>6, <1>8
    <2>3. \A k, l \in 1 .. Len(port') :
            port'[k].kind = "accept" /\ port'[l].kind = "accept" /\ port'[k].val = port'[l].val => k = l
      BY <1>1, <1>6, <1>8 DEF Base, Connected
    <2>4. \A d, f \in Conns : d # f /\ AccountOf[d] = AccountOf[f] => Gone(d)' \/ Gone(f)'
      <3>1. \A d \in Conns : d # c /\ Gone(d) => Gone(d)'
        BY <1>4 DEF Gone
      <3> QED BY <1>2, <3>1 DEF Base, Connected
    <2>5. \A i, j \in Ids : Handed(i)' /\ conn_of'[i] = conn_of'[j] => i = j
      BY <1>2 DEF Base, Connected, Handed
    <2> QED BY <2>1, <2>2, <2>3, <2>4, <2>5 DEF Connected
  <1> QED BY <1>5, <1>7, <1>9 DEF Base

LEMMA BaseSends ==
    ASSUME Base, NEW id \in Ids, NEW kind \in Early, Arrives(id, kind), Handed(id),
           UNCHANGED <<deployment, sessionVars, db_queue, rows, job, gained>>,
           \/ conn' = conn
           \/ conn[conn_of[id]] = "connected" /\ conn' = [conn EXCEPT ![conn_of[id]] = "waiting"]
    PROVE  Base'
  <1>1. /\ port' \in Seq(Events) /\ recv_posted' \in [Ids -> BOOLEAN]
        /\ Grow(port, port', {Event(kind, id, 0)})
    BY Arrivals DEF Base
  <1>2. conn_of[id] \in Conns
    BY DEF Base, Typed, Handed
  <1>3. Typed'
    BY <1>1, <1>2 DEF Base, Typed, sessionVars, ConnStates
  <1>4. Onward
    BY <1>2 DEF Onward, Base, Numbered, sessionVars, Typed
  <1>5. \A e \in {Event(kind, id, 0)} : e.kind # "accept" /\ Handed(e.id)
    BY DEF Event, Early
  <1> QED BY <1>1, <1>3, <1>4, <1>5, OnwardGrow

LEMMA BaseSendLogin ==
    ASSUME Base, NEW id \in Ids, SendLogin(id)
    PROVE  Base'
  <1>1. Arrives(id, "login") /\ Handed(id) /\ "login" \in Early
    BY DEF SendLogin, Handed, Early
  <1> QED BY <1>1, BaseSends DEF SendLogin

LEMMA BaseSendPlay ==
    ASSUME Base, NEW id \in Ids, SendPlay(id)
    PROVE  Base'
  <1>1. Arrives(id, "play") /\ Handed(id) /\ "play" \in Early
    BY DEF SendPlay, Handed, Early
  <1> QED BY <1>1, BaseSends DEF SendPlay

LEMMA BaseClose ==
    ASSUME Base, NEW id \in Ids, Close(id)
    PROVE  Base'
  <1>1. /\ port' \in Seq(Events) /\ recv_posted' = [recv_posted EXCEPT ![id] = FALSE]
        /\ Grow(port, port', {Event("eof", id, 0), Event("senderr", id, 0)})
    BY Closes DEF Base
  <1>2. /\ conn[conn_of[id]] \in {"connected", "waiting", "in"} /\ Handed(id)
        /\ conn' = [conn EXCEPT ![conn_of[id]] = "closed"]
        /\ UNCHANGED <<deployment, conn_of, player_index, registered, m_state, progress, in_sector,
                       socket, db_queue, rows, job, gained>>
    BY DEF Close, Handed, sessionVars
  <1>3. conn_of[id] \in Conns
    BY <1>2 DEF Base, Typed, Handed
  <1>4. Typed'
    BY <1>1, <1>2, <1>3 DEF Base, Typed, ConnStates
  <1>5. Onward
    BY <1>2, <1>3 DEF Onward, Base, Numbered, Typed
  <1>6. \A e \in {Event("eof", id, 0), Event("senderr", id, 0)} : e.kind # "accept" /\ Handed(e.id)
    BY <1>2 DEF Event
  <1> QED BY <1>1, <1>4, <1>5, <1>6, OnwardGrow

LEMMA BaseAccept ==
    ASSUME Base, NEW w \in Workers, Accept(w)
    PROVE  Base'
  <1> DEFINE c == Head(port).val
  <1>1. /\ Takes(w, "accept") /\ player_index' = player_index + 1 /\ port' = Tail(port)
        /\ UNCHANGED <<deployment, progress, in_sector, db_queue, rows, job, gained>>
    BY DEF Accept
  <1>2. /\ c \in Conns /\ conn[c] = "connecting"
        /\ \A k \in 1 .. Len(port) : k > 1 /\ port[k].kind = "accept" => port[k].val # c
    BY <1>1, First DEF Takes
  <1>3. /\ port' \in Seq(Events) /\ Len(port) \in Nat /\ Len(port') \in Nat
        /\ \A k \in 1 .. Len(port') : k + 1 \in 1 .. Len(port) /\ port'[k] = port[k + 1]
    BY <1>1, Pops DEF Base, Takes, Shift
  <1>4. player_index \in Nat \ {0}
    BY DEF Base, Typed
  <1>5. \A k \in 1 .. Len(port') : port'[k].kind = "accept" =>
            port'[k].val \in Conns /\ port'[k].val # c /\ conn[port'[k].val] = "connecting"
    <2> SUFFICES ASSUME NEW k \in 1 .. Len(port'), port'[k].kind = "accept"
                 PROVE  port'[k].val \in Conns /\ port'[k].val # c /\ conn[port'[k].val] = "connecting"
      OBVIOUS
    <2>1. k + 1 \in 1 .. Len(port) /\ port'[k] = port[k + 1] /\ k + 1 > 1
      BY <1>3
    <2>2. port[k + 1].val \in Conns
      BY <2>1, Port, EventTypes DEF Base
    <2>3. conn[port[k + 1].val] = "connecting"
      BY <2>1 DEF Base, Connected
    <2> QED BY <1>2, <2>1, <2>2, <2>3
  <1>6. \A k, l \in 1 .. Len(port') :
            port'[k].kind = "accept" /\ port'[l].kind = "accept" /\ port'[k].val = port'[l].val => k = l
    <2> SUFFICES ASSUME NEW k \in 1 .. Len(port'), NEW l \in 1 .. Len(port'),
                        port'[k].kind = "accept", port'[l].kind = "accept", port'[k].val = port'[l].val
                 PROVE  k = l
      OBVIOUS
    <2>1. /\ k + 1 \in 1 .. Len(port) /\ l + 1 \in 1 .. Len(port)
          /\ port'[k] = port[k + 1] /\ port'[l] = port[l + 1]
      BY <1>3
    <2>2. k + 1 = l + 1
      BY <2>1 DEF Base, Connected
    <2> QED BY <2>2
  <1>7. \A k \in 1 .. Len(port') : port'[k].kind # "accept" => Handed(port'[k].id)
    BY <1>3 DEF Base, Numbered
  <1>8. \A id \in Ids : Handed(id) => conn_of[id] # c /\ conn_of[id] \in Conns
    BY <1>2 DEF Base, Connected, Handed, Typed
  <1> HIDE DEF c
  <1>9. CASE player_index >= NPC_ID_START
    <2>1. /\ conn' = [conn EXCEPT ![c] = "refused"]
          /\ UNCHANGED <<conn_of, registered, m_state, socket, recv_posted>>
      BY <1>4, <1>9, LifeAssumption DEF Accept, get_new_player_id, c
    <2>2. conn'[c] = "refused" /\ \A d \in Conns : d # c => conn'[d] = conn[d]
      BY <1>2, <2>1 DEF Base, Typed
    <2>3. Typed'
      <3>1. conn' \in [Conns -> ConnStates] /\ player_index' \in Nat \ {0}
        BY <1>1, <1>2, <1>4, <2>1 DEF Base, Typed, ConnStates
      <3> QED BY <1>1, <1>3, <2>1, <3>1 DEF Base, Typed
    <2>4. Numbered'
      <3>1. \A id \in Ids : Handed(id) <=> id < player_index + 1
        BY <1>4, <1>9, LifeAssumption DEF Base, Numbered, Ids
      <3> QED BY <1>1, <1>7, <2>1, <3>1 DEF Base, Numbered, Handed
    <2>5. Connected'
      <3>1. \A d \in Conns : Gone(d) \/ d = c => Gone(d)'
        BY <2>2 DEF Gone
      <3>2. \A d, f \in Conns : d # f /\ AccountOf[d] = AccountOf[f] => Gone(d)' \/ Gone(f)'
        BY <3>1 DEF Base, Connected
      <3>3. \A k \in 1 .. Len(port') : port'[k].kind = "accept" => conn'[port'[k].val] = "connecting"
        BY <1>5, <2>2
      <3>4. \A id \in Ids : Handed(id)' =>
                conn'[conn_of'[id]] \in {"connected", "waiting", "in", "closed"}
        BY <1>8, <2>1, <2>2 DEF Base, Connected, Handed
      <3>5. \A i, j \in Ids : Handed(i)' /\ conn_of'[i] = conn_of'[j] => i = j
        BY <2>1 DEF Base, Connected, Handed
      <3> QED BY <1>6, <3>2, <3>3, <3>4, <3>5 DEF Connected
    <2> QED BY <2>3, <2>4, <2>5 DEF Base
  <1>10. CASE player_index < NPC_ID_START
    <2> PICK n : n = player_index
      OBVIOUS
    <2>1. /\ conn' = [conn EXCEPT ![c] = "connected"]
          /\ conn_of' = [conn_of EXCEPT ![n] = c]
          /\ registered' = [registered EXCEPT ![n] = TRUE]
          /\ m_state' = [m_state EXCEPT ![n] = "CS_CONNECT"]
          /\ socket' = [socket EXCEPT ![n] = TRUE]
          /\ recv_posted' = [recv_posted EXCEPT ![n] = TRUE]
      BY <1>4, <1>10, LifeAssumption DEF Accept, get_new_player_id, c
    <2>2. n \in Ids /\ ~Handed(n) /\ c # NOBODY
      BY <1>2, <1>4, <1>10, LifeAssumption DEF Base, Numbered, Ids
    <2>3. /\ conn'[c] = "connected" /\ \A d \in Conns : d # c => conn'[d] = conn[d]
          /\ conn_of'[n] = c /\ \A id \in Ids : id # n => conn_of'[id] = conn_of[id]
      BY <1>2, <2>1, <2>2 DEF Base, Typed
    <2>4. Typed'
      BY <1>1, <1>2, <1>3, <1>4, <2>1, <2>2 DEF Base, Typed, ConnStates, ClStates
    <2>5. Numbered'
      <3>1. \A id \in Ids : Handed(id)' <=> id = n \/ Handed(id)
        BY <2>2, <2>3 DEF Handed
      <3>2. \A id \in Ids : Handed(id)' <=> id < player_index'
        BY <1>1, <1>4, <3>1 DEF Base, Numbered, Ids
      <3>3. /\ \A id \in Ids : registered'[id] => Handed(id)'
            /\ \A id \in Ids : Handed(id)' => m_state'[id] # "CS_FREE"
            /\ \A id \in Ids : socket'[id] = registered'[id]
        BY <2>1, <2>2, <3>1 DEF Base, Numbered, Typed
      <3>4. \A u \in Workers : job'[u] # Idle => conn_of'[job'[u].id] # NOBODY
        <4> SUFFICES ASSUME NEW u \in Workers, job'[u] # Idle
                     PROVE  conn_of'[job'[u].id] # NOBODY
          OBVIOUS
        <4>1. job'[u] = job[u] /\ job[u].id \in Ids /\ Handed(job[u].id)
          BY <1>1 DEF Base, Numbered, Typed, Jobs
        <4> QED BY <2>2, <2>3, <4>1 DEF Handed
      <3>5. \A k \in 1 .. Len(port') : port'[k].kind # "accept" => conn_of'[port'[k].id] # NOBODY
        <4> SUFFICES ASSUME NEW k \in 1 .. Len(port'), port'[k].kind # "accept"
                     PROVE  conn_of'[port'[k].id] # NOBODY
          OBVIOUS
        <4>1. port'[k] \in Events
          BY <1>3
        <4>2. port'[k].id \in Ids /\ Handed(port'[k].id)
          BY <1>7, <4>1, EventTypes
        <4> QED BY <2>2, <2>3, <4>2 DEF Handed
      <3>6. \A k \in 1 .. Len(db_queue') : conn_of'[db_queue'[k].id] # NOBODY
        <4> SUFFICES ASSUME NEW k \in 1 .. Len(db_queue')
                     PROVE  conn_of'[db_queue'[k].id] # NOBODY
          OBVIOUS
        <4>1. db_queue'[k].id \in Ids /\ Handed(db_queue'[k].id)
          BY <1>1, Port DEF Base, Numbered, Requests
        <4> QED BY <2>2, <2>3, <4>1 DEF Handed
      <3> QED BY <3>2, <3>3, <3>4, <3>5, <3>6 DEF Numbered, Handed, Idle
    <2>6. Connected'
      <3>1. \A id \in Ids : Handed(id)' =>
                conn'[conn_of'[id]] \in {"connected", "waiting", "in", "closed"}
        BY <1>8, <2>2, <2>3 DEF Base, Connected, Handed
      <3>2. \A i, j \in Ids : Handed(i)' /\ conn_of'[i] = conn_of'[j] => i = j
        BY <1>8, <2>2, <2>3 DEF Base, Connected, Handed
      <3>3. \A d \in Conns : Gone(d)' <=> Gone(d)
        BY <1>2, <2>3 DEF Gone
      <3>4. \A k \in 1 .. Len(port') : port'[k].kind = "accept" => conn'[port'[k].val] = "connecting"
        BY <1>5, <2>3
      <3>5. \A d, f \in Conns : d # f /\ AccountOf[d] = AccountOf[f] => Gone(d)' \/ Gone(f)'
        BY <3>3 DEF Base, Connected
      <3> QED BY <1>6, <3>1, <3>2, <3>4, <3>5 DEF Connected
    <2> QED BY <2>4, <2>5, <2>6 DEF Base
  <1> QED BY <1>4, <1>9, <1>10, LifeAssumption

\* One worker takes a completion of a session and keeps or passes it on.
LEMMA BaseTakes ==
    ASSUME Base, NEW w \in Workers, Ready(w), port # <<>>, Head(port).kind # "accept",
           port' = Tail(port),
           UNCHANGED <<deployment, conn, conn_of, player_index, registered, progress, in_sector,
                       socket, recv_posted, db_queue, rows, gained>>,
           NEW op \in JobOps \ {"idle"}, NEW v \in Int,
           job' = job \/ Do(w, op, Head(port).id, v),
           \/ m_state' = m_state
           \/ m_state' = [m_state EXCEPT ![Head(port).id] = "CS_LOGOUT"]
    PROVE  Base'
  <1>1. Head(port).id \in Ids /\ Handed(Head(port).id)
    BY First
  <1>2. port' \in Seq(Events)
    BY Pops DEF Base
  <1>3. /\ job' \in [Workers -> Jobs]
        /\ \A u \in Workers : u \notin deployment'.workers => job'[u] = Idle
        /\ \A u \in Workers : job'[u] = job[u] \/ Handed(job'[u].id)
    <2>1. CASE job' = job
      BY <2>1 DEF Base, Typed
    <2>2. CASE Do(w, op, Head(port).id, v)
      BY <1>1, <2>2, MadeJob DEF Base, Ready
    <2> QED BY <2>1, <2>2
  <1>4. m_state' \in [Ids -> ClStates]
    BY <1>1 DEF Base, Typed, ClStates
  <1>5. Typed'
    BY <1>2, <1>3, <1>4 DEF Base, Typed
  <1>6. \A k \in 1 .. Len(db_queue') : Handed(db_queue'[k].id)
    BY DEF Base, Numbered
  <1>7. "CS_LOGOUT" \in ClStates \ {"CS_FREE"}
    BY DEF ClStates
  <1>8. Onward
    BY <1>1, <1>3, <1>6, <1>7, OnwardState
  <1> QED BY <1>5, <1>8, OnwardShift

LEMMA BaseDequeue ==
    ASSUME Base, NEW w \in Workers, Dequeue(w)
    PROVE  Base'
  <1>1. /\ Ready(w) /\ port # <<>> /\ Head(port).kind \in Early
        /\ Do(w, Head(port).kind, Head(port).id, 0)
    BY DEF Dequeue, Takes, Early
  <1>2. Head(port).kind # "accept" /\ Head(port).kind \in JobOps \ {"idle"} /\ 0 \in Int
    BY <1>1 DEF Early, JobOps
  <1> QED BY <1>1, <1>2, BaseTakes DEF Dequeue, sessionVars

LEMMA BaseLost ==
    ASSUME Base, NEW w \in Workers, Lost(w)
    PROVE  Base'
  <1>1. /\ Ready(w) /\ port # <<>> /\ Head(port).kind # "accept"
        /\ job' = job \/ Do(w, "save", Head(port).id, 0)
    BY DEF Lost
  <1>2. "save" \in JobOps \ {"idle"} /\ 0 \in Int
    BY DEF JobOps
  <1> QED BY <1>1, <1>2, BaseTakes DEF Lost, sessionVars

LEMMA BaseDbResult ==
    ASSUME Base, NEW w \in Workers, DbResult(w)
    PROVE  Base'
  <1>1. Ready(w) /\ port # <<>> /\ Head(port).kind # "accept"
    BY DEF DbResult, Takes
  <1>2. Head(port).val \in Int
    BY <1>1, First
  <1>3. "db_load" \in JobOps \ {"idle"}
    BY DEF JobOps
  <1>4. /\ job' = job \/ Do(w, "db_load", Head(port).id, Head(port).val)
        /\ \/ m_state' = m_state
           \/ m_state' = [m_state EXCEPT ![Head(port).id] = "CS_LOGOUT"]
    BY DEF DbResult
  <1> QED BY <1>1, <1>2, <1>3, <1>4, BaseTakes DEF DbResult

\* The worker goes on with its job: another op on the same session.
LEMMA NextJob ==
    ASSUME Base, NEW w \in Workers, job[w].op # "idle", NEW op \in JobOps \ {"idle"},
           Do(w, op, job[w].id, 0), deployment' = deployment
    PROVE  /\ job' \in [Workers -> Jobs]
           /\ \A u \in Workers : u \notin deployment'.workers => job'[u] = Idle
           /\ \A u \in Workers : job'[u] = job[u] \/ job'[u] = Idle \/ Handed(job'[u].id)
           /\ job'[w].op = op /\ job'[w].id = job[w].id /\ job'[w].val = 0
  <1>1. job[w].id \in Ids /\ w \in deployment.workers /\ Handed(job[w].id) /\ 0 \in Int
    BY Busy
  <1> QED BY <1>1, MadeJob DEF Base

LEMMA LastJob ==
    ASSUME Base, NEW w \in Workers, Done(w), deployment' = deployment
    PROVE  /\ job' \in [Workers -> Jobs]
           /\ \A u \in Workers : u \notin deployment'.workers => job'[u] = Idle
           /\ \A u \in Workers : job'[u] = job[u] \/ job'[u] = Idle \/ Handed(job'[u].id)
           /\ job'[w] = Idle
  BY DoneJob DEF Base

LEMMA BaseDrop ==
    ASSUME Base, NEW w \in Workers, Drop(w)
    PROVE  Base'
  <1>1. /\ job' \in [Workers -> Jobs]
        /\ \A u \in Workers : u \notin deployment'.workers => job'[u] = Idle
        /\ \A u \in Workers : job'[u] = job[u] \/ job'[u] = Idle \/ Handed(job'[u].id)
    BY LastJob DEF Drop
  <1>2. Typed'
    BY <1>1 DEF Base, Typed, Drop, sessionVars
  <1>3. Onward
    BY <1>1, OnwardJobs DEF Drop, sessionVars
  <1> QED BY <1>2, <1>3, OnwardSame DEF Drop

LEMMA BaseLoginDb ==
    ASSUME Base, NEW w \in Workers, LoginDb(w)
    PROVE  Base'
  <1> PICK id : id = job[w].id
    OBVIOUS
  <1>1. /\ m_state' = [m_state EXCEPT ![id] = "CS_DB_WAIT"]
        /\ db_queue' = Append(db_queue, Event("DB_LOGIN", id, 0))
        /\ do_recv(id) /\ Done(w) /\ job[w].op # "idle"
        /\ UNCHANGED <<deployment, conn, conn_of, player_index, registered, progress, in_sector,
                       socket, rows, gained>>
    BY DEF LoginDb, At
  <1>2. id \in Ids /\ Handed(id) /\ 0 \in Int
    BY <1>1, Busy
  <1>3. /\ job' \in [Workers -> Jobs]
        /\ \A u \in Workers : u \notin deployment'.workers => job'[u] = Idle
        /\ \A u \in Workers : job'[u] = job[u] \/ job'[u] = Idle \/ Handed(job'[u].id)
    BY <1>1, LastJob
  <1>4. db_queue' \in Seq(Requests) /\ \A k \in 1 .. Len(db_queue') : Handed(db_queue'[k].id)
    BY <1>1, <1>2, QueueGrows
  <1>5. /\ port' \in Seq(Events) /\ recv_posted' \in [Ids -> BOOLEAN]
        /\ Grow(port, port', {Event("eof", id, 0)})
    BY <1>1, <1>2, Receives DEF Base
  <1>6. m_state' \in [Ids -> ClStates] /\ "CS_DB_WAIT" \in ClStates \ {"CS_FREE"}
    BY <1>1 DEF Base, Typed, ClStates
  <1>7. Typed'
    BY <1>1, <1>3, <1>4, <1>5, <1>6 DEF Base, Typed
  <1>8. Onward
    BY <1>1, <1>2, <1>3, <1>4, <1>6, OnwardState
  <1>9. \A e \in {Event("eof", id, 0)} : e.kind # "accept" /\ Handed(e.id)
    BY <1>2 DEF Event
  <1> QED BY <1>5, <1>7, <1>8, <1>9, OnwardGrow

LEMMA BaseLoginBot ==
    ASSUME Base, NEW w \in Workers, LoginBot(w)
    PROVE  Base'
  <1> PICK id : id = job[w].id
    OBVIOUS
  <1>1. /\ m_state' = [m_state EXCEPT ![id] = "CS_PLAYING"]
        /\ Do(w, "bot_enter", id, 0) /\ job[w].op # "idle"
        /\ UNCHANGED <<deployment, conn, conn_of, player_index, registered, progress, in_sector,
                       socket, recv_posted, port, db_queue, rows, gained>>
    BY DEF LoginBot, At
  <1>2. id \in Ids
    BY <1>1, Busy
  <1>3. "bot_enter" \in JobOps \ {"idle"}
    BY DEF JobOps
  <1>4. /\ job' \in [Workers -> Jobs]
        /\ \A u \in Workers : u \notin deployment'.workers => job'[u] = Idle
        /\ \A u \in Workers : job'[u] = job[u] \/ job'[u] = Idle \/ Handed(job'[u].id)
    BY <1>1, <1>3, NextJob
  <1>5. m_state' \in [Ids -> ClStates] /\ "CS_PLAYING" \in ClStates \ {"CS_FREE"}
    BY <1>1 DEF Base, Typed, ClStates
  <1>6. Typed'
    BY <1>1, <1>4, <1>5 DEF Base, Typed
  <1>7. \A k \in 1 .. Len(db_queue') : Handed(db_queue'[k].id)
    BY <1>1 DEF Base, Numbered
  <1>8. Onward
    BY <1>1, <1>2, <1>4, <1>5, <1>7, OnwardState
  <1> QED BY <1>1, <1>6, <1>8, OnwardSame

LEMMA BaseBotEnter ==
    ASSUME Base, NEW w \in Workers, BotEnter(w)
    PROVE  Base'
  <1> PICK id : id = job[w].id
    OBVIOUS
  <1>1. /\ in_sector' = [in_sector EXCEPT ![id] = TRUE]
        /\ Answer(id) /\ do_recv(id) /\ Done(w) /\ job[w].op # "idle"
        /\ UNCHANGED <<deployment, conn_of, player_index, registered, m_state, progress, socket,
                       db_queue, rows, gained>>
    BY DEF BotEnter, At
  <1>2. id \in Ids /\ Handed(id)
    BY <1>1, Busy
  <1>3. /\ job' \in [Workers -> Jobs]
        /\ \A u \in Workers : u \notin deployment'.workers => job'[u] = Idle
        /\ \A u \in Workers : job'[u] = job[u] \/ job'[u] = Idle \/ Handed(job'[u].id)
    BY <1>1, LastJob
  <1>4. /\ port' \in Seq(Events) /\ recv_posted' \in [Ids -> BOOLEAN]
        /\ Grow(port, port', {Event("eof", id, 0)})
    BY <1>1, <1>2, Receives DEF Base
  <1>5. /\ conn' \in [Conns -> ConnStates]
        /\ \A c \in Conns : conn'[c] = conn[c] \/ (conn[c] = "waiting" /\ conn'[c] = "in")
    BY <1>1, <1>2, Answers DEF Base
  <1>6. Typed'
    BY <1>1, <1>3, <1>4, <1>5 DEF Base, Typed
  <1>7. Onward
    BY <1>1, <1>3, <1>5 DEF Onward, Base, Numbered
  <1>8. \A e \in {Event("eof", id, 0)} : e.kind # "accept" /\ Handed(e.id)
    BY <1>2 DEF Event
  <1> QED BY <1>4, <1>6, <1>7, <1>8, OnwardGrow

LEMMA BasePlay ==
    ASSUME Base, NEW w \in Workers, Play(w)
    PROVE  Base'
  <1> PICK id : id = job[w].id
    OBVIOUS
  <1>1. /\ progress' = [progress EXCEPT ![id] = @ + 1]
        /\ gained' = [gained EXCEPT ![Account(id)] = progress[id] + 1]
        /\ do_recv(id) /\ Done(w) /\ job[w].op # "idle"
        /\ UNCHANGED <<deployment, conn, conn_of, player_index, registered, m_state, in_sector,
                       socket, db_queue, rows>>
    BY DEF Play, At
  <1>2. id \in Ids /\ Handed(id) /\ progress[id] \in Int
    BY <1>1, Busy DEF Base, Typed
  <1>3. /\ job' \in [Workers -> Jobs]
        /\ \A u \in Workers : u \notin deployment'.workers => job'[u] = Idle
        /\ \A u \in Workers : job'[u] = job[u] \/ job'[u] = Idle \/ Handed(job'[u].id)
    BY <1>1, LastJob
  <1>4. /\ port' \in Seq(Events) /\ recv_posted' \in [Ids -> BOOLEAN]
        /\ Grow(port, port', {Event("eof", id, 0)})
    BY <1>1, <1>2, Receives DEF Base
  <1>5. progress' \in [Ids -> Int] /\ gained' \in [Accounts -> Int]
    <2>1. progress \in [Ids -> Int] /\ gained \in [Accounts -> Int]
      BY DEF Base, Typed
    <2>2. progress[id] + 1 \in Int
      BY <1>2
    <2> QED BY <1>1, <2>1, <2>2
  <1>6. Typed'
    BY <1>1, <1>3, <1>4, <1>5 DEF Base, Typed
  <1>7. Onward
    BY <1>1, <1>3, OnwardJobs
  <1>8. \A e \in {Event("eof", id, 0)} : e.kind # "accept" /\ Handed(e.id)
    BY <1>2 DEF Event
  <1> QED BY <1>4, <1>6, <1>7, <1>8, OnwardGrow

LEMMA BaseDbLoad ==
    ASSUME Base, NEW w \in Workers, DbLoad(w)
    PROVE  Base'
  <1> PICK id : id = job[w].id
    OBVIOUS
  <1>1. /\ progress' = [progress EXCEPT ![id] = job[w].val]
        /\ m_state' = [m_state EXCEPT ![id] = "CS_PLAYING"]
        /\ Do(w, "db_enter", id, 0) /\ job[w].op # "idle"
        /\ UNCHANGED <<deployment, conn, conn_of, player_index, registered, in_sector, socket,
                       recv_posted, port, db_queue, rows, gained>>
    BY DEF DbLoad, At
  <1>2. id \in Ids /\ job[w].val \in Int
    BY <1>1, Busy
  <1>3. "db_enter" \in JobOps \ {"idle"}
    BY DEF JobOps
  <1>4. /\ job' \in [Workers -> Jobs]
        /\ \A u \in Workers : u \notin deployment'.workers => job'[u] = Idle
        /\ \A u \in Workers : job'[u] = job[u] \/ job'[u] = Idle \/ Handed(job'[u].id)
    BY <1>1, <1>3, NextJob
  <1>5. m_state' \in [Ids -> ClStates] /\ "CS_PLAYING" \in ClStates \ {"CS_FREE"}
    BY <1>1 DEF Base, Typed, ClStates
  <1>6. progress' \in [Ids -> Int]
    BY <1>1, <1>2 DEF Base, Typed
  <1>7. Typed'
    BY <1>1, <1>4, <1>5, <1>6 DEF Base, Typed
  <1>8. \A k \in 1 .. Len(db_queue') : Handed(db_queue'[k].id)
    BY <1>1 DEF Base, Numbered
  <1>9. Onward
    BY <1>1, <1>2, <1>4, <1>5, <1>8, OnwardState
  <1> QED BY <1>1, <1>7, <1>9, OnwardSame

LEMMA BaseDbEnter ==
    ASSUME Base, NEW w \in Workers, DbEnter(w)
    PROVE  Base'
  <1> PICK id : id = job[w].id
    OBVIOUS
  <1>1. /\ in_sector' = [in_sector EXCEPT ![id] = TRUE]
        /\ Answer(id) /\ Done(w) /\ job[w].op # "idle"
        /\ UNCHANGED <<deployment, conn_of, player_index, registered, m_state, progress, socket,
                       recv_posted, port, db_queue, rows, gained>>
    BY DEF DbEnter, At
  <1>2. id \in Ids /\ Handed(id)
    BY <1>1, Busy
  <1>3. /\ job' \in [Workers -> Jobs]
        /\ \A u \in Workers : u \notin deployment'.workers => job'[u] = Idle
        /\ \A u \in Workers : job'[u] = job[u] \/ job'[u] = Idle \/ Handed(job'[u].id)
    BY <1>1, LastJob
  <1>4. /\ conn' \in [Conns -> ConnStates]
        /\ \A c \in Conns : conn'[c] = conn[c] \/ (conn[c] = "waiting" /\ conn'[c] = "in")
    BY <1>1, <1>2, Answers DEF Base
  <1>5. Typed'
    BY <1>1, <1>3, <1>4 DEF Base, Typed
  <1>6. Onward
    BY <1>1, <1>3, <1>4 DEF Onward, Base, Numbered
  <1> QED BY <1>1, <1>5, <1>6, OnwardSame

LEMMA BaseDiscSave ==
    ASSUME Base, NEW w \in Workers, DiscSave(w)
    PROVE  Base'
  <1> PICK id : id = job[w].id
    OBVIOUS
  <1>1. /\ \/ db_queue' = Append(db_queue, Event("DB_SAVE", id, progress[id]))
           \/ db_queue' = db_queue
        /\ Do(w, "logout", id, 0) /\ job[w].op # "idle"
        /\ UNCHANGED <<deployment, conn, conn_of, player_index, registered, m_state, progress,
                       in_sector, socket, recv_posted, port, rows, gained>>
    BY DEF DiscSave, At
  <1>2. id \in Ids /\ Handed(id) /\ progress[id] \in Int
    BY <1>1, Busy DEF Base, Typed
  <1>3. "logout" \in JobOps \ {"idle"} /\ "CS_LOGOUT" \in ClStates \ {"CS_FREE"}
    BY DEF JobOps, ClStates
  <1>4. /\ job' \in [Workers -> Jobs]
        /\ \A u \in Workers : u \notin deployment'.workers => job'[u] = Idle
        /\ \A u \in Workers : job'[u] = job[u] \/ job'[u] = Idle \/ Handed(job'[u].id)
    BY <1>1, <1>3, NextJob
  <1>5. db_queue' \in Seq(Requests) /\ \A k \in 1 .. Len(db_queue') : Handed(db_queue'[k].id)
    <2>1. CASE db_queue' = db_queue
      BY <2>1 DEF Base, Typed, Numbered
    <2>2. CASE db_queue' = Append(db_queue, Event("DB_SAVE", id, progress[id]))
      BY <1>2, <2>2, QueueGrows
    <2> QED BY <1>1, <2>1, <2>2
  <1>6. Typed'
    BY <1>1, <1>4, <1>5 DEF Base, Typed
  <1>7. Onward
    BY <1>1, <1>2, <1>3, <1>4, <1>5, OnwardState
  <1> QED BY <1>1, <1>6, <1>7, OnwardSame

LEMMA BaseDiscLogout ==
    ASSUME Base, NEW w \in Workers, DiscLogout(w)
    PROVE  Base'
  <1> PICK id : id = job[w].id
    OBVIOUS
  <1>1. /\ m_state' = [m_state EXCEPT ![id] = "CS_LOGOUT"]
        /\ Do(w, "leave", id, 0) /\ job[w].op # "idle"
        /\ UNCHANGED <<deployment, conn, conn_of, player_index, registered, progress, in_sector,
                       socket, recv_posted, port, db_queue, rows, gained>>
    BY DEF DiscLogout, At
  <1>2. id \in Ids
    BY <1>1, Busy
  <1>3. "leave" \in JobOps \ {"idle"}
    BY DEF JobOps
  <1>4. /\ job' \in [Workers -> Jobs]
        /\ \A u \in Workers : u \notin deployment'.workers => job'[u] = Idle
        /\ \A u \in Workers : job'[u] = job[u] \/ job'[u] = Idle \/ Handed(job'[u].id)
    BY <1>1, <1>3, NextJob
  <1>5. m_state' \in [Ids -> ClStates] /\ "CS_LOGOUT" \in ClStates \ {"CS_FREE"}
    BY <1>1 DEF Base, Typed, ClStates
  <1>6. Typed'
    BY <1>1, <1>4, <1>5 DEF Base, Typed
  <1>7. \A k \in 1 .. Len(db_queue') : Handed(db_queue'[k].id)
    BY <1>1 DEF Base, Numbered
  <1>8. Onward
    BY <1>1, <1>2, <1>4, <1>5, <1>7, OnwardState
  <1> QED BY <1>1, <1>6, <1>8, OnwardSame

LEMMA BaseDiscLeave ==
    ASSUME Base, NEW w \in Workers, DiscLeave(w)
    PROVE  Base'
  <1>1. /\ in_sector' = [in_sector EXCEPT ![job[w].id] = FALSE]
        /\ Do(w, "free", job[w].id, 0) /\ job[w].op # "idle"
        /\ UNCHANGED <<deployment, conn, conn_of, player_index, registered, m_state, progress,
                       socket, recv_posted, port, db_queue, rows, gained>>
    BY DEF DiscLeave, At
  <1>2. "free" \in JobOps \ {"idle"}
    BY DEF JobOps
  <1>3. /\ job' \in [Workers -> Jobs]
        /\ \A u \in Workers : u \notin deployment'.workers => job'[u] = Idle
        /\ \A u \in Workers : job'[u] = job[u] \/ job'[u] = Idle \/ Handed(job'[u].id)
    BY <1>1, <1>2, NextJob
  <1>4. Typed'
    BY <1>1, <1>3 DEF Base, Typed
  <1>5. Onward
    BY <1>1, <1>3, OnwardJobs
  <1> QED BY <1>1, <1>4, <1>5, OnwardSame

LEMMA BaseDiscFree ==
    ASSUME Base, NEW w \in Workers, DiscFree(w)
    PROVE  Base'
  <1> PICK id : id = job[w].id
    OBVIOUS
  <1>1. /\ socket' = [socket EXCEPT ![id] = FALSE]
        /\ registered' = [registered EXCEPT ![id] = FALSE]
        /\ Done(w) /\ job[w].op # "idle"
        /\ UNCHANGED <<deployment, conn, conn_of, player_index, m_state, progress, in_sector,
                       recv_posted, port, db_queue, rows, gained>>
    BY DEF DiscFree, At
  <1>2. id \in Ids
    BY <1>1, Busy
  <1>3. /\ job' \in [Workers -> Jobs]
        /\ \A u \in Workers : u \notin deployment'.workers => job'[u] = Idle
        /\ \A u \in Workers : job'[u] = job[u] \/ job'[u] = Idle \/ Handed(job'[u].id)
    BY <1>1, LastJob
  <1>4. Typed'
    BY <1>1, <1>3 DEF Base, Typed
  <1>5. \A i \in Ids : socket'[i] = registered'[i] /\ (registered'[i] => registered[i])
    BY <1>1, <1>2 DEF Base, Numbered, Typed
  <1>6. Onward
    BY <1>1, <1>3, <1>5 DEF Onward, Base, Numbered
  <1> QED BY <1>1, <1>4, <1>6, OnwardSame

LEMMA BaseDbServe ==
    ASSUME Base, DbServe
    PROVE  Base'
  <1> PICK ev : ev = Head(db_queue)
    OBVIOUS
  <1>1. /\ db_queue # <<>> /\ db_queue' = Tail(db_queue)
        /\ UNCHANGED <<deployment, conn, conn_of, player_index, registered, m_state, progress,
                       in_sector, socket, recv_posted, job, gained>>
    BY DEF DbServe, sessionVars
  <1>2. /\ ev.id \in Ids /\ ev.val \in Int /\ Handed(ev.id) /\ Account(ev.id) \in Accounts
        /\ db_queue' \in Seq(Requests) /\ Shift(db_queue, db_queue')
        /\ Len(db_queue) \in Nat /\ Len(db_queue') \in Nat
    BY <1>1, FirstRequest
  <1>3. \A k \in 1 .. Len(db_queue') : Handed(db_queue'[k].id)
    BY <1>2 DEF Shift, Base, Numbered
  <1>4. Onward
    BY <1>1, <1>3 DEF Onward, Base, Numbered
  <1>5. CASE UNCHANGED port
    <2>1. rows' = [rows EXCEPT ![Account(ev.id)] = ev.val] \/ rows' = rows
      BY DEF DbServe
    <2>2. rows' \in [Accounts -> Int]
      BY <1>2, <2>1 DEF Base, Typed
    <2>3. Typed'
      BY <1>1, <1>2, <1>5, <2>2 DEF Base, Typed
    <2> QED BY <1>4, <1>5, <2>3, OnwardSame
  <1>6. ASSUME NEW v \in {rows[Account(ev.id)]} \cup (IF deployment.dbFails THEN {-1} ELSE {}),
               port' = Append(port, Event("db", ev.id, v)), rows' = rows
        PROVE  Base'
    <2>1. v \in Int
      BY <1>2, <1>6 DEF Base, Typed
    <2> PICK e : e = Event("db", ev.id, v)
      OBVIOUS
    <2>2. e \in Events /\ e.kind = "db" /\ e.id = ev.id
      BY <1>2, <2>1 DEF Event, Events
    <2>3. port' \in Seq(Events) /\ Grow(port, port', {e})
      BY <1>6, <2>2, AppendGrows DEF Base, Typed
    <2>4. Typed'
      BY <1>1, <1>2, <1>6, <2>3 DEF Base, Typed
    <2>5. \A f \in {e} : f.kind # "accept" /\ Handed(f.id)
      BY <1>2, <2>2
    <2> QED BY <1>4, <2>3, <2>4, <2>5, OnwardGrow
  <1> QED BY <1>5, <1>6 DEF DbServe

LEMMA BaseNext ==
    ASSUME Base, [Next]_vars
    PROVE  Base'
  <1>1. CASE UNCHANGED vars
    BY <1>1, BaseStutter
  <1>2. CASE Client
    BY <1>2, BaseConnect, BaseSendLogin, BaseSendPlay, BaseClose DEF Client
  <1>3. CASE DbServe
    BY <1>3, BaseDbServe
  <1>4. ASSUME NEW w \in Workers, Work(w)
        PROVE  Base'
    BY <1>4, BaseAccept, BaseDequeue, BaseLoginDb, BaseLoginBot, BaseBotEnter, BasePlay, BaseDrop,
       BaseDbResult, BaseDbLoad, BaseDbEnter, BaseLost, BaseDiscSave, BaseDiscLogout,
       BaseDiscLeave, BaseDiscFree DEF Work
  <1> QED BY <1>1, <1>2, <1>3, <1>4 DEF Next
-----------------------------------------------------------------------------
(***************************************************************************)
(* One worker.                                                             *)
(***************************************************************************)
One(w) ==
    /\ Base /\ deployment.workers = {w}
    /\ Stated(w) /\ Noticed(w) /\ Playing(w) /\ Ordered(w) /\ Restored(w)

\* If the server has one worker, One holds of it.
Alone == \A w \in Workers : deployment.workers = {w} => One(w)

LEMMA PopPosted ==
    ASSUME Typed, port # <<>>, port' = Tail(port), NEW K, NEW id
    PROVE  /\ Posted(K, id)' => Posted(K, id)
           /\ Posted(K, id) => Posted(K, id)' \/ (Head(port).kind \in K /\ Head(port).id = id)
  <1>1. /\ Len(port) \in Nat /\ Len(port') \in Nat /\ Head(port) = port[1]
        /\ Len(port) > 0 /\ Len(port') = Len(port) - 1
        /\ \A k \in 1 .. Len(port') : port'[k] = port[k + 1]
    BY Pops DEF Shift
  <1>2. ASSUME NEW k \in 1 .. Len(port'), port'[k].kind \in K, port'[k].id = id
        PROVE  Posted(K, id)
    <2>1. k + 1 \in 1 .. Len(port) /\ port[k + 1].kind \in K /\ port[k + 1].id = id
      BY <1>1, <1>2
    <2> QED BY <2>1 DEF Posted, Is
  <1>3. ASSUME NEW k \in 1 .. Len(port), port[k].kind \in K, port[k].id = id, k # 1
        PROVE  Posted(K, id)'
    <2>1. k - 1 \in 1 .. Len(port') /\ port'[k - 1] = port[(k - 1) + 1] /\ (k - 1) + 1 = k
      BY <1>1, <1>3
    <2>2. \E l \in 1 .. Len(port') : port'[l].kind \in K /\ port'[l].id = id
      BY <1>3, <2>1
    <2> QED BY <2>2 DEF Posted, Is
  <1> QED BY <1>1, <1>2, <1>3 DEF Posted, Is

LEMMA GrowPosted ==
    ASSUME Typed, Typed', NEW X, Grow(port, port', X), NEW K, NEW id
    PROVE  /\ Posted(K, id) => Posted(K, id)'
           /\ Posted(K, id)' => Posted(K, id) \/ \E e \in X : e.kind \in K /\ e.id = id
  <1>1. /\ Len(port) \in Nat /\ Len(port') \in Nat /\ Len(port) <= Len(port')
        /\ \A k \in 1 .. Len(port) : port'[k] = port[k]
        /\ \A k \in 1 .. Len(port') : k > Len(port) => port'[k] \in X
    BY DEF Typed, Grow
  <1>2. ASSUME NEW k \in 1 .. Len(port), port[k].kind \in K, port[k].id = id
        PROVE  Posted(K, id)'
    <2>1. \E l \in 1 .. Len(port') : port'[l].kind \in K /\ port'[l].id = id
      BY <1>1, <1>2
    <2> QED BY <2>1 DEF Posted, Is
  <1>3. ASSUME NEW k \in 1 .. Len(port'), port'[k].kind \in K, port'[k].id = id
        PROVE  Posted(K, id) \/ \E e \in X : e.kind \in K /\ e.id = id
    <2>1. CASE k <= Len(port)
      <3>1. \E l \in 1 .. Len(port) : port[l].kind \in K /\ port[l].id = id
        BY <1>1, <1>3, <2>1
      <3> QED BY <3>1 DEF Posted, Is
    <2>2. CASE k > Len(port)
      BY <1>1, <1>3, <2>2
    <2> QED BY <1>1, <2>1, <2>2
  <1> QED BY <1>2, <1>3 DEF Posted, Is

LEMMA SamePosted ==
    ASSUME port' = port, NEW K, NEW id
    PROVE  Posted(K, id)' <=> Posted(K, id)
  BY DEF Posted, Is

\* Only w works.
LEMMA OnlyOne ==
    ASSUME NEW w \in Workers, NEW u \in Workers, One(w), Work(u)
    PROVE  u = w
  <1>1. CASE job[u].op # "idle"
    BY <1>1, Busy DEF One
  <1>2. CASE job[u].op = "idle"
    <2>1. u \in deployment.workers
      BY <1>2 DEF Work, Accept, Dequeue, LoginDb, LoginBot, BotEnter, Play, Drop, DbResult, DbLoad,
         DbEnter, Lost, DiscSave, DiscLogout, DiscLeave, DiscFree, Takes, Ready, At
    <2> QED BY <2>1 DEF One
  <1> QED BY <1>1, <1>2

\* Two sessions of one account do not wait for the database or play together.
LEMMA Unique ==
    ASSUME NEW w \in Workers, One(w), NEW i \in Ids, NEW j \in Ids, registered[i], registered[j],
           Account(i) = Account(j),
           m_state[i] \in {"CS_DB_WAIT", "CS_PLAYING"}, m_state[j] \in {"CS_DB_WAIT", "CS_PLAYING"}
    PROVE  i = j
  <1>1. Handed(i) /\ Handed(j)
    BY DEF One, Base, Numbered
  <1>2. ~Newer(i, j) /\ ~Newer(j, i)
    BY DEF One, Ordered, Ended, After
  <1>3. i \in Int /\ j \in Int
    BY DEF Ids
  <1> QED BY <1>1, <1>2, <1>3 DEF Newer

\* The session whose packet the worker handles is the only one of its account.
LEMMA UniqueEntering ==
    ASSUME NEW w \in Workers, One(w), NEW i \in Ids, NEW j \in Ids, registered[i],
           Handed(j), Account(i) = Account(j), About(w, Entering, j)
    PROVE  i = j
  <1>1. Handed(i)
    BY DEF One, Base, Numbered
  <1>2. ~Newer(i, j) /\ ~Newer(j, i)
    BY DEF One, Ordered, Ended, After
  <1>3. i \in Int /\ j \in Int
    BY DEF Ids
  <1> QED BY <1>1, <1>2, <1>3 DEF Newer

\* The sessions that the end of a newer one's wait is about.
LEMMA OldEnds ==
    ASSUME NEW w \in Workers, One(w), NEW i \in Ids, NEW j \in Ids, Newer(i, j), registered[i]
    PROVE  About(w, Leaving, i) \/ \E l \in 1 .. Len(port) : Is(l, Ends, i)
  <1>1. Closed(i) /\ ~Posted(Early, i) /\ ~About(w, Entering, i)
    BY DEF One, Ordered, Ended
  <1>2. ~recv_posted[i]
    BY <1>1 DEF One, Noticed
  <1>3. Posted(Early \cup Ends, i) \/ About(w, Entering \cup Leaving, i)
    BY <1>2 DEF One, Noticed
  <1>4. CASE About(w, Entering \cup Leaving, i)
    BY <1>1, <1>4 DEF About
  <1>5. CASE Posted(Early \cup Ends, i)
    BY <1>1, <1>5 DEF Posted, Is
  <1> QED BY <1>3, <1>4, <1>5

\* The queue grows; only a client that is there sends packets.
LEMMA OrderedGrow ==
    ASSUME NEW w \in Workers, One(w), Base', conn_of' = conn_of, NEW X, Grow(port, port', X),
           \A e \in X : e.kind \in Early => Handed(e.id) /\ ~Gone(conn_of[e.id]),
           \A c \in Conns : Gone(c) =>
               \/ Gone(c)'
               \/ /\ \E l \in 1 .. Len(port') : l > Len(port) /\ Accepting(l, c)'
                  /\ \A e \in X : e.kind \notin Early,
           \A c \in Conns : conn[c] = "closed" => conn'[c] = "closed",
           \A id \in Ids : registered'[id] => registered[id],
           \A id \in Ids : \/ m_state'[id] \in {m_state[id], "CS_LOGOUT"}
                           \/ About(w, Entering, id) \/ About(w, {"db_load"}, id),
           \A id \in Ids : About(w, Entering, id)' => About(w, Entering, id),
           \A id \in Ids : About(w, Leaving, id) /\ registered'[id] => About(w, Leaving, id)'
    PROVE  Ordered(w)'
  <1>1. Typed /\ Typed' /\ Ended(w) /\ Before(w) /\ After(w)
    BY DEF One, Base, Ordered
  <1>2. /\ Len(port) \in Nat /\ Len(port') \in Nat /\ Len(port) <= Len(port')
        /\ \A k \in 1 .. Len(port) : port'[k] = port[k]
        /\ \A k \in 1 .. Len(port') : k > Len(port) => port'[k] \in X
    BY <1>1, Port DEF Typed, Grow
  <1>3. \A k \in 1 .. Len(port'), i \in Ids : Is(k, Early, i)' =>
            \/ k \in 1 .. Len(port) /\ Is(k, Early, i)
            \/ k > Len(port) /\ Handed(i) /\ ~Gone(conn_of[i])
    BY <1>2 DEF Is
  <1>4. \A i, j \in Ids : Newer(i, j)' <=> Newer(i, j)
    BY DEF Newer, Handed, Account
  <1>5. \A i \in Ids : Handed(i) => conn_of[i] \in Conns
    BY <1>1 DEF Typed, Handed
  <1>6. Ended(w)'
    <2> SUFFICES ASSUME NEW i \in Ids, NEW j \in Ids, Newer(i, j)
                 PROVE  Closed(i)' /\ ~Posted(Early, i)' /\ ~About(w, Entering, i)'
      BY <1>4 DEF Ended
    <2>1. Closed(i) /\ ~Posted(Early, i) /\ ~About(w, Entering, i) /\ Handed(i)
      BY <1>1 DEF Ended, Newer
    <2>2. Closed(i)' /\ Gone(conn_of[i])
      BY <1>5, <2>1 DEF Closed, Gone
    <2>3. \A k \in 1 .. Len(port') : ~Is(k, Early, i)'
      BY <1>3, <2>1, <2>2 DEF Posted
    <2>4. ~Posted(Early, i)'
      BY <2>3 DEF Posted
    <2> QED BY <2>1, <2>2, <2>4
  <1>7. Before(w)'
    <2> SUFFICES ASSUME NEW i \in Ids, NEW c \in Conns, Handed(i), c # conn_of[i],
                        AccountOf[c] = Account(i), ~Gone(c)'
                 PROVE  /\ \A k \in 1 .. Len(port') : Is(k, Early, i)' =>
                              \E l \in 1 .. Len(port') : l > k /\ Accepting(l, c)'
                        /\ About(w, Entering, i)' => \E l \in 1 .. Len(port') : Accepting(l, c)'
      BY DEF Before, Handed, Account
    <2>1. CASE ~Gone(c)
      <3>1. \A l \in 1 .. Len(port) : Accepting(l, c) => l \in 1 .. Len(port') /\ Accepting(l, c)'
        BY <1>2 DEF Accepting
      <3>2. \A k \in 1 .. Len(port) : Is(k, Early, i) =>
                \E l \in 1 .. Len(port) : l > k /\ Accepting(l, c)
        BY <1>1, <2>1 DEF Before
      <3>3. About(w, Entering, i) => \E l \in 1 .. Len(port) : Accepting(l, c)
        BY <1>1, <2>1 DEF Before
      <3>4. Gone(conn_of[i])
        BY <1>5, <2>1 DEF One, Base, Connected, Account
      <3> QED BY <1>3, <3>1, <3>2, <3>3, <3>4
    <2>2. CASE Gone(c)
      <3>1. PICK l \in 1 .. Len(port') : l > Len(port) /\ Accepting(l, c)'
        BY <2>2
      <3>2. ASSUME NEW k \in 1 .. Len(port'), Is(k, Early, i)', k > Len(port)
            PROVE  FALSE
        BY <1>2, <2>2, <3>2 DEF Is
      <3> QED BY <1>2, <1>3, <3>1, <3>2
    <2> QED BY <2>1, <2>2
  <1>8. After(w)'
    <2> SUFFICES ASSUME NEW i \in Ids, NEW j \in Ids, Newer(i, j), registered'[i]
                 PROVE  /\ \A k \in 1 .. Len(port') : Is(k, Early, j)' =>
                              \/ About(w, Leaving, i)'
                              \/ \E l \in 1 .. Len(port') : l < k /\ Is(l, Ends, i)'
                        /\ ~About(w, Entering, j)'
                        /\ m_state'[j] \in {"CS_CONNECT", "CS_LOGOUT"}
      BY <1>4 DEF After
    <2>1. /\ \A k \in 1 .. Len(port) : Is(k, Early, j) =>
                \/ About(w, Leaving, i)
                \/ \E l \in 1 .. Len(port) : l < k /\ Is(l, Ends, i)
          /\ ~About(w, Entering, j)
          /\ m_state[j] \in {"CS_CONNECT", "CS_LOGOUT"}
      BY <1>1 DEF After
    <2>2. ~About(w, {"db_load"}, j)
      BY <2>1 DEF One, Stated
    <2>3. \A l \in 1 .. Len(port) : Is(l, Ends, i) => l \in 1 .. Len(port') /\ Is(l, Ends, i)'
      BY <1>2 DEF Is
    <2>4. About(w, Leaving, i) \/ \E l \in 1 .. Len(port) : Is(l, Ends, i)
      BY OldEnds
    <2>5. \A k \in 1 .. Len(port') : Is(k, Early, j)' =>
              About(w, Leaving, i)' \/ \E l \in 1 .. Len(port') : l < k /\ Is(l, Ends, i)'
      BY <1>2, <1>3, <2>1, <2>3, <2>4
    <2>6. m_state'[j] \in {"CS_CONNECT", "CS_LOGOUT"}
      BY <2>1, <2>2
    <2> QED BY <2>1, <2>5, <2>6
  <1> QED BY <1>6, <1>7, <1>8 DEF Ordered

\* The worker, idle before, takes the completion of a session.
LEMMA OrderedPop ==
    ASSUME NEW w \in Workers, One(w), Free(w), port # <<>>, Head(port).kind # "accept",
           port' = Tail(port), UNCHANGED <<conn, conn_of, registered>>,
           \A id \in Ids : m_state'[id] \in {m_state[id], "CS_LOGOUT"},
           \A id \in Ids : About(w, Entering, id)' => Head(port).kind \in Early /\ Head(port).id = id,
           \A id \in Ids : Head(port).kind \in Ends /\ Head(port).id = id /\ registered[id] =>
                               About(w, Leaving, id)'
    PROVE  Ordered(w)'
  <1>1. Typed /\ Ended(w) /\ Before(w) /\ After(w)
    BY DEF One, Base, Ordered
  <1>2. /\ Len(port) \in Nat /\ Len(port') \in Nat /\ Head(port) = port[1]
        /\ Len(port) > 0 /\ Len(port') = Len(port) - 1
        /\ \A k \in 1 .. Len(port') : port'[k] = port[k + 1]
    BY <1>1, Pops DEF Shift
  <1>3. \A k \in 1 .. Len(port') : k + 1 \in 1 .. Len(port) /\ port'[k] = port[k + 1]
    BY <1>2
  <1>4. \A k \in 1 .. Len(port) : k # 1 => k - 1 \in 1 .. Len(port') /\ port'[k - 1] = port[k]
    <2> SUFFICES ASSUME NEW k \in 1 .. Len(port), k # 1
                 PROVE  k - 1 \in 1 .. Len(port') /\ port'[k - 1] = port[k]
      OBVIOUS
    <2>1. k - 1 \in 1 .. Len(port') /\ (k - 1) + 1 = k
      BY <1>2
    <2> QED BY <1>2, <2>1
  <1>5. \A i, j \in Ids : Newer(i, j)' <=> Newer(i, j)
    BY DEF Newer, Handed, Account
  <1>6. \A id \in Ids : ~About(w, Entering, id) /\ ~About(w, Leaving, id)
    BY DEF About, Free, Entering, Leaving
  <1>7. Ended(w)'
    <2> SUFFICES ASSUME NEW i \in Ids, NEW j \in Ids, Newer(i, j)
                 PROVE  Closed(i)' /\ ~Posted(Early, i)' /\ ~About(w, Entering, i)'
      BY <1>5 DEF Ended
    <2>1. Closed(i) /\ ~Posted(Early, i)
      BY <1>1 DEF Ended
    <2>2. ~(Head(port).kind \in Early /\ Head(port).id = i)
      BY <1>2, <2>1 DEF Posted, Is
    <2>3. ~Posted(Early, i)'
      BY <1>1, <2>1, PopPosted
    <2> QED BY <2>1, <2>2, <2>3 DEF Closed
  <1>8. Before(w)'
    <2> SUFFICES ASSUME NEW i \in Ids, NEW c \in Conns, Handed(i), c # conn_of[i],
                        AccountOf[c] = Account(i), ~Gone(c)
                 PROVE  /\ \A k \in 1 .. Len(port') : Is(k, Early, i)' =>
                              \E l \in 1 .. Len(port') : l > k /\ Accepting(l, c)'
                        /\ About(w, Entering, i)' => \E l \in 1 .. Len(port') : Accepting(l, c)'
      BY DEF Before, Handed, Account, Gone
    <2>1. \A k \in 1 .. Len(port) : Is(k, Early, i) =>
              \E l \in 1 .. Len(port) : l > k /\ Accepting(l, c)
      BY <1>1 DEF Before
    <2>2. ASSUME NEW k \in 1 .. Len(port'), Is(k, Early, i)'
          PROVE  \E l \in 1 .. Len(port') : l > k /\ Accepting(l, c)'
      <3>1. k + 1 \in 1 .. Len(port) /\ Is(k + 1, Early, i)
        BY <1>3, <2>2 DEF Is
      <3>2. PICK l \in 1 .. Len(port) : l > k + 1 /\ Accepting(l, c)
        BY <2>1, <3>1
      <3>3. l - 1 \in 1 .. Len(port') /\ port'[l - 1] = port[l] /\ l - 1 > k
        BY <1>2, <1>4, <3>2
      <3> QED BY <3>2, <3>3 DEF Accepting
    <2>3. ASSUME About(w, Entering, i)'
          PROVE  \E l \in 1 .. Len(port') : Accepting(l, c)'
      <3>1. 1 \in 1 .. Len(port) /\ Is(1, Early, i)
        BY <1>2, <2>3 DEF Is
      <3>2. PICK l \in 1 .. Len(port) : l > 1 /\ Accepting(l, c)
        BY <2>1, <3>1
      <3>3. l - 1 \in 1 .. Len(port') /\ port'[l - 1] = port[l]
        BY <1>2, <1>4, <3>2
      <3> QED BY <3>2, <3>3 DEF Accepting
    <2> QED BY <2>2, <2>3
  <1>9. After(w)'
    <2> SUFFICES ASSUME NEW i \in Ids, NEW j \in Ids, Newer(i, j), registered[i]
                 PROVE  /\ \A k \in 1 .. Len(port') : Is(k, Early, j)' =>
                              \/ About(w, Leaving, i)'
                              \/ \E l \in 1 .. Len(port') : l < k /\ Is(l, Ends, i)'
                        /\ ~About(w, Entering, j)'
                        /\ m_state'[j] \in {"CS_CONNECT", "CS_LOGOUT"}
      BY <1>5 DEF After
    <2>1. /\ \A k \in 1 .. Len(port) : Is(k, Early, j) =>
                \E l \in 1 .. Len(port) : l < k /\ Is(l, Ends, i)
          /\ m_state[j] \in {"CS_CONNECT", "CS_LOGOUT"}
      BY <1>1, <1>6 DEF After
    <2>2. ASSUME NEW k \in 1 .. Len(port'), Is(k, Early, j)'
          PROVE  About(w, Leaving, i)' \/ \E l \in 1 .. Len(port') : l < k /\ Is(l, Ends, i)'
      <3>1. k + 1 \in 1 .. Len(port) /\ Is(k + 1, Early, j)
        BY <1>3, <2>2 DEF Is
      <3>2. PICK l \in 1 .. Len(port) : l < k + 1 /\ Is(l, Ends, i)
        BY <2>1, <3>1
      <3>3. CASE l = 1
        BY <1>2, <3>2, <3>3 DEF Is
      <3>4. CASE l # 1
        <4>1. l - 1 \in 1 .. Len(port') /\ port'[l - 1] = port[l] /\ l - 1 < k
          BY <1>2, <1>4, <3>2, <3>4
        <4> QED BY <3>2, <4>1 DEF Is
      <3> QED BY <3>3, <3>4
    <2>3. ~About(w, Entering, j)'
      <3>1. 1 \in 1 .. Len(port) /\ \A l \in 1 .. Len(port) : ~(l < 1)
        BY <1>2
      <3>2. ~Is(1, Early, j)
        BY <2>1, <3>1
      <3> QED BY <1>2, <3>2 DEF Is
    <2> QED BY <2>1, <2>2, <2>3
  <1> QED BY <1>7, <1>8, <1>9 DEF Ordered
-----------------------------------------------------------------------------
(***************************************************************************)
(* Progress.                                                               *)
(***************************************************************************)

\* A step that touches neither the database nor the progress of an account.
LEMMA RestoredFrame ==
    ASSUME NEW w \in Workers, One(w), Base', UNCHANGED <<conn_of, gained, db_queue, rows>>,
           \A id \in Ids : InPlay(id)' /\ ~IsBot(id) /\ ~About(w, {"logout"}, id)' =>
               \/ InPlay(id) /\ ~About(w, {"logout"}, id) /\ progress'[id] = progress[id]
               \/ progress'[id] = gained[Account(id)],
           \A id \in Ids : InPlay(id) /\ ~IsBot(id) /\ ~About(w, {"logout"}, id) =>
               InPlay(id)' /\ ~About(w, {"logout"}, id)',
           \A id \in Ids : m_state'[id] = "CS_CONNECT" => m_state[id] = "CS_CONNECT",
           \A id \in Ids : Wait(id)' => Wait(id),
           \A k \in 1 .. Len(port') : port'[k].kind = "db" =>
               \E l \in 1 .. Len(port) : port[l] = port'[k],
           \A id \in Ids : About(w, {"db_load"}, id)' => job'[w].val = gained[Account(id)]
    PROVE  Restored(w)'
  <1>1. Current(w) /\ Backed(w) /\ Asked /\ Told /\ Loading(w)
    BY DEF One, Restored
  <1>2. /\ \A k \in 1 .. Len(port') : port'[k] \in Events
        /\ \A k \in 1 .. Len(db_queue) : db_queue[k].id \in Ids
    <2>1. port' \in Seq(Events) /\ db_queue \in Seq(Requests)
      BY DEF Base, One, Typed
    <2>2. \A k \in 1 .. Len(db_queue) : db_queue[k] \in Requests
      BY <2>1
    <2>3. \A k \in 1 .. Len(port') : port'[k] \in Events
      BY <2>1
    <2> QED BY <2>2, <2>3 DEF Requests
  <1>3. \A id \in Ids : IsBot(id)' = IsBot(id) /\ Account(id)' = Account(id)
    BY DEF IsBot, Account
  <1>4. Current(w)'
    BY <1>1, <1>3 DEF Current
  <1>5. Backed(w)'
    <2> SUFFICES ASSUME NEW a \in Accounts \ Bots
                 PROVE  \/ Settled(a)'
                        \/ \E id \in Ids : InPlay(id)' /\ Account(id)' = a /\ ~About(w, {"logout"}, id)'
      BY DEF Backed
    <2>1. CASE Settled(a)
      BY <2>1 DEF Settled, Save, Account
    <2>2. CASE \E id \in Ids : InPlay(id) /\ Account(id) = a /\ ~About(w, {"logout"}, id)
      BY <1>3, <2>2 DEF IsBot
    <2> QED BY <1>1, <2>1, <2>2 DEF Backed
  <1>6. Asked'
    <2>1. \A k, l \in 1 .. Len(db_queue) :
              Save(l, Account(db_queue[k].id))' <=> Save(l, Account(db_queue[k].id))
      BY DEF Save, Account
    <2> QED BY <1>1, <1>2, <2>1 DEF Asked
  <1>7. Told'
    <2> SUFFICES ASSUME NEW k \in 1 .. Len(port'), port'[k].kind = "db"
                 PROVE  /\ m_state'[port'[k].id] # "CS_CONNECT"
                        /\ (registered'[port'[k].id] /\ m_state'[port'[k].id] = "CS_DB_WAIT") =>
                              port'[k].val \in {-1, gained[Account(port'[k].id)]}
      BY DEF Told, Wait, Account
    <2>1. PICK l \in 1 .. Len(port) : port[l] = port'[k]
      OBVIOUS
    <2>2. port[l].id \in Ids
      BY <1>2, <2>1, EventTypes
    <2>3. /\ m_state[port[l].id] # "CS_CONNECT"
          /\ Wait(port[l].id) => port[l].val \in {-1, gained[Account(port[l].id)]}
      BY <1>1, <2>1 DEF Told
    <2> QED BY <2>1, <2>2, <2>3 DEF Wait
  <1>8. Loading(w)'
    BY <1>3 DEF Loading
  <1> QED BY <1>4, <1>5, <1>6, <1>7, <1>8 DEF Restored

\* A request that is not a save of the account leaves it settled.
LEMMA SettledGrow ==
    ASSUME Base, conn_of' = conn_of, NEW a, Settled(a), rows'[a] = rows[a], gained'[a] = gained[a],
           NEW X, Grow(db_queue, db_queue', X), Len(db_queue') \in Nat,
           \A e \in X : e.kind = "DB_SAVE" => Account(e.id) # a
    PROVE  Settled(a)'
  <1>1. /\ Len(db_queue) \in Nat /\ Len(db_queue') \in Nat /\ Len(db_queue) <= Len(db_queue')
        /\ \A k \in 1 .. Len(db_queue) : db_queue'[k] = db_queue[k]
        /\ \A k \in 1 .. Len(db_queue') : k > Len(db_queue) => db_queue'[k] \in X
    BY DEF Base, Typed, Grow
  <1>2. \A k \in 1 .. Len(db_queue) : k \in 1 .. Len(db_queue') /\ (Save(k, a)' <=> Save(k, a))
    BY <1>1 DEF Save, Account
  <1>3. \A k \in 1 .. Len(db_queue') : k > Len(db_queue) => ~Save(k, a)'
    BY <1>1 DEF Save, Account
  <1>4. CASE (\A k \in 1 .. Len(db_queue) : ~Save(k, a)) /\ rows[a] = gained[a]
    <2>1. \A k \in 1 .. Len(db_queue') : ~Save(k, a)'
      BY <1>1, <1>2, <1>3, <1>4
    <2> QED BY <1>4, <2>1 DEF Settled
  <1>5. ASSUME NEW k \in 1 .. Len(db_queue), Save(k, a), db_queue[k].val = gained[a],
               \A l \in 1 .. Len(db_queue) : l > k => ~Save(l, a)
        PROVE  Settled(a)'
    <2>1. \A l \in 1 .. Len(db_queue') : l > k => ~Save(l, a)'
      BY <1>1, <1>2, <1>3, <1>5
    <2>2. k \in 1 .. Len(db_queue') /\ Save(k, a)' /\ db_queue'[k].val = gained'[a]
      BY <1>1, <1>2, <1>5
    <2> QED BY <2>1, <2>2 DEF Settled
  <1> QED BY <1>4, <1>5 DEF Settled

\* The database thread takes the head of its queue.
LEMMA SettledServe ==
    ASSUME Base, DbServe, NEW a \in Accounts, Settled(a)
    PROVE  Settled(a)'
  <1> PICK ev : ev = Head(db_queue)
    OBVIOUS
  <1>1. db_queue # <<>> /\ db_queue' = Tail(db_queue) /\ conn_of' = conn_of /\ gained' = gained
    BY DEF DbServe, sessionVars
  <1>2. /\ Head(db_queue) = db_queue[1] /\ 1 \in 1 .. Len(db_queue)
        /\ Len(db_queue) \in Nat /\ Len(db_queue') \in Nat
        /\ ev.kind \in {"DB_LOGIN", "DB_SAVE"} /\ Account(ev.id) \in Accounts
        /\ Len(db_queue') = Len(db_queue) - 1
        /\ \A k \in 1 .. Len(db_queue') : db_queue'[k] = db_queue[k + 1]
    BY <1>1, FirstRequest DEF Shift
  <1>3. \A k \in 1 .. Len(db_queue') : k + 1 \in 1 .. Len(db_queue) /\ (Save(k, a)' <=> Save(k + 1, a))
    BY <1>1, <1>2 DEF Save, Account
  <1>4. Save(1, a) <=> ev.kind = "DB_SAVE" /\ Account(ev.id) = a
    BY <1>2 DEF Save
  <1>5. /\ Save(1, a) => rows'[a] = ev.val
        /\ ~Save(1, a) => rows'[a] = rows[a]
    <2>1. CASE ev.kind = "DB_SAVE"
      <3>1. rows' = [rows EXCEPT ![Account(ev.id)] = ev.val]
        BY <2>1 DEF DbServe
      <3> QED BY <1>2, <1>4, <2>1, <3>1 DEF Base, Typed
    <2>2. CASE ev.kind = "DB_LOGIN"
      <3>1. rows' = rows
        BY <2>2 DEF DbServe
      <3> QED BY <1>4, <2>2, <3>1
    <2> QED BY <1>2, <2>1, <2>2
  <1>6. CASE (\A k \in 1 .. Len(db_queue) : ~Save(k, a)) /\ rows[a] = gained[a]
    <2>1. \A k \in 1 .. Len(db_queue') : ~Save(k, a)'
      BY <1>3, <1>6
    <2>2. rows'[a] = gained'[a]
      BY <1>1, <1>2, <1>5, <1>6
    <2> QED BY <2>1, <2>2 DEF Settled
  <1>7. ASSUME NEW k \in 1 .. Len(db_queue), Save(k, a), db_queue[k].val = gained[a],
               \A l \in 1 .. Len(db_queue) : l > k => ~Save(l, a)
        PROVE  Settled(a)'
    <2>1. CASE k = 1
      <3>1. \A l \in 1 .. Len(db_queue') : l + 1 > 1
        BY <1>2
      <3>2. \A l \in 1 .. Len(db_queue') : ~Save(l, a)'
        BY <1>3, <1>7, <2>1, <3>1
      <3>3. rows'[a] = gained'[a]
        BY <1>1, <1>2, <1>5, <1>7, <2>1
      <3> QED BY <3>2, <3>3 DEF Settled
    <2>2. CASE k # 1
      <3>1. PICK m \in 1 .. Len(db_queue') : m + 1 = k
        <4>1. k - 1 \in 1 .. Len(db_queue') /\ (k - 1) + 1 = k
          BY <1>2, <2>2
        <4> QED BY <4>1
      <3>2. Save(m, a)' /\ db_queue'[m].val = gained'[a]
        BY <1>1, <1>2, <1>3, <1>7, <3>1
      <3>3. \A l \in 1 .. Len(db_queue') : l > m => l + 1 > k
        BY <1>2, <3>1
      <3>4. \A l \in 1 .. Len(db_queue') : l > m => ~Save(l, a)'
        BY <1>3, <1>7, <3>3
      <3> QED BY <3>2, <3>4 DEF Settled
    <2> QED BY <2>1, <2>2
  <1> QED BY <1>6, <1>7 DEF Settled
-----------------------------------------------------------------------------
(***************************************************************************)
(* The state of a session, its end and its packets.                        *)
(***************************************************************************)
LEMMA StatedFrame ==
    ASSUME NEW w \in Workers, Stated(w),
           UNCHANGED <<conn_of, registered, m_state, in_sector, job>>
    PROVE  Stated(w)'
  BY DEF Stated, About, IsBot, Account

\* The completions X that join the port, and the new marks of the sessions, agree.
Noticing(w, X) ==
    /\ conn_of' = conn_of /\ Grow(port, port', X)
    /\ \A id \in Ids : recv_posted'[id] => Handed(id) /\ ~Closed(id)'
    /\ \A e \in X : e.kind \in Ends => conn'[conn_of[e.id]] = "closed"
    /\ \A c \in Conns : conn[c] = "closed" => conn'[c] = "closed"
    /\ \A id \in Ids : About(w, Leaving, id)' => About(w, Leaving, id)
    /\ \A id \in Ids : registered'[id] => registered[id]
    /\ \A id \in Ids : registered'[id] /\ recv_posted[id] =>
           recv_posted'[id] \/ Posted(Early \cup Ends, id)'
    /\ \A id \in Ids : registered'[id] /\ About(w, Entering \cup Leaving, id) =>
           \/ recv_posted'[id] \/ Posted(Early \cup Ends, id)'
           \/ About(w, Entering \cup Leaving, id)'

LEMMA NoticedGrow ==
    ASSUME NEW w \in Workers, One(w), Base', NEW X, Noticing(w, X)
    PROVE  Noticed(w)'
  <1> USE DEF Noticing
  <1>1. Typed /\ Typed' /\ Noticed(w)
    BY DEF One, Base
  <1>2. \A id \in Ids : Handed(id)' <=> Handed(id)
    BY DEF Handed
  <1>3. ASSUME NEW id \in Ids, Posted(Ends, id)' \/ About(w, Leaving, id)'
        PROVE  Closed(id)'
    <2>1. CASE Posted(Ends, id)' /\ ~Posted(Ends, id)
      <3>1. PICK e \in X : e.kind \in Ends /\ e.id = id
        BY <1>1, <2>1, GrowPosted
      <3> QED BY <3>1 DEF Closed
    <2>2. CASE Posted(Ends, id) \/ About(w, Leaving, id)
      <3>1. Closed(id)
        BY <1>1, <2>2 DEF Noticed
      <3>2. Handed(id)
        <4>1. CASE Posted(Ends, id)
          BY <4>1 DEF Posted, Is, Ends, One, Base, Numbered
        <4>2. CASE About(w, Leaving, id)
          <5>1. job[w].op # "idle" /\ job[w].id = id
            BY <4>2 DEF About, Leaving
          <5> QED BY <5>1, Busy DEF One
        <4> QED BY <2>2, <4>1, <4>2
      <3>3. conn_of[id] \in Conns
        BY <1>1, <3>2 DEF Typed, Handed
      <3> QED BY <3>1, <3>3 DEF Closed
    <2> QED BY <1>3, <2>1, <2>2
  <1>4. ASSUME NEW id \in Ids, registered'[id]
        PROVE  \/ recv_posted'[id] \/ Posted(Early \cup Ends, id)'
               \/ About(w, Entering \cup Leaving, id)'
    <2>1. \/ recv_posted[id] \/ Posted(Early \cup Ends, id)
          \/ About(w, Entering \cup Leaving, id)
      BY <1>1, <1>4 DEF Noticed
    <2>2. CASE Posted(Early \cup Ends, id)
      BY <1>1, <2>2, GrowPosted
    <2> QED BY <1>4, <2>1, <2>2
  <1>5. /\ \A id \in Ids : recv_posted'[id] => Handed(id)' /\ ~Closed(id)'
    BY <1>2
  <1> QED BY <1>3, <1>4, <1>5 DEF Noticed

LEMMA NoticedSame ==
    ASSUME NEW w \in Workers, One(w), UNCHANGED <<conn_of, port, recv_posted>>,
           \A c \in Conns : conn[c] = "closed" <=> conn'[c] = "closed",
           \A id \in Ids : registered'[id] => registered[id],
           \A id \in Ids : About(w, Leaving, id)' => About(w, Leaving, id),
           \A id \in Ids : registered'[id] /\ About(w, Entering \cup Leaving, id) =>
               About(w, Entering \cup Leaving, id)'
    PROVE  Noticed(w)'
  <1>1. Noticed(w) /\ Typed
    BY DEF One, Base
  <1>2. \A K, id : Posted(K, id)' <=> Posted(K, id)
    BY DEF Posted, Is
  <1>3. \A id \in Ids : Handed(id)' <=> Handed(id)
    BY DEF Handed
  <1>4. \A id \in Ids : Handed(id) => (Closed(id)' <=> Closed(id))
    BY <1>1 DEF Handed, Closed, Typed
  <1>5. \A id \in Ids : Posted(Ends, id) \/ About(w, Leaving, id) => Handed(id)
    <2>1. \A id \in Ids : Posted(Ends, id) => Handed(id)
      BY DEF Posted, Is, Ends, One, Base, Numbered
    <2>2. \A id \in Ids : About(w, Leaving, id) => Handed(id)
      BY Busy DEF About, Leaving, One
    <2> QED BY <2>1, <2>2
  <1>6. \A id \in Ids : recv_posted'[id] => Handed(id)' /\ ~Closed(id)'
    BY <1>1, <1>3, <1>4 DEF Noticed
  <1>7. \A id \in Ids : Posted(Ends, id)' \/ About(w, Leaving, id)' => Closed(id)'
    BY <1>1, <1>2, <1>4, <1>5 DEF Noticed
  <1>8. \A id \in Ids : registered'[id] =>
            \/ recv_posted'[id] \/ Posted(Early \cup Ends, id)'
            \/ About(w, Entering \cup Leaving, id)'
    BY <1>1, <1>2 DEF Noticed
  <1> QED BY <1>6, <1>7, <1>8 DEF Noticed

LEMMA NoticedPop ==
    ASSUME NEW w \in Workers, One(w), Free(w), port # <<>>, port' = Tail(port),
           UNCHANGED <<conn, conn_of, registered, recv_posted>>,
           \A id \in Ids : About(w, Leaving, id)' => Head(port).kind \in Ends /\ Head(port).id = id,
           \A id \in Ids : Head(port).kind \in Early \cup Ends /\ Head(port).id = id /\ registered[id] =>
               About(w, Entering \cup Leaving, id)'
    PROVE  Noticed(w)'
  <1>1. Typed /\ Noticed(w)
    BY DEF One, Base
  <1>2. \A id \in Ids : ~About(w, Entering \cup Leaving, id)
    BY DEF About, Free, Entering, Leaving
  <1>3. \A id \in Ids : /\ Handed(id)' <=> Handed(id)
                        /\ Closed(id)' <=> Closed(id)
    BY DEF Handed, Closed
  <1>4. ASSUME NEW id \in Ids, Posted(Ends, id)' \/ About(w, Leaving, id)'
        PROVE  Closed(id)
    <2>1. CASE Posted(Ends, id)'
      <3>1. Posted(Ends, id)
        BY <1>1, <2>1, PopPosted
      <3> QED BY <1>1, <3>1 DEF Noticed
    <2>2. CASE About(w, Leaving, id)'
      <3>1. Head(port) = port[1] /\ 1 \in 1 .. Len(port)
        BY <1>1, Pops DEF Shift
      <3>2. Posted(Ends, id)
        BY <2>2, <3>1 DEF Posted, Is
      <3> QED BY <1>1, <3>2 DEF Noticed
    <2> QED BY <1>4, <2>1, <2>2
  <1>5. ASSUME NEW id \in Ids, registered[id]
        PROVE  \/ recv_posted[id] \/ Posted(Early \cup Ends, id)'
               \/ About(w, Entering \cup Leaving, id)'
    <2>1. recv_posted[id] \/ Posted(Early \cup Ends, id)
      BY <1>1, <1>2, <1>5 DEF Noticed
    <2>2. CASE Posted(Early \cup Ends, id)
      BY <1>1, <1>5, <2>2, PopPosted
    <2> QED BY <2>1, <2>2
  <1>6. \A id \in Ids : recv_posted[id] => Handed(id) /\ ~Closed(id)
    BY <1>1 DEF Noticed
  <1> QED BY <1>3, <1>4, <1>5, <1>6 DEF Noticed

LEMMA PlayingGrow ==
    ASSUME NEW w \in Workers, One(w), Base', conn_of' = conn_of, NEW X, Grow(port, port', X),
           \A e \in X : e.kind = "play" => Handed(e.id) /\ conn[conn_of[e.id]] = "in",
           \A id \in Ids : registered'[id] => registered[id],
           \A id \in Ids : Handed(id) /\ conn'[conn_of[id]] = "in" =>
               conn[conn_of[id]] = "in" \/ m_state[id] = "CS_PLAYING",
           \A id \in Ids : m_state[id] = "CS_PLAYING" =>
               \/ m_state'[id] = "CS_PLAYING"
               \/ About(w, {"leave"}, id)' /\ conn'[conn_of[id]] = "closed",
           \A id \in Ids : About(w, {"leave", "free"}, id) /\ registered'[id] =>
               About(w, {"leave", "free"}, id)',
           \A id \in Ids : About(w, {"play"}, id)' => About(w, {"play"}, id)
    PROVE  Playing(w)'
  <1>1. Typed /\ Typed' /\ Playing(w)
    BY DEF One, Base
  <1>2. \A id \in Ids : Handed(id)' <=> Handed(id)
    BY DEF Handed
  <1>3. \A id \in Ids : Handed(id) /\ conn'[conn_of[id]] = "in" /\ registered'[id] =>
            m_state'[id] = "CS_PLAYING"
    BY <1>1 DEF Playing
  <1>4. ASSUME NEW id \in Ids, Posted({"play"}, id)', registered'[id]
        PROVE  m_state'[id] = "CS_PLAYING" \/ About(w, {"leave", "free"}, id)'
    <2>1. m_state[id] = "CS_PLAYING" \/ About(w, {"leave", "free"}, id)
      <3>1. CASE Posted({"play"}, id)
        BY <1>1, <1>4, <3>1 DEF Playing
      <3>2. CASE ~Posted({"play"}, id)
        <4>1. PICK e \in X : e.kind \in {"play"} /\ e.id = id
          BY <1>1, <1>4, <3>2, GrowPosted
        <4> QED BY <1>1, <1>4, <4>1 DEF Playing
      <3> QED BY <3>1, <3>2
    <2> QED BY <1>4, <2>1 DEF About
  <1>5. \A id \in Ids : About(w, {"play"}, id)' /\ registered'[id] => m_state'[id] = "CS_PLAYING"
    BY <1>1 DEF Playing, About
  <1> QED BY <1>2, <1>3, <1>4, <1>5 DEF Playing

LEMMA PlayingPop ==
    ASSUME NEW w \in Workers, One(w), Free(w), port # <<>>, port' = Tail(port),
           UNCHANGED <<conn, conn_of, registered>>,
           \A id \in Ids : m_state[id] = "CS_PLAYING" => m_state'[id] = "CS_PLAYING",
           \A id \in Ids : About(w, {"play"}, id)' => Head(port).kind = "play" /\ Head(port).id = id
    PROVE  Playing(w)'
  <1>1. Typed /\ Playing(w)
    BY DEF One, Base
  <1>2. \A id \in Ids : ~About(w, {"leave", "free"}, id)
    BY DEF About, Free
  <1>3. \A id \in Ids : Posted({"play"}, id) /\ registered[id] => m_state'[id] = "CS_PLAYING"
    BY <1>1, <1>2 DEF Playing
  <1>4. \A id \in Ids : Posted({"play"}, id)' => Posted({"play"}, id)
    BY <1>1, PopPosted
  <1>5. Head(port) = port[1] /\ 1 \in 1 .. Len(port)
    BY <1>1, Pops DEF Shift
  <1>6. \A id \in Ids : About(w, {"play"}, id)' => Posted({"play"}, id)
    BY <1>5 DEF Posted, Is
  <1>7. \A id \in Ids : Handed(id)' /\ conn'[conn_of'[id]] = "in" /\ registered'[id] =>
            m_state'[id] = "CS_PLAYING"
    BY <1>1 DEF Playing, Handed
  <1> QED BY <1>3, <1>4, <1>6, <1>7 DEF Playing

LEMMA GrowDb ==
    ASSUME Typed, Typed', NEW X, Grow(port, port', X), \A e \in X : e.kind # "db"
    PROVE  \A k \in 1 .. Len(port') : port'[k].kind = "db" =>
               \E l \in 1 .. Len(port) : port[l] = port'[k]
  <1>1. /\ Len(port) \in Nat /\ Len(port') \in Nat
        /\ \A k \in 1 .. Len(port) : port'[k] = port[k]
        /\ \A k \in 1 .. Len(port') : k > Len(port) => port'[k] \in X
    BY DEF Typed, Grow
  <1>2. \A k \in 1 .. Len(port') : k \in 1 .. Len(port) \/ k > Len(port)
    BY <1>1
  <1> QED BY <1>1, <1>2

LEMMA PopDb ==
    ASSUME Typed, port # <<>>, port' = Tail(port)
    PROVE  \A k \in 1 .. Len(port') : port'[k].kind = "db" =>
               \E l \in 1 .. Len(port) : port[l] = port'[k]
  <1>1. \A k \in 1 .. Len(port') : k + 1 \in 1 .. Len(port) /\ port'[k] = port[k + 1]
    BY Pops DEF Shift
  <1> QED BY <1>1

LEMMA RestoredStill ==
    ASSUME NEW w \in Workers, One(w), Base',
           UNCHANGED <<conn_of, gained, db_queue, rows, registered, m_state, progress, job>>,
           \A k \in 1 .. Len(port') : port'[k].kind = "db" =>
               \E l \in 1 .. Len(port) : port[l] = port'[k]
    PROVE  Restored(w)'
  <1>1. \A id \in Ids : InPlay(id)' = InPlay(id) /\ Wait(id)' = Wait(id)
    BY DEF InPlay, Wait
  <1>2. \A id \in Ids : /\ About(w, {"logout"}, id)' <=> About(w, {"logout"}, id)
                        /\ About(w, {"db_load"}, id)' <=> About(w, {"db_load"}, id)
    BY DEF About
  <1>3. \A id \in Ids : About(w, {"db_load"}, id)' => job'[w].val = gained[Account(id)]
    BY <1>2 DEF One, Restored, Loading
  <1> QED BY <1>1, <1>2, <1>3, RestoredFrame

LEMMA OneConnect ==
    ASSUME NEW w \in Workers, One(w), NEW c \in Conns, Connect(c)
    PROVE  One(w)'
  <1> DEFINE e == [kind |-> "accept", id |-> 0, val |-> c]
  <1>1. /\ port' = Append(port, e) /\ conn' = [conn EXCEPT ![c] = "connecting"] /\ conn[c] = "new"
        /\ UNCHANGED <<deployment, conn_of, player_index, registered, m_state, progress, in_sector,
                       socket, recv_posted, db_queue, rows, job, gained>>
    BY DEF Connect, sessionVars
  <1>2. Base' /\ Typed /\ Typed'
    BY BaseConnect DEF One, Base
  <1>3. e \in Events /\ e.kind = "accept" /\ e.val = c
    BY MadeAccept
  <1> HIDE DEF e
  <1>4. /\ Grow(port, port', {e}) /\ Len(port) \in Nat
        /\ Len(port') = Len(port) + 1 /\ port'[Len(port) + 1] = e
    BY <1>1, <1>2, <1>3, AppendGrows DEF Typed
  <1>5. /\ conn'[c] = "connecting" /\ \A d \in Conns : d # c => conn'[d] = conn[d]
    BY <1>1, <1>2 DEF Typed
  <1>6. \A id \in Ids : Handed(id) => conn_of[id] \in Conns /\ conn_of[id] # c
    BY <1>1, <1>2 DEF One, Base, Connected, Typed, Handed
  <1>7. \A id \in Ids : Handed(id) => conn'[conn_of[id]] = conn[conn_of[id]]
    BY <1>5, <1>6
  <1>8. \A K, id : About(w, K, id)' <=> About(w, K, id)
    BY <1>1 DEF About
  <1>9. Stated(w)'
    BY <1>1, StatedFrame DEF One
  <1>10. Noticed(w)'
    <2>1. \A id \in Ids : recv_posted'[id] => Handed(id) /\ ~Closed(id)'
      BY <1>1, <1>7 DEF One, Noticed, Closed
    <2>2. \A f \in {e} : f.kind \notin Ends
      BY <1>3 DEF Ends
    <2>3. \A i \in Ids : registered'[i] /\ recv_posted[i] => recv_posted'[i]
      BY <1>1
    <2>4. \A d \in Conns : conn[d] = "closed" => conn'[d] = "closed"
      BY <1>1, <1>5
    <2>5. conn_of' = conn_of /\ \A i \in Ids : registered'[i] => registered[i]
      BY <1>1
    <2>6. Noticing(w, {e})
      BY <1>4, <1>8, <2>1, <2>2, <2>3, <2>4, <2>5 DEF Noticing
    <2> QED BY <1>2, <2>6, NoticedGrow
  <1>11. Playing(w)'
    <2>1. \A f \in {e} : f.kind # "play"
      BY <1>3
    <2> QED BY <1>1, <1>2, <1>4, <1>7, <1>8, <2>1, PlayingGrow
  <1>12. Ordered(w)'
    <2>1. \A f \in {e} : f.kind \notin Early
      BY <1>3 DEF Early
    <2>2. \E l \in 1 .. Len(port') : l > Len(port) /\ Accepting(l, c)'
      <3>1. Len(port) + 1 \in 1 .. Len(port') /\ Len(port) + 1 > Len(port)
        BY <1>4
      <3>2. port'[Len(port) + 1].kind = "accept" /\ port'[Len(port) + 1].val = c
        BY <1>3, <1>4
      <3> QED BY <3>1, <3>2 DEF Accepting
    <2>3. \A d \in Conns : Gone(d) =>
               \/ Gone(d)'
               \/ /\ \E l \in 1 .. Len(port') : l > Len(port) /\ Accepting(l, d)'
                  /\ \A f \in {e} : f.kind \notin Early
      <3>1. \A d \in Conns : Gone(d) /\ d # c => Gone(d)'
        BY <1>5 DEF Gone
      <3> QED BY <2>1, <2>2, <3>1
    <2> QED BY <1>1, <1>2, <1>4, <1>5, <1>8, <2>1, <2>3, OrderedGrow
  <1>13. Restored(w)'
    <2>1. \A f \in {e} : f.kind # "db"
      BY <1>3
    <2>2. \A k \in 1 .. Len(port') : port'[k].kind = "db" =>
               \E l \in 1 .. Len(port) : port[l] = port'[k]
      BY <1>2, <1>4, <2>1, GrowDb
    <2> QED BY <1>1, <1>2, <2>2, RestoredStill
  <1> QED BY <1>1, <1>2, <1>9, <1>10, <1>11, <1>12, <1>13 DEF One

\* A packet of a client that is there.
LEMMA OneSends ==
    ASSUME NEW w \in Workers, One(w), NEW id \in Ids, NEW kind \in Early, Arrives(id, kind), Handed(id),
           Base', UNCHANGED <<deployment, sessionVars, db_queue, rows, job, gained>>,
           \A d \in Conns : conn'[d] = conn[d] \/ (conn[d] = "connected" /\ conn'[d] = "waiting"),
           conn[conn_of[id]] \in {"connected", "in"},
           kind = "play" => conn[conn_of[id]] = "in"
    PROVE  One(w)'
  <1>1. UNCHANGED <<deployment, conn_of, player_index, registered, m_state, progress, in_sector,
                    socket, db_queue, rows, job, gained>>
    BY DEF sessionVars
  <1>2. Base' /\ Typed /\ Typed'
    BY DEF One, Base
  <1> PICK e : e = Event(kind, id, 0)
    OBVIOUS
  <1>3. e.kind = kind /\ e.id = id
    BY DEF Event
  <1>4. /\ Grow(port, port', {e}) /\ Len(port) \in Nat
        /\ Len(port') = Len(port) + 1 /\ port'[Len(port')] = e
        /\ \A i \in Ids : i # id => recv_posted'[i] = recv_posted[i]
        /\ recv_posted[id] /\ ~recv_posted'[id]
    BY <1>2, Arrivals
  <1>5. /\ \A d \in Conns : conn[d] = "closed" <=> conn'[d] = "closed"
        /\ \A d \in Conns : conn'[d] = "in" => conn[d] = "in"
        /\ \A d \in Conns : Gone(d) => Gone(d)'
    BY DEF Gone
  <1>6. \A i \in Ids : Handed(i) => conn_of[i] \in Conns
    BY <1>2 DEF Typed, Handed
  <1>7. \A K, i : About(w, K, i)' <=> About(w, K, i)
    BY <1>1 DEF About
  <1>8. Stated(w)'
    BY <1>1, StatedFrame DEF One
  <1>9. Noticed(w)'
    <2>1. \A i \in Ids : recv_posted'[i] => Handed(i) /\ ~Closed(i)'
      <3>1. \A i \in Ids : recv_posted'[i] => recv_posted[i]
        BY <1>4
      <3> QED BY <1>1, <1>5, <1>6, <3>1 DEF One, Noticed, Closed
    <2>2. \A f \in {e} : f.kind \notin Ends
      BY <1>3 DEF Ends, Early
    <2>3. Posted(Early \cup Ends, id)'
      <3>1. Len(port') \in 1 .. Len(port')
        BY <1>4
      <3>2. \E k \in 1 .. Len(port') : port'[k].kind \in Early \cup Ends /\ port'[k].id = id
        BY <1>3, <1>4, <3>1
      <3> QED BY <3>2 DEF Posted, Is
    <2>4. \A i \in Ids : registered'[i] /\ recv_posted[i] =>
               recv_posted'[i] \/ Posted(Early \cup Ends, i)'
      BY <1>4, <2>3
    <2>5. \A i \in Ids : About(w, Entering \cup Leaving, i)' <=> About(w, Entering \cup Leaving, i)
      BY <1>7
    <2>6. \A i \in Ids : About(w, Leaving, i)' => About(w, Leaving, i)
      BY <1>7
    <2>7. \A d \in Conns : conn[d] = "closed" => conn'[d] = "closed"
      BY <1>5
    <2>8. conn_of' = conn_of /\ \A i \in Ids : registered'[i] => registered[i]
      BY <1>1
    <2>9. Grow(port, port', {e})
      BY <1>4
    <2>10. \A f \in {e} : f.kind \in Ends => conn'[conn_of[f.id]] = "closed"
      BY <2>2
    <2>11. Noticing(w, {e})
      BY <2>1, <2>4, <2>5, <2>6, <2>7, <2>8, <2>9, <2>10 DEF Noticing
    <2> QED BY <1>2, <2>11, NoticedGrow
  <1>10. Playing(w)'
    <2>1. \A f \in {e} : f.kind = "play" => Handed(f.id) /\ conn[conn_of[f.id]] = "in"
      BY <1>3
    <2>2. \A i \in Ids : Handed(i) /\ conn'[conn_of[i]] = "in" => conn[conn_of[i]] = "in"
      BY <1>5, <1>6
    <2> QED BY <1>1, <1>2, <1>4, <1>7, <2>1, <2>2, PlayingGrow
  <1>11. Ordered(w)'
    <2>1. \A f \in {e} : f.kind \in Early => Handed(f.id) /\ ~Gone(conn_of[f.id])
      BY <1>3 DEF Gone
    <2> QED BY <1>1, <1>2, <1>4, <1>5, <1>7, <2>1, OrderedGrow
  <1>12. Restored(w)'
    <2>1. \A f \in {e} : f.kind # "db"
      BY <1>3 DEF Early
    <2>2. \A k \in 1 .. Len(port') : port'[k].kind = "db" =>
               \E l \in 1 .. Len(port) : port[l] = port'[k]
      BY <1>2, <1>4, <2>1, GrowDb
    <2> QED BY <1>1, <1>2, <2>2, RestoredStill
  <1> QED BY <1>1, <1>2, <1>8, <1>9, <1>10, <1>11, <1>12 DEF One

LEMMA OneSendLogin ==
    ASSUME NEW w \in Workers, One(w), NEW id \in Ids, SendLogin(id)
    PROVE  One(w)'
  <1>1. Arrives(id, "login") /\ Handed(id) /\ "login" \in Early
    BY DEF SendLogin, Handed, Early
  <1>2. /\ conn[conn_of[id]] = "connected"
        /\ \A d \in Conns : conn'[d] = conn[d] \/ (conn[d] = "connected" /\ conn'[d] = "waiting")
        /\ UNCHANGED <<deployment, sessionVars, db_queue, rows, job, gained>>
    BY DEF SendLogin, One, Base, Typed
  <1>3. Base'
    BY BaseSendLogin DEF One
  <1> QED BY <1>1, <1>2, <1>3, OneSends

LEMMA OneSendPlay ==
    ASSUME NEW w \in Workers, One(w), NEW id \in Ids, SendPlay(id)
    PROVE  One(w)'
  <1>1. Arrives(id, "play") /\ Handed(id) /\ "play" \in Early
    BY DEF SendPlay, Handed, Early
  <1>2. /\ conn[conn_of[id]] = "in" /\ \A d \in Conns : conn'[d] = conn[d]
        /\ UNCHANGED <<deployment, sessionVars, db_queue, rows, job, gained>>
    BY DEF SendPlay
  <1>3. Base'
    BY BaseSendPlay DEF One
  <1> QED BY <1>1, <1>2, <1>3, OneSends

LEMMA OneClose ==
    ASSUME NEW w \in Workers, One(w), NEW id \in Ids, Close(id)
    PROVE  One(w)'
  <1>1. /\ Handed(id) /\ conn' = [conn EXCEPT ![conn_of[id]] = "closed"]
        /\ UNCHANGED <<deployment, conn_of, player_index, registered, m_state, progress, in_sector,
                       socket, db_queue, rows, job, gained>>
    BY DEF Close, Handed, sessionVars
  <1>2. Base' /\ Typed /\ Typed'
    BY BaseClose DEF One, Base
  <1> PICK X : X = {Event("eof", id, 0), Event("senderr", id, 0)}
    OBVIOUS
  <1>3. \A e \in X : e.kind \in Ends /\ e.id = id
    BY DEF Event, Ends
  <1>4. /\ Grow(port, port', X) /\ recv_posted' = [recv_posted EXCEPT ![id] = FALSE]
        /\ recv_posted[id] => \E k \in 1 .. Len(port') : port'[k] = Event("eof", id, 0)
    BY <1>2, Closes
  <1>5. \A i \in Ids : Handed(i) => conn_of[i] \in Conns
    BY <1>2 DEF Typed, Handed
  <1>6. /\ conn'[conn_of[id]] = "closed"
        /\ \A d \in Conns : d # conn_of[id] => conn'[d] = conn[d]
    BY <1>1, <1>2, <1>5 DEF Typed
  <1>7. \A K, i : About(w, K, i)' <=> About(w, K, i)
    BY <1>1 DEF About
  <1>8. Stated(w)'
    BY <1>1, StatedFrame DEF One
  <1>9. /\ \A i \in Ids : i # id => recv_posted'[i] = recv_posted[i]
        /\ ~recv_posted'[id]
    BY <1>2, <1>4 DEF Typed
  <1>10. Noticed(w)'
    <2>1. \A i \in Ids : recv_posted'[i] => Handed(i) /\ ~Closed(i)'
      <3>1. ASSUME NEW i \in Ids, recv_posted'[i]
            PROVE  Handed(i) /\ ~Closed(i)'
        <4>1. i # id /\ recv_posted[i]
          BY <1>9, <3>1
        <4>2. Handed(i) /\ ~Closed(i)
          BY <4>1 DEF One, Noticed
        <4>3. conn_of[i] # conn_of[id]
          BY <1>1, <4>1, <4>2 DEF One, Base, Connected
        <4> QED BY <1>1, <1>5, <1>6, <4>2, <4>3 DEF Closed
      <3> QED BY <3>1
    <2>2. \A e \in X : e.kind \in Ends => conn'[conn_of[e.id]] = "closed"
      BY <1>3, <1>6
    <2>3. \A d \in Conns : conn[d] = "closed" => conn'[d] = "closed"
      BY <1>6
    <2>4. recv_posted[id] => Posted(Early \cup Ends, id)'
      <3>1. Event("eof", id, 0).kind \in Early \cup Ends /\ Event("eof", id, 0).id = id
        BY DEF Event, Ends
      <3>2. recv_posted[id] =>
                \E k \in 1 .. Len(port') : port'[k].kind \in Early \cup Ends /\ port'[k].id = id
        BY <1>4, <3>1
      <3> QED BY <3>2 DEF Posted, Is
    <2>5. \A i \in Ids : registered'[i] /\ recv_posted[i] =>
               recv_posted'[i] \/ Posted(Early \cup Ends, i)'
      BY <1>9, <2>4
    <2>6. conn_of' = conn_of /\ \A i \in Ids : registered'[i] => registered[i]
      BY <1>1
    <2>7. Noticing(w, X)
      BY <1>4, <1>7, <2>1, <2>2, <2>3, <2>5, <2>6 DEF Noticing
    <2> QED BY <1>2, <2>7, NoticedGrow
  <1>11. Playing(w)'
    <2>1. \A f \in X : f.kind # "play"
      BY <1>3 DEF Ends
    <2>2. \A i \in Ids : Handed(i) /\ conn'[conn_of[i]] = "in" => conn[conn_of[i]] = "in"
      BY <1>5, <1>6
    <2> QED BY <1>1, <1>2, <1>4, <1>7, <2>1, <2>2, PlayingGrow
  <1>12. Ordered(w)'
    <2>1. \A f \in X : f.kind \notin Early
      BY <1>3 DEF Early, Ends
    <2>2. \A d \in Conns : Gone(d) => Gone(d)'
      BY <1>6 DEF Gone
    <2>3. \A d \in Conns : conn[d] = "closed" => conn'[d] = "closed"
      BY <1>6
    <2> QED BY <1>1, <1>2, <1>4, <1>7, <2>1, <2>2, <2>3, OrderedGrow
  <1>13. Restored(w)'
    <2>1. \A f \in X : f.kind # "db"
      BY <1>3 DEF Ends
    <2>2. \A k \in 1 .. Len(port') : port'[k].kind = "db" =>
               \E l \in 1 .. Len(port) : port[l] = port'[k]
      BY <1>2, <1>4, <2>1, GrowDb
    <2> QED BY <1>1, <1>2, <2>2, RestoredStill
  <1> QED BY <1>1, <1>2, <1>8, <1>10, <1>11, <1>12, <1>13 DEF One
-----------------------------------------------------------------------------
(***************************************************************************)
(* The worker takes a completion.                                          *)
(***************************************************************************)
LEMMA DoAbout ==
    ASSUME Typed, NEW w \in Workers, NEW op, NEW id, NEW v, Do(w, op, id, v), NEW K, NEW i
    PROVE  (About(w, K, i)' <=> op \in K /\ id = i) /\ job'[w].val = v
  BY DEF Do, About, Typed

LEMMA DoneAbout ==
    ASSUME Typed, NEW w \in Workers, Done(w), NEW K, NEW i, "idle" \notin K
    PROVE  ~About(w, K, i)'
  BY DEF Done, About, Idle, Typed

LEMMA FreeAbout ==
    ASSUME NEW w \in Workers, Free(w), NEW K, NEW i, "idle" \notin K
    PROVE  ~About(w, K, i)
  BY DEF Free, About

\* Taken by the worker: a packet, an end, a result.
LEMMA OnePop ==
    ASSUME NEW w \in Workers, One(w), Base', Free(w), port # <<>>, Head(port).kind # "accept",
           port' = Tail(port),
           UNCHANGED <<deployment, conn, conn_of, player_index, registered, progress, in_sector,
                       socket, recv_posted, db_queue, rows, gained>>,
           \A id \in Ids : \/ m_state'[id] = m_state[id]
                           \/ m_state[id] = "CS_DB_WAIT" /\ m_state'[id] = "CS_LOGOUT",
           \A id \in Ids : ~About(w, {"bot_enter", "db_enter", "logout", "leave", "free"}, id)',
           \A id \in Ids : About(w, {"login", "play"}, id)' =>
               Head(port).id = id /\ Head(port).kind = job'[w].op,
           \A id \in Ids : About(w, {"save"}, id)' =>
               Head(port).kind \in Ends /\ Head(port).id = id /\ registered[id],
           \A id \in Ids : About(w, {"db_load"}, id)' =>
               Wait(id) /\ m_state'[id] = "CS_DB_WAIT" /\ job'[w].val = gained[Account(id)],
           \A id \in Ids : Head(port).kind \in Early /\ Head(port).id = id => About(w, Early, id)',
           \A id \in Ids : Head(port).kind \in Ends /\ Head(port).id = id /\ registered[id] =>
               About(w, {"save"}, id)'
    PROVE  One(w)'
  <1>1. Typed /\ Stated(w)
    BY DEF One, Base
  <1>2. \A i : ~About(w, {"bot_enter", "db_enter", "db_load", "leave", "free"}, i)
    BY DEF About, Free
  <1>3. \A i : ~About(w, {"logout"}, i)
    BY FreeAbout
  <1>4. /\ \A i \in Ids : About(w, Leaving, i)' <=> About(w, {"save"}, i)'
        /\ \A i \in Ids : About(w, Entering, i)' <=> About(w, Early, i)'
        /\ \A i \in Ids : ~About(w, {"logout"}, i)'
    BY DEF About, Leaving, Entering, Early
  <1>5. \A i \in Ids : About(w, Entering \cup Leaving, i)' <=> About(w, Early, i)' \/ About(w, {"save"}, i)'
    BY <1>4 DEF About
  <1>6. Stated(w)'
    <2>1. \A id \in Ids : in_sector[id] => registered[id] /\ m_state'[id] = "CS_PLAYING"
      BY <1>1, <1>2 DEF Stated, About
    <2>2. \A id \in Ids : m_state'[id] = "CS_DB_WAIT" => ~IsBot(id)'
      BY <1>1 DEF Stated, IsBot, Account
    <2>3. \A id \in Ids : ~About(w, {"bot_enter", "db_enter"}, id)' /\ ~About(w, {"leave"}, id)'
                          /\ ~About(w, {"free"}, id)' /\ ~About(w, {"leave", "free"}, id)'
      BY DEF About
    <2>4. \A id \in Ids : About(w, Leaving, id)' => registered[id]
      BY <1>4
    <2> QED BY <2>1, <2>2, <2>3, <2>4 DEF Stated, Wait
  <1>7. Noticed(w)'
    <2>1. \A id \in Ids : About(w, Leaving, id)' => Head(port).kind \in Ends /\ Head(port).id = id
      BY <1>4
    <2>2. \A id \in Ids : Head(port).kind \in Early \cup Ends /\ Head(port).id = id /\ registered[id] =>
               About(w, Entering \cup Leaving, id)'
      BY <1>5
    <2> QED BY <2>1, <2>2, NoticedPop
  <1>8. Playing(w)'
    <2>1. \A id \in Ids : m_state[id] = "CS_PLAYING" => m_state'[id] = "CS_PLAYING"
      OBVIOUS
    <2>2. \A id \in Ids : About(w, {"play"}, id)' => Head(port).kind = "play" /\ Head(port).id = id
      BY DEF About
    <2> QED BY <2>1, <2>2, PlayingPop
  <1>9. Ordered(w)'
    <2>1. \A id \in Ids : m_state'[id] \in {m_state[id], "CS_LOGOUT"}
      OBVIOUS
    <2>2. \A id \in Ids : About(w, Entering, id)' => Head(port).kind \in Early /\ Head(port).id = id
      BY <1>4 DEF About, Early
    <2>3. \A id \in Ids : Head(port).kind \in Ends /\ Head(port).id = id /\ registered[id] =>
               About(w, Leaving, id)'
      BY <1>4
    <2> QED BY <2>1, <2>2, <2>3, OrderedPop
  <1>10. Restored(w)'
    <2>1. \A k \in 1 .. Len(port') : port'[k].kind = "db" =>
               \E l \in 1 .. Len(port) : port[l] = port'[k]
      BY <1>1, PopDb
    <2>2. \A id \in Ids : InPlay(id)' = InPlay(id) /\ (Wait(id)' => Wait(id))
      BY DEF InPlay, Wait
    <2>3. \A id \in Ids : m_state'[id] = "CS_CONNECT" => m_state[id] = "CS_CONNECT"
      OBVIOUS
    <2>4. UNCHANGED <<conn_of, gained, db_queue, rows>> /\ progress' = progress
      OBVIOUS
    <2> QED BY <1>3, <1>4, <2>1, <2>2, <2>3, <2>4, RestoredFrame
  <1> QED BY <1>6, <1>7, <1>8, <1>9, <1>10 DEF One

LEMMA OneDequeue ==
    ASSUME NEW w \in Workers, One(w), Dequeue(w)
    PROVE  One(w)'
  <1>1. /\ Free(w) /\ port # <<>> /\ Head(port).kind \in Early
        /\ Do(w, Head(port).kind, Head(port).id, 0) /\ port' = Tail(port)
        /\ UNCHANGED <<deployment, conn, conn_of, player_index, registered, m_state, progress, in_sector,
                       socket, recv_posted, db_queue, rows, gained>>
    BY DEF Dequeue, Takes, Ready, Early, sessionVars
  <1>2. Base' /\ Typed
    BY BaseDequeue DEF One, Base
  <1> PICK h : h = Head(port)
    OBVIOUS
  <1>3. \A K, i : About(w, K, i)' <=> h.kind \in K /\ h.id = i
    BY <1>1, <1>2, DoAbout
  <1>4. job'[w].op = h.kind
    BY <1>1, <1>2 DEF Do, Typed
  <1>5. h.kind \in Early
    BY <1>1
  <1>6. \A K, i : K \cap Early = {} => ~About(w, K, i)'
    BY <1>3, <1>5
  <1>7. /\ \A id \in Ids : ~About(w, {"bot_enter", "db_enter", "logout", "leave", "free"}, id)'
        /\ \A id \in Ids : ~About(w, {"save"}, id)'
        /\ \A id \in Ids : ~About(w, {"db_load"}, id)'
        /\ \A id \in Ids : About(w, {"login", "play"}, id)' => h.id = id /\ h.kind = job'[w].op
        /\ \A id \in Ids : h.kind \in Early /\ h.id = id => About(w, Early, id)'
    BY <1>3, <1>4, <1>5 DEF Early
  <1>8. h.kind # "accept" /\ h.kind \notin Ends
    BY <1>5 DEF Early, Ends
  <1> QED BY <1>1, <1>2, <1>7, <1>8, OnePop

LEMMA OneLost ==
    ASSUME NEW w \in Workers, One(w), Lost(w)
    PROVE  One(w)'
  <1> PICK h : h = Head(port)
    OBVIOUS
  <1>1. /\ Free(w) /\ port # <<>> /\ h.kind \in Ends /\ port' = Tail(port)
        /\ IF registered[h.id] THEN Do(w, "save", h.id, 0) ELSE job' = job
        /\ UNCHANGED <<deployment, conn, conn_of, player_index, registered, m_state, progress, in_sector,
                       socket, recv_posted, db_queue, rows, gained>>
    BY DEF Lost, Ready, Ends, sessionVars
  <1>2. Base' /\ Typed
    BY BaseLost DEF One, Base
  <1>3. h.kind # "accept" /\ h.kind \notin Early
    BY <1>1 DEF Early, Ends
  <1>4. CASE registered[h.id]
    <2>1. \A K, i : About(w, K, i)' <=> "save" \in K /\ h.id = i
      BY <1>1, <1>2, <1>4, DoAbout
    <2>2. /\ \A id \in Ids : ~About(w, {"bot_enter", "db_enter", "logout", "leave", "free"}, id)'
          /\ \A id \in Ids : ~About(w, {"login", "play"}, id)'
          /\ \A id \in Ids : ~About(w, {"db_load"}, id)'
          /\ \A id \in Ids : About(w, {"save"}, id)' => h.kind \in Ends /\ h.id = id /\ registered[id]
          /\ \A id \in Ids : h.id = id => About(w, {"save"}, id)'
      BY <1>1, <1>4, <2>1
    <2> QED BY <1>1, <1>2, <1>3, <2>2, OnePop
  <1>5. CASE ~registered[h.id]
    <2>1. \A K, i : About(w, K, i)' <=> About(w, K, i)
      BY <1>1, <1>5 DEF About
    <2>2. /\ \A id \in Ids : ~About(w, {"bot_enter", "db_enter", "logout", "leave", "free"}, id)'
          /\ \A id \in Ids : ~About(w, {"login", "play"}, id)'
          /\ \A id \in Ids : ~About(w, {"db_load"}, id)'
          /\ \A id \in Ids : ~About(w, {"save"}, id)'
      BY <1>1, <2>1, FreeAbout
    <2> QED BY <1>1, <1>2, <1>3, <1>5, <2>2, OnePop
  <1> QED BY <1>4, <1>5

LEMMA OneDbResult ==
    ASSUME NEW w \in Workers, One(w), DbResult(w)
    PROVE  One(w)'
  <1> PICK h : h = Head(port)
    OBVIOUS
  <1>1. /\ Free(w) /\ port # <<>> /\ h.kind = "db" /\ port' = Tail(port)
        /\ UNCHANGED <<deployment, conn, conn_of, player_index, registered, progress, in_sector, socket,
                       recv_posted, db_queue, rows, gained>>
    BY DEF DbResult, Takes, Ready
  <1>2. Base' /\ Typed /\ Base
    BY BaseDbResult DEF One, Base
  <1>3. h.kind # "accept" /\ h.kind \notin Early /\ h.kind \notin Ends
    BY <1>1 DEF Early, Ends
  <1>4. h.id \in Ids /\ h.val \in Int
    BY <1>1, <1>2, First
  <1>5. CASE job' = job
    <2>1. \A K, i : About(w, K, i)' <=> About(w, K, i)
      BY <1>5 DEF About
    <2>2. /\ \A id \in Ids : ~About(w, {"bot_enter", "db_enter", "logout", "leave", "free"}, id)'
          /\ \A id \in Ids : ~About(w, {"login", "play"}, id)'
          /\ \A id \in Ids : ~About(w, {"db_load"}, id)'
          /\ \A id \in Ids : ~About(w, {"save"}, id)'
      BY <1>1, <2>1, FreeAbout
    <2>3. \/ m_state' = m_state
          \/ m_state[h.id] = "CS_DB_WAIT" /\ m_state' = [m_state EXCEPT ![h.id] = "CS_LOGOUT"]
      BY DEF DbResult
    <2>4. \A id \in Ids : \/ m_state'[id] = m_state[id]
                          \/ m_state[id] = "CS_DB_WAIT" /\ m_state'[id] = "CS_LOGOUT"
      BY <1>2, <2>3 DEF Typed
    <2> QED BY <1>1, <1>2, <1>3, <2>2, <2>4, OnePop
  <1>6. CASE /\ registered[h.id] /\ m_state[h.id] = "CS_DB_WAIT" /\ ~Failed(h)
             /\ Do(w, "db_load", h.id, h.val) /\ m_state' = m_state
    <2>1. \A K, i : About(w, K, i)' <=> "db_load" \in K /\ h.id = i
      BY <1>2, <1>6, DoAbout
    <2>2. job'[w].val = h.val
      BY <1>2, <1>6 DEF Do, Typed
    <2>3. h.val = gained[Account(h.id)]
      <3>1. h = port[1] /\ 1 \in 1 .. Len(port)
        BY <1>1, <1>2, Pops DEF Shift
      <3>2. h.val \in {-1, gained[Account(h.id)]}
        BY <1>1, <1>6, <3>1 DEF One, Restored, Told, Wait
      <3> QED BY <1>6, <3>2 DEF Failed
    <2>4. /\ \A id \in Ids : ~About(w, {"bot_enter", "db_enter", "logout", "leave", "free"}, id)'
          /\ \A id \in Ids : ~About(w, {"login", "play"}, id)'
          /\ \A id \in Ids : ~About(w, {"save"}, id)'
          /\ \A id \in Ids : About(w, {"db_load"}, id)' => h.id = id
      BY <2>1
    <2>5. \A id \in Ids : About(w, {"db_load"}, id)' =>
               Wait(id) /\ m_state'[id] = "CS_DB_WAIT" /\ job'[w].val = gained[Account(id)]
      BY <1>6, <2>2, <2>3, <2>4 DEF Wait
    <2>6. m_state' = m_state
      BY <1>6
    <2> QED BY <1>1, <1>2, <1>3, <2>4, <2>5, <2>6, OnePop
  <1> QED BY <1>5, <1>6 DEF DbResult

\* What an AcceptEx does: ids that are handed out are left alone, a fresh id
\* gets the connection.
LEMMA Fresh ==
    ASSUME NEW w \in Workers, Base, Base', Accept(w), NEW c, c = Head(port).val
    PROVE  /\ \A i \in Ids : Handed(i) =>
                /\ Handed(i)' /\ conn_of'[i] = conn_of[i] /\ conn'[conn_of[i]] = conn[conn_of[i]]
                /\ registered'[i] = registered[i] /\ m_state'[i] = m_state[i]
                /\ recv_posted'[i] = recv_posted[i]
           /\ \A i \in Ids : ~Handed(i) /\ Handed(i)' =>
                /\ conn_of'[i] = c /\ conn'[c] = "connected" /\ m_state'[i] = "CS_CONNECT"
                /\ recv_posted'[i] /\ \A j \in Ids : Handed(j) => j < i
                /\ \A j \in Ids : Handed(j)' => j <= i
           /\ \A i \in Ids : ~Handed(i)' => recv_posted'[i] = recv_posted[i]
           /\ c \in Conns /\ conn[c] = "connecting"
           /\ \A d \in Conns : d # c => conn'[d] = conn[d]
  <1>1. /\ Takes(w, "accept") /\ player_index' = player_index + 1
    BY DEF Accept
  <1>2. c \in Conns /\ conn[c] = "connecting"
    BY <1>1, First DEF Takes
  <1>3. player_index \in Nat \ {0} /\ Ids \subseteq Nat
    BY DEF Base, Typed, Ids
  <1>4. \A i \in Ids : Handed(i) => conn_of[i] # c /\ conn_of[i] \in Conns
    BY <1>2 DEF Base, Connected, Handed, Typed
  <1>5. CASE player_index >= NPC_ID_START
    <2>1. /\ conn' = [conn EXCEPT ![c] = "refused"]
          /\ UNCHANGED <<conn_of, registered, m_state, socket, recv_posted>>
      BY <1>3, <1>5, LifeAssumption DEF Accept, get_new_player_id
    <2>2. \A d \in Conns : d # c => conn'[d] = conn[d]
      BY <2>1 DEF Base, Typed
    <2>3. \A i \in Ids : Handed(i)' <=> Handed(i)
      BY <2>1 DEF Handed
    <2> QED BY <1>2, <1>4, <2>1, <2>2, <2>3
  <1>6. CASE player_index < NPC_ID_START
    <2> PICK n : n = player_index
      OBVIOUS
    <2>1. /\ conn' = [conn EXCEPT ![c] = "connected"]
          /\ conn_of' = [conn_of EXCEPT ![n] = c]
          /\ registered' = [registered EXCEPT ![n] = TRUE]
          /\ m_state' = [m_state EXCEPT ![n] = "CS_CONNECT"]
          /\ recv_posted' = [recv_posted EXCEPT ![n] = TRUE]
      BY <1>3, <1>6, LifeAssumption DEF Accept, get_new_player_id
    <2>2. n \in Ids
      BY <1>3, <1>6, LifeAssumption DEF Ids
    <2>3. \A i \in Ids : Handed(i) <=> i < n
      BY DEF Base, Numbered
    <2>4. \A i \in Ids : Handed(i)' <=> i < n + 1
      BY <1>1 DEF Base, Numbered
    <2>5. \A i \in Ids : i # n =>
              /\ conn_of'[i] = conn_of[i] /\ registered'[i] = registered[i]
              /\ m_state'[i] = m_state[i] /\ recv_posted'[i] = recv_posted[i]
      BY <2>1 DEF Base, Typed
    <2>6. conn_of'[n] = c /\ m_state'[n] = "CS_CONNECT" /\ recv_posted'[n]
      BY <2>1, <2>2 DEF Base, Typed
    <2>7. conn'[c] = "connected" /\ \A d \in Conns : d # c => conn'[d] = conn[d]
      BY <1>2, <2>1 DEF Base, Typed
    <2>8. n \in Nat /\ Ids \subseteq Nat
      BY <1>3
    <2>9. \A i \in Ids : Handed(i) => i # n /\ Handed(i)'
      BY <2>3, <2>4, <2>8
    <2>10. \A i \in Ids : ~Handed(i) /\ Handed(i)' => i = n
      BY <2>3, <2>4, <2>8
    <2>11. \A i \in Ids : ~Handed(i)' => i # n
      BY <2>4, <2>8
    <2>12. /\ \A j \in Ids : Handed(j) => j < n
           /\ \A j \in Ids : Handed(j)' => j <= n
      BY <2>3, <2>4, <2>8
    <2>13. \A i \in Ids : Handed(i) =>
                /\ Handed(i)' /\ conn_of'[i] = conn_of[i] /\ conn'[conn_of[i]] = conn[conn_of[i]]
                /\ registered'[i] = registered[i] /\ m_state'[i] = m_state[i]
                /\ recv_posted'[i] = recv_posted[i]
      BY <1>4, <2>5, <2>7, <2>9
    <2>14. \A i \in Ids : ~Handed(i) /\ Handed(i)' =>
                /\ conn_of'[i] = c /\ conn'[c] = "connected" /\ m_state'[i] = "CS_CONNECT"
                /\ recv_posted'[i] /\ \A j \in Ids : Handed(j) => j < i
                /\ \A j \in Ids : Handed(j)' => j <= i
      BY <2>6, <2>7, <2>10, <2>12
    <2> QED BY <1>2, <2>5, <2>7, <2>11, <2>13, <2>14
  <1> QED BY <1>3, <1>5, <1>6, LifeAssumption

LEMMA OneAccept ==
    ASSUME NEW w \in Workers, One(w), Accept(w)
    PROVE  One(w)'
  <1> PICK c : c = Head(port).val
    OBVIOUS
  <1>1. /\ Free(w) /\ port # <<>> /\ Head(port).kind = "accept" /\ port' = Tail(port)
        /\ UNCHANGED <<deployment, progress, in_sector, db_queue, rows, job, gained>>
    BY DEF Accept, Takes, Ready
  <1>2. Base' /\ Typed /\ Base /\ Typed'
    BY BaseAccept DEF One, Base
  <1>3. /\ c \in Conns /\ conn[c] = "connecting"
        /\ \A d \in Conns : d # c => conn'[d] = conn[d]
        /\ \A i \in Ids : ~Handed(i)' => recv_posted'[i] = recv_posted[i]
    BY <1>2, Fresh
  <1>4. \A i \in Ids : Handed(i) =>
            /\ Handed(i)' /\ conn_of'[i] = conn_of[i] /\ conn'[conn_of[i]] = conn[conn_of[i]]
            /\ registered'[i] = registered[i] /\ m_state'[i] = m_state[i]
            /\ recv_posted'[i] = recv_posted[i]
    BY <1>2, Fresh
  <1>5. \A i \in Ids : ~Handed(i) /\ Handed(i)' =>
            /\ conn_of'[i] = c /\ conn'[c] = "connected" /\ m_state'[i] = "CS_CONNECT"
            /\ recv_posted'[i]
            /\ \A j \in Ids : Handed(j) => j < i
            /\ \A j \in Ids : Handed(j)' => j <= i
    BY <1>2, Fresh
  <1>6. \A K, i : /\ About(w, K, i)' <=> About(w, K, i)
                  /\ "idle" \notin K => ~About(w, K, i)
    BY <1>1 DEF About, Free
  <1>7. \A i : /\ ~About(w, Entering, i) /\ ~About(w, Leaving, i) /\ ~About(w, Entering \cup Leaving, i)
               /\ ~About(w, {"bot_enter", "db_enter"}, i) /\ ~About(w, {"db_load"}, i)
               /\ ~About(w, {"leave"}, i) /\ ~About(w, {"free"}, i) /\ ~About(w, {"leave", "free"}, i)
               /\ ~About(w, {"play"}, i) /\ ~About(w, {"logout"}, i)
    BY <1>6 DEF Entering, Leaving
  <1>8. \A i \in Ids : registered'[i] => Handed(i)'
    BY <1>2 DEF Base, Numbered
  <1>9. \A i \in Ids : registered[i] => Handed(i)
    BY <1>2 DEF Base, Numbered
  <1>10. \A i \in Ids : Handed(i) => Account(i)' = Account(i) /\ IsBot(i)' = IsBot(i)
                                     /\ Closed(i)' = Closed(i)
    BY <1>4 DEF Account, IsBot, Closed
  <1>11. Stated(w)'
    <2>1. Stated(w)
      BY DEF One
    <2>2. \A i \in Ids : in_sector[i] => registered'[i] /\ m_state'[i] = "CS_PLAYING"
      BY <1>4, <1>7, <1>9, <2>1 DEF Stated
    <2>3. \A i \in Ids : m_state'[i] = "CS_DB_WAIT" => ~IsBot(i)'
      <3>1. ASSUME NEW i \in Ids, m_state'[i] = "CS_DB_WAIT", ~Handed(i)'
            PROVE  ~IsBot(i)'
        <4>1. conn_of'[i] = NOBODY /\ conn_of[i] = NOBODY
          BY <1>4, <3>1 DEF Handed
        <4>2. m_state'[i] = m_state[i] /\ IsBot(i)' = IsBot(i)
          <5>1. i # player_index \/ m_state' = m_state
            BY <3>1, <4>1, <1>2, <1>3, LifeAssumption DEF Accept, get_new_player_id, Handed, Base, Typed
          <5>2. m_state'[i] = m_state[i]
            BY <5>1, <1>2 DEF Accept, get_new_player_id, Base, Typed
          <5> QED BY <4>1, <5>2 DEF IsBot, Account
        <4> QED BY <2>1, <3>1, <4>2 DEF Stated
      <3>2. ASSUME NEW i \in Ids, m_state'[i] = "CS_DB_WAIT", Handed(i)'
            PROVE  ~IsBot(i)'
        BY <1>4, <1>5, <1>10, <2>1, <3>2 DEF Stated
      <3> QED BY <3>1, <3>2
    <2> QED BY <1>1, <1>6, <1>7, <2>2, <2>3 DEF Stated
  <1>12. Noticed(w)'
    <2>1. Noticed(w)
      BY DEF One
    <2>2. \A i \in Ids : recv_posted'[i] => Handed(i)' /\ ~Closed(i)'
      BY <1>3, <1>4, <1>5, <1>10, <2>1 DEF Noticed, Closed
    <2>3. \A i \in Ids : Posted(Ends, i)' => Closed(i)'
      <3>1. \A i \in Ids : Posted(Ends, i)' => Posted(Ends, i)
        BY <1>1, <1>2, PopPosted
      <3>2. \A i \in Ids : Posted(Ends, i) => Handed(i)
        BY <1>2 DEF Posted, Is, Ends, Base, Numbered
      <3> QED BY <1>10, <2>1, <3>1, <3>2 DEF Noticed
    <2>4. \A i \in Ids : registered'[i] => recv_posted'[i] \/ Posted(Early \cup Ends, i)'
      <3>1. ASSUME NEW i \in Ids, registered[i], Handed(i)
            PROVE  recv_posted'[i] \/ Posted(Early \cup Ends, i)'
        <4>1. recv_posted[i] \/ Posted(Early \cup Ends, i)
          BY <1>7, <2>1, <3>1 DEF Noticed
        <4>2. Head(port).kind \notin Early \cup Ends
          BY <1>1 DEF Early, Ends
        <4> QED BY <1>1, <1>2, <1>4, <3>1, <4>1, <4>2, PopPosted
      <3> QED BY <1>4, <1>5, <1>8, <3>1
    <2> QED BY <1>6, <1>7, <2>2, <2>3, <2>4 DEF Noticed
  <1>13. Playing(w)'
    <2>1. Playing(w)
      BY DEF One
    <2>2. \A i \in Ids : Handed(i)' /\ conn'[conn_of'[i]] = "in" /\ registered'[i] =>
              m_state'[i] = "CS_PLAYING"
      BY <1>4, <1>5, <2>1 DEF Playing
    <2>3. \A i \in Ids : Posted({"play"}, i)' => Posted({"play"}, i) /\ Handed(i)
      <3>1. \A i \in Ids : Posted({"play"}, i)' => Posted({"play"}, i)
        BY <1>1, <1>2, PopPosted
      <3>2. \A i \in Ids : Posted({"play"}, i) => Handed(i)
        BY <1>2 DEF Posted, Is, Base, Numbered
      <3> QED BY <3>1, <3>2
    <2>4. \A i \in Ids : Posted({"play"}, i)' /\ registered'[i] => m_state'[i] = "CS_PLAYING"
      BY <1>4, <1>7, <2>1, <2>3 DEF Playing
    <2> QED BY <1>6, <1>7, <2>2, <2>4 DEF Playing
  <1>14. Ordered(w)'
    <2>1. Ended(w) /\ Before(w) /\ After(w)
      BY DEF One, Ordered
    <2>2. /\ Len(port) \in Nat /\ Len(port') \in Nat /\ Head(port) = port[1]
          /\ \A k \in 1 .. Len(port') : k + 1 \in 1 .. Len(port) /\ port'[k] = port[k + 1]
          /\ Len(port) > 0 /\ Len(port') = Len(port) - 1
      BY <1>1, <1>2, Pops DEF Shift
    <2>3. \A k \in 1 .. Len(port), d \in Conns : k # 1 =>
              k - 1 \in 1 .. Len(port') /\ port'[k - 1] = port[k]
      <3>1. ASSUME NEW k \in 1 .. Len(port), k # 1
            PROVE  k - 1 \in 1 .. Len(port') /\ port'[k - 1] = port[k]
        <4>1. k - 1 \in 1 .. Len(port') /\ (k - 1) + 1 = k
          BY <2>2, <3>1
        <4> QED BY <2>2, <4>1
      <3> QED BY <3>1
    <2>4. \A k \in 1 .. Len(port) : Accepting(k, c) => k = 1
      <3>1. Accepting(1, c) /\ 1 \in 1 .. Len(port)
        BY <1>1, <2>2 DEF Accepting
      <3> QED BY <1>2, <3>1 DEF Accepting, Base, Connected
    <2>5. \A k \in 1 .. Len(port'), i \in Ids : Is(k, Early, i)' =>
              k + 1 \in 1 .. Len(port) /\ Is(k + 1, Early, i) /\ Handed(i)
      BY <1>2, <2>2, ZenonT(60) DEF Is, Early, Base, Numbered
    <2>6. ASSUME NEW i \in Ids, NEW d \in Conns, Handed(i), d # conn_of[i],
                 AccountOf[d] = Account(i), ~Gone(d)
          PROVE  \A k \in 1 .. Len(port') : Is(k, Early, i)' =>
                     d # c /\ \E l \in 1 .. Len(port') : l > k /\ Accepting(l, d)'
      <3> SUFFICES ASSUME NEW k \in 1 .. Len(port'), Is(k, Early, i)'
                   PROVE  d # c /\ \E l \in 1 .. Len(port') : l > k /\ Accepting(l, d)'
        OBVIOUS
      <3>1. k + 1 \in 1 .. Len(port) /\ Is(k + 1, Early, i)
        BY <2>5
      <3>2. PICK l \in 1 .. Len(port) : l > k + 1 /\ Accepting(l, d)
        BY <2>1, <2>6, <3>1 DEF Before
      <3>3. l # 1 /\ k \in Nat
        BY <3>2
      <3>4. l - 1 \in 1 .. Len(port') /\ port'[l - 1] = port[l] /\ l - 1 > k
        BY <2>2, <2>3, <2>6, <3>2, <3>3
      <3> QED BY <2>4, <3>2, <3>3, <3>4 DEF Accepting
    <2>7. \A i, j \in Ids : Newer(i, j)' => Handed(i)
      <3>1. ASSUME NEW i \in Ids, NEW j \in Ids, Newer(i, j)', ~Handed(i)
            PROVE  FALSE
        <4>1. Handed(i)' /\ Handed(j)' /\ i < j
          BY <3>1 DEF Newer
        <4>2. j <= i
          BY <1>5, <3>1, <4>1
        <4> QED BY <4>1, <4>2 DEF Ids
      <3> QED BY <3>1
    <2>8. \A i, j \in Ids : Newer(i, j)' /\ Handed(j) => Newer(i, j)
      BY <1>10, <2>7 DEF Newer
    <2>9. \A i \in Ids : Handed(i) => conn_of[i] \in Conns /\ conn_of[i] # c
      <3>1. \A i \in Ids : Handed(i) => conn_of[i] \in Conns
        BY <1>2 DEF Typed, Handed
      <3>2. \A i \in Ids : Handed(i) => conn[conn_of[i]] # "connecting"
        BY <1>2 DEF Base, Connected
      <3>3. conn[c] = "connecting"
        BY <1>3
      <3> QED BY <3>1, <3>2, <3>3
    <2>10. ~Gone(c)
      BY <1>3 DEF Gone
    <2>11. \A i, j \in Ids : Newer(i, j)' /\ ~Handed(j) =>
              /\ Handed(i) /\ AccountOf[c] = Account(i) /\ Closed(i) /\ ~Posted(Early, i)'
              /\ m_state'[j] = "CS_CONNECT"
      <3> SUFFICES ASSUME NEW i \in Ids, NEW j \in Ids, Newer(i, j)', ~Handed(j)
                   PROVE  /\ Handed(i) /\ AccountOf[c] = Account(i) /\ Closed(i) /\ ~Posted(Early, i)'
                          /\ m_state'[j] = "CS_CONNECT"
        OBVIOUS
      <3>1. Handed(i) /\ Handed(j)' /\ Account(i)' = Account(j)'
        BY <2>7 DEF Newer
      <3>2. AccountOf[c] = Account(i) /\ m_state'[j] = "CS_CONNECT"
        BY <1>5, <1>10, <3>1 DEF Account
      <3>3. Gone(conn_of[i])
        BY <1>2, <1>3, <2>9, <2>10, <3>1, <3>2 DEF Base, Connected, Account
      <3>4. Closed(i)
        BY <1>2, <3>1, <3>3 DEF Base, Connected, Gone, Closed
      <3>5. \A k \in 1 .. Len(port') : ~Is(k, Early, i)'
        BY <1>3, <2>6, <2>9, <2>10, <3>1, <3>2
      <3> QED BY <3>1, <3>2, <3>4, <3>5 DEF Posted
    <2>12. Ended(w)'
      <3> SUFFICES ASSUME NEW i \in Ids, NEW j \in Ids, Newer(i, j)'
                   PROVE  Closed(i)' /\ ~Posted(Early, i)' /\ ~About(w, Entering, i)'
        BY DEF Ended
      <3>1. CASE Handed(j)
        <4>1. Newer(i, j) /\ Handed(i)
          BY <2>7, <2>8, <3>1
        <4>2. Closed(i) /\ ~Posted(Early, i)
          BY <2>1, <4>1 DEF Ended
        <4>3. ~Posted(Early, i)'
          BY <1>1, <1>2, <4>2, PopPosted
        <4> QED BY <1>6, <1>7, <1>10, <4>1, <4>2, <4>3
      <3>2. CASE ~Handed(j)
        BY <1>6, <1>7, <1>10, <2>11, <3>2
      <3> QED BY <3>1, <3>2
    <2>13. Before(w)'
      <3> SUFFICES ASSUME NEW i \in Ids, NEW d \in Conns, Handed(i)', d # conn_of'[i],
                          AccountOf[d] = Account(i)', ~Gone(d)'
                   PROVE  /\ \A k \in 1 .. Len(port') : Is(k, Early, i)' =>
                                \E l \in 1 .. Len(port') : l > k /\ Accepting(l, d)'
                          /\ About(w, Entering, i)' => \E l \in 1 .. Len(port') : Accepting(l, d)'
        BY DEF Before
      <3>1. ~Gone(d)
        BY <1>3, <2>10 DEF Gone
      <3>2. CASE Handed(i)
        BY <1>4, <1>6, <1>7, <1>10, <2>6, <3>1, <3>2
      <3>3. CASE ~Handed(i)
        BY <1>6, <1>7, <2>5, <3>3
      <3> QED BY <3>2, <3>3
    <2>14. After(w)'
      <3> SUFFICES ASSUME NEW i \in Ids, NEW j \in Ids, Newer(i, j)', registered'[i]
                   PROVE  /\ \A k \in 1 .. Len(port') : Is(k, Early, j)' =>
                                \/ About(w, Leaving, i)'
                                \/ \E l \in 1 .. Len(port') : l < k /\ Is(l, Ends, i)'
                          /\ ~About(w, Entering, j)'
                          /\ m_state'[j] \in {"CS_CONNECT", "CS_LOGOUT"}
        BY DEF After
      <3>1. CASE Handed(j)
        <4>1. Newer(i, j) /\ registered[i]
          BY <1>4, <2>7, <2>8, <3>1
        <4>2. /\ \A k \in 1 .. Len(port) : Is(k, Early, j) =>
                    \E l \in 1 .. Len(port) : l < k /\ Is(l, Ends, i)
              /\ m_state[j] \in {"CS_CONNECT", "CS_LOGOUT"}
          BY <1>7, <2>1, <4>1 DEF After
        <4>3. ASSUME NEW k \in 1 .. Len(port'), Is(k, Early, j)'
              PROVE  \E l \in 1 .. Len(port') : l < k /\ Is(l, Ends, i)'
          <5>1. k + 1 \in 1 .. Len(port) /\ Is(k + 1, Early, j)
            BY <2>5, <4>3
          <5>2. PICK l \in 1 .. Len(port) : l < k + 1 /\ Is(l, Ends, i)
            BY <4>2, <5>1
          <5>3. l # 1
            BY <1>1, <2>2, <5>2 DEF Is, Ends
          <5>4. l - 1 \in 1 .. Len(port') /\ port'[l - 1] = port[l] /\ l - 1 < k
            BY <1>3, <2>2, <2>3, <5>2, <5>3
          <5> QED BY <5>2, <5>4 DEF Is
        <4> QED BY <1>4, <1>6, <1>7, <3>1, <4>2, <4>3
      <3>2. CASE ~Handed(j)
        BY <1>6, <1>7, <2>5, <2>11, <3>2
      <3> QED BY <3>1, <3>2
    <2> QED BY <2>12, <2>13, <2>14 DEF Ordered
  <1>15. Restored(w)'
    <2>1. Current(w) /\ Backed(w) /\ Asked /\ Told /\ Loading(w)
      BY DEF One, Restored
    <2>2. \A i \in Ids : InPlay(i)' <=> InPlay(i)
      BY <1>4, <1>5, <1>8, <1>9 DEF InPlay
    <2>3. \A i \in Ids : Handed(i) => (Wait(i)' <=> Wait(i))
      BY <1>4 DEF Wait
    <2>4. \A k \in 1 .. Len(db_queue) : db_queue[k].id \in Ids /\ Handed(db_queue[k].id)
      BY <1>2, Port DEF Base, Numbered, Requests
    <2>5. \A k \in 1 .. Len(db_queue) : Account(db_queue[k].id)' = Account(db_queue[k].id)
      BY <1>1, <1>4, <2>4 DEF Account
    <2>6. \A k \in 1 .. Len(db_queue) : \A a : (Save(k, a)' <=> Save(k, a))
      BY <1>1, <2>5 DEF Save
    <2>7. Current(w)'
      BY <1>1, <1>6, <1>9, <1>10, <2>1, <2>2 DEF Current, InPlay
    <2>8. Backed(w)'
      <3>1. \A a \in Accounts : Settled(a) => Settled(a)'
        BY <1>1, <2>6 DEF Settled
      <3>2. \A i \in Ids : InPlay(i) => Handed(i)
        BY <1>9 DEF InPlay
      <3> SUFFICES ASSUME NEW a \in Accounts \ Bots
                   PROVE  \/ Settled(a)'
                          \/ \E i \in Ids : InPlay(i)' /\ Account(i)' = a /\ ~About(w, {"logout"}, i)'
        BY DEF Backed
      <3>3. CASE Settled(a)
        BY <3>1, <3>3
      <3>4. CASE \E i \in Ids : InPlay(i) /\ Account(i) = a /\ ~About(w, {"logout"}, i)
        BY <1>6, <1>10, <2>2, <3>2, <3>4
      <3> QED BY <2>1, <3>3, <3>4 DEF Backed
    <2>9. Asked'
      <3>1. \A k \in 1 .. Len(db_queue) :
                /\ m_state'[db_queue[k].id] = m_state[db_queue[k].id]
                /\ Wait(db_queue[k].id)' <=> Wait(db_queue[k].id)
        BY <1>1, <1>4, <2>4 DEF Wait
      <3>2. \A k, l \in 1 .. Len(db_queue) :
                Save(l, Account(db_queue[k].id))' <=> Save(l, Account(db_queue[k].id))
        BY <1>1, <2>5 DEF Save
      <3> QED BY <1>1, <2>1, <3>1, <3>2 DEF Asked
    <2>10. Told'
      <3> SUFFICES ASSUME NEW k \in 1 .. Len(port'), port'[k].kind = "db"
                   PROVE  /\ m_state'[port'[k].id] # "CS_CONNECT"
                          /\ (registered'[port'[k].id] /\ m_state'[port'[k].id] = "CS_DB_WAIT") =>
                                port'[k].val \in {-1, gained'[AccountOf[conn_of'[port'[k].id]]]}
        BY DEF Told, Wait, Account
      <3>1. PICK l \in 1 .. Len(port) : port[l] = port'[k]
        BY <1>1, <1>2, PopDb
      <3>2. port[l].id \in Ids /\ Handed(port[l].id)
        BY <1>2, <3>1, Port, EventTypes DEF Base, Numbered
      <3>3. /\ m_state[port[l].id] # "CS_CONNECT"
            /\ Wait(port[l].id) => port[l].val \in {-1, gained[Account(port[l].id)]}
        BY <2>1, <3>1 DEF Told
      <3>4. /\ conn_of'[port[l].id] = conn_of[port[l].id]
            /\ registered'[port[l].id] = registered[port[l].id]
            /\ m_state'[port[l].id] = m_state[port[l].id]
        BY <1>4, <3>2
      <3>5. gained' = gained
        BY <1>1
      <3> QED BY <3>1, <3>3, <3>4, <3>5 DEF Wait, Account
    <2>11. Loading(w)'
      BY <1>6, <1>7 DEF Loading
    <2> QED BY <2>7, <2>8, <2>9, <2>10, <2>11 DEF Restored
  <1> QED BY <1>1, <1>2, <1>11, <1>12, <1>13, <1>14, <1>15 DEF One
-----------------------------------------------------------------------------
(***************************************************************************)
(* The worker goes on with its job.                                        *)
(***************************************************************************)
LEMMA OneDrop ==
    ASSUME NEW w \in Workers, One(w), Drop(w)
    PROVE  One(w)'
  <1> PICK j : j = job[w].id
    OBVIOUS
  <1>1. /\ job[w].op \in Early /\ ~registered[j] /\ Done(w)
        /\ UNCHANGED <<deployment, conn, conn_of, player_index, registered, m_state, progress, in_sector,
                       socket, recv_posted, port, db_queue, rows, gained>>
    BY DEF Drop, At, Early, sessionVars
  <1>2. Base' /\ Typed /\ Typed'
    BY BaseDrop DEF One, Base
  <1>3. \A K, i : "idle" \notin K => ~About(w, K, i)'
    BY <1>1, <1>2, DoneAbout
  <1>4. \A K, i : About(w, K, i) => i = j /\ \E op \in Early : op \in K
    BY <1>1 DEF About
  <1>5. Grow(port, port', {})
    BY <1>1, <1>2, StaysGrows DEF Typed
  <1>6. /\ \A i : ~About(w, Leaving, i) /\ ~About(w, {"leave", "free"}, i) /\ ~About(w, {"leave"}, i)
                  /\ ~About(w, {"logout"}, i)
        /\ \A i : /\ ~About(w, Leaving, i)' /\ ~About(w, Entering, i)' /\ ~About(w, {"logout"}, i)'
                  /\ ~About(w, {"play"}, i)' /\ ~About(w, {"db_load"}, i)' /\ ~About(w, {"leave"}, i)'
                  /\ ~About(w, {"free"}, i)' /\ ~About(w, {"leave", "free"}, i)'
                  /\ ~About(w, {"bot_enter", "db_enter"}, i)'
    BY <1>3, <1>4 DEF Leaving, Early, Entering
  <1>7. Stated(w)'
    <2>1. Stated(w)
      BY DEF One
    <2> QED BY <1>1, <1>6, <2>1 DEF Stated, IsBot, Account
  <1>8. Noticed(w)'
    <2>1. \A i \in Ids : registered'[i] => ~About(w, Entering \cup Leaving, i)
      BY <1>1, <1>4
    <2> QED BY <1>1, <1>6, <2>1, NoticedSame
  <1>9. Playing(w)'
    BY <1>1, <1>2, <1>5, <1>6, PlayingGrow
  <1>10. Ordered(w)'
    <2>1. \A d \in Conns : Gone(d) => Gone(d)'
      BY <1>1 DEF Gone
    <2> QED BY <1>1, <1>2, <1>5, <1>6, <2>1, OrderedGrow
  <1>11. Restored(w)'
    <2>1. \A i \in Ids : InPlay(i)' = InPlay(i) /\ Wait(i)' = Wait(i)
      BY <1>1 DEF InPlay, Wait
    <2> QED BY <1>1, <1>2, <1>6, <2>1, RestoredFrame
  <1> QED BY <1>1, <1>2, <1>7, <1>8, <1>9, <1>10, <1>11 DEF One

\* Two more steps of a login: the session plays, then it is in its sector.
LEMMA OneLoginBot ==
    ASSUME NEW w \in Workers, One(w), LoginBot(w)
    PROVE  One(w)'
  <1> PICK j : j = job[w].id
    OBVIOUS
  <1>1. /\ job[w].op = "login" /\ registered[j] /\ m_state[j] = "CS_CONNECT" /\ IsBot(j)
        /\ m_state' = [m_state EXCEPT ![j] = "CS_PLAYING"] /\ Do(w, "bot_enter", j, 0)
        /\ UNCHANGED <<deployment, conn, conn_of, player_index, registered, progress, in_sector,
                       socket, recv_posted, port, db_queue, rows, gained>>
    BY DEF LoginBot, At
  <1>2. Base' /\ Typed /\ Typed' /\ j \in Ids
    BY <1>1, BaseLoginBot, Busy DEF One, Base
  <1>3. \A K, i : About(w, K, i)' <=> "bot_enter" \in K /\ j = i
    BY <1>1, <1>2, DoAbout
  <1>4. \A K, i : About(w, K, i) <=> "login" \in K /\ j = i
    BY <1>1 DEF About
  <1>5. Grow(port, port', {})
    BY <1>1, <1>2, StaysGrows DEF Typed
  <1>6. /\ \A i : ~About(w, Leaving, i) /\ ~About(w, {"leave", "free"}, i) /\ ~About(w, {"leave"}, i)
                  /\ ~About(w, {"logout"}, i)
        /\ \A i : /\ ~About(w, Leaving, i)' /\ ~About(w, {"logout"}, i)'
                  /\ ~About(w, {"play"}, i)' /\ ~About(w, {"db_load"}, i)' /\ ~About(w, {"leave"}, i)'
                  /\ ~About(w, {"free"}, i)' /\ ~About(w, {"leave", "free"}, i)'
        /\ \A i : About(w, {"bot_enter", "db_enter"}, i)' => i = j
        /\ \A i : About(w, Entering, i)' <=> About(w, Entering, i)
        /\ \A i : About(w, Entering, i) <=> i = j
        /\ \A i : About(w, Entering \cup Leaving, i)' <=> About(w, Entering \cup Leaving, i)
    BY <1>3, <1>4 DEF Leaving, Early, Entering
  <1>7. m_state'[j] = "CS_PLAYING" /\ \A i \in Ids : i # j => m_state'[i] = m_state[i]
    BY <1>1, <1>2 DEF Typed
  <1>8. Stated(w)'
    <2>1. Stated(w)
      BY DEF One
    <2>2. \A i \in Ids : IsBot(i)' = IsBot(i)
      BY <1>1 DEF IsBot, Account
    <2> QED BY <1>1, <1>6, <1>7, <2>1, <2>2 DEF Stated
  <1>9. Noticed(w)'
    BY <1>1, <1>6, NoticedSame
  <1>10. Playing(w)'
    <2>1. \A i \in Ids : m_state[i] = "CS_PLAYING" => m_state'[i] = "CS_PLAYING"
      BY <1>7
    <2> QED BY <1>1, <1>2, <1>5, <1>6, <2>1, PlayingGrow
  <1>11. Ordered(w)'
    <2>1. \A d \in Conns : Gone(d) => Gone(d)'
      BY <1>1 DEF Gone
    <2>2. \A i \in Ids : m_state'[i] \in {m_state[i], "CS_LOGOUT"} \/ About(w, Entering, i)
      BY <1>6, <1>7
    <2> QED BY <1>1, <1>2, <1>5, <1>6, <2>1, <2>2, OrderedGrow
  <1>12. Restored(w)'
    <2>1. \A i \in Ids : /\ InPlay(i)' /\ ~IsBot(i) => InPlay(i)
                         /\ InPlay(i) => InPlay(i)'
                         /\ Wait(i)' => Wait(i)
      BY <1>1, <1>7 DEF InPlay, Wait
    <2>2. \A i \in Ids : m_state'[i] = "CS_CONNECT" => m_state[i] = "CS_CONNECT"
      BY <1>7
    <2> QED BY <1>1, <1>2, <1>6, <2>1, <2>2, RestoredFrame
  <1> QED BY <1>1, <1>2, <1>8, <1>9, <1>10, <1>11, <1>12 DEF One

LEMMA OneDbLoad ==
    ASSUME NEW w \in Workers, One(w), DbLoad(w)
    PROVE  One(w)'
  <1> PICK j : j = job[w].id
    OBVIOUS
  <1>1. /\ job[w].op = "db_load" /\ progress' = [progress EXCEPT ![j] = job[w].val]
        /\ m_state' = [m_state EXCEPT ![j] = "CS_PLAYING"] /\ Do(w, "db_enter", j, 0)
        /\ UNCHANGED <<deployment, conn, conn_of, player_index, registered, in_sector, socket,
                       recv_posted, port, db_queue, rows, gained>>
    BY DEF DbLoad, At
  <1>2. Base' /\ Typed /\ Typed' /\ j \in Ids
    BY <1>1, BaseDbLoad, Busy DEF One, Base
  <1>3. \A K, i : About(w, K, i)' <=> "db_enter" \in K /\ j = i
    BY <1>1, <1>2, DoAbout
  <1>4. \A K, i : About(w, K, i) <=> "db_load" \in K /\ j = i
    BY <1>1 DEF About
  <1>5. Grow(port, port', {})
    BY <1>1, <1>2, StaysGrows DEF Typed
  <1>6. /\ \A i : ~About(w, Leaving, i) /\ ~About(w, {"leave", "free"}, i) /\ ~About(w, {"leave"}, i)
                  /\ ~About(w, {"logout"}, i) /\ ~About(w, Entering, i)
                  /\ ~About(w, Entering \cup Leaving, i)
        /\ \A i : /\ ~About(w, Leaving, i)' /\ ~About(w, {"logout"}, i)' /\ ~About(w, Entering, i)'
                  /\ ~About(w, {"play"}, i)' /\ ~About(w, {"db_load"}, i)' /\ ~About(w, {"leave"}, i)'
                  /\ ~About(w, {"free"}, i)' /\ ~About(w, {"leave", "free"}, i)'
        /\ \A i : About(w, {"bot_enter", "db_enter"}, i)' => i = j
        /\ \A i : About(w, {"db_load"}, i) <=> i = j
    BY <1>3, <1>4 DEF Leaving, Early, Entering
  <1>7. m_state'[j] = "CS_PLAYING" /\ \A i \in Ids : i # j => m_state'[i] = m_state[i]
    BY <1>1, <1>2 DEF Typed
  <1>8. registered[j] /\ m_state[j] = "CS_DB_WAIT"
    BY <1>2, <1>6 DEF One, Stated
  <1>9. Stated(w)'
    <2>1. Stated(w)
      BY DEF One
    <2>2. \A i \in Ids : IsBot(i)' = IsBot(i)
      BY <1>1 DEF IsBot, Account
    <2> QED BY <1>1, <1>6, <1>7, <1>8, <2>1, <2>2 DEF Stated
  <1>10. Noticed(w)'
    BY <1>1, <1>6, NoticedSame
  <1>11. Playing(w)'
    <2>1. \A i \in Ids : m_state[i] = "CS_PLAYING" => m_state'[i] = "CS_PLAYING"
      BY <1>7
    <2> QED BY <1>1, <1>2, <1>5, <1>6, <2>1, PlayingGrow
  <1>12. Ordered(w)'
    <2>1. \A d \in Conns : Gone(d) => Gone(d)'
      BY <1>1 DEF Gone
    <2>2. \A i \in Ids : m_state'[i] \in {m_state[i], "CS_LOGOUT"} \/ About(w, {"db_load"}, i)
      BY <1>6, <1>7
    <2> QED BY <1>1, <1>2, <1>5, <1>6, <2>1, <2>2, OrderedGrow
  <1>13. Restored(w)'
    <2>1. \A i \in Ids : /\ InPlay(i)' => InPlay(i) \/ i = j
                         /\ InPlay(i) => InPlay(i)'
                         /\ Wait(i)' => Wait(i)
      BY <1>1, <1>7 DEF InPlay, Wait
    <2>2. \A i \in Ids : m_state'[i] = "CS_CONNECT" => m_state[i] = "CS_CONNECT"
      BY <1>7
    <2>3. progress'[j] = job[w].val /\ \A i \in Ids : i # j => progress'[i] = progress[i]
      BY <1>1, <1>2 DEF Typed
    <2>4. job[w].val = gained[Account(j)]
      BY <1>2, <1>6 DEF One, Restored, Loading
    <2>5. \A i \in Ids : InPlay(i)' =>
              (InPlay(i) /\ progress'[i] = progress[i]) \/ progress'[i] = gained[Account(i)]
      BY <2>1, <2>3, <2>4
    <2>6. \A k \in 1 .. Len(port') : port'[k].kind = "db" =>
              \E l \in 1 .. Len(port) : port[l] = port'[k]
      BY <1>1
    <2> QED BY <1>1, <1>2, <1>6, <2>1, <2>2, <2>5, <2>6, RestoredFrame
  <1> QED BY <1>1, <1>2, <1>9, <1>10, <1>11, <1>12, <1>13 DEF One

LEMMA OneDbEnter ==
    ASSUME NEW w \in Workers, One(w), DbEnter(w)
    PROVE  One(w)'
  <1> PICK j : j = job[w].id
    OBVIOUS
  <1>1. /\ job[w].op = "db_enter" /\ in_sector' = [in_sector EXCEPT ![j] = TRUE]
        /\ Answer(j) /\ Done(w)
        /\ UNCHANGED <<deployment, conn_of, player_index, registered, m_state, progress, socket,
                       recv_posted, port, db_queue, rows, gained>>
    BY DEF DbEnter, At
  <1>2. Base' /\ Typed /\ Typed' /\ j \in Ids /\ Handed(j)
    BY <1>1, BaseDbEnter, Busy DEF One, Base
  <1>3. \A K, i : "idle" \notin K => ~About(w, K, i)'
    BY <1>1, <1>2, DoneAbout
  <1>4. \A K, i : About(w, K, i) <=> "db_enter" \in K /\ j = i
    BY <1>1 DEF About
  <1>5. Grow(port, port', {})
    BY <1>1, <1>2, StaysGrows DEF Typed
  <1>6. /\ \A i : ~About(w, Leaving, i) /\ ~About(w, {"leave", "free"}, i) /\ ~About(w, {"leave"}, i)
                  /\ ~About(w, {"logout"}, i) /\ ~About(w, Entering, i)
                  /\ ~About(w, Entering \cup Leaving, i)
        /\ \A i : /\ ~About(w, Leaving, i)' /\ ~About(w, {"logout"}, i)' /\ ~About(w, Entering, i)'
                  /\ ~About(w, {"play"}, i)' /\ ~About(w, {"db_load"}, i)' /\ ~About(w, {"leave"}, i)'
                  /\ ~About(w, {"free"}, i)' /\ ~About(w, {"leave", "free"}, i)'
                  /\ ~About(w, {"bot_enter", "db_enter"}, i)'
        /\ About(w, {"bot_enter", "db_enter"}, j)
    BY <1>3, <1>4 DEF Leaving, Early, Entering
  <1>7. registered[j] /\ m_state[j] = "CS_PLAYING"
    BY <1>2, <1>6 DEF One, Stated
  <1>8. /\ \A d \in Conns : d # conn_of[j] => conn'[d] = conn[d]
        /\ \A d \in Conns : conn'[d] = conn[d] \/ (conn[d] = "waiting" /\ conn'[d] = "in")
    BY <1>1, <1>2, Answers
  <1>9. /\ \A d \in Conns : conn[d] = "closed" <=> conn'[d] = "closed"
        /\ \A d \in Conns : Gone(d) => Gone(d)'
    BY <1>8 DEF Gone
  <1>10. Stated(w)'
    <2>1. Stated(w)
      BY DEF One
    <2>2. \A i \in Ids : IsBot(i)' = IsBot(i)
      BY <1>1 DEF IsBot, Account
    <2>3. \A i \in Ids : in_sector'[i] => in_sector[i] \/ i = j
      BY <1>1, <1>2 DEF Typed
    <2> QED BY <1>1, <1>6, <1>7, <2>1, <2>2, <2>3 DEF Stated
  <1>11. Noticed(w)'
    BY <1>1, <1>6, <1>9, NoticedSame
  <1>12. Playing(w)'
    <2>1. \A i \in Ids : Handed(i) /\ conn'[conn_of[i]] = "in" =>
              conn[conn_of[i]] = "in" \/ m_state[i] = "CS_PLAYING"
      <3>1. \A i \in Ids : Handed(i) => conn_of[i] \in Conns /\ (conn_of[i] = conn_of[j] => i = j)
        BY <1>2 DEF One, Base, Connected, Typed, Handed
      <3> QED BY <1>7, <1>8, <3>1
    <2> QED BY <1>1, <1>2, <1>5, <1>6, <2>1, PlayingGrow
  <1>13. Ordered(w)'
    BY <1>1, <1>2, <1>5, <1>6, <1>9, OrderedGrow
  <1>14. Restored(w)'
    <2>1. \A i \in Ids : InPlay(i)' = InPlay(i) /\ Wait(i)' = Wait(i)
      BY <1>1 DEF InPlay, Wait
    <2> QED BY <1>1, <1>2, <1>6, <2>1, RestoredFrame
  <1> QED BY <1>1, <1>2, <1>10, <1>11, <1>12, <1>13, <1>14 DEF One

LEMMA OneDiscLogout ==
    ASSUME NEW w \in Workers, One(w), DiscLogout(w)
    PROVE  One(w)'
  <1> PICK j : j = job[w].id
    OBVIOUS
  <1>1. /\ job[w].op = "logout" /\ m_state' = [m_state EXCEPT ![j] = "CS_LOGOUT"]
        /\ Do(w, "leave", j, 0)
        /\ UNCHANGED <<deployment, conn, conn_of, player_index, registered, progress, in_sector,
                       socket, recv_posted, port, db_queue, rows, gained>>
    BY DEF DiscLogout, At
  <1>2. Base' /\ Typed /\ Typed' /\ j \in Ids
    BY <1>1, BaseDiscLogout, Busy DEF One, Base
  <1>3. \A K, i : About(w, K, i)' <=> "leave" \in K /\ j = i
    BY <1>1, <1>2, DoAbout
  <1>4. \A K, i : About(w, K, i) <=> "logout" \in K /\ j = i
    BY <1>1 DEF About
  <1>5. Grow(port, port', {})
    BY <1>1, <1>2, StaysGrows DEF Typed
  <1>6. /\ \A i : ~About(w, {"leave", "free"}, i) /\ ~About(w, {"leave"}, i) /\ ~About(w, Entering, i)
        /\ \A i : /\ About(w, Leaving, i) <=> i = j
                  /\ About(w, {"logout"}, i) <=> i = j
                  /\ About(w, Entering \cup Leaving, i) <=> i = j
        /\ \A i : /\ ~About(w, {"logout"}, i)' /\ ~About(w, Entering, i)'
                  /\ ~About(w, {"play"}, i)' /\ ~About(w, {"db_load"}, i)'
                  /\ ~About(w, {"free"}, i)' /\ ~About(w, {"bot_enter", "db_enter"}, i)'
        /\ \A i : /\ About(w, Leaving, i)' <=> i = j
                  /\ About(w, {"leave"}, i)' <=> i = j
                  /\ About(w, {"leave", "free"}, i)' <=> i = j
                  /\ About(w, Entering \cup Leaving, i)' <=> i = j
    BY <1>3, <1>4 DEF Leaving, Early, Entering
  <1>7. m_state'[j] = "CS_LOGOUT" /\ \A i \in Ids : i # j => m_state'[i] = m_state[i]
    BY <1>1, <1>2 DEF Typed
  <1>8. Stated(w)'
    <2>1. Stated(w)
      BY DEF One
    <2>2. \A i \in Ids : IsBot(i)' = IsBot(i)
      BY <1>1 DEF IsBot, Account
    <2> QED BY <1>1, <1>6, <1>7, <2>1, <2>2 DEF Stated
  <1>9. Noticed(w)'
    BY <1>1, <1>6, NoticedSame
  <1>10. Playing(w)'
    <2>1. conn'[conn_of[j]] = "closed"
      BY <1>1, <1>2, <1>6 DEF One, Noticed, Closed
    <2>2. \A i \in Ids : m_state[i] = "CS_PLAYING" =>
              m_state'[i] = "CS_PLAYING" \/ (About(w, {"leave"}, i)' /\ conn'[conn_of[i]] = "closed")
      BY <1>6, <1>7, <2>1
    <2> QED BY <1>1, <1>2, <1>5, <1>6, <2>2, PlayingGrow
  <1>11. Ordered(w)'
    <2>1. \A d \in Conns : Gone(d) => Gone(d)'
      BY <1>1 DEF Gone
    <2>2. \A i \in Ids : m_state'[i] \in {m_state[i], "CS_LOGOUT"}
      BY <1>7
    <2> QED BY <1>1, <1>2, <1>5, <1>6, <2>1, <2>2, OrderedGrow
  <1>12. Restored(w)'
    <2>1. \A i \in Ids : /\ InPlay(i)' <=> InPlay(i) /\ i # j
                         /\ Wait(i)' => Wait(i)
      BY <1>1, <1>7 DEF InPlay, Wait
    <2>2. \A i \in Ids : m_state'[i] = "CS_CONNECT" => m_state[i] = "CS_CONNECT"
      BY <1>7
    <2> QED BY <1>1, <1>2, <1>6, <2>1, <2>2, RestoredFrame
  <1> QED BY <1>1, <1>2, <1>8, <1>9, <1>10, <1>11, <1>12 DEF One

LEMMA OneDiscLeave ==
    ASSUME NEW w \in Workers, One(w), DiscLeave(w)
    PROVE  One(w)'
  <1> PICK j : j = job[w].id
    OBVIOUS
  <1>1. /\ job[w].op = "leave" /\ in_sector' = [in_sector EXCEPT ![j] = FALSE]
        /\ Do(w, "free", j, 0)
        /\ UNCHANGED <<deployment, conn, conn_of, player_index, registered, m_state, progress,
                       socket, recv_posted, port, db_queue, rows, gained>>
    BY DEF DiscLeave, At
  <1>2. Base' /\ Typed /\ Typed' /\ j \in Ids
    BY <1>1, BaseDiscLeave, Busy DEF One, Base
  <1>3. \A K, i : About(w, K, i)' <=> "free" \in K /\ j = i
    BY <1>1, <1>2, DoAbout
  <1>4. \A K, i : About(w, K, i) <=> "leave" \in K /\ j = i
    BY <1>1 DEF About
  <1>5. Grow(port, port', {})
    BY <1>1, <1>2, StaysGrows DEF Typed
  <1>6. /\ \A i : ~About(w, {"logout"}, i) /\ ~About(w, Entering, i)
        /\ \A i : /\ About(w, Leaving, i) <=> i = j
                  /\ About(w, {"leave"}, i) <=> i = j
                  /\ About(w, {"leave", "free"}, i) <=> i = j
                  /\ About(w, Entering \cup Leaving, i) <=> i = j
        /\ \A i : /\ ~About(w, {"logout"}, i)' /\ ~About(w, Entering, i)' /\ ~About(w, {"leave"}, i)'
                  /\ ~About(w, {"play"}, i)' /\ ~About(w, {"db_load"}, i)'
                  /\ ~About(w, {"bot_enter", "db_enter"}, i)'
        /\ \A i : /\ About(w, Leaving, i)' <=> i = j
                  /\ About(w, {"free"}, i)' <=> i = j
                  /\ About(w, {"leave", "free"}, i)' <=> i = j
                  /\ About(w, Entering \cup Leaving, i)' <=> i = j
    BY <1>3, <1>4 DEF Leaving, Early, Entering
  <1>7. ~in_sector'[j] /\ \A i \in Ids : i # j => in_sector'[i] = in_sector[i]
    BY <1>1, <1>2 DEF Typed
  <1>8. Stated(w)'
    <2>1. Stated(w)
      BY DEF One
    <2>2. \A i \in Ids : IsBot(i)' = IsBot(i)
      BY <1>1 DEF IsBot, Account
    <2> QED BY <1>1, <1>6, <1>7, <2>1, <2>2 DEF Stated
  <1>9. Noticed(w)'
    BY <1>1, <1>6, NoticedSame
  <1>10. Playing(w)'
    BY <1>1, <1>2, <1>5, <1>6, PlayingGrow
  <1>11. Ordered(w)'
    <2>1. \A d \in Conns : Gone(d) => Gone(d)'
      BY <1>1 DEF Gone
    <2> QED BY <1>1, <1>2, <1>5, <1>6, <2>1, OrderedGrow
  <1>12. Restored(w)'
    <2>1. \A i \in Ids : InPlay(i)' = InPlay(i) /\ Wait(i)' = Wait(i)
      BY <1>1 DEF InPlay, Wait
    <2> QED BY <1>1, <1>2, <1>6, <2>1, RestoredFrame
  <1> QED BY <1>1, <1>2, <1>8, <1>9, <1>10, <1>11, <1>12 DEF One

LEMMA OneDiscFree ==
    ASSUME NEW w \in Workers, One(w), DiscFree(w)
    PROVE  One(w)'
  <1> PICK j : j = job[w].id
    OBVIOUS
  <1>1. /\ job[w].op = "free" /\ registered' = [registered EXCEPT ![j] = FALSE]
        /\ Done(w)
        /\ UNCHANGED <<deployment, conn, conn_of, player_index, m_state, progress, in_sector,
                       recv_posted, port, db_queue, rows, gained>>
    BY DEF DiscFree, At
  <1>2. Base' /\ Typed /\ Typed' /\ j \in Ids
    BY <1>1, BaseDiscFree, Busy DEF One, Base
  <1>3. \A K, i : "idle" \notin K => ~About(w, K, i)'
    BY <1>1, <1>2, DoneAbout
  <1>4. \A K, i : About(w, K, i) <=> "free" \in K /\ j = i
    BY <1>1 DEF About
  <1>5. Grow(port, port', {})
    BY <1>1, <1>2, StaysGrows DEF Typed
  <1>6. /\ \A i : ~About(w, {"logout"}, i) /\ ~About(w, Entering, i) /\ ~About(w, {"leave"}, i)
        /\ \A i : /\ About(w, Leaving, i) <=> i = j
                  /\ About(w, {"free"}, i) <=> i = j
                  /\ About(w, {"leave", "free"}, i) <=> i = j
                  /\ About(w, Entering \cup Leaving, i) <=> i = j
        /\ \A i : /\ ~About(w, Leaving, i)' /\ ~About(w, {"logout"}, i)' /\ ~About(w, Entering, i)'
                  /\ ~About(w, {"play"}, i)' /\ ~About(w, {"db_load"}, i)' /\ ~About(w, {"leave"}, i)'
                  /\ ~About(w, {"free"}, i)' /\ ~About(w, {"leave", "free"}, i)'
                  /\ ~About(w, {"bot_enter", "db_enter"}, i)'
    BY <1>3, <1>4 DEF Leaving, Early, Entering
  <1>7. ~registered'[j] /\ \A i \in Ids : i # j => registered'[i] = registered[i]
    BY <1>1, <1>2 DEF Typed
  <1>8. m_state[j] = "CS_LOGOUT" /\ ~in_sector[j]
    BY <1>2, <1>6 DEF One, Stated
  <1>9. Stated(w)'
    <2>1. Stated(w)
      BY DEF One
    <2>2. \A i \in Ids : IsBot(i)' = IsBot(i)
      BY <1>1 DEF IsBot, Account
    <2> QED BY <1>1, <1>6, <1>7, <1>8, <2>1, <2>2 DEF Stated
  <1>10. \A i \in Ids : registered'[i] => registered[i] /\ i # j
    BY <1>7
  <1>11. Noticed(w)'
    BY <1>1, <1>6, <1>10, NoticedSame
  <1>12. Playing(w)'
    BY <1>1, <1>2, <1>5, <1>6, <1>10, PlayingGrow
  <1>13. Ordered(w)'
    <2>1. \A d \in Conns : Gone(d) => Gone(d)'
      BY <1>1 DEF Gone
    <2> QED BY <1>1, <1>2, <1>5, <1>6, <1>10, <2>1, OrderedGrow
  <1>14. Restored(w)'
    <2>1. \A i \in Ids : /\ InPlay(i)' <=> InPlay(i)
                         /\ Wait(i)' => Wait(i)
      BY <1>1, <1>7, <1>8 DEF InPlay, Wait
    <2> QED BY <1>1, <1>2, <1>6, <2>1, RestoredFrame
  <1> QED BY <1>1, <1>2, <1>9, <1>11, <1>12, <1>13, <1>14 DEF One

\* The handler of a packet ends with do_recv.
LEMMA NoticedRecv ==
    ASSUME NEW w \in Workers, One(w), Typed', job[w].op \in Entering, NEW j, j = job[w].id,
           do_recv(j), Done(w), UNCHANGED <<conn_of, registered>>,
           \A c \in Conns : conn[c] = "closed" <=> conn'[c] = "closed"
    PROVE  Noticed(w)'
  <1>1. Noticed(w) /\ Typed
    BY DEF One, Base
  <1>2. j \in Ids /\ Handed(j)
    BY Busy DEF Entering, One
  <1>3. \A i : ~About(w, Leaving, i)'
    BY <1>1, DoneAbout DEF Leaving
  <1>4. \A i : About(w, Entering \cup Leaving, i) => i = j
    BY DEF About
  <1>5. \A id \in Ids : Handed(id)' <=> Handed(id)
    BY DEF Handed
  <1>6. \A id \in Ids : Handed(id) => (Closed(id)' <=> Closed(id))
    BY <1>1 DEF Handed, Closed, Typed
  <1>7. /\ Grow(port, port', {Event("eof", j, 0)})
        /\ \A i \in Ids : i # j => recv_posted'[i] = recv_posted[i]
        /\ Closed(j) /\ socket[j] =>
             \E k \in 1 .. Len(port') : port'[k] = Event("eof", j, 0)
        /\ Closed(j) => recv_posted' = recv_posted
        /\ ~Closed(j) => recv_posted'[j] = socket[j] /\ port' = port
    BY <1>1, <1>2, Receives
  <1>8. Event("eof", j, 0).kind = "eof" /\ Event("eof", j, 0).id = j
    BY DEF Event
  <1>9. \A id \in Ids : recv_posted'[id] => Handed(id)' /\ ~Closed(id)'
    <2>1. \A id \in Ids : recv_posted'[id] => Handed(id) /\ ~Closed(id)
      BY <1>1, <1>2, <1>7 DEF Noticed
    <2> QED BY <1>5, <1>6, <2>1
  <1>10. ASSUME NEW id \in Ids, Posted(Ends, id)'
         PROVE  Closed(id)'
    <2>1. CASE Posted(Ends, id)
      <3>1. Handed(id)
        BY <2>1 DEF Posted, Is, Ends, One, Base, Numbered
      <3> QED BY <1>1, <1>6, <2>1, <3>1 DEF Noticed
    <2>2. CASE ~Posted(Ends, id)
      <3>1. \E e \in {Event("eof", j, 0)} : e.kind \in Ends /\ e.id = id
        BY <1>1, <1>7, <1>10, <2>2, GrowPosted
      <3>2. id = j
        BY <1>8, <3>1
      <3>3. Closed(j)
        BY <1>7, <1>10, <2>2, SamePosted
      <3> QED BY <1>2, <1>6, <3>2, <3>3
    <2> QED BY <2>1, <2>2
  <1>11. ASSUME NEW id \in Ids, registered'[id]
         PROVE  recv_posted'[id] \/ Posted(Early \cup Ends, id)'
    <2>1. registered[id] /\ socket[id]
      BY <1>11 DEF One, Base, Numbered
    <2>2. CASE id = j /\ Closed(j)
      <3>1. \E k \in 1 .. Len(port') : port'[k].kind \in Early \cup Ends /\ port'[k].id = id
        BY <1>7, <1>8, <2>1, <2>2 DEF Ends
      <3> QED BY <3>1 DEF Posted, Is
    <2>3. CASE id = j /\ ~Closed(j)
      BY <1>7, <2>1, <2>3
    <2>4. CASE id # j
      <3>1. recv_posted[id] \/ Posted(Early \cup Ends, id)
        BY <1>1, <1>4, <2>1, <2>4 DEF Noticed
      <3>2. Posted(Early \cup Ends, id) => Posted(Early \cup Ends, id)'
        BY <1>1, <1>7, GrowPosted
      <3> QED BY <1>7, <2>4, <3>1, <3>2
    <2> QED BY <2>2, <2>3, <2>4
  <1> QED BY <1>3, <1>9, <1>10, <1>11 DEF Noticed

LEMMA OneBotEnter ==
    ASSUME NEW w \in Workers, One(w), BotEnter(w)
    PROVE  One(w)'
  <1> PICK j : j = job[w].id
    OBVIOUS
  <1>1. /\ job[w].op = "bot_enter" /\ in_sector' = [in_sector EXCEPT ![j] = TRUE]
        /\ Answer(j) /\ do_recv(j) /\ Done(w)
        /\ UNCHANGED <<deployment, conn_of, player_index, registered, m_state, progress, socket,
                       db_queue, rows, gained>>
    BY DEF BotEnter, At
  <1>2. Base' /\ Typed /\ Typed' /\ j \in Ids /\ Handed(j)
    BY <1>1, BaseBotEnter, Busy DEF One, Base
  <1>3. \A K, i : "idle" \notin K => ~About(w, K, i)'
    BY <1>1, <1>2, DoneAbout
  <1>4. \A K, i : About(w, K, i) <=> "bot_enter" \in K /\ j = i
    BY <1>1 DEF About
  <1> PICK e : e = Event("eof", j, 0)
    OBVIOUS
  <1>5. Grow(port, port', {e}) /\ e.kind = "eof"
    BY <1>1, <1>2, Receives DEF Event
  <1>6. /\ \A i : ~About(w, Leaving, i) /\ ~About(w, {"leave", "free"}, i) /\ ~About(w, {"leave"}, i)
                  /\ ~About(w, {"logout"}, i)
        /\ \A i : /\ ~About(w, Leaving, i)' /\ ~About(w, {"logout"}, i)' /\ ~About(w, Entering, i)'
                  /\ ~About(w, {"play"}, i)' /\ ~About(w, {"db_load"}, i)' /\ ~About(w, {"leave"}, i)'
                  /\ ~About(w, {"free"}, i)' /\ ~About(w, {"leave", "free"}, i)'
                  /\ ~About(w, {"bot_enter", "db_enter"}, i)'
        /\ About(w, {"bot_enter", "db_enter"}, j)
    BY <1>3, <1>4 DEF Leaving, Early, Entering
  <1>7. registered[j] /\ m_state[j] = "CS_PLAYING"
    BY <1>2, <1>6 DEF One, Stated
  <1>8. /\ \A d \in Conns : d # conn_of[j] => conn'[d] = conn[d]
        /\ \A d \in Conns : conn'[d] = conn[d] \/ (conn[d] = "waiting" /\ conn'[d] = "in")
    BY <1>1, <1>2, Answers
  <1>9. /\ \A d \in Conns : conn[d] = "closed" <=> conn'[d] = "closed"
        /\ \A d \in Conns : Gone(d) => Gone(d)'
    BY <1>8 DEF Gone
  <1>10. Stated(w)'
    <2>1. Stated(w)
      BY DEF One
    <2>2. \A i \in Ids : IsBot(i)' = IsBot(i)
      BY <1>1 DEF IsBot, Account
    <2>3. \A i \in Ids : in_sector'[i] => in_sector[i] \/ i = j
      BY <1>1, <1>2 DEF Typed
    <2> QED BY <1>1, <1>6, <1>7, <2>1, <2>2, <2>3 DEF Stated
  <1>11. Noticed(w)'
    <2>1. job[w].op \in Entering
      BY <1>1 DEF Entering
    <2> QED BY <1>1, <1>2, <1>9, <2>1, NoticedRecv
  <1>12. Playing(w)'
    <2>1. \A i \in Ids : Handed(i) /\ conn'[conn_of[i]] = "in" =>
              conn[conn_of[i]] = "in" \/ m_state[i] = "CS_PLAYING"
      <3>1. \A i \in Ids : Handed(i) => conn_of[i] \in Conns /\ (conn_of[i] = conn_of[j] => i = j)
        BY <1>2 DEF One, Base, Connected, Typed, Handed
      <3> QED BY <1>7, <1>8, <3>1
    <2>2. \A f \in {e} : f.kind # "play"
      BY <1>5
    <2> QED BY <1>1, <1>2, <1>5, <1>6, <2>1, <2>2, PlayingGrow
  <1>13. Ordered(w)'
    <2>1. \A f \in {e} : f.kind \notin Early
      BY <1>5 DEF Early
    <2> QED BY <1>1, <1>2, <1>5, <1>6, <1>9, <2>1, OrderedGrow
  <1>14. Restored(w)'
    <2>1. \A i \in Ids : InPlay(i)' = InPlay(i) /\ Wait(i)' = Wait(i)
      BY <1>1 DEF InPlay, Wait
    <2>2. \A f \in {e} : f.kind # "db"
      BY <1>5
    <2>3. \A k \in 1 .. Len(port') : port'[k].kind = "db" =>
               \E l \in 1 .. Len(port) : port[l] = port'[k]
      BY <1>2, <1>5, <2>2, GrowDb
    <2> QED BY <1>1, <1>2, <1>6, <2>1, <2>3, RestoredFrame
  <1> QED BY <1>1, <1>2, <1>10, <1>11, <1>12, <1>13, <1>14 DEF One

LEMMA OnePlay ==
    ASSUME NEW w \in Workers, One(w), Play(w)
    PROVE  One(w)'
  <1> PICK j : j = job[w].id
    OBVIOUS
  <1>1. /\ job[w].op = "play" /\ registered[j]
        /\ progress' = [progress EXCEPT ![j] = @ + 1]
        /\ gained' = [gained EXCEPT ![Account(j)] = progress[j] + 1]
        /\ do_recv(j) /\ Done(w)
        /\ UNCHANGED <<deployment, conn, conn_of, player_index, registered, m_state, in_sector,
                       socket, db_queue, rows>>
    BY DEF Play, At
  <1>2. Base' /\ Typed /\ Typed' /\ j \in Ids /\ Handed(j) /\ Account(j) \in Accounts
    BY <1>1, BasePlay, Busy DEF One, Base
  <1>3. \A K, i : "idle" \notin K => ~About(w, K, i)'
    BY <1>1, <1>2, DoneAbout
  <1>4. \A K, i : About(w, K, i) <=> "play" \in K /\ j = i
    BY <1>1 DEF About
  <1> PICK e : e = Event("eof", j, 0)
    OBVIOUS
  <1>5. Grow(port, port', {e}) /\ e.kind = "eof"
    BY <1>1, <1>2, Receives DEF Event
  <1>6. /\ \A i : ~About(w, Leaving, i) /\ ~About(w, {"leave", "free"}, i) /\ ~About(w, {"leave"}, i)
                  /\ ~About(w, {"logout"}, i)
        /\ \A i : /\ ~About(w, Leaving, i)' /\ ~About(w, {"logout"}, i)' /\ ~About(w, Entering, i)'
                  /\ ~About(w, {"play"}, i)' /\ ~About(w, {"db_load"}, i)' /\ ~About(w, {"leave"}, i)'
                  /\ ~About(w, {"free"}, i)' /\ ~About(w, {"leave", "free"}, i)'
                  /\ ~About(w, {"bot_enter", "db_enter"}, i)'
        /\ About(w, {"play"}, j) /\ About(w, Entering, j)
    BY <1>3, <1>4 DEF Leaving, Early, Entering
  <1>7. m_state[j] = "CS_PLAYING"
    BY <1>1, <1>2, <1>6 DEF One, Playing
  <1>8. \A d \in Conns : Gone(d) => Gone(d)'
    BY <1>1 DEF Gone
  <1>9. Stated(w)'
    <2>1. Stated(w)
      BY DEF One
    <2>2. \A i \in Ids : IsBot(i)' = IsBot(i)
      BY <1>1 DEF IsBot, Account
    <2> QED BY <1>1, <1>6, <2>1, <2>2 DEF Stated
  <1>10. Noticed(w)'
    <2>1. job[w].op \in Entering
      BY <1>1 DEF Entering
    <2> QED BY <1>1, <1>2, <2>1, NoticedRecv
  <1>11. Playing(w)'
    <2>1. \A f \in {e} : f.kind # "play"
      BY <1>5
    <2> QED BY <1>1, <1>2, <1>5, <1>6, <2>1, PlayingGrow
  <1>12. Ordered(w)'
    <2>1. \A f \in {e} : f.kind \notin Early
      BY <1>5 DEF Early
    <2> QED BY <1>1, <1>2, <1>5, <1>6, <1>8, <2>1, OrderedGrow
  <1>13. Restored(w)'
    <2>1. Current(w) /\ Backed(w) /\ Asked /\ Told /\ Loading(w)
      BY DEF One, Restored
    <2>2. \A i \in Ids : /\ InPlay(i)' <=> InPlay(i) /\ (Wait(i)' <=> Wait(i))
                         /\ Account(i)' = Account(i) /\ IsBot(i)' = IsBot(i)
      BY <1>1 DEF InPlay, Wait, Account, IsBot
    <2>3. \A i \in Ids : InPlay(i) <=> InPlay(i)'
      BY <1>1 DEF InPlay
    <2>4. \A i \in Ids : registered[i] /\ Account(i) = Account(j) => i = j
      BY <1>2, <1>6, UniqueEntering
    <2>5. progress[j] \in Int /\ progress'[j] = progress[j] + 1
          /\ \A i \in Ids : i # j => progress'[i] = progress[i]
      BY <1>1, <1>2 DEF Typed
    <2>6. /\ gained'[Account(j)] = progress[j] + 1
          /\ \A a \in Accounts : a # Account(j) => gained'[a] = gained[a]
      BY <1>1, <1>2 DEF Typed
    <2>7. \A i \in Ids : Handed(i) => Account(i) \in Accounts
      BY <1>2 DEF Typed, Handed, Account, Accounts
    <2>8. \A i \in Ids : registered[i] => Handed(i)
      BY DEF One, Base, Numbered
    <2>9. Current(w)'
      BY <1>6, <2>1, <2>2, <2>3, <2>4, <2>5, <2>6, <2>7, <2>8 DEF Current, InPlay
    <2>10. Backed(w)'
      <3> SUFFICES ASSUME NEW a \in Accounts \ Bots
                   PROVE  \/ Settled(a)'
                          \/ \E i \in Ids : InPlay(i)' /\ Account(i)' = a /\ ~About(w, {"logout"}, i)'
        BY DEF Backed
      <3>1. CASE a = Account(j)
        BY <1>1, <1>2, <1>6, <1>7, <2>2, <2>3, <3>1 DEF InPlay
      <3>2. CASE a # Account(j) /\ Settled(a)
        <4>1. gained'[a] = gained[a]
          BY <2>6, <3>2
        <4>2. rows' = rows /\ db_queue' = db_queue /\ conn_of' = conn_of
          BY <1>1
        <4>3. \A k : Save(k, a)' <=> Save(k, a)
          BY <4>2 DEF Save, Account
        <4> QED BY <3>2, <4>1, <4>2, <4>3 DEF Settled
      <3>3. CASE \E i \in Ids : InPlay(i) /\ Account(i) = a /\ ~About(w, {"logout"}, i)
        BY <1>6, <2>2, <2>3, <3>3
      <3> QED BY <2>1, <3>1, <3>2, <3>3 DEF Backed
    <2>11. Asked'
      <3>1. \A k \in 1 .. Len(db_queue) : db_queue[k].id \in Ids
        BY <1>2, Port DEF Requests
      <3> QED BY <1>1, <2>1, <2>2, <3>1 DEF Asked, Save, Account, Wait
    <2>12. Told'
      <3> SUFFICES ASSUME NEW k \in 1 .. Len(port'), port'[k].kind = "db"
                   PROVE  /\ m_state'[port'[k].id] # "CS_CONNECT"
                          /\ (registered'[port'[k].id] /\ m_state'[port'[k].id] = "CS_DB_WAIT") =>
                                port'[k].val \in {-1, gained'[AccountOf[conn_of'[port'[k].id]]]}
        BY DEF Told, Wait, Account
      <3>1. PICK l \in 1 .. Len(port) : port[l] = port'[k]
        <4>1. \A f \in {e} : f.kind # "db"
          BY <1>5
        <4> QED BY <1>2, <1>5, <4>1, GrowDb
      <3>2. port[l].id \in Ids /\ Handed(port[l].id)
        BY <1>2, <3>1, Port, EventTypes DEF One, Base, Numbered
      <3>3. /\ m_state[port[l].id] # "CS_CONNECT"
            /\ Wait(port[l].id) => port[l].val \in {-1, gained[Account(port[l].id)]}
        BY <2>1, <3>1 DEF Told
      <3>4. Wait(port[l].id) => Account(port[l].id) # Account(j)
        BY <1>7, <2>4, <3>2 DEF Wait
      <3>5. Wait(port[l].id) => gained'[Account(port[l].id)] = gained[Account(port[l].id)]
        BY <2>6, <2>7, <3>2, <3>4
      <3> QED BY <1>1, <3>1, <3>2, <3>3, <3>5 DEF Wait, Account
    <2>13. Loading(w)'
      BY <1>6 DEF Loading
    <2> QED BY <2>9, <2>10, <2>11, <2>12, <2>13 DEF Restored
  <1> QED BY <1>1, <1>2, <1>9, <1>10, <1>11, <1>12, <1>13 DEF One

LEMMA OneLoginDb ==
    ASSUME NEW w \in Workers, One(w), LoginDb(w)
    PROVE  One(w)'
  <1> PICK j : j = job[w].id
    OBVIOUS
  <1>1. /\ job[w].op = "login" /\ registered[j] /\ m_state[j] = "CS_CONNECT" /\ ~IsBot(j)
        /\ m_state' = [m_state EXCEPT ![j] = "CS_DB_WAIT"]
        /\ db_queue' = Append(db_queue, Event("DB_LOGIN", j, 0))
        /\ do_recv(j) /\ Done(w)
        /\ UNCHANGED <<deployment, conn, conn_of, player_index, registered, progress, in_sector,
                       socket, rows, gained>>
    BY DEF LoginDb, At
  <1>2. Base' /\ Typed /\ Typed' /\ j \in Ids /\ Handed(j)
    BY <1>1, BaseLoginDb, Busy DEF One, Base
  <1>3. \A K, i : "idle" \notin K => ~About(w, K, i)'
    BY <1>1, <1>2, DoneAbout
  <1>4. \A K, i : About(w, K, i) <=> "login" \in K /\ j = i
    BY <1>1 DEF About
  <1> PICK e : e = Event("eof", j, 0)
    OBVIOUS
  <1>5. Grow(port, port', {e}) /\ e.kind = "eof"
    BY <1>1, <1>2, Receives DEF Event
  <1>6. /\ \A i : ~About(w, Leaving, i) /\ ~About(w, {"leave", "free"}, i) /\ ~About(w, {"leave"}, i)
                  /\ ~About(w, {"logout"}, i)
        /\ \A i : /\ ~About(w, Leaving, i)' /\ ~About(w, {"logout"}, i)' /\ ~About(w, Entering, i)'
                  /\ ~About(w, {"play"}, i)' /\ ~About(w, {"db_load"}, i)' /\ ~About(w, {"leave"}, i)'
                  /\ ~About(w, {"free"}, i)' /\ ~About(w, {"leave", "free"}, i)'
                  /\ ~About(w, {"bot_enter", "db_enter"}, i)'
        /\ \A i : About(w, Entering, i) <=> i = j
    BY <1>3, <1>4 DEF Leaving, Early, Entering
  <1>7. m_state'[j] = "CS_DB_WAIT" /\ \A i \in Ids : i # j => m_state'[i] = m_state[i]
    BY <1>1, <1>2 DEF Typed
  <1>8. \A d \in Conns : Gone(d) => Gone(d)'
    BY <1>1 DEF Gone
  <1>9. Stated(w)'
    <2>1. Stated(w)
      BY DEF One
    <2>2. \A i \in Ids : IsBot(i)' = IsBot(i)
      BY <1>1 DEF IsBot, Account
    <2>3. ~in_sector[j]
      BY <1>1, <1>2, <1>6, <2>1 DEF Stated
    <2> QED BY <1>1, <1>6, <1>7, <2>1, <2>2, <2>3 DEF Stated
  <1>10. Noticed(w)'
    <2>1. job[w].op \in Entering
      BY <1>1 DEF Entering
    <2> QED BY <1>1, <1>2, <2>1, NoticedRecv
  <1>11. Playing(w)'
    <2>1. \A f \in {e} : f.kind # "play"
      BY <1>5
    <2>2. \A i \in Ids : m_state[i] = "CS_PLAYING" => m_state'[i] = "CS_PLAYING"
      BY <1>1, <1>7
    <2> QED BY <1>1, <1>2, <1>5, <1>6, <2>1, <2>2, PlayingGrow
  <1>12. Ordered(w)'
    <2>1. \A f \in {e} : f.kind \notin Early
      BY <1>5 DEF Early
    <2>2. \A i \in Ids : m_state'[i] \in {m_state[i], "CS_LOGOUT"} \/ About(w, Entering, i)
      BY <1>6, <1>7
    <2> QED BY <1>1, <1>2, <1>5, <1>6, <1>8, <2>1, <2>2, OrderedGrow
  <1>13. Restored(w)'
    <2>1. Current(w) /\ Backed(w) /\ Asked /\ Told /\ Loading(w)
      BY DEF One, Restored
    <2>2. \A i \in Ids : /\ InPlay(i)' <=> InPlay(i)
                         /\ i # j => (Wait(i)' <=> Wait(i))
      BY <1>1, <1>7 DEF InPlay, Wait
    <2>3. \A i \in Ids : Account(i)' = Account(i) /\ IsBot(i)' = IsBot(i)
      BY <1>1 DEF Account, IsBot
    <2> PICK r : r = Event("DB_LOGIN", j, 0)
      OBVIOUS
    <2>4. r.kind = "DB_LOGIN" /\ r.id = j
      BY DEF Event
    <2>5. /\ Grow(db_queue, db_queue', {r}) /\ Len(db_queue) \in Nat
          /\ Len(db_queue') = Len(db_queue) + 1 /\ db_queue'[Len(db_queue')] = r
      <3>1. Base /\ "DB_LOGIN" \in {"DB_LOGIN", "DB_SAVE"} /\ 0 \in Int
        BY DEF One
      <3>2. db_queue' = Append(db_queue, Event("DB_LOGIN", j, 0))
        BY <1>1
      <3> QED BY <1>2, <3>1, <3>2, QueueGrows
    <2>6. \A k \in 1 .. Len(db_queue') :
              \/ k \in 1 .. Len(db_queue) /\ db_queue'[k] = db_queue[k]
              \/ k = Len(db_queue) + 1 /\ db_queue'[k] = r
      BY <2>5 DEF Grow
    <2>7. Current(w)'
      BY <1>1, <1>6, <2>1, <2>2, <2>3 DEF Current
    <2>8. Backed(w)'
      <3>1. \A f \in {r} : f.kind # "DB_SAVE"
        BY <2>4
      <3> SUFFICES ASSUME NEW a \in Accounts \ Bots
                   PROVE  \/ Settled(a)'
                          \/ \E i \in Ids : InPlay(i)' /\ Account(i)' = a /\ ~About(w, {"logout"}, i)'
        BY DEF Backed
      <3>2. CASE Settled(a)
        <4>1. Len(db_queue') \in Nat
          BY <2>5
        <4> QED BY <1>1, <1>2, <2>5, <3>1, <3>2, <4>1, SettledGrow DEF One
      <3>3. CASE \E i \in Ids : InPlay(i) /\ Account(i) = a /\ ~About(w, {"logout"}, i)
        BY <1>6, <2>2, <2>3, <3>3
      <3> QED BY <2>1, <3>2, <3>3 DEF Backed
    <2>9. Asked'
      <3> SUFFICES ASSUME NEW k \in 1 .. Len(db_queue'), db_queue'[k].kind = "DB_LOGIN"
                   PROVE  /\ m_state'[db_queue'[k].id] # "CS_CONNECT"
                          /\ (registered'[db_queue'[k].id] /\ m_state'[db_queue'[k].id] = "CS_DB_WAIT") =>
                                \A l \in 1 .. Len(db_queue') : l > k =>
                                    ~ /\ db_queue'[l].kind = "DB_SAVE"
                                      /\ AccountOf[conn_of'[db_queue'[l].id]]
                                             = AccountOf[conn_of'[db_queue'[k].id]]
        BY DEF Asked, Wait, Save, Account
      <3>1. CASE k = Len(db_queue) + 1
        BY <1>7, <2>4, <2>5, <2>6, <3>1
      <3>2. CASE k \in 1 .. Len(db_queue) /\ db_queue'[k] = db_queue[k]
        <4>1. /\ m_state[db_queue[k].id] # "CS_CONNECT" /\ db_queue[k].id \in Ids
              /\ Wait(db_queue[k].id) =>
                    \A l \in 1 .. Len(db_queue) : l > k => ~Save(l, Account(db_queue[k].id))
          BY <1>2, <2>1, <3>2, Port DEF Asked, Requests
        <4>2. db_queue[k].id # j
          BY <1>1, <4>1
        <4>3. m_state'[db_queue[k].id] = m_state[db_queue[k].id]
          BY <1>7, <4>1, <4>2
        <4>4. conn_of' = conn_of /\ registered' = registered
          BY <1>1
        <4>5. ASSUME NEW l \in 1 .. Len(db_queue'), l > k, db_queue'[l].kind = "DB_SAVE"
              PROVE  l \in 1 .. Len(db_queue) /\ db_queue'[l] = db_queue[l]
          BY <2>4, <2>6, <4>5
        <4> QED BY <3>2, <4>1, <4>3, <4>4, <4>5 DEF Wait, Save, Account
      <3> QED BY <2>6, <3>1, <3>2
    <2>10. Told'
      <3> SUFFICES ASSUME NEW k \in 1 .. Len(port'), port'[k].kind = "db"
                   PROVE  /\ m_state'[port'[k].id] # "CS_CONNECT"
                          /\ (registered'[port'[k].id] /\ m_state'[port'[k].id] = "CS_DB_WAIT") =>
                                port'[k].val \in {-1, gained'[AccountOf[conn_of'[port'[k].id]]]}
        BY DEF Told, Wait, Account
      <3>1. PICK l \in 1 .. Len(port) : port[l] = port'[k]
        <4>1. \A f \in {e} : f.kind # "db"
          BY <1>5
        <4> QED BY <1>2, <1>5, <4>1, GrowDb
      <3>2. port[l].id \in Ids
        BY <1>2, <3>1, Port, EventTypes
      <3>3. /\ m_state[port[l].id] # "CS_CONNECT"
            /\ Wait(port[l].id) => port[l].val \in {-1, gained[Account(port[l].id)]}
        BY <2>1, <3>1 DEF Told
      <3>4. port[l].id # j
        BY <1>1, <3>3
      <3> QED BY <1>1, <1>7, <3>1, <3>2, <3>3, <3>4 DEF Wait, Account
    <2>11. Loading(w)'
      BY <1>6 DEF Loading
    <2> QED BY <2>7, <2>8, <2>9, <2>10, <2>11 DEF Restored
  <1> QED BY <1>1, <1>2, <1>9, <1>10, <1>11, <1>12, <1>13 DEF One

LEMMA OneDiscSave ==
    ASSUME NEW w \in Workers, One(w), DiscSave(w)
    PROVE  One(w)'
  <1> PICK j : j = job[w].id
    OBVIOUS
  <1>1. /\ job[w].op = "save"
        /\ IF m_state[j] = "CS_PLAYING" /\ ~IsBot(j)
           THEN db_queue' = Append(db_queue, Event("DB_SAVE", j, progress[j]))
           ELSE db_queue' = db_queue
        /\ Do(w, "logout", j, 0)
        /\ UNCHANGED <<deployment, conn, conn_of, player_index, registered, m_state, progress,
                       in_sector, socket, recv_posted, port, rows, gained>>
    BY DEF DiscSave, At
  <1>2. Base' /\ Typed /\ Typed' /\ j \in Ids /\ Handed(j) /\ Account(j) \in Accounts
    BY <1>1, BaseDiscSave, Busy DEF One, Base
  <1>3. \A K, i : About(w, K, i)' <=> "logout" \in K /\ j = i
    BY <1>1, <1>2, DoAbout
  <1>4. \A K, i : About(w, K, i) <=> "save" \in K /\ j = i
    BY <1>1 DEF About
  <1>5. Grow(port, port', {})
    BY <1>1, <1>2, StaysGrows DEF Typed
  <1>6. /\ \A i : ~About(w, {"leave", "free"}, i) /\ ~About(w, {"leave"}, i) /\ ~About(w, Entering, i)
                  /\ ~About(w, {"logout"}, i)
        /\ \A i : /\ About(w, Leaving, i) <=> i = j
                  /\ About(w, Entering \cup Leaving, i) <=> i = j
        /\ \A i : /\ ~About(w, {"leave"}, i)' /\ ~About(w, Entering, i)'
                  /\ ~About(w, {"play"}, i)' /\ ~About(w, {"db_load"}, i)'
                  /\ ~About(w, {"leave", "free"}, i)'
                  /\ ~About(w, {"free"}, i)' /\ ~About(w, {"bot_enter", "db_enter"}, i)'
        /\ \A i : /\ About(w, Leaving, i)' <=> i = j
                  /\ About(w, {"logout"}, i)' <=> i = j
                  /\ About(w, Entering \cup Leaving, i)' <=> i = j
    BY <1>3, <1>4 DEF Leaving, Early, Entering
  <1>7. registered[j]
    BY <1>2, <1>6 DEF One, Stated
  <1>8. Stated(w)'
    <2>1. Stated(w)
      BY DEF One
    <2>2. \A i \in Ids : IsBot(i)' = IsBot(i)
      BY <1>1 DEF IsBot, Account
    <2> QED BY <1>1, <1>6, <2>1, <2>2 DEF Stated
  <1>9. Noticed(w)'
    BY <1>1, <1>6, NoticedSame
  <1>10. Playing(w)'
    BY <1>1, <1>2, <1>5, <1>6, PlayingGrow
  <1>11. Ordered(w)'
    <2>1. \A d \in Conns : Gone(d) => Gone(d)'
      BY <1>1 DEF Gone
    <2> QED BY <1>1, <1>2, <1>5, <1>6, <2>1, OrderedGrow
  <1>12. Restored(w)'
    <2>1. Current(w) /\ Backed(w) /\ Asked /\ Told /\ Loading(w)
      BY DEF One, Restored
    <2>2. \A i \in Ids : InPlay(i)' = InPlay(i) /\ Wait(i)' = Wait(i)
                         /\ Account(i)' = Account(i) /\ IsBot(i)' = IsBot(i)
      BY <1>1 DEF InPlay, Wait, Account, IsBot
    <2>3. Current(w)'
      BY <1>1, <1>6, <2>1, <2>2 DEF Current
    <2>4. Told'
      BY <1>1, <2>1 DEF Told, Wait, Account
    <2>5. Loading(w)'
      BY <1>6 DEF Loading
    <2>6. CASE ~(m_state[j] = "CS_PLAYING" /\ ~IsBot(j))
      <3>1. db_queue' = db_queue
        BY <1>1, <2>6
      <3>2. Asked'
        BY <1>1, <2>1, <3>1 DEF Asked, Wait, Account, Save
      <3>3. Backed(w)'
        <4> SUFFICES ASSUME NEW a \in Accounts \ Bots
                     PROVE  \/ Settled(a)'
                            \/ \E i \in Ids : InPlay(i)' /\ Account(i)' = a /\ ~About(w, {"logout"}, i)'
          BY DEF Backed
        <4>1. CASE Settled(a)
          BY <1>1, <3>1, <4>1 DEF Settled, Save, Account
        <4>2. ASSUME NEW i \in Ids, InPlay(i), Account(i) = a
              PROVE  \E h \in Ids : InPlay(h)' /\ Account(h)' = a /\ ~About(w, {"logout"}, h)'
          <5>1. i # j
            BY <2>6, <4>2 DEF InPlay, IsBot
          <5> QED BY <1>6, <2>2, <4>2, <5>1
        <4> QED BY <2>1, <4>1, <4>2 DEF Backed
      <3> QED BY <2>3, <2>4, <2>5, <3>2, <3>3 DEF Restored
    <2>7. CASE m_state[j] = "CS_PLAYING" /\ ~IsBot(j)
      <3> PICK r : r = Event("DB_SAVE", j, progress[j])
        OBVIOUS
      <3>1. r.kind = "DB_SAVE" /\ r.id = j /\ r.val = progress[j]
        BY DEF Event
      <3>2. progress[j] \in Int
        BY <1>2 DEF Typed
      <3>3. /\ Grow(db_queue, db_queue', {r}) /\ Len(db_queue) \in Nat
            /\ Len(db_queue') = Len(db_queue) + 1 /\ db_queue'[Len(db_queue')] = r
        BY <1>1, <1>2, <2>7, <3>2, QueueGrows DEF One
      <3>4. \A k \in 1 .. Len(db_queue') :
                \/ k \in 1 .. Len(db_queue) /\ db_queue'[k] = db_queue[k]
                \/ k = Len(db_queue) + 1 /\ db_queue'[k] = r
        BY <3>3 DEF Grow
      <3>5. progress[j] = gained[Account(j)]
        BY <1>2, <1>6, <1>7, <2>1, <2>7 DEF Current, InPlay
      <3>6. Settled(Account(j))'
        <4>1. Len(db_queue') \in 1 .. Len(db_queue')
          BY <3>3
        <4>2. \A l \in 1 .. Len(db_queue') : ~(l > Len(db_queue'))
          BY <3>3
        <4>3. conn_of' = conn_of /\ gained' = gained
          BY <1>1
        <4>4. PICK a : a = Account(j)
          OBVIOUS
        <4>5. AccountOf[conn_of[j]] = a /\ progress[j] = gained[a]
          BY <3>5, <4>4 DEF Account
        <4>6. \E k \in 1 .. Len(db_queue') :
                  /\ db_queue'[k].kind = "DB_SAVE" /\ AccountOf[conn_of'[db_queue'[k].id]] = a
                  /\ db_queue'[k].val = gained'[a]
                  /\ \A l \in 1 .. Len(db_queue') : ~(l > k)
          BY <3>1, <3>3, <4>1, <4>2, <4>3, <4>5
        <4>7. Settled(a)'
          BY <4>6 DEF Settled, Save, Account
        <4>8. Account(j)' = a
          BY <4>3, <4>5 DEF Account
        <4> QED BY <4>7, <4>8
      <3>7. Backed(w)'
        <4> SUFFICES ASSUME NEW a \in Accounts \ Bots
                     PROVE  \/ Settled(a)'
                            \/ \E i \in Ids : InPlay(i)' /\ Account(i)' = a /\ ~About(w, {"logout"}, i)'
          BY DEF Backed
        <4>1. CASE a = Account(j)
          <5>1. Account(j)' = a
            BY <1>2, <2>2, <4>1
          <5> QED BY <3>6, <5>1
        <4>2. CASE a # Account(j) /\ Settled(a)
          <5>1. Len(db_queue') \in Nat
            BY <3>3
          <5>2. \A f \in {r} : f.kind = "DB_SAVE" => Account(f.id) # a
            BY <3>1, <4>2
          <5> QED BY <1>1, <3>3, <4>2, <5>1, <5>2, SettledGrow DEF One
        <4>3. ASSUME NEW i \in Ids, InPlay(i), Account(i) = a, a # Account(j)
              PROVE  \E h \in Ids : InPlay(h)' /\ Account(h)' = a /\ ~About(w, {"logout"}, h)'
          <5>1. i # j
            BY <4>3
          <5> QED BY <1>6, <2>2, <4>3, <5>1
        <4> QED BY <2>1, <4>1, <4>2, <4>3 DEF Backed
      <3>8. Asked'
        <4> SUFFICES ASSUME NEW k \in 1 .. Len(db_queue'), db_queue'[k].kind = "DB_LOGIN"
                     PROVE  /\ m_state'[db_queue'[k].id] # "CS_CONNECT"
                            /\ (registered'[db_queue'[k].id] /\ m_state'[db_queue'[k].id] = "CS_DB_WAIT") =>
                                  \A l \in 1 .. Len(db_queue') : l > k =>
                                      ~ /\ db_queue'[l].kind = "DB_SAVE"
                                        /\ AccountOf[conn_of'[db_queue'[l].id]]
                                               = AccountOf[conn_of'[db_queue'[k].id]]
          BY DEF Asked, Wait, Save, Account
        <4>1. k \in 1 .. Len(db_queue) /\ db_queue'[k] = db_queue[k]
          BY <3>1, <3>4
        <4>2. /\ m_state[db_queue[k].id] # "CS_CONNECT" /\ db_queue[k].id \in Ids
              /\ Wait(db_queue[k].id) =>
                    \A l \in 1 .. Len(db_queue) : l > k => ~Save(l, Account(db_queue[k].id))
          BY <1>2, <2>1, <4>1, Port DEF Asked, Requests
        <4>3. Wait(db_queue[k].id) => Account(db_queue[k].id) # Account(j)
          <5>1. ASSUME Wait(db_queue[k].id), Account(db_queue[k].id) = Account(j)
                PROVE  FALSE
            <6>1. db_queue[k].id = j
              BY <1>2, <1>7, <2>7, <4>2, <5>1, Unique DEF Wait
            <6> QED BY <2>7, <5>1, <6>1 DEF Wait
          <5> QED BY <5>1
        <4> QED BY <1>1, <3>1, <3>4, <4>1, <4>2, <4>3 DEF Wait, Save, Account
      <3> QED BY <2>3, <2>4, <2>5, <3>7, <3>8 DEF Restored
    <2> QED BY <2>6, <2>7
  <1> QED BY <1>1, <1>2, <1>8, <1>9, <1>10, <1>11, <1>12 DEF One

\* The database thread reads the row for a login, or writes it for a save.
LEMMA OneDbServe ==
    ASSUME NEW w \in Workers, One(w), DbServe
    PROVE  One(w)'
  <1> PICK ev : ev = Head(db_queue)
    OBVIOUS
  <1>1. /\ db_queue # <<>> /\ db_queue' = Tail(db_queue)
        /\ UNCHANGED <<deployment, conn, conn_of, player_index, registered, m_state, progress,
                       in_sector, socket, recv_posted, job, gained>>
    BY DEF DbServe, sessionVars
  <1>2. Base /\ Base' /\ Typed /\ Typed'
    BY BaseDbServe DEF One, Base
  <1>3. /\ ev = db_queue[1] /\ 1 \in 1 .. Len(db_queue)
        /\ ev.kind \in {"DB_LOGIN", "DB_SAVE"}
        /\ ev.id \in Ids /\ ev.val \in Int /\ Handed(ev.id) /\ Account(ev.id) \in Accounts
        /\ Shift(db_queue, db_queue') /\ Len(db_queue) \in Nat /\ Len(db_queue') \in Nat
    BY <1>1, <1>2, FirstRequest
  <1>4. \/ UNCHANGED port
        \/ /\ ev.kind = "DB_LOGIN"
           /\ \E v \in {rows[Account(ev.id)], -1} : port' = Append(port, Event("db", ev.id, v))
    BY <1>3 DEF DbServe
  <1>5. PICK X : /\ Grow(port, port', X)
                 /\ \A e \in X : /\ e.kind = "db" /\ e.id = ev.id /\ ev.kind = "DB_LOGIN"
                                 /\ e.val \in {rows[Account(ev.id)], -1}
    <2>1. CASE UNCHANGED port
      <3>1. Grow(port, port', {})
        BY <1>2, <2>1, StaysGrows DEF Typed
      <3> QED BY <3>1
    <2>2. ASSUME ev.kind = "DB_LOGIN", NEW v \in {rows[Account(ev.id)], -1},
                 port' = Append(port, Event("db", ev.id, v))
          PROVE  \E X : /\ Grow(port, port', X)
                        /\ \A e \in X : /\ e.kind = "db" /\ e.id = ev.id /\ ev.kind = "DB_LOGIN"
                                        /\ e.val \in {rows[Account(ev.id)], -1}
      <3>1. v \in Int
        BY <1>2, <1>3, <2>2 DEF Typed
      <3> PICK f : f = Event("db", ev.id, v)
        OBVIOUS
      <3>2. f \in Events /\ f.kind = "db" /\ f.id = ev.id /\ f.val = v
        BY <1>3, <3>1 DEF Event, Events
      <3>3. Grow(port, port', {f})
        BY <1>2, <2>2, <3>2, AppendGrows DEF Typed
      <3> QED BY <2>2, <3>2, <3>3
    <2> QED BY <1>4, <2>1, <2>2
  <1>6. \A K, i : About(w, K, i)' <=> About(w, K, i)
    BY <1>1 DEF About
  <1>7. Stated(w)'
    BY <1>1, StatedFrame DEF One
  <1>8. Noticed(w)'
    <2>1. \A i \in Ids : recv_posted'[i] => Handed(i) /\ ~Closed(i)'
      BY <1>1 DEF One, Noticed, Closed
    <2>2. \A e \in X : e.kind \in Ends => conn'[conn_of[e.id]] = "closed"
      BY <1>5 DEF Ends
    <2>3. \A c \in Conns : conn[c] = "closed" => conn'[c] = "closed"
      BY <1>1
    <2>4. \A i \in Ids : registered'[i] /\ recv_posted[i] =>
              recv_posted'[i] \/ Posted(Early \cup Ends, i)'
      BY <1>1
    <2>5. \A i \in Ids : registered'[i] /\ About(w, Entering \cup Leaving, i) =>
              \/ recv_posted'[i] \/ Posted(Early \cup Ends, i)'
              \/ About(w, Entering \cup Leaving, i)'
      BY <1>6
    <2>6. \A i \in Ids : About(w, Leaving, i)' => About(w, Leaving, i)
      BY <1>6
    <2>7. conn_of' = conn_of /\ \A i \in Ids : registered'[i] => registered[i]
      BY <1>1
    <2>8. Noticing(w, X)
      BY <1>5, <2>1, <2>2, <2>3, <2>4, <2>5, <2>6, <2>7 DEF Noticing
    <2> QED BY <1>2, <2>8, NoticedGrow
  <1>9. Playing(w)'
    <2>1. \A e \in X : e.kind # "play"
      BY <1>5
    <2> QED BY <1>1, <1>2, <1>5, <1>6, <2>1, PlayingGrow
  <1>10. Ordered(w)'
    <2>1. \A e \in X : e.kind \notin Early
      BY <1>5 DEF Early
    <2>2. \A d \in Conns : Gone(d) => Gone(d)'
      BY <1>1 DEF Gone
    <2> QED BY <1>1, <1>2, <1>5, <1>6, <2>1, <2>2, OrderedGrow
  <1>11. Restored(w)'
    <2>1. Current(w) /\ Backed(w) /\ Asked /\ Told /\ Loading(w)
      BY DEF One, Restored
    <2>2. \A i \in Ids : /\ InPlay(i)' = InPlay(i) /\ Wait(i)' = Wait(i)
                         /\ Account(i)' = Account(i) /\ IsBot(i)' = IsBot(i)
      BY <1>1 DEF InPlay, Wait, Account, IsBot
    <2>3. Current(w)'
      BY <1>1, <1>6, <2>1, <2>2 DEF Current
    <2>4. Loading(w)'
      BY <1>1, <1>6, <2>1, <2>2 DEF Loading
    <2>5. Backed(w)'
      <3>1. \A a \in Accounts : Settled(a) => Settled(a)'
        BY <1>2, SettledServe
      <3> QED BY <1>6, <2>1, <2>2, <3>1 DEF Backed
    <2>6. Asked'
      <3> SUFFICES ASSUME NEW k \in 1 .. Len(db_queue'), db_queue'[k].kind = "DB_LOGIN"
                   PROVE  /\ m_state'[db_queue'[k].id] # "CS_CONNECT"
                          /\ (registered'[db_queue'[k].id] /\ m_state'[db_queue'[k].id] = "CS_DB_WAIT") =>
                                \A l \in 1 .. Len(db_queue') : l > k =>
                                    ~ /\ db_queue'[l].kind = "DB_SAVE"
                                      /\ AccountOf[conn_of'[db_queue'[l].id]]
                                             = AccountOf[conn_of'[db_queue'[k].id]]
        BY DEF Asked, Wait, Save, Account
      <3>1. \A l \in 1 .. Len(db_queue') : /\ l + 1 \in 1 .. Len(db_queue) /\ db_queue'[l] = db_queue[l + 1]
                                           /\ l > k => l + 1 > k + 1
        BY <1>3 DEF Shift
      <3> PICK m : m = k + 1
        OBVIOUS
      <3>2. m \in 1 .. Len(db_queue) /\ db_queue'[k] = db_queue[m]
        BY <3>1
      <3>3. /\ m_state[db_queue[m].id] # "CS_CONNECT"
            /\ Wait(db_queue[m].id) =>
                  \A l \in 1 .. Len(db_queue) : l > m => ~Save(l, Account(db_queue[m].id))
        BY <2>1, <3>2 DEF Asked
      <3> QED BY <1>1, <3>1, <3>2, <3>3 DEF Wait, Save, Account
    <2>7. Told'
      <3> SUFFICES ASSUME NEW k \in 1 .. Len(port'), port'[k].kind = "db"
                   PROVE  /\ m_state'[port'[k].id] # "CS_CONNECT"
                          /\ (registered'[port'[k].id] /\ m_state'[port'[k].id] = "CS_DB_WAIT") =>
                                port'[k].val \in {-1, gained'[AccountOf[conn_of'[port'[k].id]]]}
        BY DEF Told, Wait, Account
      <3>1. CASE k \in 1 .. Len(port) /\ port'[k] = port[k]
        <4>1. /\ m_state[port[k].id] # "CS_CONNECT"
              /\ Wait(port[k].id) => port[k].val \in {-1, gained[Account(port[k].id)]}
          BY <2>1, <3>1 DEF Told
        <4> QED BY <1>1, <3>1, <4>1 DEF Wait, Account
      <3>2. CASE port'[k] \in X
        <4>1. /\ port'[k].id = ev.id /\ ev.kind = "DB_LOGIN"
              /\ port'[k].val \in {rows[Account(ev.id)], -1}
          BY <1>5, <3>2
        <4>2. /\ m_state[ev.id] # "CS_CONNECT"
              /\ Wait(ev.id) => \A l \in 1 .. Len(db_queue) : l > 1 => ~Save(l, Account(ev.id))
          BY <1>3, <2>1, <4>1 DEF Asked
        <4>3. ASSUME Wait(ev.id)
              PROVE  rows[Account(ev.id)] = gained[Account(ev.id)]
          <5> PICK a : a = Account(ev.id)
            OBVIOUS
          <5>1. a \in Accounts /\ a \notin Bots
            BY <1>3, <4>3 DEF One, Stated, Wait, IsBot
          <5>2. \A l \in 1 .. Len(db_queue) : ~Save(l, a)
            <6>1. ~Save(1, a)
              BY <1>3, <4>1 DEF Save
            <6> QED BY <1>3, <4>2, <4>3, <6>1
          <5>3. CASE Settled(a)
            BY <5>2, <5>3 DEF Settled
          <5>4. ASSUME NEW i \in Ids, InPlay(i), Account(i) = a
                PROVE  FALSE
            <6>1. i = ev.id
              BY <1>3, <4>3, <5>4, Unique DEF InPlay, Wait
            <6> QED BY <4>3, <5>4, <6>1 DEF InPlay, Wait
          <5> QED BY <2>1, <5>1, <5>3, <5>4 DEF Backed
        <4> QED BY <1>1, <4>1, <4>2, <4>3 DEF Wait, Account
      <3>3. Len(port) \in Nat /\ Len(port') \in Nat
        BY <1>2 DEF Typed
      <3>4. k \in 1 .. Len(port) \/ k > Len(port)
        BY <3>3
      <3> QED BY <1>5, <3>1, <3>2, <3>4 DEF Grow
    <2> QED BY <2>3, <2>4, <2>5, <2>6, <2>7 DEF Restored
  <1> QED BY <1>1, <1>2, <1>7, <1>8, <1>9, <1>10, <1>11 DEF One

LEMMA OneInit ==
    ASSUME NEW w \in Workers, Init, deployment.workers = {w}
    PROVE  One(w)
  <1>1. Base
    BY BaseInit
  <1>2. /\ \A id \in Ids : /\ ~in_sector[id] /\ ~registered[id] /\ ~recv_posted[id]
                           /\ m_state[id] = "CS_FREE" /\ ~Handed(id)
        /\ job[w].op = "idle"
        /\ \A k : k \notin 1 .. Len(port) /\ k \notin 1 .. Len(db_queue)
        /\ \A a \in Accounts : rows[a] = gained[a]
    BY DEF Init, Idle, Handed
  <1>3. \A ops, id : "idle" \notin ops => ~About(w, ops, id)
    BY <1>2 DEF About
  <1>4. /\ \A id : ~About(w, Leaving, id) /\ ~About(w, Entering, id)
        /\ \A id : /\ ~About(w, {"leave"}, id) /\ ~About(w, {"free"}, id)
                   /\ ~About(w, {"leave", "free"}, id) /\ ~About(w, {"db_load"}, id)
                   /\ ~About(w, {"bot_enter", "db_enter"}, id) /\ ~About(w, {"play"}, id)
    BY <1>3 DEF Leaving, Entering
  <1>5. \A K, id : ~Posted(K, id)
    BY <1>2 DEF Posted
  <1>6. Stated(w)
    BY <1>2, <1>4 DEF Stated
  <1>7. Noticed(w)
    BY <1>2, <1>4, <1>5 DEF Noticed
  <1>8. Playing(w)
    BY <1>2, <1>4, <1>5 DEF Playing
  <1>9. Ordered(w)
    BY <1>2 DEF Ordered, Ended, Before, After, Newer
  <1>10. Restored(w)
    <2>1. \A a \in Accounts : Settled(a)
      BY <1>2 DEF Settled
    <2>2. \A id \in Ids : ~InPlay(id)
      BY <1>2 DEF InPlay
    <2>3. Current(w) /\ Backed(w)
      BY <2>1, <2>2 DEF Current, Backed
    <2>4. Asked /\ Told /\ Loading(w)
      BY <1>2, <1>4 DEF Asked, Told, Loading
    <2> QED BY <2>3, <2>4 DEF Restored
  <1> QED BY <1>1, <1>6, <1>7, <1>8, <1>9, <1>10 DEF One

LEMMA OneStutter ==
    ASSUME NEW w \in Workers, One(w), UNCHANGED vars
    PROVE  One(w)'
  <1>1. Base'
    BY BaseStutter DEF One
  <1>2. UNCHANGED <<deployment, conn, conn_of, registered, m_state, progress, in_sector,
                    recv_posted, port, db_queue, rows, job, gained>>
    BY DEF vars
  <1>3. Stated(w)'
    BY <1>2, StatedFrame DEF One
  <1>4. Noticed(w)'
    BY <1>2 DEF One, Noticed, Handed, Closed, Posted, Is, About
  <1>5. Playing(w)'
    BY <1>2 DEF One, Playing, Handed, Posted, Is, About
  <1>6. Ordered(w)'
    BY <1>2 DEF One, Ordered, Ended, Before, After, Newer, Handed, Closed, Account, Posted, Is,
       About, Accepting, Gone
  <1>7. Restored(w)'
    <2>1. \A k \in 1 .. Len(port') : port'[k].kind = "db" => \E l \in 1 .. Len(port) : port[l] = port'[k]
      BY <1>2
    <2> QED BY <1>1, <1>2, <2>1, RestoredStill
  <1> QED BY <1>1, <1>2, <1>3, <1>4, <1>5, <1>6, <1>7 DEF One

LEMMA OneNext ==
    ASSUME NEW w \in Workers, One(w), [Next]_vars
    PROVE  One(w)'
  <1>1. CASE UNCHANGED vars
    BY <1>1, OneStutter
  <1>2. CASE Client
    BY <1>2, OneConnect, OneSendLogin, OneSendPlay, OneClose DEF Client
  <1>3. CASE DbServe
    BY <1>3, OneDbServe
  <1>4. ASSUME NEW u \in Workers, Work(u)
        PROVE  One(w)'
    <2>1. Work(w)
      BY <1>4, OnlyOne
    <2> QED BY <2>1, OneAccept, OneDequeue, OneLoginDb, OneLoginBot, OneBotEnter, OnePlay, OneDrop,
               OneDbResult, OneDbLoad, OneDbEnter, OneLost, OneDiscSave, OneDiscLogout,
               OneDiscLeave, OneDiscFree DEF Work
  <1> QED BY <1>1, <1>2, <1>3, <1>4 DEF Next

\* A server is run with the same workers all its life.
LEMMA SameDeployment ==
    ASSUME [Next]_vars
    PROVE  deployment' = deployment
  BY DEF Next, vars, Client, Work, Connect, SendLogin, SendPlay, Close, Accept, Dequeue, LoginDb,
     LoginBot, BotEnter, Play, Drop, DbResult, DbLoad, DbEnter, Lost, DiscSave, DiscLogout,
     DiscLeave, DiscFree, DbServe

LEMMA AloneInit ==
    ASSUME Init
    PROVE  Base /\ Alone
  <1>1. Base
    BY BaseInit
  <1>2. ASSUME NEW w \in Workers, deployment.workers = {w}
        PROVE  One(w)
    BY <1>2, OneInit
  <1> QED BY <1>1, <1>2 DEF Alone

LEMMA AloneNext ==
    ASSUME Base, Alone, [Next]_vars
    PROVE  Base' /\ Alone'
  <1>1. Base'
    BY BaseNext
  <1>2. ASSUME NEW w \in Workers, deployment'.workers = {w}
        PROVE  One(w)'
    <2>1. deployment.workers = {w}
      BY <1>2, SameDeployment
    <2>2. One(w)
      BY <2>1 DEF Alone
    <2> QED BY <2>2, OneNext
  <1> QED BY <1>1, <1>2 DEF Alone

\* A server with one worker has exactly that worker.
LEMMA SerialWorker ==
    ASSUME Base, Alone, Serial
    PROVE  \E w \in Workers : One(w)
  <1>1. deployment \in Deployments /\ IsFiniteSet(deployment.workers)
    BY LifeAssumption DEF Base, Typed
  <1>2. PICK w : deployment.workers = {w}
    BY <1>1, FS_Singleton DEF Serial
  <1>3. w \in Workers
    BY <1>1, <1>2 DEF Workers
  <1> QED BY <1>2, <1>3 DEF Alone
-----------------------------------------------------------------------------
(***************************************************************************)
(* Results.                                                                *)
(***************************************************************************)

\* However many workers run: get_new_player_id hands out each id once and in
\* order, an id has one connection and a connection one id, a completion, a
\* database request or a handler is about an id that was handed out, a socket
\* is open exactly while its session is in clients, and an account has one
\* client at a time.
THEOREM SessionsNumbered == Spec => [](Typed /\ Numbered /\ Connected)
  <1>1. Init => Base
    BY BaseInit
  <1>2. Base /\ [Next]_vars => Base'
    BY BaseNext
  <1> QED BY <1>1, <1>2, PTL DEF Spec, Base

\* With one worker, no session that has ended, or does not play yet, is listed
\* in a sector between two handlers: disconnect and IO_DB_LOGIN leave no ghost.
THEOREM NoGhostAlone == Spec => []SerialNoGhost
  <1>1. ASSUME Base, Alone
        PROVE  SerialNoGhost
    <2> SUFFICES ASSUME Serial, Quiet, NEW id \in Ids, in_sector[id]
                 PROVE  registered[id] /\ m_state[id] = "CS_PLAYING"
      BY DEF SerialNoGhost, NoGhost
    <2>1. PICK w \in Workers : One(w)
      BY <1>1, SerialWorker
    <2>2. ~About(w, {"leave"}, id)
      BY DEF Quiet, Free, About
    <2> QED BY <2>1, <2>2 DEF One, Stated
  <1>2. Init => Base /\ Alone
    BY AloneInit
  <1>3. Base /\ Alone /\ [Next]_vars => Base' /\ Alone'
    BY AloneNext
  <1> QED BY <1>1, <1>2, <1>3, PTL DEF Spec

\* With one worker, the progress that IO_DB_LOGIN loads into a session is all
\* that the account ever made: the save of the session before it is in the
\* row before the database thread reads it for this login.
THEOREM ProgressIsRestored == Spec => ProgressRestored
  <1>1. ASSUME Base, Alone, [Next]_vars
        PROVE  [Serial => \A w \in Workers : DbLoad(w) => job[w].val = gained[Account(job[w].id)]]_vars
    <2> SUFFICES ASSUME Serial, NEW u \in Workers, DbLoad(u)
                 PROVE  job[u].val = gained[Account(job[u].id)]
      OBVIOUS
    <2>1. PICK w \in Workers : One(w)
      BY <1>1, SerialWorker
    <2>2. u = w
      BY <2>1, OnlyOne DEF Work
    <2>3. job[w].op = "db_load"
      BY <2>2 DEF DbLoad, At
    <2>4. job[w].id \in Ids
      BY <2>1, <2>3, Busy DEF One
    <2>5. About(w, {"db_load"}, job[w].id)
      BY <2>3 DEF About
    <2> QED BY <2>1, <2>2, <2>4, <2>5 DEF One, Restored, Loading
  <1>2. Init => Base /\ Alone
    BY AloneInit
  <1>3. Base /\ Alone /\ [Next]_vars => Base' /\ Alone'
    BY AloneNext
  <1> QED BY <1>1, <1>2, <1>3, PTL DEF Spec, ProgressRestored
=============================================================================
