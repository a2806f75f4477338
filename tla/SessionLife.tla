----------------------------- MODULE SessionLife -----------------------------
(***************************************************************************)
(* The life of a session: accept and id allocation, login through the      *)
(* database thread or as a bot, play, and disconnect with the save         *)
(* (network.cpp worker_thread, get_new_player_id, disconnect; session.cpp  *)
(* C2S_LOGIN; db.cpp).                                                     *)
(*                                                                         *)
(* Workers take completions from the port, first in first out, and their   *)
(* handlers interleave wherever they touch the state, the sector, the      *)
(* socket or `clients' of a session.  What a player gains in play is one   *)
(* number, the progress; a database row holds the progress last saved.     *)
(* A client that reconnects has closed its old connection, and the server  *)
(* learns of the end before it sees the new connection.                    *)
(***************************************************************************)
EXTENDS Integers, Sequences, FiniteSets

CONSTANTS
    Deployments,    \* how the server may be run and used, records of
                    \*   workers: the worker threads it starts,
                    \*   conns: connections that clients open, each at most once,
                    \*   dbFails: whether the database may refuse a login
    AccountOf,      \* the login_id each connection uses
    Bots,           \* the login_ids that start with bot_
    NPC_ID_START,   \* first id that is not a player's
    MAX_PROGRESS,   \* bound on the progress of an account
    NOBODY

Workers == UNION {d.workers : d \in Deployments}
Conns == UNION {d.conns : d \in Deployments}
Accounts == { AccountOf[c] : c \in Conns }
Ids == 1 .. NPC_ID_START - 1

ASSUME LifeAssumption ==
    /\ NPC_ID_START \in Nat \ {0}
    /\ MAX_PROGRESS \in Nat
    /\ Bots \subseteq Accounts
    /\ \A d \in Deployments : d.dbFails \in BOOLEAN /\ IsFiniteSet(d.workers)
    /\ NOBODY \notin Conns

VARIABLES
    deployment,    \* how this server is run
    conn,          \* what each client knows of its connection
    conn_of,       \* the connection behind each session id
    player_index,  \* next id to hand out
    registered,    \* clients[id] holds a session
    m_state,       \* CL_STATE of each session
    progress,      \* what the session has of the account's progress
    in_sector,     \* the session is listed in a sector
    socket,        \* the socket of the session is open
    recv_posted,   \* its overlapped receive is outstanding
    port,          \* completion port
    db_queue,      \* requests to the database thread
    rows,          \* progress in the database
    job,           \* what each worker is doing
    gained         \* the progress each account really made

vars == <<deployment, conn, conn_of, player_index, registered, m_state, progress, in_sector,
          socket, recv_posted, port, db_queue, rows, job, gained>>

Account(id) == AccountOf[conn_of[id]]
IsBot(id) == Account(id) \in Bots
Closed(id) == conn[conn_of[id]] = "closed"

Idle == [op |-> "idle", id |-> 0, val |-> 0]
Free(w) == job[w].op = "idle"
At(w, op) == job[w].op = op
Do(w, op, id, val) == job' = [job EXCEPT ![w] = [op |-> op, id |-> id, val |-> val]]
Done(w) == job' = [job EXCEPT ![w] = Idle]

Event(kind, id, val) == [kind |-> kind, id |-> id, val |-> val]

Init ==
    /\ deployment \in Deployments
    /\ conn = [c \in Conns |-> "new"]
    /\ conn_of = [id \in Ids |-> NOBODY]
    /\ player_index = 1
    /\ registered = [id \in Ids |-> FALSE]
    /\ m_state = [id \in Ids |-> "CS_FREE"]
    /\ progress = [id \in Ids |-> 0]
    /\ in_sector = [id \in Ids |-> FALSE]
    /\ socket = [id \in Ids |-> FALSE]
    /\ recv_posted = [id \in Ids |-> FALSE]
    /\ port = <<>>
    /\ db_queue = <<>>
    /\ rows = [a \in Accounts |-> 0]
    /\ job = [w \in Workers |-> Idle]
    /\ gained = [a \in Accounts |-> 0]

\* Nothing of the sessions changes.
sessionVars == <<conn_of, player_index, registered, m_state, progress, in_sector,
                 socket>>
-----------------------------------------------------------------------------
(***************************************************************************)
(* Clients.                                                                *)
(***************************************************************************)
Gone(c) == conn[c] \in {"new", "closed", "refused"}

\* A client connects when its account has no other connection; AcceptEx
\* completes.
Connect(c) ==
    /\ c \in deployment.conns
    /\ conn[c] = "new"
    /\ \A d \in Conns \ {c} : AccountOf[d] = AccountOf[c] => Gone(d)
    /\ conn' = [conn EXCEPT ![c] = "connecting"]
    /\ port' = Append(port, [kind |-> "accept", id |-> 0, val |-> c])
    /\ UNCHANGED <<deployment, sessionVars, recv_posted, db_queue, rows, job, gained>>

\* Data of the client completes the outstanding receive.
Arrives(id, kind) ==
    /\ recv_posted[id]
    /\ recv_posted' = [recv_posted EXCEPT ![id] = FALSE]
    /\ port' = Append(port, Event(kind, id, 0))

SendLogin(id) ==
    /\ conn_of[id] # NOBODY
    /\ conn[conn_of[id]] = "connected"
    /\ conn' = [conn EXCEPT ![conn_of[id]] = "waiting"]
    /\ Arrives(id, "login")
    /\ UNCHANGED <<deployment, sessionVars, db_queue, rows, job, gained>>

SendPlay(id) ==
    /\ conn_of[id] # NOBODY
    /\ conn[conn_of[id]] = "in"
    /\ progress[id] < MAX_PROGRESS
    /\ Arrives(id, "play")
    /\ UNCHANGED <<deployment, conn, sessionVars, db_queue, rows, job, gained>>

\* The client closes; a receive that is outstanding completes with no bytes,
\* and a send that is under way may complete with an error.
Close(id) ==
    /\ conn_of[id] # NOBODY
    /\ conn[conn_of[id]] \in {"connected", "waiting", "in"}
    /\ conn' = [conn EXCEPT ![conn_of[id]] = "closed"]
    /\ \E senderr \in IF in_sector[id] THEN {<<>>, <<Event("senderr", id, 0)>>}
                                       ELSE {<<>>} :
          port' = port \o (IF recv_posted[id] THEN <<Event("eof", id, 0)>> ELSE <<>>)
                       \o senderr
    /\ recv_posted' = [recv_posted EXCEPT ![id] = FALSE]
    /\ UNCHANGED <<deployment, sessionVars, db_queue, rows, job, gained>>
-----------------------------------------------------------------------------
(***************************************************************************)
(* Workers.                                                                *)
(***************************************************************************)
Ready(w) == w \in deployment.workers /\ Free(w)
Takes(w, kind) == Ready(w) /\ port # <<>> /\ Head(port).kind = kind

\* Mutant: the next receive is not posted.
do_recv_forgotten(id) == UNCHANGED <<recv_posted, port>>

\* SESSION::do_recv; when the client has closed the connection the receive
\* completes at once, and when the server has, it fails.
do_recv(id) ==
    IF Closed(id)
    THEN /\ port' = IF socket[id] THEN Append(port, Event("eof", id, 0)) ELSE port
         /\ UNCHANGED recv_posted
    ELSE /\ recv_posted' = [recv_posted EXCEPT ![id] = socket[id]]
         /\ UNCHANGED port

\* get_new_player_id counts up and never returns an id twice.
get_new_player_id == player_index

\* IO_ACCEPT; at NPC_ID_START the connection is refused.
Accept(w) ==
    /\ Takes(w, "accept")
    /\ player_index' = player_index + 1
    /\ LET c == Head(port).val
           id == get_new_player_id
       IN  \/ /\ id >= NPC_ID_START
              /\ conn' = [conn EXCEPT ![c] = "refused"]
              /\ port' = Tail(port)
              /\ UNCHANGED <<conn_of, registered, m_state, socket, recv_posted>>
           \/ /\ id < NPC_ID_START
              /\ conn' = [conn EXCEPT ![c] = "connected"]
              /\ conn_of' = [conn_of EXCEPT ![id] = c]
              /\ registered' = [registered EXCEPT ![id] = TRUE]
              /\ m_state' = [m_state EXCEPT ![id] = "CS_CONNECT"]
              /\ socket' = [socket EXCEPT ![id] = TRUE]
              /\ recv_posted' = [recv_posted EXCEPT ![id] = TRUE]
              /\ port' = Tail(port)
    /\ UNCHANGED <<deployment, progress, in_sector, db_queue, rows, job, gained>>

\* IO_RECV with data; the session is looked up in the next step.
Dequeue(w) ==
    /\ Takes(w, "login") \/ Takes(w, "play")
    /\ Do(w, Head(port).kind, Head(port).id, 0)
    /\ port' = Tail(port)
    /\ UNCHANGED <<deployment, conn, sessionVars, recv_posted, db_queue, rows, gained>>

\* The session has left clients in between.
Drop(w) ==
    /\ At(w, "login") \/ At(w, "play")
    /\ ~registered[job[w].id]
    /\ Done(w)
    /\ UNCHANGED <<deployment, conn, sessionVars, recv_posted, port, db_queue, rows, gained>>

\* C2S_LOGIN of an account: hand it to the database thread.
LoginDb(w) ==
    LET id == job[w].id
    IN  /\ At(w, "login")
        /\ registered[id] /\ m_state[id] = "CS_CONNECT"
        /\ ~IsBot(id)
        /\ m_state' = [m_state EXCEPT ![id] = "CS_DB_WAIT"]
        /\ db_queue' = Append(db_queue, Event("DB_LOGIN", id, 0))
        /\ do_recv(id)
        /\ Done(w)
        /\ UNCHANGED <<deployment, conn, conn_of, player_index, registered, progress, in_sector,
                       socket, rows, gained>>

\* C2S_LOGIN of a bot: playing at once, then into its sector.
LoginBot(w) ==
    LET id == job[w].id
    IN  /\ At(w, "login")
        /\ registered[id] /\ m_state[id] = "CS_CONNECT"
        /\ IsBot(id)
        /\ m_state' = [m_state EXCEPT ![id] = "CS_PLAYING"]
        /\ Do(w, "bot_enter", id, 0)
        /\ UNCHANGED <<deployment, conn, conn_of, player_index, registered, progress, in_sector,
                       socket, recv_posted, port, db_queue, rows, gained>>

\* send_login_success reaches a client that is still there.
Answer(id) ==
    conn' = IF conn[conn_of[id]] = "waiting" /\ socket[id]
            THEN [conn EXCEPT ![conn_of[id]] = "in"] ELSE conn

BotEnter(w) ==
    LET id == job[w].id
    IN  /\ At(w, "bot_enter")
        /\ in_sector' = [in_sector EXCEPT ![id] = TRUE]
        /\ Answer(id)
        /\ do_recv(id)
        /\ Done(w)
        /\ UNCHANGED <<deployment, conn_of, player_index, registered, m_state, progress, socket,
                       db_queue, rows, gained>>

\* Any other packet: the player gains something.
Play(w) ==
    LET id == job[w].id
    IN  /\ At(w, "play")
        /\ registered[id]
        /\ progress' = [progress EXCEPT ![id] = @ + 1]
        /\ gained' = [gained EXCEPT ![Account(id)] = progress[id] + 1]
        /\ do_recv(id)
        /\ Done(w)
        /\ UNCHANGED <<deployment, conn, conn_of, player_index, registered, m_state, in_sector,
                       socket, db_queue, rows>>

\* Mutant: a fresh account is taken for a failed login.
FailedOrNew(r) == r.val <= 0

Failed(r) == r.val = -1

\* IO_DB_LOGIN: checked against the state of the session.
DbResult(w) ==
    /\ Takes(w, "db")
    /\ port' = Tail(port)
    /\ LET r == Head(port)
       IN  \/ /\ ~registered[r.id] \/ m_state[r.id] # "CS_DB_WAIT"
              /\ UNCHANGED <<m_state, job>>
           \/ /\ registered[r.id] /\ m_state[r.id] = "CS_DB_WAIT"
              /\ Failed(r)
              /\ m_state' = [m_state EXCEPT ![r.id] = "CS_LOGOUT"]
              /\ UNCHANGED job
           \/ /\ registered[r.id] /\ m_state[r.id] = "CS_DB_WAIT"
              /\ ~Failed(r)
              /\ Do(w, "db_load", r.id, r.val)
              /\ UNCHANGED m_state
    /\ UNCHANGED <<deployment, conn, conn_of, player_index, registered, progress, in_sector, socket,
                   recv_posted, db_queue, rows, gained>>

DbLoad(w) ==
    LET id == job[w].id
    IN  /\ At(w, "db_load")
        /\ progress' = [progress EXCEPT ![id] = job[w].val]
        /\ m_state' = [m_state EXCEPT ![id] = "CS_PLAYING"]
        /\ Do(w, "db_enter", id, 0)
        /\ UNCHANGED <<deployment, conn, conn_of, player_index, registered, in_sector, socket,
                       recv_posted, port, db_queue, rows, gained>>

DbEnter(w) ==
    LET id == job[w].id
    IN  /\ At(w, "db_enter")
        /\ in_sector' = [in_sector EXCEPT ![id] = TRUE]
        /\ Answer(id)
        /\ Done(w)
        /\ UNCHANGED <<deployment, conn_of, player_index, registered, m_state, progress, socket,
                       recv_posted, port, db_queue, rows, gained>>

\* Mutant: the state is reset before the save looks at it.
LostUnsaved(w) ==
    /\ Ready(w)
    /\ port # <<>>
    /\ Head(port).kind \in {"eof", "senderr"}
    /\ port' = Tail(port)
    /\ IF registered[Head(port).id] THEN Do(w, "logout", Head(port).id, 0)
                                    ELSE UNCHANGED job
    /\ UNCHANGED <<deployment, conn, sessionVars, recv_posted, db_queue, rows, gained>>

\* A receive without bytes, or a failed send: disconnect(id).
Lost(w) ==
    /\ Ready(w)
    /\ port # <<>>
    /\ Head(port).kind \in {"eof", "senderr"}
    /\ port' = Tail(port)
    /\ IF registered[Head(port).id] THEN Do(w, "save", Head(port).id, 0)
                                    ELSE UNCHANGED job
    /\ UNCHANGED <<deployment, conn, sessionVars, recv_posted, db_queue, rows, gained>>

\* disconnect step by step: db_push_save (which skips bots) of a playing
\* session, the state, the sector, then socket and clients.
DiscSave(w) ==
    LET id == job[w].id
        push == m_state[id] = "CS_PLAYING" /\ ~IsBot(id)
    IN  /\ At(w, "save")
        /\ db_queue' = IF push THEN Append(db_queue, Event("DB_SAVE", id, progress[id]))
                               ELSE db_queue
        /\ Do(w, "logout", id, 0)
        /\ UNCHANGED <<deployment, conn, conn_of, player_index, registered, m_state, progress,
                       in_sector, socket, recv_posted, port, rows, gained>>

DiscLogout(w) ==
    LET id == job[w].id
    IN  /\ At(w, "logout")
        /\ m_state' = [m_state EXCEPT ![id] = "CS_LOGOUT"]
        /\ Do(w, "leave", id, 0)
        /\ UNCHANGED <<deployment, conn, conn_of, player_index, registered, progress, in_sector,
                       socket, recv_posted, port, db_queue, rows, gained>>

\* Mutant: the sector keeps the id.
DiscStay(w) ==
    /\ At(w, "leave")
    /\ Do(w, "free", job[w].id, 0)
    /\ UNCHANGED <<deployment, conn, sessionVars, recv_posted, port, db_queue, rows, gained>>

DiscLeave(w) ==
    LET id == job[w].id
    IN  /\ At(w, "leave")
        /\ in_sector' = [in_sector EXCEPT ![id] = FALSE]
        /\ Do(w, "free", id, 0)
        /\ UNCHANGED <<deployment, conn, conn_of, player_index, registered, m_state, progress,
                       socket, recv_posted, port, db_queue, rows, gained>>

DiscFree(w) ==
    LET id == job[w].id
    IN  /\ At(w, "free")
        /\ socket' = [socket EXCEPT ![id] = FALSE]
        /\ registered' = [registered EXCEPT ![id] = FALSE]
        /\ Done(w)
        /\ UNCHANGED <<deployment, conn, conn_of, player_index, m_state, progress, in_sector,
                       recv_posted, port, db_queue, rows, gained>>
-----------------------------------------------------------------------------
(***************************************************************************)
(* The database thread serves its queue in order; -1 is a refused login.   *)
(***************************************************************************)
DbServe ==
    /\ db_queue # <<>>
    /\ db_queue' = Tail(db_queue)
    /\ LET ev == Head(db_queue)
       IN  \/ /\ ev.kind = "DB_LOGIN"
              /\ \E v \in {rows[Account(ev.id)]} \cup (IF deployment.dbFails THEN {-1} ELSE {}) :
                    port' = Append(port, Event("db", ev.id, v))
              /\ UNCHANGED rows
           \/ /\ ev.kind = "DB_SAVE"
              /\ rows' = [rows EXCEPT ![Account(ev.id)] = ev.val]
              /\ UNCHANGED port
    /\ UNCHANGED <<deployment, conn, sessionVars, recv_posted, job, gained>>

Client == \/ \E c \in Conns : Connect(c)
          \/ \E id \in Ids : SendLogin(id) \/ SendPlay(id) \/ Close(id)

\* What worker w does.
Work(w) ==
    \/ Accept(w)
    \/ Dequeue(w) \/ LoginDb(w) \/ LoginBot(w) \/ BotEnter(w) \/ Play(w) \/ Drop(w)
    \/ DbResult(w) \/ DbLoad(w) \/ DbEnter(w)
    \/ Lost(w) \/ DiscSave(w) \/ DiscLogout(w) \/ DiscLeave(w) \/ DiscFree(w)

Next == Client \/ DbServe \/ \E w \in Workers : Work(w)

\* The threads of the server run; clients owe nothing.
Fairness == WF_vars(DbServe) /\ \A w \in Workers : WF_vars(Work(w))

Spec == Init /\ [][Next]_vars
FairSpec == Spec /\ Fairness
-----------------------------------------------------------------------------
Quiet == \A w \in Workers : Free(w)
Serial == Cardinality(deployment.workers) = 1

\* Between handlers, only a session that plays and is in clients is listed
\* in a sector: disconnect leaves no ghost behind (disconnect, IO_DB_LOGIN).
NoGhost ==
    Quiet => \A id \in Ids :
        in_sector[id] => registered[id] /\ m_state[id] = "CS_PLAYING"

\* NoGhost holds when one worker runs the handlers one after the other.
SerialNoGhost == Serial => NoGhost

\* With one worker, a login restores all the progress the account made before:
\* the save of the previous session is in the row before the login reads it
\* (the order of db_queue, the single database thread).
ProgressRestored ==
    [][Serial => \A w \in Workers : DbLoad(w) => job[w].val = gained[Account(job[w].id)]]_vars

\* When a client has closed its connection, the server frees the session.
ClosedIsFreed ==
    \A id \in Ids :
        (conn_of[id] # NOBODY /\ conn[conn_of[id]] = "closed")
            ~> (~registered[id] /\ ~socket[id])

\* A client that asked to log in gets an answer, unless it goes away or the
\* database may refuse it (which nobody tells the client).
LoginAnswered ==
    \A c \in Conns : conn[c] = "waiting" /\ ~deployment.dbFails
                        ~> conn[c] \in {"in", "closed"}
=============================================================================
