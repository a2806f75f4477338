------------------------------ MODULE SendQueue ------------------------------
(***************************************************************************)
(* The send path of one session (session.cpp do_send .. on_send_complete,  *)
(* network.cpp disconnect and the IO_SEND part of worker_thread), with the *)
(* worker threads interleaved at every lock, unlock and system call.       *)
(*                                                                         *)
(* A packet is the interval of stream offsets its bytes get when do_send   *)
(* accepts it; a batch is the interval it covers.  The socket and the      *)
(* completion port are external: sends are carried out in the order they   *)
(* were posted, each completes once, and a broken connection stays broken. *)
(***************************************************************************)
EXTENDS Integers, Sequences

CONSTANTS
    Workers,          \* worker threads
    Sizes,            \* packet sizes in bytes
    SEND_BATCH_SIZE,  \* bytes a batch may hold
    MaxPacket,        \* bytes of the largest packet (BUF_SIZE)
    MAX_BYTES,        \* bound on the bytes accepted
    TransientFailure  \* WSASend may fail on a working connection

ASSUME SendAssumption ==
    /\ SEND_BATCH_SIZE \in Nat \ {0}
    /\ MaxPacket \in Nat
    /\ Sizes \subseteq 1 .. MaxPacket
    /\ MAX_BYTES \in Nat
    /\ TransientFailure \in BOOLEAN

VARIABLES
    accepted,        \* bytes accepted by do_send so far
    m_send_queue,    \* packets waiting, each [from, to]
    m_send_pending,  \* somebody is responsible for the queue
    m_client,        \* the socket is open
    registered,      \* clients[key] still holds the session
    pc,              \* where each worker is
    over,            \* the batch a worker holds
    kernel,          \* batches handed to WSASend, oldest first
    port,            \* completions of sends not yet dequeued
    recv_posted,     \* the overlapped receive is outstanding
    broken,          \* the connection is reset or closed by the client
    wire             \* what the client received

vars == <<accepted, m_send_queue, m_send_pending, m_client, registered, pc,
          over, kernel, port, recv_posted, broken, wire>>

Chunk == [from : Nat, to : Nat]
NoChunk == [from |-> 1, to |-> 0]
Size(c) == c.to - c.from + 1

PCs == {"idle", "do_send", "start", "post", "fail", "disconnect", "close", "unregister"}

Init ==
    /\ accepted = 0
    /\ m_send_queue = <<>>
    /\ m_send_pending = FALSE
    /\ m_client = TRUE
    /\ registered = TRUE
    /\ pc = [w \in Workers |-> "idle"]
    /\ over = [w \in Workers |-> NoChunk]
    /\ kernel = <<>>
    /\ port = <<>>
    /\ recv_posted = TRUE
    /\ broken = FALSE
    /\ wire = [count |-> 0, edge |-> 0]

Goto(w, l) == pc' = [pc EXCEPT ![w] = l]
Hold(w, c) == over' = [over EXCEPT ![w] = c]

\* A handler obtained the session from clients and is about to send to it.
Caller(w) ==
    /\ pc[w] = "idle"
    /\ registered
    /\ accepted < MAX_BYTES
    /\ Goto(w, "do_send")
    /\ UNCHANGED <<accepted, m_send_queue, m_send_pending, m_client, registered,
                   over, kernel, port, recv_posted, broken, wire>>

\* Mutant: every caller starts a send.
StartAlways(w) == Goto(w, "start")

\* The caller that finds no send pending starts one.
HandOver(w) == Goto(w, IF m_send_pending THEN "idle" ELSE "start")

\* do_send under m_send_mutex.
DoSend(w) ==
    /\ pc[w] = "do_send"
    /\ \/ /\ ~m_client
          /\ Goto(w, "idle")
          /\ UNCHANGED <<accepted, m_send_queue, m_send_pending>>
       \/ /\ m_client
          /\ \E n \in Sizes :
                /\ accepted' = accepted + n
                /\ m_send_queue' = Append(m_send_queue,
                                          [from |-> accepted + 1, to |-> accepted + n])
          /\ m_send_pending' = TRUE
          /\ HandOver(w)
    /\ UNCHANGED <<m_client, registered, over, kernel, port, recv_posted, broken, wire>>

\* Mutant: the batch takes whatever waits.
FitsAlways(q, k) == TRUE

\* How many packets the loop of start_next_send takes from q: at least one,
\* then all that follow while the batch stays within SEND_BATCH_SIZE.
Fits(q, k) == k = 1 \/ q[k].to - q[1].from + 1 <= SEND_BATCH_SIZE
Taken(q, k) == /\ k \in 1 .. Len(q)
               /\ \A j \in 1 .. k : Fits(q, j)
               /\ k < Len(q) => ~Fits(q, k + 1)

\* Mutant: the responsibility for the queue is not given back.
DrainedPending(w) ==
    /\ ~m_client \/ m_send_queue = <<>>
    /\ Goto(w, "idle")
    /\ UNCHANGED <<m_send_queue, m_send_pending, over>>

\* Nothing to send, or nowhere to.
Drained(w) ==
    /\ ~m_client \/ m_send_queue = <<>>
    /\ m_send_pending' = FALSE
    /\ Goto(w, "idle")
    /\ UNCHANGED <<m_send_queue, over>>

\* The front of the queue becomes the next batch.
TakeBatch(w) ==
    /\ m_client
    /\ \E k \in 1 .. Len(m_send_queue) :
          /\ Taken(m_send_queue, k)
          /\ Hold(w, [from |-> m_send_queue[1].from, to |-> m_send_queue[k].to])
          /\ m_send_queue' = SubSeq(m_send_queue, k + 1, Len(m_send_queue))
    /\ Goto(w, "post")
    /\ UNCHANGED m_send_pending

\* start_next_send under m_send_mutex.
StartNextSend(w) ==
    /\ pc[w] = "start"
    /\ Drained(w) \/ TakeBatch(w)
    /\ UNCHANGED <<accepted, m_client, registered, kernel, port, recv_posted, broken, wire>>

\* post_send: WSASend takes the batch, or fails.
PostSend(w) ==
    /\ pc[w] = "post"
    /\ Hold(w, NoChunk)
    /\ \/ /\ m_client /\ ~broken
          /\ kernel' = Append(kernel, over[w])
          /\ Goto(w, "idle")
       \/ /\ ~m_client \/ broken \/ TransientFailure
          /\ Goto(w, "fail")
          /\ UNCHANGED kernel
    /\ UNCHANGED <<accepted, m_send_queue, m_send_pending, m_client, registered, port,
                   recv_posted, broken, wire>>

\* fail_send under m_send_mutex.
FailSend(w) ==
    /\ pc[w] = "fail"
    /\ m_send_queue' = <<>>
    /\ m_send_pending' = FALSE
    /\ Goto(w, "disconnect")
    /\ UNCHANGED <<accepted, m_client, registered, over, kernel, port, recv_posted,
                   broken, wire>>

\* disconnect: nothing to do when somebody else has finished it.
Disconnect(w) ==
    /\ pc[w] = "disconnect"
    /\ Goto(w, IF registered THEN "close" ELSE "idle")
    /\ UNCHANGED <<accepted, m_send_queue, m_send_pending, m_client, registered, over,
                   kernel, port, recv_posted, broken, wire>>

CloseSocket(w) ==
    /\ pc[w] = "close"
    /\ m_client' = FALSE
    /\ Goto(w, "unregister")
    /\ UNCHANGED <<accepted, m_send_queue, m_send_pending, registered, over, kernel,
                   port, recv_posted, broken, wire>>

Unregister(w) ==
    /\ pc[w] = "unregister"
    /\ registered' = FALSE
    /\ Goto(w, "idle")
    /\ UNCHANGED <<accepted, m_send_queue, m_send_pending, m_client, over, kernel,
                   port, recv_posted, broken, wire>>

\* Mutant: a partial send is posted again from its first byte.
Resent(c) == c.chunk

\* What a send that completed partly has left.
Rest(c) == [c.chunk EXCEPT !.from = @ + c.sent]

\* A worker dequeues the completion of a send.
Completion(w) ==
    /\ pc[w] = "idle"
    /\ port # <<>>
    /\ port' = Tail(port)
    /\ LET c == Head(port)
       IN  \/ /\ ~c.ok                             \* GQCS error
              /\ Goto(w, "disconnect")
              /\ UNCHANGED over
           \/ /\ c.ok /\ ~registered
              /\ Goto(w, "idle")
              /\ UNCHANGED over
           \/ /\ c.ok /\ registered /\ c.sent = 0
              /\ Goto(w, "fail")
              /\ UNCHANGED over
           \/ /\ c.ok /\ registered /\ c.sent > 0 /\ c.sent < Size(c.chunk)
              /\ Hold(w, Rest(c))
              /\ Goto(w, "post")
           \/ /\ c.ok /\ registered /\ c.sent = Size(c.chunk)
              /\ Goto(w, "start")
              /\ UNCHANGED over
    /\ UNCHANGED <<accepted, m_send_queue, m_send_pending, m_client, registered, kernel,
                   recv_posted, broken, wire>>

\* Mutant: the end of the connection goes unnoticed.
RecvIgnored(w) ==
    /\ pc[w] = "idle"
    /\ recv_posted
    /\ broken \/ ~m_client
    /\ recv_posted' = FALSE
    /\ UNCHANGED <<accepted, m_send_queue, m_send_pending, m_client, registered, pc,
                   over, kernel, port, broken, wire>>

\* The outstanding receive completes with an error or with no bytes.
RecvClosed(w) ==
    /\ pc[w] = "idle"
    /\ recv_posted
    /\ broken \/ ~m_client
    /\ recv_posted' = FALSE
    /\ Goto(w, "disconnect")
    /\ UNCHANGED <<accepted, m_send_queue, m_send_pending, m_client, registered, over,
                   kernel, port, broken, wire>>

\* The stack carries out the oldest send, the whole or a part of it.
KernelSend ==
    /\ kernel # <<>>
    /\ ~broken /\ m_client
    /\ kernel' = Tail(kernel)
    /\ LET c == Head(kernel)
       IN  \E n \in 1 .. Size(c) :
              /\ wire' = [count |-> wire.count + n, edge |-> c.from + n - 1]
              /\ port' = Append(port, [chunk |-> c, sent |-> n, ok |-> TRUE])
    /\ UNCHANGED <<accepted, m_send_queue, m_send_pending, m_client, registered, pc,
                   over, recv_posted, broken>>

\* A send of a broken or closed connection completes without sending.
KernelAbort ==
    /\ kernel # <<>>
    /\ broken \/ ~m_client
    /\ kernel' = Tail(kernel)
    /\ \E ok \in BOOLEAN :
          port' = Append(port, [chunk |-> Head(kernel), sent |-> 0, ok |-> ok])
    /\ UNCHANGED <<accepted, m_send_queue, m_send_pending, m_client, registered, pc,
                   over, recv_posted, broken, wire>>

Break ==
    /\ ~broken
    /\ broken' = TRUE
    /\ UNCHANGED <<accepted, m_send_queue, m_send_pending, m_client, registered, pc,
                   over, kernel, port, recv_posted, wire>>

\* What worker w does without waiting for a new request.
Step(w) ==
    \/ DoSend(w) \/ StartNextSend(w) \/ PostSend(w) \/ FailSend(w)
    \/ Disconnect(w) \/ CloseSocket(w) \/ Unregister(w)

Next ==
    \/ \E w \in Workers : Caller(w) \/ Step(w) \/ Completion(w) \/ RecvClosed(w)
    \/ KernelSend \/ KernelAbort
    \/ Break

(***************************************************************************)
(* Fairness: threads run, a posted send completes, and a completion that   *)
(* waits is dequeued by some worker.                                       *)
(***************************************************************************)
Fairness ==
    /\ \A w \in Workers : WF_vars(Step(w))
    /\ WF_vars(KernelSend \/ KernelAbort)
    /\ SF_vars(\E w \in Workers : Completion(w))
    /\ SF_vars(\E w \in Workers : RecvClosed(w))

Spec == Init /\ [][Next]_vars
FairSpec == Spec /\ Fairness
-----------------------------------------------------------------------------
Completed == [chunk : Chunk, sent : Nat, ok : BOOLEAN]

\* Every variable has its type.
TypeOK ==
    /\ accepted \in Nat
    /\ m_send_queue \in Seq(Chunk)
    /\ m_send_pending \in BOOLEAN
    /\ m_client \in BOOLEAN
    /\ registered \in BOOLEAN
    /\ pc \in [Workers -> PCs]
    /\ over \in [Workers -> Chunk]
    /\ kernel \in Seq(Chunk)
    /\ port \in Seq(Completed)
    /\ recv_posted \in BOOLEAN
    /\ broken \in BOOLEAN
    /\ wire \in [count : Nat, edge : Nat]

\* The threads responsible for the queue: between finding it idle and
\* handing a batch to the socket.
Sending == { w \in Workers : pc[w] \in {"start", "post", "fail"} }

\* At most one send is under way, whichever threads call do_send and handle
\* completions, and m_send_pending says so: two WSASend calls of a session
\* never overlap (do_send, start_next_send, on_send_complete).
OneSender ==
    /\ Len(kernel) + Len(port) <= 1
    /\ \A v, w \in Sending : v = w
    /\ Sending # {} => kernel = <<>> /\ port = <<>>
    /\ Sending # {} \/ kernel # <<>> => m_send_pending

\* Nothing waits for nobody: while the socket is open, a queue with packets
\* has a thread, a posted send or a completion that will drain it, or some
\* thread is about to close the socket (the hand-over of m_send_pending
\* between do_send and the end of start_next_send).
NoStall ==
    m_client /\ m_send_queue # <<>> =>
        \/ Sending # {} \/ kernel # <<>> \/ port # <<>>
        \/ \E w \in Workers : pc[w] \in {"disconnect", "close"}

\* What is handed to WSASend fits SEND_BATCH_SIZE unless it is one packet
\* that is larger, and it is never empty: a send of no bytes would complete
\* with none and be taken for a failure (start_next_send, on_send_complete).
BatchFits ==
    \A w \in Workers : pc[w] = "post" =>
        /\ Size(over[w]) >= 1
        /\ Size(over[w]) <= SEND_BATCH_SIZE \/ Size(over[w]) <= MaxPacket

Pipe == INSTANCE BytePipe WITH MaxPacket <- MaxPacket, accepted <- accepted, wire <- wire

\* The client receives exactly a prefix of the accepted stream, whatever
\* threads interleave, sends complete partly, or connections break.
ImplementsPipe == Pipe!PipeSpec

\* Even when WSASend fails on a working connection and the queue is thrown
\* away, no byte is delivered twice or after a later one (fail_send).
NoReorder ==
    [][wire' # wire => wire'.edge - wire.edge >= wire'.count - wire.count]_vars

\* Every accepted packet reaches the client unless the connection ends.
AllDelivered ==
    \A n \in 1 .. MAX_BYTES :
        accepted >= n ~> (wire.edge >= n \/ broken \/ ~m_client)

\* A connection that breaks is always cleaned up: the socket is closed and
\* the session leaves clients, whether a send or the receive notices.
BrokenIsClosed == broken ~> (~m_client /\ ~registered)
=============================================================================
