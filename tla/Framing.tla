------------------------------ MODULE Framing ------------------------------
(***************************************************************************)
(* How the three programs cut the byte stream of a connection into packets *)
(* whose first byte is their size: the server (IO_RECV in worker_thread,   *)
(* SESSION::do_recv), the game client (recv_thread_fn) and the bots of the *)
(* stress test (OP_RECV in Worker_Thread).                                 *)
(*                                                                         *)
(* Of the bytes only the size bytes matter: ByteAt gives the byte at an    *)
(* offset of the stream, 0 inside a packet.  A receive returns any part of *)
(* what was sent and not yet read, as TCP does.                            *)
(***************************************************************************)
EXTENDS Integers, Sequences

CONSTANTS
    Readers,    \* which of "server", "client", "bot" are looked at
    Sizes,      \* sizes of packets in bytes
    BufLen,     \* per reader, bytes a receive may fill (BUF_SIZE, buf, IOCP_buf)
    MAX_BYTES   \* bound on the bytes sent

ASSUME FramingAssumption ==
    /\ Readers \subseteq {"server", "client", "bot"}
    /\ Sizes \subseteq Nat \ {0}
    /\ BufLen \in [Readers -> Nat \ {0}]
    /\ \A r \in Readers, n \in Sizes : n <= BufLen[r]
    /\ MAX_BYTES \in Nat

VARIABLES
    reader,   \* which program reads
    sent,     \* packets the peer sent, each [from, to]
    base,     \* bytes of the stream already handled
    held,     \* bytes behind base in the buffer: data_size and m_prev_recv of
              \* the server, stored of the client, pr_size of the bot
    fresh,    \* io_size of the bot: bytes of this receive not looked at yet
    psize,    \* curr_packet_size of the bot, 0 when not known
    handled,  \* packets given to process_packet, handle_packet, ProcessPacket
    pc,       \* "recv": a receive is outstanding; "cut": its bytes are cut
    running   \* no handler has ended the connection

vars == <<reader, sent, base, held, fresh, psize, handled, pc, running>>

Stream == INSTANCE PacketStream WITH Sizes <- Sizes, sent <- sent, handled <- handled

Total == Stream!End(sent)
ByteAt(o) == IF \E i \in 1 .. Len(sent) : sent[i].from = o
             THEN LET p == sent[CHOOSE i \in 1 .. Len(sent) : sent[i].from = o]
                  IN p.to - p.from + 1
             ELSE 0

Init ==
    /\ reader \in Readers
    /\ sent = <<>>
    /\ base = 0
    /\ held = 0
    /\ fresh = 0
    /\ psize = 0
    /\ handled = <<>>
    /\ pc = "recv"
    /\ running = TRUE

\* The peer sends a packet (net_send, SendPacket, do_send).
Send ==
    /\ \E n \in Sizes :
          /\ Total + n <= MAX_BYTES
          /\ sent' = Append(sent, [from |-> Total + 1, to |-> Total + n])
    /\ UNCHANGED <<reader, base, held, fresh, psize, handled, pc, running>>

\* Mutant: the server receives over the bytes it still holds.
RoomWhole == BufLen[reader]

\* The length given to the receive: the bot keeps the rest of a packet in a
\* buffer of its own, the others in front of the buffer they receive into.
Room == IF reader = "bot" THEN BufLen[reader] ELSE BufLen[reader] - held

\* A receive completes with some of the bytes that arrived.
Receive ==
    /\ pc = "recv"
    /\ \E k \in 1 .. Room :
          /\ base + held + k <= Total
          /\ IF reader = "bot" THEN fresh' = k /\ UNCHANGED held
                               ELSE held' = held + k /\ UNCHANGED fresh
    /\ pc' = "cut"
    /\ UNCHANGED <<reader, sent, base, psize, handled, running>>

\* The packet of n bytes at the front of the buffer goes to the handler.
Handle(n) ==
    /\ handled' = Append(handled, [from |-> base + 1, to |-> base + n])
    /\ base' = base + n

\* Mutant: a packet that ends with the data is left for the next receive.
WholeLate(n) == n < held

\* The buffer of the server or the client starts with a whole packet.
Whole(n) == n <= held

\* One round of the loop in worker_thread or recv_thread_fn.
CutFront ==
    /\ pc = "cut" /\ reader # "bot"
    /\ held > 0
    /\ LET n == ByteAt(base + 1) IN
          /\ Whole(n)
          /\ reader = "client" => n # 0
          /\ Handle(n)
          /\ held' = held - n
    /\ UNCHANGED <<reader, sent, fresh, psize, pc, running>>

\* process_packet returned false: the server disconnects and the loop ends.
Refuse ==
    /\ pc = "cut" /\ reader = "server"
    /\ held > 0
    /\ Whole(ByteAt(base + 1))
    /\ running' = FALSE
    /\ pc' = "closed"
    /\ UNCHANGED <<reader, sent, base, held, fresh, psize, handled>>

\* The size of the packet the bot is collecting.
Expected == IF psize = 0 THEN ByteAt(base + held + 1) ELSE psize

\* Mutant: the size of the packet just handled is used for the next one.
NextSizeKept(n) == psize' = n
NextSize(n) == psize' = 0

\* One round of the loop of the bot that completes a packet ...
BotWhole ==
    /\ pc = "cut" /\ reader = "bot"
    /\ fresh > 0
    /\ fresh + held >= Expected
    /\ Handle(Expected)
    /\ fresh' = fresh - (Expected - held)
    /\ held' = 0
    /\ NextSize(Expected)
    /\ UNCHANGED <<reader, sent, pc, running>>

\* ... and one that moves the rest of the receive to packet_buf.
BotPart ==
    /\ pc = "cut" /\ reader = "bot"
    /\ fresh > 0
    /\ fresh + held < Expected
    /\ psize' = Expected
    /\ held' = held + fresh
    /\ fresh' = 0
    /\ UNCHANGED <<reader, sent, base, handled, pc, running>>

\* The handler of the client or the bot ends the connection (a refused login,
\* DisconnectClient): the packets already received are still cut.
EndByHandler ==
    /\ pc = "cut" /\ reader # "server"
    /\ handled # <<>> /\ running
    /\ running' = FALSE
    /\ UNCHANGED <<reader, sent, base, held, fresh, psize, handled, pc>>

\* Nothing more to cut: the next receive is posted, unless the connection is
\* closed.
Repost ==
    /\ pc = "cut"
    /\ IF reader = "bot" THEN fresh = 0
       ELSE LET n == ByteAt(base + 1)
            IN held = 0 \/ ~Whole(n) \/ (reader = "client" /\ n = 0)
    /\ pc' = IF running THEN "recv" ELSE "closed"
    /\ UNCHANGED <<reader, sent, base, held, fresh, psize, handled, running>>

\* The connection breaks: the receive fails or returns nothing.
Break ==
    /\ pc = "recv"
    /\ pc' = "closed"
    /\ UNCHANGED <<reader, sent, base, held, fresh, psize, handled, running>>

Cut == CutFront \/ BotWhole \/ BotPart \/ Repost

Next == Send \/ Receive \/ Cut \/ Refuse \/ EndByHandler \/ Break

Spec == Init /\ [][Next]_vars

\* Workers and the receiving thread keep running.
FairSpec == Spec /\ WF_vars(Receive) /\ WF_vars(Cut)
-----------------------------------------------------------------------------
\* However TCP splits the stream, the handler is given exactly the packets
\* that were sent, whole, once and in order.
ImplementsStream == Stream!StreamSpec

\* The buffer is never overrun, and a receive is never posted without room:
\* it would complete with 0 bytes, which all three programs take for the end
\* of the connection.
RoomToRead == /\ held <= BufLen[reader]
              /\ pc = "recv" => Room > 0 /\ held < BufLen[reader]

\* Every packet is handled in the end, unless the connection ends first.
AllHandled ==
    \A n \in 1 .. MAX_BYTES :
        Len(sent) >= n ~> Len(handled) >= n \/ pc = "closed"
=============================================================================
