------------------------------ MODULE BytePipe ------------------------------
(***************************************************************************)
(* What the send path of a session promises its callers: the bytes of the  *)
(* packets it accepts form one stream, and the client receives a prefix of *)
(* that stream, in order, without a gap and without a repetition.          *)
(***************************************************************************)
EXTENDS Integers

CONSTANTS MaxPacket  \* bytes of the largest packet

VARIABLES accepted,  \* bytes of all packets accepted so far
          wire       \* count: bytes the client received; edge: stream
                     \* offset of the last of them

pvars == <<accepted, wire>>

PipeInit == accepted = 0 /\ wire = [count |-> 0, edge |-> 0]

Accept == /\ \E n \in 1 .. MaxPacket : accepted' = accepted + n
          /\ UNCHANGED wire

\* The client receives the next k bytes of the stream.
Deliver == /\ \E k \in 1 .. accepted - wire.edge :
                wire' = [count |-> wire.count + k, edge |-> wire.edge + k]
           /\ UNCHANGED accepted

PipeSpec == PipeInit /\ [][Accept \/ Deliver]_pvars
=============================================================================
