---------------------------- MODULE PacketStream ----------------------------
(***************************************************************************)
(* What a reader of the game protocol promises its packet handler: whole   *)
(* packets, each once, in the order the peer sent them.  A packet is the   *)
(* interval of stream offsets that its bytes occupy.                       *)
(***************************************************************************)
EXTENDS Integers, Sequences

CONSTANTS Sizes      \* sizes of packets in bytes

VARIABLES sent,      \* packets the peer sent
          handled    \* packets given to the handler

End(s) == IF s = <<>> THEN 0 ELSE s[Len(s)].to

StreamInit == sent = <<>> /\ handled = <<>>

SendPacket == /\ \E n \in Sizes :
                   sent' = Append(sent, [from |-> End(sent) + 1, to |-> End(sent) + n])
              /\ UNCHANGED handled

HandlePacket == /\ Len(handled) < Len(sent)
                /\ handled' = Append(handled, sent[Len(handled) + 1])
                /\ UNCHANGED sent

StreamSpec == StreamInit /\ [][SendPacket \/ HandlePacket]_<<sent, handled>>
=============================================================================
