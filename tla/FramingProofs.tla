--------------------------- MODULE FramingProofs ---------------------------
(***************************************************************************)
(* However TCP splits the stream, and for every size of packets and of     *)
(* buffers, Framing hands over the packets that were sent (it implements   *)
(* PacketStream) and never posts a receive without room.                   *)
(***************************************************************************)
EXTENDS Framing, TLAPS

Packets == [from : Nat, to : Nat]
SizeOf(p) == p.to - p.from + 1

\* The packet that is cut next.
Pending == Len(handled) + 1

FTypeOK ==
    /\ reader \in Readers
    /\ sent \in Seq(Packets) /\ handled \in Seq(Packets)
    /\ base \in Nat /\ held \in Nat /\ fresh \in Nat /\ psize \in Nat
    /\ pc \in {"recv", "cut", "closed"}

\* The packets that were sent follow each other without a gap.
Contiguous ==
    /\ \A i \in 1 .. Len(sent) :
          /\ SizeOf(sent[i]) \in Sizes
          /\ sent[i].from = IF i = 1 THEN 1 ELSE sent[i - 1].to + 1
    /\ \A i, j \in 1 .. Len(sent) : i < j => sent[i].to < sent[j].from

\* The packets handled are the first ones sent and end at base.
Prefix ==
    /\ Len(handled) <= Len(sent)
    /\ \A i \in 1 .. Len(handled) : handled[i] = sent[i]
    /\ base = Stream!End(handled)

\* What the buffers hold was sent; between receives it is less than a packet.
Buffered ==
    /\ base + held + fresh <= Total
    /\ held <= BufLen[reader]
    /\ (pc = "recv" /\ held > 0) =>
          Pending <= Len(sent) /\ held < SizeOf(sent[Pending])
    /\ reader # "bot" => fresh = 0
    /\ reader = "bot" =>
          /\ pc = "recv" => fresh = 0
          /\ psize = 0 => held = 0
          /\ psize # 0 => /\ Pending <= Len(sent)
                          /\ psize = SizeOf(sent[Pending])
                          /\ held < psize

FInv == FTypeOK /\ Contiguous /\ Prefix /\ Buffered

-----------------------------------------------------------------------------
\* A packet has two offsets.
LEMMA PacketFields ==
    ASSUME NEW p \in Packets
    PROVE  p.from \in Nat /\ p.to \in Nat /\ SizeOf(p) \in Int
  BY DEF Packets, SizeOf

\* An element of a sequence of packets is a packet.
LEMMA PacketAt ==
    ASSUME NEW s \in Seq(Packets), NEW i \in 1 .. Len(s)
    PROVE  s[i] \in Packets
  OBVIOUS

\* The end of a stream is an offset.
LEMMA EndNat ==
    ASSUME NEW s \in Seq(Packets)
    PROVE  Stream!End(s) \in Nat
  <1>1. CASE s = <<>>
    BY <1>1 DEF Stream!End
  <1>2. CASE s # <<>>
    <2>1. Len(s) \in 1 .. Len(s)
      BY <1>2
    <2>2. s[Len(s)].to \in Nat
      BY <2>1, PacketAt, PacketFields
    <2> QED BY <2>2, <1>2 DEF Stream!End
  <1> QED BY <1>1, <1>2

\* When bytes behind base were sent, base is where the next packet starts,
\* and the byte there is its size.
LEMMA NextByte ==
    ASSUME FInv, base < Total
    PROVE  /\ Pending \in 1 .. Len(sent)
           /\ sent[Pending] \in Packets
           /\ sent[Pending].from = base + 1
           /\ SizeOf(sent[Pending]) \in Sizes
           /\ SizeOf(sent[Pending]) \in Nat \ {0}
           /\ ByteAt(base + 1) = SizeOf(sent[Pending])
  <1>1. Len(sent) \in Nat /\ Len(handled) \in Nat
    BY DEF FInv, FTypeOK
  <1>2. Len(handled) # Len(sent)
    <2>1. SUFFICES ASSUME Len(handled) = Len(sent) PROVE FALSE
      OBVIOUS
    <2>2. CASE sent = <<>>
      BY <2>1, <2>2, <1>1 DEF FInv, FTypeOK, Prefix, Total, Stream!End
    <2>3. CASE sent # <<>>
      <3>1. Len(sent) \in 1 .. Len(sent) /\ handled # <<>>
        BY <2>1, <2>3 DEF FInv, FTypeOK
      <3>2. handled[Len(handled)] = sent[Len(sent)]
        BY <2>1, <3>1 DEF FInv, Prefix
      <3> QED BY <3>1, <3>2, <2>3 DEF FInv, FTypeOK, Prefix, Total, Stream!End
    <2> QED BY <2>2, <2>3
  <1>3. Pending \in 1 .. Len(sent)
    BY <1>1, <1>2 DEF FInv, Prefix, Pending
  <1>4. sent[Pending] \in Packets /\ sent[Pending].from \in Nat /\ sent[Pending].to \in Nat
    BY <1>3, PacketAt, PacketFields DEF FInv, FTypeOK
  <1>5. SizeOf(sent[Pending]) \in Sizes /\ SizeOf(sent[Pending]) \in Nat \ {0}
    BY <1>3, FramingAssumption DEF FInv, Contiguous
  <1>6. sent[Pending].from = base + 1
    <2>1. CASE handled = <<>>
      <3>1. Pending = 1 /\ base = 0
        BY <2>1 DEF Pending, FInv, Prefix, Stream!End
      <3> QED BY <3>1, <1>3 DEF FInv, Contiguous
    <2>2. CASE handled # <<>>
      <3>1. Len(handled) \in 1 .. Len(handled) /\ Pending # 1 /\ Pending - 1 = Len(handled)
        BY <2>2 DEF FInv, FTypeOK, Pending
      <3>2. base = sent[Len(handled)].to
        BY <2>2, <3>1 DEF FInv, Prefix, Stream!End
      <3> QED BY <3>1, <3>2, <1>3 DEF FInv, Contiguous
    <2> QED BY <2>1, <2>2
  <1>7. \A i \in 1 .. Len(sent) : sent[i].from = base + 1 => i = Pending
    <2>1. SUFFICES ASSUME NEW i \in 1 .. Len(sent), sent[i].from = base + 1, i # Pending
                   PROVE FALSE
      OBVIOUS
    <2>2. sent[i] \in Packets /\ sent[i].from \in Nat /\ sent[i].to \in Nat
      BY PacketAt, PacketFields DEF FInv, FTypeOK
    <2>5. SizeOf(sent[i]) \in Nat \ {0}
      BY FramingAssumption DEF FInv, Contiguous
    <2>3. i < Pending => sent[i].to < sent[Pending].from
      BY <1>3 DEF FInv, Contiguous
    <2>4. Pending < i => sent[Pending].to < sent[i].from
      BY <1>3 DEF FInv, Contiguous
    <2>6. sent[Pending].from = base + 1 /\ sent[Pending].to \in Nat /\ Pending \in Int
      BY <1>1, <1>3, <1>4, <1>5, <1>6
    <2>7. CASE i < Pending
      BY <2>1, <2>2, <2>3, <2>5, <2>6, <2>7 DEF SizeOf
    <2>8. CASE Pending < i
      BY <1>4, <1>5, <2>1, <2>2, <2>4, <2>6, <2>8 DEF SizeOf
    <2> QED BY <2>1, <2>6, <2>7, <2>8
  <1>8. (CHOOSE i \in 1 .. Len(sent) : sent[i].from = base + 1) = Pending
    BY <1>3, <1>6, <1>7
  <1>9. ByteAt(base + 1) = SizeOf(sent[Pending])
    BY <1>3, <1>6, <1>8 DEF ByteAt, SizeOf
  <1> QED BY <1>3, <1>4, <1>5, <1>6, <1>9

\* Handling a packet of the right size hands over the next packet sent.
LEMMA HandleNext ==
    ASSUME FInv, base < Total, sent' = sent, Handle(SizeOf(sent[Pending]))
    PROVE  /\ handled' = Append(handled, sent[Pending])
           /\ handled' \in Seq(Packets)
           /\ base' \in Nat
           /\ base' = base + SizeOf(sent[Pending])
           /\ Prefix'
           /\ Stream!HandlePacket
  <1> DEFINE p == sent[Pending]
  <1>1. /\ Pending \in 1 .. Len(sent) /\ p \in Packets /\ p.from = base + 1
        /\ SizeOf(p) \in Nat \ {0} /\ base \in Nat
        /\ p.from \in Nat /\ p.to \in Nat
    BY NextByte, PacketFields DEF FInv, FTypeOK
  <1>2. p = [from |-> base + 1, to |-> base + SizeOf(p)]
    BY <1>1 DEF SizeOf, Packets
  <1>3. handled' = Append(handled, p) /\ base' = base + SizeOf(p)
    BY <1>2 DEF Handle
  <1>4. /\ handled' \in Seq(Packets) /\ Len(handled') = Pending
        /\ handled'[Pending] = p
        /\ \A i \in 1 .. Len(handled) : handled'[i] = handled[i]
    BY <1>1, <1>3 DEF FInv, FTypeOK, Pending
  <1>5. base' = p.to
    BY <1>1, <1>3 DEF SizeOf
  <1>6. Prefix'
    <2>1. Len(handled') <= Len(sent')
      BY <1>1, <1>4
    <2>2. ASSUME NEW i \in 1 .. Len(handled') PROVE handled'[i] = sent'[i]
      <3>1. i = Pending \/ i \in 1 .. Len(handled)
        BY <1>4 DEF Pending, FInv, FTypeOK
      <3> QED BY <3>1, <1>4 DEF FInv, Prefix
    <2>3. handled' # <<>> /\ handled'[Len(handled')].to = p.to
      BY <1>1, <1>4
    <2>4. base' = Stream!End(handled')
      BY <2>3, <1>5 DEF Stream!End
    <2> QED BY <2>1, <2>2, <2>4 DEF Prefix, Stream!End
  <1>7. Stream!HandlePacket
    BY <1>1, <1>3 DEF Stream!HandlePacket, Pending, FInv, FTypeOK
  <1> QED BY <1>1, <1>3, <1>4, <1>6, <1>7

-----------------------------------------------------------------------------
\* A packet sent is appended to the stream and disturbs nothing else.
LEMMA SendStep ==
    ASSUME FInv, Send
    PROVE  FInv' /\ Stream!SendPacket
  <1>1. PICK n \in Sizes : sent' = Append(sent, [from |-> Total + 1, to |-> Total + n])
    BY DEF Send
  <1> DEFINE p == [from |-> Total + 1, to |-> Total + n]
  <1>2. /\ UNCHANGED <<reader, base, held, fresh, psize, handled, pc>>
        /\ n \in Nat \ {0} /\ Total \in Nat /\ Len(sent) \in Nat /\ sent \in Seq(Packets)
    BY EndNat, FramingAssumption DEF Send, FInv, FTypeOK, Total
  <1>3. p \in Packets /\ SizeOf(p) = n /\ p.from = Total + 1 /\ p.to = Total + n
    BY <1>2 DEF Packets, SizeOf
  <1>4. /\ sent' \in Seq(Packets) /\ Len(sent') = Len(sent) + 1
        /\ sent'[Len(sent) + 1] = p
        /\ \A i \in 1 .. Len(sent) : sent'[i] = sent[i]
    BY <1>1, <1>2, <1>3
  <1>5. Total' = Total + n
    BY <1>2, <1>3, <1>4 DEF Total, Stream!End
  <1>6. \A i \in 1 .. Len(sent) : sent[i].to <= Total
    <2>1. SUFFICES ASSUME NEW i \in 1 .. Len(sent) PROVE sent[i].to <= Total
      OBVIOUS
    <2>2. Len(sent) \in 1 .. Len(sent) /\ sent # <<>>
      BY <1>2
    <2>3. Total = sent[Len(sent)].to
      BY <2>2 DEF Total, Stream!End
    <2>4. /\ sent[i].to \in Nat /\ sent[Len(sent)].to \in Nat
          /\ sent[Len(sent)].from \in Nat
      BY <2>2, <1>2, PacketAt, PacketFields
    <2>5. SizeOf(sent[Len(sent)]) \in Nat \ {0}
      BY <2>2, FramingAssumption DEF FInv, Contiguous
    <2>6. i < Len(sent) => sent[i].to < sent[Len(sent)].from
      BY <2>2 DEF FInv, Contiguous
    <2> QED BY <1>2, <2>3, <2>4, <2>5, <2>6 DEF SizeOf
  <1>7. Contiguous'
    <2>1. ASSUME NEW i \in 1 .. Len(sent')
          PROVE  /\ SizeOf(sent'[i]) \in Sizes
                 /\ sent'[i].from = IF i = 1 THEN 1 ELSE sent'[i - 1].to + 1
      <3>1. CASE i \in 1 .. Len(sent)
        <4>0. Len(sent) \in Nat /\ (i # 1 => i - 1 \in 1 .. Len(sent))
          BY <3>1, <1>2
        <4>1. sent'[i] = sent[i] /\ (i # 1 => sent'[i - 1] = sent[i - 1])
          BY <3>1, <4>0, <1>4
        <4>2. /\ SizeOf(sent[i]) \in Sizes
              /\ sent[i].from = IF i = 1 THEN 1 ELSE sent[i - 1].to + 1
          BY <3>1 DEF FInv, Contiguous
        <4> QED BY <4>1, <4>2
      <3>2. CASE i = Len(sent) + 1 /\ sent = <<>>
        <4>1. Total = 0 /\ i = 1
          BY <3>2 DEF Total, Stream!End
        <4> QED BY <3>2, <4>1, <1>3, <1>4
      <3>3. CASE i = Len(sent) + 1 /\ sent # <<>>
        <4>1. Len(sent) \in 1 .. Len(sent) /\ i # 1 /\ i - 1 = Len(sent)
          BY <3>3, <1>2
        <4>2. Total = sent'[i - 1].to
          BY <3>3, <4>1, <1>4 DEF Total, Stream!End
        <4> QED BY <3>3, <4>1, <4>2, <1>3, <1>4
      <3> QED BY <3>1, <3>2, <3>3, <1>2, <1>4
    <2>2. ASSUME NEW i \in 1 .. Len(sent'), NEW j \in 1 .. Len(sent'), i < j
          PROVE  sent'[i].to < sent'[j].from
      <3>1. i \in 1 .. Len(sent)
        BY <2>2, <1>2, <1>4
      <3>2. CASE j \in 1 .. Len(sent)
        BY <2>2, <3>1, <3>2, <1>4 DEF FInv, Contiguous
      <3>3. CASE j = Len(sent) + 1
        <4>1. sent[i].to <= Total /\ sent[i].to \in Nat
          BY <3>1, <1>2, <1>6, PacketAt, PacketFields
        <4> QED BY <3>1, <3>3, <4>1, <1>2, <1>3, <1>4
      <3> QED BY <3>2, <3>3, <1>2, <1>4
    <2> QED BY <2>1, <2>2 DEF Contiguous, SizeOf
  <1>8. Prefix'
    <2>1. Len(handled) \in Nat
      BY DEF FInv, FTypeOK
    <2>2. \A i \in 1 .. Len(handled) : i \in 1 .. Len(sent)
      BY <1>2, <2>1 DEF FInv, Prefix
    <2> QED BY <1>2, <1>4, <2>1, <2>2 DEF FInv, Prefix, Stream!End
  <1>9. Pending <= Len(sent) => Pending \in 1 .. Len(sent) /\ sent'[Pending] = sent[Pending]
    BY <1>2, <1>4 DEF Pending, FInv, FTypeOK
  <1>10. Buffered'
    BY <1>2, <1>4, <1>5, <1>9 DEF FInv, FTypeOK, Buffered, Pending, SizeOf
  <1>11. FTypeOK'
    BY <1>2, <1>4 DEF FInv, FTypeOK
  <1>12. Stream!SendPacket
    BY <1>1, <1>2 DEF Stream!SendPacket, Total, Stream!End
  <1> QED BY <1>7, <1>8, <1>10, <1>11, <1>12 DEF FInv

\* A receive takes no more than fits and than was sent.
LEMMA ReceiveStep ==
    ASSUME FInv, Receive
    PROVE  FInv' /\ UNCHANGED <<sent, handled>>
  <1>1. BufLen[reader] \in Nat \ {0} /\ Total \in Nat
    BY FramingAssumption, EndNat DEF FInv, FTypeOK, Total
  <1>2. PICK k \in 1 .. Room :
           /\ base + held + k <= Total
           /\ IF reader = "bot" THEN fresh' = k /\ UNCHANGED held
                                ELSE held' = held + k /\ UNCHANGED fresh
    BY DEF Receive
  <1>3. /\ UNCHANGED <<reader, sent, base, psize, handled>> /\ pc = "recv" /\ pc' = "cut"
    BY DEF Receive
  <1>4. Room \in Int /\ k \in Nat /\ Total' = Total /\ Pending' = Pending
    BY <1>1, <1>3 DEF Room, FInv, FTypeOK, Total, Pending, Stream!End
  <1>5. FTypeOK'
    BY <1>2, <1>3, <1>4 DEF FInv, FTypeOK
  <1>6. Contiguous' /\ Prefix'
    BY <1>3 DEF FInv, Contiguous, Prefix, SizeOf, Stream!End
  <1>7. Buffered'
    <2>1. CASE reader = "bot"
      BY <2>1, <1>2, <1>3, <1>4 DEF FInv, FTypeOK, Buffered, SizeOf
    <2>2. CASE reader # "bot"
      BY <2>2, <1>1, <1>2, <1>3, <1>4 DEF FInv, FTypeOK, Buffered, Room
    <2> QED BY <2>1, <2>2
  <1> QED BY <1>3, <1>5, <1>6, <1>7 DEF FInv

\* The server or the client cuts a packet off the front of its buffer.
LEMMA CutFrontStep ==
    ASSUME FInv, CutFront
    PROVE  FInv' /\ Stream!HandlePacket
  <1>1. /\ reader # "bot" /\ held > 0 /\ Handle(ByteAt(base + 1)) /\ ByteAt(base + 1) <= held
        /\ held' = held - ByteAt(base + 1)
        /\ UNCHANGED <<reader, sent, fresh, psize, pc>> /\ pc = "cut"
    BY DEF CutFront, Whole
  <1>2. Total \in Nat /\ Total' = Total /\ base < Total
    BY <1>1, EndNat DEF FInv, FTypeOK, Buffered, Total, Stream!End
  <1>3. ByteAt(base + 1) = SizeOf(sent[Pending]) /\ SizeOf(sent[Pending]) \in Nat \ {0}
    BY <1>2, NextByte
  <1>4. /\ handled' \in Seq(Packets) /\ base' \in Nat /\ Prefix' /\ Stream!HandlePacket
        /\ base' = base + SizeOf(sent[Pending])
    BY <1>1, <1>2, <1>3, HandleNext
  <1>5. FTypeOK'
    BY <1>1, <1>3, <1>4 DEF FInv, FTypeOK
  <1>6. Contiguous'
    BY <1>1 DEF FInv, Contiguous, SizeOf
  <1>7. BufLen[reader] \in Nat
    BY FramingAssumption DEF FInv, FTypeOK
  <1>8. Buffered'
    <2>1. /\ base \in Nat /\ held \in Nat /\ fresh = 0
          /\ base + held + fresh <= Total /\ held <= BufLen[reader]
      BY <1>1 DEF FInv, FTypeOK, Buffered
    <2>2. base' + held' = base + held /\ held' \in Nat /\ held' <= held
      BY <1>1, <1>3, <1>4, <2>1
    <2>3. base' + held' + fresh' <= Total' /\ held' <= BufLen[reader]
      BY <1>1, <1>2, <1>4, <1>7, <2>1, <2>2
    <2> QED BY <1>1, <2>1, <2>3 DEF Buffered
  <1> QED BY <1>4, <1>5, <1>6, <1>8 DEF FInv

\* While the bot has fresh bytes, it knows the size of the packet.
LEMMA ExpectedSize ==
    ASSUME FInv, reader = "bot", fresh > 0
    PROVE  base < Total /\ Expected = SizeOf(sent[Pending])
  <1>1. Total \in Nat
    BY EndNat DEF FInv, FTypeOK, Total
  <1>2. base < Total
    BY <1>1 DEF FInv, FTypeOK, Buffered
  <1>3. CASE psize = 0
    <2>1. held = 0 /\ base + held + 1 = base + 1
      BY <1>3 DEF FInv, FTypeOK, Buffered
    <2> QED BY <1>2, <1>3, <2>1, NextByte DEF Expected
  <1>4. CASE psize # 0
    BY <1>2, <1>4 DEF FInv, Buffered, Expected
  <1> QED BY <1>2, <1>3, <1>4

\* The bot completes a packet.
LEMMA BotWholeStep ==
    ASSUME FInv, BotWhole
    PROVE  FInv' /\ Stream!HandlePacket
  <1>1. /\ reader = "bot" /\ fresh > 0 /\ fresh + held >= Expected /\ Handle(Expected)
        /\ fresh' = fresh - (Expected - held) /\ held' = 0 /\ psize' = 0
        /\ UNCHANGED <<reader, sent, pc>> /\ pc = "cut"
    BY DEF BotWhole, NextSize
  <1>2. base < Total /\ Expected = SizeOf(sent[Pending])
    BY <1>1, ExpectedSize
  <1>3. SizeOf(sent[Pending]) \in Nat \ {0}
    BY <1>2, NextByte
  <1>4. /\ handled' \in Seq(Packets) /\ base' \in Nat /\ Prefix' /\ Stream!HandlePacket
        /\ base' = base + SizeOf(sent[Pending])
    BY <1>1, <1>2, HandleNext
  <1>5. FTypeOK'
    BY <1>1, <1>2, <1>3, <1>4 DEF FInv, FTypeOK
  <1>6. Contiguous'
    BY <1>1 DEF FInv, Contiguous, SizeOf
  <1>7. BufLen[reader] \in Nat /\ Total \in Nat /\ Total' = Total
    BY <1>1, FramingAssumption, EndNat DEF FInv, FTypeOK, Total, Stream!End
  <1>8. Buffered'
    <2>1. /\ base \in Nat /\ held \in Nat /\ fresh \in Nat /\ Expected \in Nat
          /\ base + held + fresh <= Total
          /\ base' = base + Expected
      BY <1>2, <1>3, <1>4 DEF FInv, FTypeOK, Buffered
    <2>2. base' + held' + fresh' <= Total'
      BY <1>1, <1>7, <2>1
    <2>3. held' <= BufLen[reader]'
      BY <1>1, <1>7
    <2> QED BY <1>1, <2>2, <2>3 DEF Buffered
  <1> QED BY <1>4, <1>5, <1>6, <1>8 DEF FInv

\* The bot keeps a part of a packet for the next receive.
LEMMA BotPartStep ==
    ASSUME FInv, BotPart
    PROVE  FInv' /\ UNCHANGED <<sent, handled>>
  <1>1. /\ reader = "bot" /\ fresh > 0 /\ fresh + held < Expected
        /\ psize' = Expected /\ held' = held + fresh /\ fresh' = 0
        /\ UNCHANGED <<reader, sent, base, handled, pc>> /\ pc = "cut"
    BY DEF BotPart
  <1>2. /\ Expected = SizeOf(sent[Pending]) /\ Pending \in 1 .. Len(sent)
        /\ SizeOf(sent[Pending]) \in Nat \ {0} /\ SizeOf(sent[Pending]) \in Sizes
    BY <1>1, ExpectedSize, NextByte
  <1>3. SizeOf(sent[Pending]) <= BufLen[reader] /\ BufLen[reader] \in Nat
    BY <1>2, FramingAssumption DEF FInv, FTypeOK
  <1>4. FTypeOK'
    BY <1>1, <1>2 DEF FInv, FTypeOK
  <1>5. Contiguous' /\ Prefix'
    BY <1>1 DEF FInv, Contiguous, Prefix, SizeOf, Stream!End
  <1>6. Total' = Total /\ Total \in Nat /\ Pending' = Pending
    BY <1>1, EndNat DEF Total, Stream!End, Pending, FInv, FTypeOK
  <1>7. Buffered'
    BY <1>1, <1>2, <1>3, <1>6 DEF FInv, FTypeOK, Buffered, SizeOf
  <1> QED BY <1>1, <1>4, <1>5, <1>7 DEF FInv

\* The next receive is posted with less than a packet in the buffer.
LEMMA RepostStep ==
    ASSUME FInv, Repost
    PROVE  FInv' /\ UNCHANGED <<sent, handled>>
  <1>1. /\ UNCHANGED <<reader, sent, base, held, fresh, psize, handled>>
        /\ pc' \in {"recv", "closed"} /\ pc = "cut"
    BY DEF Repost
  <1>2. Total \in Nat /\ Total' = Total /\ Pending' = Pending
    BY <1>1, EndNat DEF FInv, FTypeOK, Total, Stream!End, Pending
  <1>3. held > 0 => Pending <= Len(sent) /\ held < SizeOf(sent[Pending])
    <2>1. CASE reader = "bot"
      BY <2>1 DEF FInv, Buffered
    <2>2. CASE reader # "bot"
      <3>1. SUFFICES ASSUME held > 0
                     PROVE  Pending <= Len(sent) /\ held < SizeOf(sent[Pending])
        OBVIOUS
      <3>2. base < Total
        BY <3>1, <1>2 DEF FInv, FTypeOK, Buffered
      <3>3. /\ Pending \in 1 .. Len(sent) /\ SizeOf(sent[Pending]) \in Nat \ {0}
            /\ ByteAt(base + 1) = SizeOf(sent[Pending])
        BY <3>2, NextByte
      <3>4. ~(ByteAt(base + 1) <= held)
        BY <2>2, <3>1, <3>3 DEF Repost, Whole
      <3> QED BY <3>3, <3>4 DEF FInv, FTypeOK
    <2> QED BY <2>1, <2>2
  <1>4. reader = "bot" => fresh = 0
    BY DEF Repost
  <1>5. Buffered'
    BY <1>1, <1>2, <1>3, <1>4 DEF FInv, Buffered, SizeOf
  <1> QED BY <1>1, <1>5 DEF FInv, FTypeOK, Contiguous, Prefix, SizeOf, Stream!End

\* The other steps touch neither the stream nor the buffers.
LEMMA OtherStep ==
    ASSUME FInv, Refuse \/ EndByHandler \/ Break \/ UNCHANGED vars
    PROVE  FInv' /\ UNCHANGED <<sent, handled>>
  <1>1. /\ UNCHANGED <<reader, sent, base, held, fresh, psize, handled>>
        /\ pc' = pc \/ pc' = "closed"
    BY DEF Refuse, EndByHandler, Break, vars
  <1>2. Total' = Total /\ Pending' = Pending
    BY <1>1 DEF Total, Stream!End, Pending
  <1>3. Buffered'
    BY <1>1, <1>2 DEF FInv, Buffered, SizeOf
  <1> QED BY <1>1, <1>3 DEF FInv, FTypeOK, Contiguous, Prefix, SizeOf, Stream!End
-----------------------------------------------------------------------------
\* The invariant holds at the start.
LEMMA FInvInit == Init => FInv
  <1>1. SUFFICES ASSUME Init PROVE FInv
    OBVIOUS
  <1>2. BufLen[reader] \in Nat \ {0}
    BY <1>1, FramingAssumption DEF Init
  <1> QED BY <1>1, <1>2 DEF Init, FInv, FTypeOK, Contiguous, Prefix, Buffered, Total,
                            Stream!End

\* Every step keeps the invariant and is a step of PacketStream or hidden.
LEMMA StepRefines ==
    FInv /\ [Next]_vars =>
        FInv' /\ [Stream!SendPacket \/ Stream!HandlePacket]_<<sent, handled>>
  <1>1. SUFFICES ASSUME FInv, [Next]_vars
                 PROVE  /\ FInv'
                        /\ [Stream!SendPacket \/ Stream!HandlePacket]_<<sent, handled>>
    OBVIOUS
  <1>2. CASE Send BY <1>1, <1>2, SendStep
  <1>3. CASE Receive BY <1>1, <1>3, ReceiveStep
  <1>4. CASE CutFront BY <1>1, <1>4, CutFrontStep
  <1>5. CASE BotWhole BY <1>1, <1>5, BotWholeStep
  <1>6. CASE BotPart BY <1>1, <1>6, BotPartStep
  <1>7. CASE Repost BY <1>1, <1>7, RepostStep
  <1>8. CASE Refuse \/ EndByHandler \/ Break \/ UNCHANGED vars BY <1>1, <1>8, OtherStep
  <1> QED BY <1>1, <1>2, <1>3, <1>4, <1>5, <1>6, <1>7, <1>8 DEF Next, Cut

\* The invariant leaves room for the next receive.
LEMMA FInvRoom == FInv => RoomToRead
  <1>1. SUFFICES ASSUME FInv PROVE RoomToRead
    OBVIOUS
  <1>2. BufLen[reader] \in Nat \ {0}
    BY <1>1, FramingAssumption DEF FInv, FTypeOK
  <1>3. ASSUME pc = "recv" PROVE held < BufLen[reader]
    <2>1. CASE held = 0
      BY <2>1, <1>2
    <2>2. CASE held > 0
      <3>1. Pending \in 1 .. Len(sent) /\ held < SizeOf(sent[Pending])
        BY <1>1, <1>3, <2>2 DEF FInv, FTypeOK, Buffered, Pending
      <3>2. SizeOf(sent[Pending]) \in Sizes
        BY <1>1, <3>1 DEF FInv, Contiguous
      <3>3. SizeOf(sent[Pending]) <= BufLen[reader] /\ SizeOf(sent[Pending]) \in Nat
        BY <1>1, <3>2, FramingAssumption DEF FInv, FTypeOK
      <3> QED BY <1>1, <1>2, <3>1, <3>3 DEF FInv, FTypeOK
    <2> QED BY <1>1, <2>1, <2>2 DEF FInv, FTypeOK
  <1> QED BY <1>1, <1>2, <1>3 DEF FInv, FTypeOK, Buffered, RoomToRead, Room

\* For every size of packets and buffers, no receive overruns the buffer of
\* the server, the client or a bot, and none is posted without room.
THEOREM NeverFull == Spec => []RoomToRead
  <1>1. FInv /\ [Next]_vars => FInv'
    BY StepRefines
  <1> QED BY <1>1, FInvInit, FInvRoom, PTL DEF Spec

\* For every size of packets and buffers and however the stream is split,
\* the packet handlers get the packets sent, whole, once and in order.
THEOREM FramingRefines == Spec => ImplementsStream
  <1>1. Init => Stream!StreamInit
    BY DEF Init, Stream!StreamInit
  <1>2. FInv /\ [Next]_vars =>
           FInv' /\ [Stream!SendPacket \/ Stream!HandlePacket]_<<sent, handled>>
    BY StepRefines
  <1> QED BY <1>1, <1>2, FInvInit, PTL DEF Spec, ImplementsStream, Stream!StreamSpec
=============================================================================
