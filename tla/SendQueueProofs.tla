-------------------------- MODULE SendQueueProofs --------------------------
(***************************************************************************)
(* The send path of a session, for any number of worker threads, packet    *)
(* sizes and batch size: one send at a time, and the client receives a     *)
(* prefix of what was accepted.                                            *)
(***************************************************************************)
EXTENDS SendQueue, TLAPS

LEMMA NoChunkType == NoChunk \in Chunk  BY DEF NoChunk, Chunk

LEMMA SizesType == \A n \in Sizes : n \in Nat /\ n >= 1 /\ n \in 1 .. MaxPacket
BY SendAssumption

LEMMA EmptyType == <<>> \in Seq(Chunk) /\ <<>> \in Seq(Completed)  OBVIOUS

LEMMA GotoType ==
    ASSUME NEW w \in Workers, pc \in [Workers -> PCs], NEW l \in PCs, Goto(w, l)
    PROVE  pc' \in [Workers -> PCs]
BY DEF Goto

LEMMA RestType ==
    ASSUME NEW c \in Chunk, NEW n \in Nat
    PROVE  /\ [c EXCEPT !.from = @ + n] \in Chunk
           /\ [c EXCEPT !.from = @ + n].from = c.from + n
           /\ [c EXCEPT !.from = @ + n].to = c.to
           /\ c.from \in Nat /\ c.to \in Nat
BY DEF Chunk

LEMMA InitType == Init => TypeOK
<1> SUFFICES ASSUME Init PROVE TypeOK  OBVIOUS
<1>1. "idle" \in PCs  BY DEF PCs
<1>2. pc \in [Workers -> PCs] /\ over \in [Workers -> Chunk]
  BY <1>1, NoChunkType DEF Init
<1>3. m_send_queue \in Seq(Chunk) /\ kernel \in Seq(Chunk) /\ port \in Seq(Completed)
  BY EmptyType DEF Init
<1>4. wire \in [count : Nat, edge : Nat]  BY DEF Init
<1> QED  BY <1>2, <1>3, <1>4 DEF Init, TypeOK

LEMMA NextType ==
    ASSUME TypeOK, [Next]_vars
    PROVE  TypeOK'
<1> USE DEF TypeOK, PCs
<1>1. ASSUME NEW w \in Workers, Caller(w) PROVE TypeOK'
  BY <1>1 DEF Caller, Goto
<1>2. ASSUME NEW w \in Workers, DoSend(w) PROVE TypeOK'
  <2>1. CASE ~m_client  BY <1>2, <2>1 DEF DoSend, HandOver, Goto
  <2>2. CASE m_client
    <3>1. PICK n \in Sizes :
            /\ accepted' = accepted + n
            /\ m_send_queue' = Append(m_send_queue,
                                      [from |-> accepted + 1, to |-> accepted + n])
      BY <1>2, <2>2 DEF DoSend, HandOver
    <3>2. accepted' \in Nat /\ [from |-> accepted + 1, to |-> accepted + n] \in Chunk
      BY <3>1, SizesType DEF Chunk
    <3>3. m_send_queue' \in Seq(Chunk)  BY <3>1, <3>2
    <3> QED  BY <1>2, <2>2, <3>2, <3>3 DEF DoSend, HandOver, Goto
  <2> QED  BY <2>1, <2>2
<1>3. ASSUME NEW w \in Workers, StartNextSend(w) PROVE TypeOK'
  <2>1. CASE m_send_pending' = FALSE /\ Goto(w, "idle") /\ UNCHANGED <<m_send_queue, over>>
    BY <1>3, <2>1 DEF StartNextSend, Drained, TakeBatch, Goto
  <2>2. ASSUME NEW k \in 1 .. Len(m_send_queue),
               Hold(w, [from |-> m_send_queue[1].from, to |-> m_send_queue[k].to]),
               m_send_queue' = SubSeq(m_send_queue, k + 1, Len(m_send_queue)),
               Goto(w, "post"), UNCHANGED m_send_pending
        PROVE  TypeOK'
    <3>1. m_send_queue[1] \in Chunk /\ m_send_queue[k] \in Chunk  BY <2>2
    <3>2. [from |-> m_send_queue[1].from, to |-> m_send_queue[k].to] \in Chunk
      BY <3>1 DEF Chunk
    <3>3. m_send_queue' \in Seq(Chunk)  BY <2>2
    <3> QED  BY <1>3, <2>2, <3>2, <3>3 DEF StartNextSend, Drained, TakeBatch, Goto, Hold
  <2> QED  BY <1>3, <2>1, <2>2 DEF StartNextSend, Drained, TakeBatch
<1>4. ASSUME NEW w \in Workers, PostSend(w) PROVE TypeOK'
  <2>1. over' \in [Workers -> Chunk]  BY <1>4, NoChunkType DEF PostSend, Hold
  <2>2. over[w] \in Chunk  OBVIOUS
  <2>3. kernel' \in Seq(Chunk)
    <3>1. kernel' = kernel \/ kernel' = Append(kernel, over[w])  BY <1>4 DEF PostSend
    <3>2. Append(kernel, over[w]) \in Seq(Chunk)  BY <2>2
    <3> QED  BY <3>1, <3>2
  <2>4. pc' \in [Workers -> PCs]  BY <1>4, GotoType DEF PostSend
  <2> QED  BY <1>4, <2>1, <2>3, <2>4 DEF PostSend
<1>5. ASSUME NEW w \in Workers, FailSend(w) PROVE TypeOK'
  <2>1. pc' \in [Workers -> PCs]  BY <1>5, GotoType DEF FailSend
  <2> QED  BY <1>5, <2>1, EmptyType DEF FailSend
<1>6. ASSUME NEW w \in Workers, Disconnect(w) \/ CloseSocket(w) \/ Unregister(w)
      PROVE  TypeOK'
  BY <1>6 DEF Disconnect, CloseSocket, Unregister, Goto
<1>7. ASSUME NEW w \in Workers, Completion(w) PROVE TypeOK'
  <2>1. Head(port) \in Completed /\ port' \in Seq(Completed)
    <3>1. port # <<>> /\ port' = Tail(port) /\ port \in Seq(Completed)
      BY <1>7 DEF Completion, Rest
    <3> QED  BY <3>1
  <2>2. [Head(port).chunk EXCEPT !.from = @ + Head(port).sent] \in Chunk
    <3>1. Head(port).chunk \in Chunk /\ Head(port).sent \in Nat  BY <2>1 DEF Completed
    <3> QED  BY <3>1, RestType
  <2>3. over' \in [Workers -> Chunk]  BY <1>7, <2>2 DEF Completion, Rest, Hold
  <2>4. pc' \in [Workers -> PCs]  BY <1>7 DEF Completion, Rest, Goto
  <2> QED  BY <1>7, <2>1, <2>3, <2>4 DEF Completion, Rest
<1>8. ASSUME NEW w \in Workers, RecvClosed(w) PROVE TypeOK'
  BY <1>8 DEF RecvClosed, Goto
<1>9. CASE KernelSend
  <2>1. Head(kernel) \in Chunk /\ kernel' \in Seq(Chunk)
    <3>1. kernel # <<>> /\ kernel' = Tail(kernel) /\ kernel \in Seq(Chunk)
      BY <1>9 DEF KernelSend
    <3> QED  BY <3>1
  <2>2. PICK n \in 1 .. Size(Head(kernel)) :
          /\ wire' = [count |-> wire.count + n, edge |-> Head(kernel).from + n - 1]
          /\ port' = Append(port, [chunk |-> Head(kernel), sent |-> n, ok |-> TRUE])
    BY <1>9 DEF KernelSend
  <2>3. n \in Nat /\ n >= 1  BY <2>1, <2>2 DEF Size, Chunk
  <2>4. [chunk |-> Head(kernel), sent |-> n, ok |-> TRUE] \in Completed
    BY <2>1, <2>3 DEF Completed
  <2>5. wire' \in [count : Nat, edge : Nat]
    <3>1. wire.count \in Nat /\ Head(kernel).from \in Nat  BY <2>1, RestType
    <3>2. wire.count + n \in Nat /\ Head(kernel).from + n - 1 \in Nat  BY <2>3, <3>1, SMTT(60)
    <3> QED  BY <2>2, <3>2
  <2>6. port' \in Seq(Completed)  BY <2>2, <2>4
  <2> QED  BY <1>9, <2>1, <2>5, <2>6 DEF KernelSend
<1>10. CASE KernelAbort
  <2>1. Head(kernel) \in Chunk /\ kernel' \in Seq(Chunk)
    <3>1. kernel # <<>> /\ kernel' = Tail(kernel) /\ kernel \in Seq(Chunk)
      BY <1>10 DEF KernelAbort
    <3> QED  BY <3>1
  <2>2. PICK ok \in BOOLEAN :
          port' = Append(port, [chunk |-> Head(kernel), sent |-> 0, ok |-> ok])
    BY <1>10 DEF KernelAbort
  <2>3. [chunk |-> Head(kernel), sent |-> 0, ok |-> ok] \in Completed
    BY <2>1 DEF Completed
  <2>4. port' \in Seq(Completed)  BY <2>2, <2>3
  <2> QED  BY <1>10, <2>1, <2>4 DEF KernelAbort
<1>11. CASE Break  BY <1>11 DEF Break
<1>12. CASE UNCHANGED vars  BY <1>12 DEF vars
<1> QED
  BY <1>1, <1>2, <1>3, <1>4, <1>5, <1>6, <1>7, <1>8, <1>9, <1>10, <1>11, <1>12
  DEF Next, Step

\* Every variable keeps its type.
THEOREM TypeCorrect == Spec => []TypeOK
BY InitType, NextType, PTL DEF Spec
-----------------------------------------------------------------------------
(***************************************************************************)
(* One send at a time.  OneSender is inductive once a completion that      *)
(* waits in the port also counts as a pending send.                        *)
(***************************************************************************)
Busy(w) == pc[w] \in {"start", "post", "fail"}

Single ==
    /\ Len(kernel) + Len(port) <= 1
    /\ \A v, w \in Workers : Busy(v) /\ Busy(w) => v = w
    /\ \A w \in Workers : Busy(w) => Len(kernel) + Len(port) = 0 /\ m_send_pending
    /\ Len(kernel) + Len(port) > 0 => m_send_pending

LEMMA EmptyLen ==
    ASSUME NEW S, NEW q \in Seq(S)
    PROVE  Len(q) \in Nat /\ (q = <<>> <=> Len(q) = 0)
OBVIOUS

LEMMA AppendLen ==
    ASSUME NEW S, NEW q \in Seq(S), NEW x \in S
    PROVE  Append(q, x) \in Seq(S) /\ Len(Append(q, x)) = Len(q) + 1
OBVIOUS

LEMMA TailLen ==
    ASSUME NEW S, NEW q \in Seq(S), q # <<>>
    PROVE  Tail(q) \in Seq(S) /\ Len(Tail(q)) = Len(q) - 1
OBVIOUS

LEMMA Tight ==
    ASSUME NEW a \in Nat, NEW b \in Nat, a + b <= 1, a # 0
    PROVE  /\ a = 1 /\ b = 0 /\ a + b > 0 /\ b + a > 0
           /\ a + b # 0 /\ b + a # 0 /\ b + a <= 1
OBVIOUS

LEMMA Lengths ==
    ASSUME TypeOK
    PROVE  /\ Len(kernel) \in Nat /\ (kernel = <<>> <=> Len(kernel) = 0)
           /\ Len(port) \in Nat /\ (port = <<>> <=> Len(port) = 0)
BY EmptyLen DEF TypeOK

LEMMA SingleIsOneSender ==
    ASSUME TypeOK, Single
    PROVE  OneSender
BY Lengths DEF Single, OneSender, Busy, Sending

\* Worker w goes from one label to another; all the others stay.
LEMMA GotoFacts ==
    ASSUME TypeOK, NEW w \in Workers, NEW l, Goto(w, l)
    PROVE  pc'[w] = l /\ \A v \in Workers : v # w => pc'[v] = pc[v]
BY DEF TypeOK, Goto

LEMMA InitSingle == Init => Single
BY DEF Init, Single, Busy

LEMMA NextSingle ==
    ASSUME TypeOK, TypeOK', Single, [Next]_vars
    PROVE  Single'
<1> USE DEF Single, Busy
<1>len. /\ Len(kernel) \in Nat /\ (kernel = <<>> <=> Len(kernel) = 0)
        /\ Len(port) \in Nat /\ (port = <<>> <=> Len(port) = 0)
        /\ Len(kernel) + Len(port) <= 1
  BY Lengths
\* A step of a worker that is not responsible before or after it.
<1>0. ASSUME NEW w \in Workers, NEW l, l \notin {"start", "post", "fail"}, Goto(w, l),
             UNCHANGED <<kernel, port, m_send_pending>>
      PROVE  Single'
  BY <1>0, GotoFacts
<1>1. ASSUME NEW w \in Workers, Caller(w) PROVE Single'
  BY <1>0, <1>1 DEF Caller
<1>2. ASSUME NEW w \in Workers, DoSend(w) PROVE Single'
  <2>1. CASE ~m_client  BY <1>0, <1>2, <2>1 DEF DoSend, HandOver
  <2>2. CASE m_client /\ m_send_pending
    <3>1. Goto(w, "idle") /\ m_send_pending' = TRUE /\ UNCHANGED <<kernel, port>>
      BY <1>2, <2>2 DEF DoSend, HandOver
    <3>2. pc'[w] = "idle" /\ \A v \in Workers : v # w => pc'[v] = pc[v]
      BY <3>1, GotoFacts
    <3> QED  BY <3>1, <3>2
  <2>3. CASE m_client /\ ~m_send_pending
    <3>1. Goto(w, "start") /\ m_send_pending' = TRUE /\ UNCHANGED <<kernel, port>>
      BY <1>2, <2>3 DEF DoSend, HandOver
    <3>2. pc'[w] = "start" /\ \A v \in Workers : v # w => pc'[v] = pc[v]
      BY <3>1, GotoFacts
    <3>3. Len(kernel) + Len(port) = 0 /\ \A v \in Workers : ~Busy(v)
      BY <2>3
    <3> QED  BY <3>1, <3>2, <3>3
  <2> QED  BY <2>1, <2>2, <2>3
<1>3. ASSUME NEW w \in Workers, StartNextSend(w) PROVE Single'
  <2>1. pc[w] = "start" /\ UNCHANGED <<kernel, port>>  BY <1>3 DEF StartNextSend, Drained, TakeBatch
  <2>2. Len(kernel) + Len(port) = 0 /\ \A v \in Workers : Busy(v) => v = w
    BY <2>1
  <2>3. \/ Goto(w, "idle") /\ m_send_pending' = FALSE
        \/ Goto(w, "post") /\ m_send_pending' = m_send_pending
    BY <1>3 DEF StartNextSend, Drained, TakeBatch
  <2>4. CASE Goto(w, "idle")
    <3>1. pc'[w] = "idle" /\ \A v \in Workers : v # w => pc'[v] = pc[v]
      BY <2>4, GotoFacts
    <3> QED  BY <2>1, <2>2, <3>1
  <2>5. CASE Goto(w, "post") /\ m_send_pending' = m_send_pending
    <3>1. pc'[w] = "post" /\ \A v \in Workers : v # w => pc'[v] = pc[v]
      BY <2>5, GotoFacts
    <3> QED  BY <2>1, <2>2, <2>5, <3>1
  <2> QED  BY <2>3, <2>4, <2>5
<1>4. ASSUME NEW w \in Workers, PostSend(w) PROVE Single'
  <2>1. pc[w] = "post" /\ UNCHANGED <<port, m_send_pending>>  BY <1>4 DEF PostSend
  <2>2. /\ Len(kernel) = 0 /\ Len(port) = 0 /\ m_send_pending
        /\ \A v \in Workers : Busy(v) => v = w
    BY <1>len, <2>1
  <2>3. CASE kernel' = Append(kernel, over[w]) /\ Goto(w, "idle")
    <3>1. pc'[w] = "idle" /\ \A v \in Workers : v # w => pc'[v] = pc[v]
      BY <2>3, GotoFacts
    <3>2. Len(kernel') = 1  BY <2>2, <2>3, AppendLen DEF TypeOK
    <3> QED  BY <2>1, <2>2, <3>1, <3>2
  <2>4. CASE kernel' = kernel /\ Goto(w, "fail")
    <3>1. pc'[w] = "fail" /\ \A v \in Workers : v # w => pc'[v] = pc[v]
      BY <2>4, GotoFacts
    <3> QED  BY <2>1, <2>2, <2>4, <3>1
  <2> QED  BY <1>4, <2>3, <2>4 DEF PostSend
<1>5. ASSUME NEW w \in Workers, FailSend(w) PROVE Single'
  <2>1. pc[w] = "fail" /\ Goto(w, "disconnect") /\ UNCHANGED <<kernel, port>>
    BY <1>5 DEF FailSend
  <2>2. pc'[w] = "disconnect" /\ \A v \in Workers : v # w => pc'[v] = pc[v]
    BY <2>1, GotoFacts
  <2>3. Len(kernel) + Len(port) = 0 /\ \A v \in Workers : Busy(v) => v = w
    BY <2>1
  <2> QED  BY <2>1, <2>2, <2>3
<1>6. ASSUME NEW w \in Workers, Disconnect(w) \/ CloseSocket(w) \/ Unregister(w)
      PROVE  Single'
  BY <1>0, <1>6 DEF Disconnect, CloseSocket, Unregister
<1>7. ASSUME NEW w \in Workers, Completion(w) PROVE Single'
  <2>1. port # <<>> /\ port' = Tail(port) /\ UNCHANGED <<kernel, m_send_pending>>
    BY <1>7 DEF Completion, Rest
  <2>2. Len(port) = 1 /\ Len(kernel) = 0 /\ m_send_pending /\ \A v \in Workers : ~Busy(v)
    <3>1. /\ Len(port) = 1 /\ Len(kernel) = 0
          /\ Len(kernel) + Len(port) > 0 /\ Len(kernel) + Len(port) # 0
      <4>1. Len(port) # 0  BY <1>len, <2>1
      <4>2. Len(port) + Len(kernel) <= 1  BY <1>len
      <4> QED  BY <1>len, <4>1, <4>2, Tight
    <3>2. m_send_pending  BY <3>1
    <3>3. \A v \in Workers : ~Busy(v)  BY <3>1
    <3> QED  BY <3>1, <3>2, <3>3
  <2>3. Len(port') = 0  BY <2>1, <2>2, TailLen DEF TypeOK
  <2>4. PICK l : Goto(w, l)  BY <1>7 DEF Completion, Rest
  <2>5. \A v \in Workers : v # w => pc'[v] = pc[v]  BY <2>4, GotoFacts
  <2>6. Len(kernel') + Len(port') = 0  BY <2>1, <2>2, <2>3
  <2>7. /\ \A v \in Workers : Busy(v)' => v = w
        /\ m_send_pending'
    BY <2>1, <2>2, <2>5
  <2> QED  BY <2>6, <2>7
<1>8. ASSUME NEW w \in Workers, RecvClosed(w) PROVE Single'
  BY <1>0, <1>8 DEF RecvClosed
<1>9. CASE KernelSend \/ KernelAbort
  <2>1. /\ kernel # <<>> /\ kernel' = Tail(kernel)
        /\ UNCHANGED <<pc, m_send_pending>>
    BY <1>9 DEF KernelSend, KernelAbort
  <2>2. Len(kernel) = 1 /\ Len(port) = 0 /\ m_send_pending /\ \A v \in Workers : ~Busy(v)
    <3>1. /\ Len(kernel) = 1 /\ Len(port) = 0
          /\ Len(kernel) + Len(port) > 0 /\ Len(kernel) + Len(port) # 0
      <4>1. Len(kernel) # 0  BY <1>len, <2>1
      <4> QED  BY <1>len, <4>1, Tight
    <3>2. m_send_pending  BY <3>1
    <3>3. \A v \in Workers : ~Busy(v)  BY <3>1
    <3> QED  BY <3>1, <3>2, <3>3
  <2>3. Len(kernel') = 0  BY <2>1, <2>2, TailLen DEF TypeOK
  <2>4. \E x : port' = Append(port, x)  BY <1>9 DEF KernelSend, KernelAbort
  <2>5. Len(port') = 1  BY <2>2, <2>4 DEF TypeOK
  <2>6. Len(kernel') + Len(port') = 1  BY <2>3, <2>5
  <2>7. /\ \A v \in Workers : ~Busy(v)'
        /\ m_send_pending'
    BY <2>1, <2>2
  <2> QED  BY <2>6, <2>7
<1>10. CASE Break \/ UNCHANGED vars
  BY <1>10 DEF Break, vars
<1> QED
  BY <1>1, <1>2, <1>3, <1>4, <1>5, <1>6, <1>7, <1>8, <1>9, <1>10
  DEF Next, Step

\* At most one WSASend of the session is under way, and m_send_pending says
\* so, for any number of threads that call do_send and handle completions.
THEOREM OneSend == Spec => []OneSender
<1>1. TypeOK /\ Single /\ [Next]_vars => (TypeOK /\ Single)'
  BY NextType, NextSingle
<1>2. TypeOK /\ Single => OneSender  BY SingleIsOneSender
<1> QED  BY <1>1, <1>2, InitType, InitSingle, PTL DEF Spec
-----------------------------------------------------------------------------
(***************************************************************************)
(* The stream.  While the connection works, the bytes that are accepted    *)
(* and not yet received are those of the batch under way, if any, followed *)
(* by the queue; once it is broken or closed nothing is delivered.         *)
(***************************************************************************)

\* Consecutive packets of the queue, the last one ending at `accepted'.
QueueOK ==
    /\ \A i \in 1 .. Len(m_send_queue) :
          /\ m_send_queue[i].from <= m_send_queue[i].to
          /\ m_send_queue[i].to <= accepted
          /\ i < Len(m_send_queue) =>
                m_send_queue[i + 1].from = m_send_queue[i].to + 1
    /\ \A i, j \in 1 .. Len(m_send_queue) :
          i < j => m_send_queue[i].to < m_send_queue[j].from
    /\ Len(m_send_queue) > 0 => m_send_queue[Len(m_send_queue)].to = accepted

\* The first byte that is in no batch yet.
Front == IF Len(m_send_queue) = 0 THEN accepted + 1 ELSE m_send_queue[1].from

\* Batch c holds the bytes between the client and the queue.
Under(c) == c.from = wire.edge + 1 /\ c.from <= c.to /\ c.to + 1 = Front

Working == m_client /\ ~broken

Flow ==
    Working =>
        /\ registered
        /\ \A w \in Workers : pc[w] \notin {"fail", "disconnect", "close", "unregister"}
        /\ \A w \in Workers : pc[w] = "post" => Under(over[w])
        /\ Len(kernel) > 0 => Under(kernel[1])
        /\ Len(port) > 0 =>
              /\ port[1].ok
              /\ port[1].sent >= 1 /\ port[1].sent <= Size(port[1].chunk)
              /\ port[1].chunk.from + port[1].sent = wire.edge + 1
              /\ port[1].chunk.to + 1 = Front
        /\ Len(kernel) + Len(port) = 0 /\ (\A w \in Workers : pc[w] # "post")
              => wire.edge + 1 = Front

SInv == TypeOK /\ Single /\ QueueOK /\ Flow

LEMMA QueueType ==
    ASSUME TypeOK
    PROVE  /\ Len(m_send_queue) \in Nat /\ accepted \in Nat
           /\ m_send_queue = <<>> <=> Len(m_send_queue) = 0
           /\ \A i \in 1 .. Len(m_send_queue) :
                 /\ m_send_queue[i] \in Chunk
                 /\ m_send_queue[i].from \in Nat /\ m_send_queue[i].to \in Nat
<1>1. m_send_queue \in Seq(Chunk)  BY DEF TypeOK
<1>2. /\ Len(m_send_queue) \in Nat
      /\ m_send_queue = <<>> <=> Len(m_send_queue) = 0
      /\ \A i \in 1 .. Len(m_send_queue) : m_send_queue[i] \in Chunk
  BY <1>1
<1> QED  BY <1>2 DEF TypeOK, Chunk

LEMMA InitFlow == Init => QueueOK /\ Flow
BY DEF Init, QueueOK, Flow, Front

\* do_send appends the bytes after all the others.
LEMMA AcceptQueue ==
    ASSUME TypeOK, QueueOK, NEW n \in Nat \ {0}, accepted' = accepted + n,
           m_send_queue' = Append(m_send_queue,
                                  [from |-> accepted + 1, to |-> accepted + n])
    PROVE  QueueOK' /\ Front' = Front
<1> DEFINE q == m_send_queue  c == [from |-> accepted + 1, to |-> accepted + n]  k == Len(q)
<1>1. /\ k \in Nat /\ accepted \in Nat
      /\ \A i \in 1 .. k : q[i].from \in Nat /\ q[i].to \in Nat
  BY QueueType
<1>2. /\ Len(q') = k + 1 /\ q'[k + 1] = c /\ \A i \in 1 .. k : q'[i] = q[i]
  BY DEF TypeOK
<1>3. /\ \A i \in 1 .. k : q[i].from <= q[i].to /\ q[i].to <= accepted
      /\ \A i \in 1 .. k : i < k => q[i + 1].from = q[i].to + 1
      /\ \A i, j \in 1 .. k : i < j => q[i].to < q[j].from
      /\ k > 0 => q[k].to = accepted
  BY DEF QueueOK
<1>4. c.from = accepted + 1 /\ c.to = accepted + n  OBVIOUS
<1> HIDE DEF q, c, k
<1>5. \A i \in 1 .. k + 1 : q'[i].from <= q'[i].to /\ q'[i].to <= accepted'
  <2> SUFFICES ASSUME NEW i \in 1 .. k + 1
               PROVE  q'[i].from <= q'[i].to /\ q'[i].to <= accepted'
    OBVIOUS
  <2>1. CASE i \in 1 .. k
    <3>1. q'[i].to = q[i].to /\ q'[i].from = q[i].from  BY <1>2, <2>1
    <3>2. q[i].to <= accepted + n  BY <1>1, <1>3, <2>1
    <3> QED  BY <1>3, <2>1, <3>1, <3>2
  <2>2. CASE i = k + 1  BY <1>1, <1>2, <1>4, <2>2
  <2> QED  BY <1>1, <2>1, <2>2
<1>6. \A i \in 1 .. k + 1 : i < k + 1 => q'[i + 1].from = q'[i].to + 1
  <2>0. \A i \in 1 .. k + 1 : i < k + 1 => i \in 1 .. k  BY <1>1
  <2> SUFFICES ASSUME NEW i \in 1 .. k PROVE q'[i + 1].from = q'[i].to + 1
    BY <2>0
  <2>1. CASE i < k
    <3>1. i + 1 \in 1 .. k /\ i \in 1 .. k  BY <1>1, <2>1
    <3> QED  BY <1>2, <1>3, <2>1, <3>1
  <2>2. CASE i = k
    <3>1. q'[i + 1] = c /\ q'[i] = q[k] /\ k > 0  BY <1>1, <1>2, <2>2
    <3> QED  BY <1>3, <1>4, <3>1
  <2> QED  BY <1>1, <2>1, <2>2
<1>7. \A i, j \in 1 .. k + 1 : i < j => q'[i].to < q'[j].from
  <2> SUFFICES ASSUME NEW i \in 1 .. k, NEW j \in 1 .. k + 1, i < j
               PROVE  q'[i].to < q'[j].from
    BY <1>1
  <2>1. CASE j \in 1 .. k
    <3>1. q'[i] = q[i] /\ q'[j] = q[j]  BY <1>2, <2>1
    <3> QED  BY <1>3, <2>1, <3>1
  <2>2. CASE j = k + 1
    <3>1. q'[j] = c /\ q'[i] = q[i] /\ q[i].to <= accepted /\ q[i].to \in Nat
      BY <1>1, <1>2, <1>3, <2>2
    <3> QED  BY <1>1, <1>4, <3>1
  <2> QED  BY <1>1, <2>1, <2>2
<1>8. q'[k + 1].to = accepted'  BY <1>2, <1>4
<1>9. QueueOK'
  BY <1>1, <1>2, <1>5, <1>6, <1>7, <1>8 DEF QueueOK, q
<1>10. Front' = Front
  <2>1. CASE k = 0  BY <1>2, <1>4, <2>1 DEF Front, q, k
  <2>2. CASE k > 0
    <3>1. q'[1] = q[1]  BY <1>1, <1>2, <2>2
    <3>2. Len(q') # 0 /\ Len(q) # 0  BY <1>1, <1>2, <2>2 DEF k
    <3> QED  BY <3>1, <3>2 DEF Front, q
  <2> QED  BY <1>1, <2>1, <2>2
<1> QED  BY <1>9, <1>10

\* start_next_send takes a prefix of the queue.
LEMMA TakeQueue ==
    ASSUME TypeOK, QueueOK, NEW k \in 1 .. Len(m_send_queue), accepted' = accepted,
           m_send_queue' = SubSeq(m_send_queue, k + 1, Len(m_send_queue))
    PROVE  /\ QueueOK'
           /\ m_send_queue[1].from = Front
           /\ m_send_queue[1].from <= m_send_queue[k].to
           /\ m_send_queue[k].to + 1 = Front'
<1> DEFINE q == m_send_queue  m == Len(q)
<1>1. /\ m \in Nat /\ accepted \in Nat
      /\ \A i \in 1 .. m : q[i].from \in Nat /\ q[i].to \in Nat
  BY QueueType
<1>2. /\ Len(q') = m - k /\ \A i \in 1 .. m - k : q'[i] = q[k + i]
  BY <1>1 DEF TypeOK
<1>3. /\ \A i \in 1 .. m : q[i].from <= q[i].to /\ q[i].to <= accepted
      /\ \A i \in 1 .. m : i < m => q[i + 1].from = q[i].to + 1
      /\ \A i, j \in 1 .. m : i < j => q[i].to < q[j].from
      /\ m > 0 => q[m].to = accepted
  BY DEF QueueOK
<1>0. k \in 1 .. m  OBVIOUS
<1> HIDE DEF q, m
<1>4. \A i \in 1 .. m - k : k + i \in 1 .. m  BY <1>0, <1>1
<1>5. \A i \in 1 .. m - k : q'[i].from <= q'[i].to /\ q'[i].to <= accepted'
  BY <1>2, <1>3, <1>4
<1>6. \A i \in 1 .. m - k : i < m - k => q'[i + 1].from = q'[i].to + 1
  <2> SUFFICES ASSUME NEW i \in 1 .. m - k, i < m - k PROVE q'[i + 1].from = q'[i].to + 1
    OBVIOUS
  <2>1. i + 1 \in 1 .. m - k /\ k + i \in 1 .. m /\ k + i < m /\ k + (i + 1) = (k + i) + 1
    BY <1>0, <1>1
  <2>2. q'[i + 1] = q[(k + i) + 1] /\ q'[i] = q[k + i]  BY <1>2, <2>1
  <2> QED  BY <1>3, <2>1, <2>2
<1>7. \A i, j \in 1 .. m - k : i < j => q'[i].to < q'[j].from
  <2> SUFFICES ASSUME NEW i \in 1 .. m - k, NEW j \in 1 .. m - k, i < j
               PROVE  q'[i].to < q'[j].from
    OBVIOUS
  <2>1. k + i < k + j /\ k + i \in 1 .. m /\ k + j \in 1 .. m  BY <1>0, <1>1
  <2> QED  BY <1>2, <1>3, <2>1
<1>8. m - k > 0 => q'[m - k].to = accepted'
  <2> SUFFICES ASSUME m - k > 0 PROVE q'[m - k].to = accepted'  OBVIOUS
  <2>1. m - k \in 1 .. m - k /\ k + (m - k) = m /\ m > 0  BY <1>0, <1>1
  <2>2. q'[m - k] = q[m]  BY <1>2, <2>1
  <2> QED  BY <1>3, <2>1, <2>2
<1>9. QueueOK'  BY <1>2, <1>5, <1>6, <1>7, <1>8 DEF QueueOK, q
<1>10. 1 \in 1 .. m /\ m > 0 /\ m # 0  BY <1>0, <1>1
<1>11. q[1].from = Front  BY <1>10 DEF Front, q, m
<1>12. q[1].from <= q[k].to
  <2>1. CASE k = 1  BY <1>3, <1>10, <2>1
  <2>2. CASE 1 < k
    <3>1. q[1].to < q[k].from  BY <1>0, <1>3, <1>10, <2>2
    <3>2. q[1].from <= q[1].to /\ q[k].from <= q[k].to  BY <1>0, <1>3, <1>10
    <3>3. /\ q[1].from \in Nat /\ q[1].to \in Nat
          /\ q[k].from \in Nat /\ q[k].to \in Nat
      BY <1>0, <1>1, <1>10
    <3> QED  BY <3>1, <3>2, <3>3
  <2> QED  BY <1>0, <1>1, <2>1, <2>2
<1>13. q[k].to + 1 = Front'
  <2>1. CASE k = m
    <3>1. Len(q') = 0  BY <1>1, <1>2, <2>1
    <3>2. q[k].to = accepted  BY <1>3, <1>10, <2>1
    <3> QED  BY <3>1, <3>2 DEF Front, q
  <2>2. CASE k < m
    <3>1. Len(q') # 0 /\ 1 \in 1 .. m - k  BY <1>0, <1>1, <1>2, <2>2
    <3>2. q'[1] = q[k + 1]  BY <1>2, <3>1
    <3>3. q[k + 1].from = q[k].to + 1  BY <1>0, <1>3, <2>2
    <3> QED  BY <3>1, <3>2, <3>3 DEF Front, q
  <2> QED  BY <1>0, <1>1, <2>1, <2>2
<1> QED  BY <1>9, <1>11, <1>12, <1>13 DEF q

LEMMA NextFlow ==
    ASSUME SInv, TypeOK', [Next]_vars, TransientFailure = FALSE
    PROVE  QueueOK' /\ Flow'
<1>len. /\ TypeOK /\ Single /\ QueueOK /\ Flow
        /\ Len(kernel) \in Nat /\ (kernel = <<>> <=> Len(kernel) = 0)
        /\ Len(port) \in Nat /\ (port = <<>> <=> Len(port) = 0)
  BY Lengths DEF SInv
\* Steps that leave the queue, the batches and the wire alone.
<1>same. ASSUME UNCHANGED <<accepted, m_send_queue>>
         PROVE  QueueOK' /\ Front' = Front
  BY <1>len, <1>same DEF QueueOK, Front
<1>quiet. ASSUME NEW w \in Workers, NEW l, Goto(w, l), pc[w] # "post", l # "post",
                 UNCHANGED <<accepted, m_send_queue, over, kernel, port, wire>>,
                 Working' => /\ Working /\ registered'
                             /\ l \notin {"fail", "disconnect", "close", "unregister"}
          PROVE  QueueOK' /\ Flow'
  <2>1. QueueOK' /\ Front' = Front  BY <1>quiet, <1>same
  <2>2. pc'[w] = l /\ \A v \in Workers : v # w => pc'[v] = pc[v]
    BY <1>quiet, <1>len, GotoFacts
  <2>3. \A c : Under(c)' <=> Under(c)
    BY <1>quiet, <2>1 DEF Under
  <2> SUFFICES ASSUME Working' PROVE Flow'  BY <2>1 DEF Flow
  <2>4. (\A v \in Workers : pc'[v] # "post") <=> (\A v \in Workers : pc[v] # "post")
    BY <1>quiet, <2>2
  <2>5. \A v \in Workers : pc'[v] = "post" => Under(over[v])'
    BY <1>quiet, <1>len, <2>2, <2>3 DEF Flow, Under
  <2> QED
    BY <1>quiet, <1>len, <2>1, <2>2, <2>3, <2>4, <2>5 DEF Flow, Under
<1>1. ASSUME NEW w \in Workers, Caller(w) PROVE QueueOK' /\ Flow'
  <2>1. /\ Goto(w, "do_send") /\ pc[w] = "idle" /\ (Working' => Working /\ registered')
        /\ UNCHANGED <<accepted, m_send_queue, over, kernel, port, wire>>
    BY <1>1, <1>len DEF Caller, Working, Flow
  <2> QED  BY <2>1, <1>quiet
<1>6. ASSUME NEW w \in Workers, Disconnect(w) \/ CloseSocket(w) \/ Unregister(w)
      PROVE  QueueOK' /\ Flow'
  <2>1. /\ pc[w] \in {"disconnect", "close", "unregister"}
        /\ \E l \in {"idle", "close", "unregister"} : Goto(w, l)
        /\ UNCHANGED <<accepted, m_send_queue, over, kernel, port, wire>>
        /\ Working' => Working
    BY <1>6 DEF Disconnect, CloseSocket, Unregister, Working
  <2>2. ~Working  BY <1>len, <2>1 DEF Flow
  <2> QED  BY <2>1, <2>2, <1>quiet
<1>8. ASSUME NEW w \in Workers, RecvClosed(w) PROVE QueueOK' /\ Flow'
  <2>1. /\ Goto(w, "disconnect") /\ pc[w] = "idle" /\ ~Working'
        /\ UNCHANGED <<accepted, m_send_queue, over, kernel, port, wire>>
    BY <1>8 DEF RecvClosed, Working
  <2> QED  BY <2>1, <1>quiet
<1>5. ASSUME NEW w \in Workers, FailSend(w) PROVE QueueOK' /\ Flow'
  <2>1. pc[w] = "fail" /\ m_send_queue' = <<>> /\ UNCHANGED <<m_client, broken>>
    BY <1>5 DEF FailSend
  <2>2. ~Working'  BY <1>len, <2>1 DEF Flow, Working
  <2>3. QueueOK'  BY <2>1 DEF QueueOK
  <2> QED  BY <2>2, <2>3 DEF Flow
<1>11. CASE Break
  <2>1. ~Working' /\ UNCHANGED <<accepted, m_send_queue>>  BY <1>11 DEF Break, Working
  <2> QED  BY <2>1, <1>same DEF Flow
<1>12. CASE UNCHANGED vars
  <2>1. QueueOK'  BY <1>12, <1>same DEF vars
  <2>2. Flow'  BY <1>12, <1>len DEF vars, Flow, Working, Under, Front
  <2> QED  BY <2>1, <2>2
<1>10. CASE KernelAbort
  <2>1. ~Working' /\ UNCHANGED <<accepted, m_send_queue>>
    BY <1>10 DEF KernelAbort, Working
  <2> QED  BY <2>1, <1>same DEF Flow
<1>2. ASSUME NEW w \in Workers, DoSend(w) PROVE QueueOK' /\ Flow'
  <2>0. /\ pc[w] = "do_send"
        /\ UNCHANGED <<m_client, registered, over, kernel, port, broken, wire>>
    BY <1>2 DEF DoSend, HandOver
  <2>1. CASE ~m_client
    <3>1. Goto(w, "idle") /\ UNCHANGED <<accepted, m_send_queue>>
      BY <1>2, <2>1 DEF DoSend, HandOver
    <3> QED  BY <2>0, <2>1, <3>1, <1>quiet DEF Working
  <2>2. CASE m_client
    <3>1. PICK n \in Sizes :
            /\ accepted' = accepted + n
            /\ m_send_queue' = Append(m_send_queue,
                                      [from |-> accepted + 1, to |-> accepted + n])
      BY <1>2, <2>2 DEF DoSend, HandOver
    <3>2. PICK l \in {"idle", "start"} : Goto(w, l)  BY <1>2, <2>2 DEF DoSend, HandOver
    <3>3. n \in Nat \ {0}  BY SizesType
    <3>4. QueueOK' /\ Front' = Front  BY <1>len, <3>1, <3>3, AcceptQueue
    <3>5. pc'[w] = l /\ \A v \in Workers : v # w => pc'[v] = pc[v]
      BY <1>len, <3>2, GotoFacts
    <3>6. \A v \in Workers : pc'[v] = "post" <=> pc[v] = "post"  BY <2>0, <3>5
    <3>7. \A c : Under(c)' <=> Under(c)  BY <2>0, <3>4 DEF Under
    <3>8. Flow'
      BY <1>len, <2>0, <3>4, <3>5, <3>6, <3>7 DEF Flow, Working, Under
    <3> QED  BY <3>4, <3>8
  <2> QED  BY <2>1, <2>2
<1>3. ASSUME NEW w \in Workers, StartNextSend(w) PROVE QueueOK' /\ Flow'
  <2>0. /\ pc[w] = "start"
        /\ UNCHANGED <<accepted, m_client, registered, kernel, port, broken, wire>>
    BY <1>3 DEF StartNextSend, Drained, TakeBatch
  <2>1. CASE Goto(w, "idle") /\ UNCHANGED <<m_send_queue, over>>
    <3>1. Working' => Working /\ (Working => registered')
      BY <1>len, <2>0 DEF Flow, Working
    <3> QED  BY <2>0, <2>1, <3>1, <1>quiet
  <2>2. ASSUME NEW k \in 1 .. Len(m_send_queue), Goto(w, "post"),
               Hold(w, [from |-> m_send_queue[1].from, to |-> m_send_queue[k].to]),
               m_send_queue' = SubSeq(m_send_queue, k + 1, Len(m_send_queue))
        PROVE  QueueOK' /\ Flow'
    <3>1. /\ QueueOK' /\ m_send_queue[1].from = Front
          /\ m_send_queue[1].from <= m_send_queue[k].to
          /\ m_send_queue[k].to + 1 = Front'
      BY <1>len, <2>0, <2>2, TakeQueue
    <3>2. pc'[w] = "post" /\ \A v \in Workers : v # w => pc'[v] = pc[v]
      BY <1>len, <2>2, GotoFacts
    <3>3. /\ Len(kernel) + Len(port) = 0
          /\ \A v \in Workers : pc[v] \in {"start", "post", "fail"} => v = w
      BY <1>len, <2>0 DEF Single, Busy
    <3>4. over'[w] = [from |-> m_send_queue[1].from, to |-> m_send_queue[k].to]
      BY <1>len, <2>2 DEF Hold, TypeOK
    <3>5. over'[w].from = m_send_queue[1].from /\ over'[w].to = m_send_queue[k].to
      BY <3>4
    <3> SUFFICES ASSUME Working' PROVE Flow'  BY <3>1 DEF Flow
    <3>6. Working  BY <2>0 DEF Working
    <3>7. wire.edge + 1 = Front
      BY <1>len, <2>0, <3>3, <3>6 DEF Flow
    <3>8. Under(over[w])'
      BY <2>0, <3>1, <3>5, <3>7 DEF Under
    <3>9. Len(kernel') + Len(port') = 0  BY <2>0, <3>3
    <3>10. Len(kernel') = 0 /\ Len(port') = 0  BY <1>len, <2>0, <3>3
    <3>11. \A v \in Workers : pc'[v] = "post" => Under(over[v])'
      BY <3>2, <3>3, <3>8
    <3> QED
      BY <1>len, <2>0, <3>2, <3>6, <3>8, <3>10, <3>11 DEF Flow
  <2> QED  BY <1>3, <2>1, <2>2 DEF StartNextSend, Drained, TakeBatch
<1>4. ASSUME NEW w \in Workers, PostSend(w) PROVE QueueOK' /\ Flow'
  <2>0. /\ pc[w] = "post"
        /\ UNCHANGED <<accepted, m_send_queue, m_client, registered, port, broken, wire>>
    BY <1>4 DEF PostSend
  <2>1. QueueOK' /\ Front' = Front  BY <2>0, <1>same
  <2> SUFFICES ASSUME Working' PROVE Flow'  BY <2>1 DEF Flow
  <2>2. Working  BY <2>0 DEF Working
  <2>3. kernel' = Append(kernel, over[w]) /\ Goto(w, "idle")
    BY <1>4, <2>2 DEF PostSend, Working
  <2>4. /\ Len(kernel) = 0 /\ Len(port) = 0
        /\ \A v \in Workers : pc[v] \in {"start", "post", "fail"} => v = w
    BY <1>len, <2>0 DEF Single, Busy
  <2>5. pc'[w] = "idle" /\ \A v \in Workers : v # w => pc'[v] = pc[v]
    BY <1>len, <2>3, GotoFacts
  <2>6. Len(kernel') = 1 /\ kernel'[1] = over[w]
    <3>1. kernel \in Seq(Chunk) /\ over[w] \in Chunk  BY <1>len DEF TypeOK
    <3> QED  BY <2>3, <2>4, <3>1
  <2>7. Under(over[w])  BY <1>len, <2>0, <2>2 DEF Flow
  <2>8. Under(kernel[1])'  BY <2>0, <2>1, <2>6, <2>7 DEF Under
  <2>9. \A v \in Workers : pc'[v] # "post"  BY <2>4, <2>5
  <2>10. Len(port') = 0 /\ Len(kernel') + Len(port') # 0  BY <2>0, <2>4, <2>6
  <2> QED
    BY <1>len, <2>0, <2>2, <2>5, <2>8, <2>9, <2>10 DEF Flow
<1>7. ASSUME NEW w \in Workers, Completion(w) PROVE QueueOK' /\ Flow'
  <2> DEFINE c == Head(port)
  <2>0. /\ pc[w] = "idle" /\ port # <<>> /\ port' = Tail(port)
        /\ UNCHANGED <<accepted, m_send_queue, m_client, registered, kernel, broken, wire>>
    BY <1>7 DEF Completion, Rest
  <2>1. QueueOK' /\ Front' = Front  BY <2>0, <1>same
  <2> SUFFICES ASSUME Working' PROVE Flow'  BY <2>1 DEF Flow
  <2>2. Working /\ registered  BY <2>0, <1>len DEF Working, Flow
  <2>3. /\ Len(port) = 1 /\ Len(kernel) = 0
        /\ \A v \in Workers : pc[v] \notin {"start", "post", "fail"}
    <3>1. Len(port) # 0 /\ Len(port) + Len(kernel) <= 1
      BY <1>len, <2>0 DEF Single
    <3>2. Len(port) = 1 /\ Len(kernel) = 0 /\ Len(kernel) + Len(port) # 0
      BY <1>len, <3>1, Tight
    <3> QED  BY <1>len, <3>2 DEF Single, Busy
  <2>4. Len(port') = 0 /\ c = port[1] /\ c \in Completed
    BY <1>len, <2>0, <2>3, TailLen DEF TypeOK
  <2>5. /\ c.ok /\ c.sent >= 1 /\ c.sent <= Size(c.chunk)
        /\ c.chunk.from + c.sent = wire.edge + 1 /\ c.chunk.to + 1 = Front
    <3>1. Len(port) > 0  BY <2>3
    <3> QED  BY <1>len, <2>2, <2>4, <3>1 DEF Flow
  <2>6. /\ c.chunk \in Chunk /\ c.sent \in Nat
        /\ c.chunk.from \in Nat /\ c.chunk.to \in Nat
    BY <2>4, RestType DEF Completed
  <2>7. Len(kernel') = 0 /\ Len(kernel') + Len(port') = 0  BY <2>0, <2>3, <2>4
  <2>8. CASE c.sent < Size(c.chunk)
    <3>1. /\ Hold(w, [c.chunk EXCEPT !.from = @ + c.sent]) /\ Goto(w, "post")
      <4>1. c.sent # Size(c.chunk) /\ c.sent # 0  BY <2>5, <2>6, <2>8 DEF Size
      <4> QED  BY <1>7, <2>2, <2>5, <4>1 DEF Completion, Rest
    <3>2. pc'[w] = "post" /\ \A v \in Workers : v # w => pc'[v] = pc[v]
      BY <1>len, <3>1, GotoFacts
    <3>3. over'[w] = [c.chunk EXCEPT !.from = @ + c.sent]
      BY <1>len, <3>1 DEF Hold, TypeOK
    <3>4. over'[w].from = c.chunk.from + c.sent /\ over'[w].to = c.chunk.to
      BY <2>6, <3>3, RestType
    <3>5. over'[w].from <= over'[w].to  BY <2>6, <2>8, <3>4 DEF Size
    <3>6. Under(over[w])'  BY <2>0, <2>1, <2>5, <3>4, <3>5 DEF Under
    <3>7. \A v \in Workers : pc'[v] = "post" => v = w  BY <2>3, <3>2
    <3>8. ~(Len(kernel') > 0) /\ ~(Len(port') > 0)  BY <2>4, <2>7
    <3>9. registered' /\ \A v \in Workers :
            pc'[v] \notin {"fail", "disconnect", "close", "unregister"}
      BY <1>len, <2>0, <2>2, <3>2 DEF Flow
    <3>10. \A v \in Workers : pc'[v] = "post" => Under(over[v])'  BY <3>6, <3>7
    <3> QED
      BY <3>2, <3>8, <3>9, <3>10 DEF Flow
  <2>9. CASE c.sent = Size(c.chunk)
    <3>1. Goto(w, "start")
      <4>1. c.sent # 0 /\ ~(c.sent < Size(c.chunk))  BY <2>5, <2>6, <2>9 DEF Size
      <4> QED  BY <1>7, <2>2, <2>5, <4>1 DEF Completion, Rest
    <3>2. pc'[w] = "start" /\ \A v \in Workers : v # w => pc'[v] = pc[v]
      BY <1>len, <3>1, GotoFacts
    <3>3. wire.edge + 1 = Front  BY <2>5, <2>6, <2>9 DEF Size
    <3>4. wire'.edge + 1 = Front'  BY <2>0, <2>1, <3>3
    <3>5. \A v \in Workers : pc'[v] # "post"  BY <2>3, <3>2
    <3>6. ~(Len(kernel') > 0) /\ ~(Len(port') > 0)  BY <2>4, <2>7
    <3>7. registered' /\ \A v \in Workers :
            pc'[v] \notin {"fail", "disconnect", "close", "unregister"}
      BY <1>len, <2>0, <2>2, <3>2 DEF Flow
    <3> QED
      BY <3>4, <3>5, <3>6, <3>7 DEF Flow
  <2> QED
    <3>1. c.sent < Size(c.chunk) \/ c.sent = Size(c.chunk)
      BY <2>5, <2>6 DEF Size
    <3> QED  BY <2>8, <2>9, <3>1
<1>9. CASE KernelSend
  <2> DEFINE c == Head(kernel)
  <2>0. /\ kernel # <<>> /\ kernel' = Tail(kernel) /\ Working
        /\ UNCHANGED <<accepted, m_send_queue, m_client, registered, broken, pc, over>>
    BY <1>9 DEF KernelSend, Working
  <2>1. QueueOK' /\ Front' = Front  BY <2>0, <1>same
  <2>2. /\ Len(kernel) = 1 /\ Len(port) = 0
        /\ \A v \in Workers : pc[v] \notin {"start", "post", "fail"}
    <3>1. Len(kernel) # 0 /\ Len(kernel) + Len(port) <= 1
      BY <1>len, <2>0 DEF Single
    <3>2. Len(kernel) = 1 /\ Len(port) = 0 /\ Len(kernel) + Len(port) # 0
      BY <1>len, <3>1, Tight
    <3> QED  BY <1>len, <3>2 DEF Single, Busy
  <2>3. Len(kernel') = 0 /\ c = kernel[1] /\ c \in Chunk
    BY <1>len, <2>0, <2>2, TailLen DEF TypeOK
  <2>4. Under(c)
    <3>1. Len(kernel) > 0  BY <2>2
    <3> QED  BY <1>len, <2>0, <2>3, <3>1 DEF Flow
  <2>5. PICK n \in 1 .. Size(c) :
          /\ wire' = [count |-> wire.count + n, edge |-> c.from + n - 1]
          /\ port' = Append(port, [chunk |-> c, sent |-> n, ok |-> TRUE])
    BY <1>9 DEF KernelSend
  <2>6. c.from \in Nat /\ c.to \in Nat /\ n \in Nat /\ n >= 1 /\ n <= Size(c)
    <3>1. c.from \in Nat /\ c.to \in Nat  BY <2>3 DEF Chunk
    <3> HIDE DEF c
    <3> QED  BY <2>5, <3>1 DEF Size
  <2>7. Len(port') = 1 /\ port'[1] = [chunk |-> c, sent |-> n, ok |-> TRUE]
    <3>1. [chunk |-> c, sent |-> n, ok |-> TRUE] \in Completed
      BY <2>3, <2>6 DEF Completed
    <3> QED  BY <1>len, <2>2, <2>5, <3>1 DEF TypeOK
  <2>8. /\ port'[1].ok /\ port'[1].sent = n /\ port'[1].chunk = c
    BY <2>7
  <2>9. wire'.edge = c.from + n - 1  BY <2>5
  <2>10. c.from + n = wire'.edge + 1  BY <2>6, <2>9
  <2>11. c.to + 1 = Front'  BY <2>1, <2>4 DEF Under
  <2>12. \A v \in Workers : pc'[v] # "post"  BY <2>0, <2>2
  <2>13. Len(kernel') + Len(port') # 0  BY <2>3, <2>7
  <2>14. Flow'
    <3>1. ~(Len(kernel') > 0)  BY <2>3
    <3>2. registered' /\ \A v \in Workers :
            pc'[v] \notin {"fail", "disconnect", "close", "unregister"}
      BY <1>len, <2>0 DEF Flow
    <3>3. /\ port'[1].ok /\ port'[1].sent >= 1
          /\ port'[1].sent <= Size(port'[1].chunk)
          /\ port'[1].chunk.from + port'[1].sent = wire'.edge + 1
          /\ port'[1].chunk.to + 1 = Front'
      <4> HIDE DEF c
      <4> QED  BY <2>6, <2>8, <2>10, <2>11
    <3> QED  BY <2>12, <2>13, <3>1, <3>2, <3>3 DEF Flow, Size
  <2> QED  BY <2>1, <2>14
<1> QED
  BY <1>1, <1>2, <1>3, <1>4, <1>5, <1>6, <1>7, <1>8, <1>9, <1>10, <1>11, <1>12
  DEF Next, Step

\* The first byte that is in no batch is at most one past the accepted ones.
LEMMA FrontBound ==
    ASSUME TypeOK, QueueOK
    PROVE  Front \in Nat /\ Front <= accepted + 1
<1>1. CASE Len(m_send_queue) = 0  BY <1>1 DEF Front, TypeOK
<1>2. CASE Len(m_send_queue) # 0
  <2>1. 1 \in 1 .. Len(m_send_queue)  BY <1>2, QueueType
  <2>2. /\ m_send_queue[1].from <= m_send_queue[1].to /\ m_send_queue[1].to <= accepted
        /\ m_send_queue[1].from \in Nat /\ m_send_queue[1].to \in Nat /\ accepted \in Nat
    BY <2>1, QueueType DEF QueueOK
  <2>3. Front = m_send_queue[1].from  BY <1>2 DEF Front
  <2> QED  BY <2>2, <2>3
<1> QED  BY <1>1, <1>2

\* The bytes the socket takes next are the next ones of the stream.
LEMMA SendDelivers ==
    ASSUME SInv, KernelSend
    PROVE  Pipe!Deliver
<1> DEFINE c == Head(kernel)
<1>1. TypeOK /\ Single /\ QueueOK /\ Flow /\ Working  BY DEF SInv, KernelSend, Working
<1>2. kernel # <<>> /\ kernel \in Seq(Chunk)  BY <1>1 DEF KernelSend, TypeOK
<1>3. c = kernel[1] /\ c \in Chunk /\ Len(kernel) > 0  BY <1>2
<1>4. Under(c)  BY <1>1, <1>3 DEF Flow
<1>5. PICK n \in 1 .. Size(c) :
        wire' = [count |-> wire.count + n, edge |-> c.from + n - 1]
  BY DEF KernelSend
<1>6. c.from \in Nat /\ c.to \in Nat /\ wire.edge \in Nat /\ accepted \in Nat
  BY <1>1, <1>3 DEF Chunk, TypeOK
<1>7. Front \in Nat /\ Front <= accepted + 1  BY <1>1, FrontBound
<1>8. c.from = wire.edge + 1 /\ c.to + 1 = Front  BY <1>4 DEF Under
<1> HIDE DEF c
<1>9. n \in 1 .. accepted - wire.edge /\ c.from + n - 1 = wire.edge + n
  BY <1>5, <1>6, <1>7, <1>8 DEF Size
<1>10. wire' = [count |-> wire.count + n, edge |-> wire.edge + n]  BY <1>5, <1>9
<1>11. accepted' = accepted  BY DEF KernelSend
<1> QED  BY <1>9, <1>10, <1>11 DEF Pipe!Deliver

\* Every step of the send path is a step of the byte pipe or leaves it alone.
LEMMA StepRefines ==
    ASSUME SInv, [Next]_vars
    PROVE  [Pipe!Accept \/ Pipe!Deliver]_(Pipe!pvars)
<1>1. ASSUME NEW w \in Workers, DoSend(w)
      PROVE  Pipe!Accept \/ UNCHANGED <<accepted, wire>>
  <2>1. CASE ~m_client  BY <1>1, <2>1 DEF DoSend, HandOver
  <2>2. CASE m_client
    <3>1. PICK n \in Sizes : accepted' = accepted + n  BY <1>1, <2>2 DEF DoSend, HandOver
    <3>2. n \in 1 .. MaxPacket /\ wire' = wire  BY <1>1, SizesType DEF DoSend, HandOver
    <3> QED  BY <3>1, <3>2 DEF Pipe!Accept
  <2> QED  BY <2>1, <2>2
<1>2. CASE KernelSend  BY <1>2, SendDelivers
<1>3. ASSUME NEW w \in Workers,
             \/ Caller(w) \/ StartNextSend(w) \/ PostSend(w) \/ FailSend(w)
             \/ Disconnect(w) \/ CloseSocket(w) \/ Unregister(w)
             \/ Completion(w) \/ RecvClosed(w)
      PROVE  UNCHANGED <<accepted, wire>>
  BY <1>3
  DEF Caller, StartNextSend, Drained, TakeBatch, PostSend, FailSend, Disconnect, CloseSocket,
      Unregister, Completion, RecvClosed
<1>4. CASE KernelAbort \/ Break \/ UNCHANGED vars
  BY <1>4 DEF KernelAbort, Break, vars, Pipe!pvars
<1> QED
  BY <1>1, <1>2, <1>3, <1>4 DEF Next, Step, Pipe!pvars

\* While WSASend fails only on connections that are gone, the send path
\* implements the byte pipe: whatever the threads do, however sends are
\* split, the client receives a prefix of the accepted bytes, in order.
THEOREM Refines ==
    ASSUME TransientFailure = FALSE
    PROVE  Spec => ImplementsPipe
<1>1. Init => SInv  BY InitType, InitSingle, InitFlow DEF SInv
<1>2. SInv /\ [Next]_vars => SInv'
  <2> SUFFICES ASSUME SInv, [Next]_vars PROVE SInv'  OBVIOUS
  <2>1. TypeOK'  BY NextType DEF SInv
  <2>2. Single'  BY <2>1, NextSingle DEF SInv
  <2>3. QueueOK' /\ Flow'  BY <2>1, NextFlow
  <2> QED  BY <2>1, <2>2, <2>3 DEF SInv
<1>3. Init => Pipe!PipeInit  BY DEF Init, Pipe!PipeInit
<1>4. SInv /\ [Next]_vars => [Pipe!Accept \/ Pipe!Deliver]_(Pipe!pvars)
  BY StepRefines
<1> QED  BY <1>1, <1>2, <1>3, <1>4, PTL DEF Spec, ImplementsPipe, Pipe!PipeSpec
-----------------------------------------------------------------------------
(***************************************************************************)
(* Nothing waits for nobody.  NoStall is inductive once it also covers the *)
(* time when m_send_pending is set and the queue is empty, and a session   *)
(* that has left clients is known to have no socket.                       *)
(***************************************************************************)
Responsible ==
    \/ \E w \in Workers : Busy(w) \/ pc[w] \in {"disconnect", "close"}
    \/ Len(kernel) > 0 \/ Len(port) > 0

Attended ==
    /\ m_client /\ (m_send_pending \/ m_send_queue # <<>>) => Responsible
    /\ ~registered => ~m_client
    /\ \A w \in Workers : pc[w] = "unregister" => ~m_client

LEMMA InitAttended == Init => Attended
BY DEF Init, Attended

\* Worker w goes on to a label at which it is responsible.
LEMMA StaysResponsible ==
    ASSUME TypeOK, NEW w \in Workers, NEW l, Goto(w, l),
           l \in {"start", "post", "fail", "disconnect", "close"}
    PROVE  Responsible'
BY GotoFacts DEF Responsible, Busy

LEMMA NextAttended ==
    ASSUME TypeOK, TypeOK', Attended, [Next]_vars
    PROVE  Attended'
<1> USE DEF Attended
<1>len. /\ Len(kernel) \in Nat /\ (kernel = <<>> <=> Len(kernel) = 0)
        /\ Len(port) \in Nat /\ (port = <<>> <=> Len(port) = 0)
  BY Lengths
<1>typ. kernel \in Seq(Chunk) /\ port \in Seq(Completed) /\ kernel' \in Seq(Chunk)
        /\ port' \in Seq(Completed)
  BY DEF TypeOK
\* A worker that was idle or in do_send moves; nothing else of the session does.
<1>0. ASSUME NEW w \in Workers, NEW l, Goto(w, l), l # "unregister",
             pc[w] \in {"idle", "do_send", "unregister"},
             UNCHANGED <<kernel, port, m_send_pending, m_send_queue, m_client>>,
             ~registered' => ~m_client
      PROVE  Attended'
  <2>1. pc'[w] = l /\ \A v \in Workers : v # w => pc'[v] = pc[v]  BY <1>0, GotoFacts
  <2>2. Responsible => Responsible'
    <3>1. ASSUME NEW v \in Workers, Busy(v) \/ pc[v] \in {"disconnect", "close"}
          PROVE  v # w
      BY <1>0, <3>1 DEF Busy
    <3> QED  BY <1>0, <2>1, <3>1 DEF Responsible, Busy
  <2> QED  BY <1>0, <2>1, <2>2
\* A worker moves on and stays responsible.
<1>00. ASSUME NEW w \in Workers, NEW l, Goto(w, l),
              l \in {"start", "post", "fail", "disconnect", "close"},
              UNCHANGED <<registered, m_client>>
       PROVE  Attended'
  <2>1. pc'[w] = l /\ \A v \in Workers : v # w => pc'[v] = pc[v]  BY <1>00, GotoFacts
  <2>2. Responsible'  BY <1>00, StaysResponsible
  <2> QED  BY <1>00, <2>1, <2>2
<1>1. ASSUME NEW w \in Workers, Caller(w) PROVE Attended'
  BY <1>0, <1>1 DEF Caller
<1>2. ASSUME NEW w \in Workers, DoSend(w) PROVE Attended'
  <2>1. CASE ~m_client  BY <1>0, <1>2, <2>1 DEF DoSend, HandOver
  <2>2. CASE m_client /\ ~m_send_pending  BY <1>00, <1>2, <2>2 DEF DoSend, HandOver
  <2>3. CASE m_client /\ m_send_pending
    <3>1. /\ Goto(w, "idle") /\ pc[w] = "do_send"
          /\ UNCHANGED <<kernel, port, registered, m_client>>
      BY <1>2, <2>3 DEF DoSend, HandOver
    <3>2. pc'[w] = "idle" /\ \A v \in Workers : v # w => pc'[v] = pc[v]
      BY <3>1, GotoFacts
    <3>3. Responsible  BY <2>3
    <3>4. Responsible'
      <4>1. ASSUME NEW v \in Workers, Busy(v) \/ pc[v] \in {"disconnect", "close"}
            PROVE  v # w
        BY <3>1, <4>1 DEF Busy
      <4> QED  BY <3>1, <3>2, <3>3, <4>1 DEF Responsible, Busy
    <3> QED  BY <3>1, <3>2, <3>4
  <2> QED  BY <2>1, <2>2, <2>3
<1>3. ASSUME NEW w \in Workers, StartNextSend(w) PROVE Attended'
  <2>1. CASE Drained(w)
    <3>1. /\ Goto(w, "idle") /\ UNCHANGED <<registered, m_client, m_send_queue>>
          /\ m_send_pending' = FALSE /\ (~m_client \/ m_send_queue = <<>>)
      BY <1>3, <2>1 DEF StartNextSend, Drained
    <3>2. pc'[w] = "idle" /\ \A v \in Workers : v # w => pc'[v] = pc[v]
      BY <3>1, GotoFacts
    <3> QED  BY <3>1, <3>2
  <2>2. CASE TakeBatch(w)  BY <1>00, <1>3, <2>2 DEF StartNextSend, TakeBatch
  <2> QED  BY <1>3, <2>1, <2>2 DEF StartNextSend
<1>4. ASSUME NEW w \in Workers, PostSend(w) PROVE Attended'
  <2>1. CASE kernel' = Append(kernel, over[w]) /\ Goto(w, "idle")
    <3>1. Len(kernel') > 0
      <4>1. over[w] \in Chunk  BY DEF TypeOK
      <4> QED  BY <1>typ, <2>1, <4>1, AppendLen
    <3>2. pc'[w] = "idle" /\ \A v \in Workers : v # w => pc'[v] = pc[v]
      BY <2>1, GotoFacts
    <3>3. Responsible'  BY <3>1 DEF Responsible
    <3> QED  BY <1>4, <3>2, <3>3 DEF PostSend
  <2>2. CASE Goto(w, "fail")  BY <1>00, <1>4, <2>2 DEF PostSend
  <2> QED  BY <1>4, <2>1, <2>2 DEF PostSend
<1>5. ASSUME NEW w \in Workers, FailSend(w) PROVE Attended'
  BY <1>00, <1>5 DEF FailSend
<1>6. ASSUME NEW w \in Workers, Disconnect(w) PROVE Attended'
  <2>1. CASE registered  BY <1>00, <1>6, <2>1 DEF Disconnect
  <2>2. CASE ~registered
    <3>1. ~m_client' /\ ~registered' /\ Goto(w, "idle")  BY <1>6, <2>2 DEF Disconnect
    <3> QED  BY <3>1
  <2> QED  BY <2>1, <2>2
<1>7. ASSUME NEW w \in Workers, CloseSocket(w) PROVE Attended'
  BY <1>7 DEF CloseSocket
<1>8. ASSUME NEW w \in Workers, Unregister(w) PROVE Attended'
  BY <1>8 DEF Unregister
<1>9. ASSUME NEW w \in Workers, Completion(w) PROVE Attended'
  <2>1. UNCHANGED <<registered, m_client, m_send_queue, m_send_pending, kernel>>
    BY <1>9 DEF Completion
  <2>2. CASE \E l \in {"disconnect", "fail", "post", "start"} : Goto(w, l)
    BY <1>00, <2>1, <2>2
  <2>3. CASE ~registered /\ Goto(w, "idle")
    <3>1. ~m_client' /\ ~registered'  BY <2>1, <2>3
    <3> QED  BY <3>1
  <2> QED  BY <1>9, <2>2, <2>3 DEF Completion
<1>10. ASSUME NEW w \in Workers, RecvClosed(w) PROVE Attended'
  BY <1>00, <1>10 DEF RecvClosed
<1>11. CASE KernelSend \/ KernelAbort
  <2>1. /\ UNCHANGED <<registered, m_client, pc>>
        /\ \E x : port' = Append(port, x)
    BY <1>11 DEF KernelSend, KernelAbort
  <2>2. Len(port') > 0  BY <1>typ, <2>1
  <2>3. Responsible'  BY <2>2 DEF Responsible
  <2> QED  BY <2>1, <2>3
<1>12. CASE Break \/ UNCHANGED vars
  BY <1>12 DEF Break, vars, Responsible, Busy
<1> QED
  BY <1>1, <1>2, <1>3, <1>4, <1>5, <1>6, <1>7, <1>8, <1>9, <1>10, <1>11, <1>12
  DEF Next, Step

\* Packets that wait while the socket is open always have a thread, a posted
\* send or a completion that will send them, or the session is being closed:
\* the hand-over of m_send_pending between do_send, start_next_send and the
\* completions has no gap, for any number of threads.
THEOREM NothingWaits == Spec => []NoStall
<1>1. TypeOK /\ Attended /\ [Next]_vars => (TypeOK /\ Attended)'
  BY NextType, NextAttended
<1>2. TypeOK /\ Attended => NoStall
  <2> SUFFICES ASSUME TypeOK, Attended PROVE NoStall  OBVIOUS
  <2> QED  BY Lengths DEF Attended, Responsible, Busy, NoStall, Sending
<1> QED  BY <1>1, <1>2, InitType, InitAttended, PTL DEF Spec
-----------------------------------------------------------------------------
(***************************************************************************)
(* Batches.  Also when WSASend may fail on a working connection, a batch   *)
(* under way starts behind what the client has and ends before the queue,  *)
(* and it is as large as a batch may be.                                   *)
(***************************************************************************)
AheadOf(c) ==
    /\ wire.edge < c.from /\ c.from <= c.to /\ c.to < Front
    /\ Size(c) <= SEND_BATCH_SIZE \/ Size(c) <= MaxPacket

Ahead ==
    /\ wire.edge < Front
    /\ \A i \in 1 .. Len(m_send_queue) : Size(m_send_queue[i]) <= MaxPacket
    /\ \A w \in Workers : pc[w] = "post" => AheadOf(over[w])
    /\ Len(kernel) > 0 => AheadOf(kernel[1])
    /\ Len(port) > 0 /\ port[1].sent > 0 /\ port[1].sent < Size(port[1].chunk)
          => AheadOf(Rest(port[1]))

BInv == TypeOK /\ Single /\ QueueOK /\ Ahead

LEMMA InitAhead == Init => Ahead
BY DEF Init, Ahead, Front

\* What is ahead stays so while the queue only recedes.
LEMMA AheadStays ==
    ASSUME NEW c \in Chunk, AheadOf(c), wire' = wire, Front \in Nat, Front' \in Nat,
           Front <= Front'
    PROVE  AheadOf(c)'
BY DEF AheadOf, Chunk

LEMMA NextAhead ==
    ASSUME BInv, TypeOK', [Next]_vars
    PROVE  QueueOK' /\ Ahead'
<1>len. /\ TypeOK /\ Single /\ QueueOK /\ Ahead
        /\ Len(kernel) \in Nat /\ (kernel = <<>> <=> Len(kernel) = 0)
        /\ Len(port) \in Nat /\ (port = <<>> <=> Len(port) = 0)
        /\ Len(kernel) + Len(port) <= 1
  BY Lengths DEF BInv, Single
<1>typ. /\ kernel \in Seq(Chunk) /\ port \in Seq(Completed)
        /\ over \in [Workers -> Chunk] /\ wire.edge \in Nat /\ accepted \in Nat
  BY <1>len DEF TypeOK
<1>frt. Front \in Nat /\ Front <= accepted + 1  BY <1>len, FrontBound
<1>rst. ASSUME NEW c \in Completed PROVE Rest(c) \in Chunk
  <2>1. c.chunk \in Chunk /\ c.sent \in Nat  BY DEF Completed
  <2> QED  BY <2>1, RestType DEF Rest
\* Steps that change the queue but no batch.
<1>queue. ASSUME UNCHANGED <<over, kernel, port, wire>>, Front' \in Nat, Front <= Front',
                 \A i \in 1 .. Len(m_send_queue') : Size(m_send_queue'[i]) <= MaxPacket,
                 \A w \in Workers : pc'[w] = "post" => pc[w] = "post"
          PROVE  Ahead'
  <2>2. \A c \in Chunk : AheadOf(c) => AheadOf(c)'  BY <1>queue, <1>frt, AheadStays
  <2>3. \A w \in Workers : pc'[w] = "post" => AheadOf(over[w])'
    BY <1>len, <1>typ, <1>queue, <2>2 DEF Ahead, AheadOf
  <2>4. Len(kernel') > 0 => AheadOf(kernel[1])'
    BY <1>len, <1>typ, <1>queue, <2>2 DEF Ahead, AheadOf
  <2>5. Len(port') > 0 /\ port'[1].sent > 0 /\ port'[1].sent < Size(port'[1].chunk)
          => AheadOf(Rest(port[1]))'
    <3>1. Len(port) > 0 => port[1] \in Completed  BY <1>typ
    <3> QED  BY <1>len, <1>queue, <1>rst, <2>2, <3>1 DEF Ahead, AheadOf
  <2>6. wire.edge' < Front'  BY <1>len, <1>typ, <1>frt, <1>queue DEF Ahead
  <2> QED  BY <1>queue, <2>3, <2>4, <2>5, <2>6 DEF Ahead
<1>same. ASSUME UNCHANGED <<accepted, m_send_queue, over, kernel, port, wire>>,
                \A w \in Workers : pc'[w] = "post" => pc[w] = "post"
         PROVE  QueueOK' /\ Ahead'
  <2>1. QueueOK' /\ Front' = Front  BY <1>same, <1>len DEF QueueOK, Front
  <2>2. \A i \in 1 .. Len(m_send_queue') : Size(m_send_queue'[i]) <= MaxPacket
    BY <1>same, <1>len DEF Ahead
  <2>3. Ahead'  BY <1>same, <1>frt, <1>queue, <2>1, <2>2
  <2> QED  BY <2>1, <2>3
<1>goto. ASSUME NEW w \in Workers, NEW l, Goto(w, l), l # "post"
         PROVE  \A v \in Workers : pc'[v] = "post" => pc[v] = "post"
  BY <1>goto, <1>len, GotoFacts
<1>1. ASSUME NEW w \in Workers,
             \/ Caller(w) \/ Disconnect(w) \/ CloseSocket(w) \/ Unregister(w)
             \/ RecvClosed(w)
      PROVE  QueueOK' /\ Ahead'
  <2>1. /\ UNCHANGED <<accepted, m_send_queue, over, kernel, port, wire>>
        /\ \E l \in {"do_send", "disconnect", "close", "unregister", "idle"} : Goto(w, l)
    BY <1>1 DEF Caller, Disconnect, CloseSocket, Unregister, RecvClosed
  <2> QED  BY <1>same, <1>goto, <2>1
<1>2. ASSUME NEW w \in Workers, DoSend(w) PROVE QueueOK' /\ Ahead'
  <2>0. /\ UNCHANGED <<over, kernel, port, wire>>
        /\ \E l \in {"idle", "start"} : Goto(w, l)
    BY <1>2 DEF DoSend, HandOver
  <2>1. CASE ~m_client  BY <1>same, <1>goto, <1>2, <2>0, <2>1 DEF DoSend
  <2>2. CASE m_client
    <3>1. PICK n \in Sizes :
            /\ accepted' = accepted + n
            /\ m_send_queue' = Append(m_send_queue,
                                      [from |-> accepted + 1, to |-> accepted + n])
      BY <1>2, <2>2 DEF DoSend
    <3>2. n \in Nat \ {0} /\ n \in 1 .. MaxPacket /\ MaxPacket \in Nat
      BY SizesType, SendAssumption
    <3>3. QueueOK' /\ Front' = Front  BY <1>len, <3>1, <3>2, AcceptQueue
    <3> DEFINE q == m_send_queue  c == [from |-> accepted + 1, to |-> accepted + n]
    <3>4. /\ Len(q) \in Nat /\ Len(q') = Len(q) + 1 /\ q'[Len(q) + 1] = c
          /\ \A i \in 1 .. Len(q) : q'[i] = q[i]
      BY <1>len, <3>1, SMTT(30) DEF TypeOK
    <3>5. Size(c) <= MaxPacket  BY <1>typ, <3>2 DEF Size
    <3> HIDE DEF c
    <3>6. ASSUME NEW i \in 1 .. Len(q') PROVE Size(q'[i]) <= MaxPacket
      <4>1. i \in 1 .. Len(q) \/ i = Len(q) + 1  BY <3>4
      <4> QED  BY <1>len, <3>4, <3>5, <4>1 DEF Ahead
    <3>7. Ahead'  BY <1>queue, <1>goto, <1>frt, <2>0, <3>3, <3>6
    <3> QED  BY <3>3, <3>7
  <2> QED  BY <2>1, <2>2
<1>3. ASSUME NEW w \in Workers, StartNextSend(w) PROVE QueueOK' /\ Ahead'
  <2>1. CASE Drained(w)
    BY <1>3, <2>1, <1>same, <1>goto DEF StartNextSend, Drained
  <2>2. CASE TakeBatch(w)
    <3>1. PICK k \in 1 .. Len(m_send_queue) :
            /\ Taken(m_send_queue, k)
            /\ Hold(w, [from |-> m_send_queue[1].from, to |-> m_send_queue[k].to])
            /\ m_send_queue' = SubSeq(m_send_queue, k + 1, Len(m_send_queue))
      BY <2>2 DEF TakeBatch
    <3>2. /\ Goto(w, "post") /\ pc[w] = "start"
          /\ UNCHANGED <<accepted, kernel, port, wire>>
      BY <1>3, <2>2 DEF StartNextSend, TakeBatch
    <3> DEFINE q == m_send_queue
    <3>0. PICK c : c = [from |-> q[1].from, to |-> q[k].to]  OBVIOUS
    <3>3. /\ QueueOK' /\ q[1].from = Front /\ q[1].from <= q[k].to
          /\ q[k].to + 1 = Front'
      BY <1>len, <3>1, <3>2, TakeQueue
    <3>4. /\ Len(q) \in Nat /\ 1 \in 1 .. Len(q)
          /\ \A i \in 1 .. Len(q) : q[i] \in Chunk /\ q[i].from \in Nat /\ q[i].to \in Nat
      BY <1>len, QueueType
    <3>5. c \in Chunk /\ c.from = Front /\ c.from <= c.to /\ c.to + 1 = Front'
      BY <3>0, <3>3, <3>4 DEF Chunk
    <3>6. Size(c) <= SEND_BATCH_SIZE \/ Size(c) <= MaxPacket
      <4>1. CASE k = 1
        <5>1. Size(q[1]) <= MaxPacket  BY <1>len, <3>4 DEF Ahead
        <5> QED  BY <3>0, <4>1, <5>1 DEF Size
      <4>2. CASE k # 1
        <5>1. q[k].to - q[1].from + 1 <= SEND_BATCH_SIZE
          BY <3>1, <3>4, <4>2 DEF Taken, Fits
        <5> QED  BY <3>0, <5>1 DEF Size
      <4> QED  BY <4>1, <4>2
    <3>7. /\ pc'[w] = "post" /\ \A v \in Workers : v # w => pc'[v] = pc[v]
          /\ over'[w] = c
      BY <1>len, <1>typ, <3>0, <3>1, <3>2, GotoFacts DEF Hold
    <3>8. /\ Len(kernel) + Len(port) = 0
          /\ \A v \in Workers : Busy(v) => v = w
      BY <1>len, <3>2 DEF Single, Busy
    <3>9. wire.edge < Front /\ Front' \in Nat /\ c.from \in Nat /\ c.to \in Nat
      BY <1>len, <3>3, <3>4, <3>5 DEF Ahead, Chunk
    <3>10. AheadOf(c)'
      BY <1>typ, <1>frt, <3>2, <3>5, <3>6, <3>9 DEF AheadOf
    <3>11. \A i \in 1 .. Len(q') : Size(q'[i]) <= MaxPacket
      <4>1. /\ Len(q') = Len(q) - k /\ \A i \in 1 .. Len(q) - k : q'[i] = q[k + i]
        BY <1>len, <3>1, <3>4, SMTT(60) DEF TypeOK
      <4>2. \A i \in 1 .. Len(q) - k : k + i \in 1 .. Len(q)  BY <3>1, <3>4
      <4> QED  BY <1>len, <4>1, <4>2 DEF Ahead
    <3>12. \A v \in Workers : pc'[v] = "post" => AheadOf(over[v])'
      BY <3>7, <3>8, <3>10 DEF AheadOf, Busy
    <3>13. wire'.edge < Front'  BY <1>typ, <1>frt, <3>2, <3>5, <3>9
    <3>14. Len(kernel') = 0 /\ Len(port') = 0  BY <1>len, <3>2, <3>8
    <3> QED  BY <3>3, <3>11, <3>12, <3>13, <3>14 DEF Ahead
  <2> QED  BY <1>3, <2>1, <2>2 DEF StartNextSend
<1>4. ASSUME NEW w \in Workers, PostSend(w) PROVE QueueOK' /\ Ahead'
  <2>1. /\ pc[w] = "post" /\ UNCHANGED <<accepted, m_send_queue, port, wire>>
        /\ over' = [over EXCEPT ![w] = NoChunk]
    BY <1>4 DEF PostSend, Hold
  <2>2. /\ Len(kernel) = 0 /\ Len(port) = 0 /\ \A v \in Workers : Busy(v) => v = w
    BY <1>len, <2>1 DEF Single, Busy
  <2>3. AheadOf(over[w]) /\ over[w] \in Chunk  BY <1>len, <1>typ, <2>1 DEF Ahead
  <2>4. QueueOK' /\ Front' = Front  BY <1>len, <2>1 DEF QueueOK, Front
  <2>5. AheadOf(over[w]) <=> AheadOf(over[w])!1 /\ AheadOf(over[w])!2  BY DEF AheadOf
  <2>6. PICK l \in {"idle", "fail"} : Goto(w, l)  BY <1>4 DEF PostSend
  <2>7. \A v \in Workers : pc'[v] # "post"
    BY <1>len, <2>2, <2>6, GotoFacts DEF Busy
  <2>8. Len(kernel') > 0 => kernel'[1] = over[w]
    BY <1>4, <1>typ, <2>2, <2>3 DEF PostSend
  <2>9. ASSUME NEW c, AheadOf(c) PROVE wire'.edge < c.from /\ c.from <= c.to /\ c.to < Front'
                    /\ (Size(c) <= SEND_BATCH_SIZE \/ Size(c) <= MaxPacket)
    BY <2>1, <2>4, <2>9 DEF AheadOf
  <2>10. Len(kernel') > 0 => AheadOf(kernel[1])'
    BY <2>3, <2>8, <2>9 DEF AheadOf
  <2> QED  BY <1>len, <2>1, <2>2, <2>4, <2>7, <2>10 DEF Ahead
<1>5. ASSUME NEW w \in Workers, FailSend(w) PROVE QueueOK' /\ Ahead'
  <2>1. /\ m_send_queue' = <<>> /\ accepted' = accepted /\ Goto(w, "disconnect")
        /\ UNCHANGED <<over, kernel, port, wire>>
    BY <1>5 DEF FailSend
  <2>2. Len(m_send_queue') = 0  BY <2>1
  <2>3. QueueOK' /\ Front' = accepted + 1  BY <2>1, <2>2 DEF QueueOK, Front
  <2>4. Ahead'  BY <1>queue, <1>goto, <1>frt, <1>typ, <2>1, <2>2, <2>3
  <2> QED  BY <2>3, <2>4
<1>6. ASSUME NEW w \in Workers, Completion(w) PROVE QueueOK' /\ Ahead'
  <2> DEFINE c == port[1]
  <2>1. /\ port # <<>> /\ port' = Tail(port) /\ Head(port) = c
        /\ UNCHANGED <<accepted, m_send_queue, kernel, wire>>
    BY <1>6, <1>typ DEF Completion
  <2>2. Len(port) = 1 /\ Len(kernel) = 0 /\ \A v \in Workers : ~Busy(v)
    <3>0. Len(port) # 0 /\ Len(port) + Len(kernel) <= 1  BY <1>len, <2>1
    <3>1. /\ Len(port) = 1 /\ Len(kernel) = 0 /\ Len(kernel) + Len(port) # 0
      BY <1>len, <3>0, Tight
    <3> QED  BY <1>len, <3>1 DEF Single
  <2>3. Len(port') = 0 /\ Len(kernel') = 0  BY <1>typ, <2>1, <2>2, TailLen
  <2>4. QueueOK' /\ Front' = Front  BY <1>len, <2>1 DEF QueueOK, Front
  <2>5. c \in Completed  BY <1>typ, <2>1, <2>2
  <2>6. ASSUME NEW v \in Workers, pc'[v] = "post"
        PROVE  v = w /\ over'[w] = Rest(c) /\ AheadOf(Rest(c))
    <3>1. PICK l : Goto(w, l)  BY <1>6 DEF Completion
    <3>2. v = w /\ l = "post"
      BY <1>len, <2>2, <2>6, <3>1, GotoFacts DEF Busy
    <3>3. pc'[w] = "post"  BY <2>6, <3>2
    <3>4. ~\E m \in {"idle", "disconnect", "fail", "start"} : Goto(w, m)
      BY <1>len, <3>3, GotoFacts
    <3>5. c.sent > 0 /\ c.sent < Size(c.chunk) /\ Hold(w, Rest(c))
      BY <1>6, <2>1, <3>4 DEF Completion
    <3> QED  BY <1>len, <1>typ, <2>2, <3>2, <3>5 DEF Ahead, Hold
  <2>7. \A v \in Workers : pc'[v] = "post" => AheadOf(over[v])'
    BY <2>1, <2>4, <2>6 DEF AheadOf
  <2> QED  BY <1>len, <2>1, <2>3, <2>4, <2>7 DEF Ahead
<1>7. CASE KernelSend
  <2>0. PICK c : c = kernel[1]  OBVIOUS
  <2>1. /\ kernel # <<>> /\ kernel' = Tail(kernel) /\ Head(kernel) = c
        /\ UNCHANGED <<accepted, m_send_queue, pc, over>>
    BY <1>7, <1>typ, <2>0 DEF KernelSend
  <2>2. Len(kernel) = 1 /\ Len(port) = 0 /\ \A v \in Workers : ~Busy(v)
    <3>0. Len(kernel) # 0  BY <1>len, <2>1
    <3>1. /\ Len(kernel) = 1 /\ Len(port) = 0 /\ Len(kernel) + Len(port) # 0
      BY <1>len, <3>0, Tight
    <3> QED  BY <1>len, <3>1 DEF Single
  <2>3. c \in Chunk /\ c.from \in Nat /\ c.to \in Nat
    <3>0. kernel \in Seq(Chunk) /\ Len(kernel) = 1  BY <1>typ, <2>2
    <3>2. kernel[1] \in Chunk  BY <3>0
    <3>1. c \in Chunk  BY <2>0, <3>2
    <3> QED  BY <3>1 DEF Chunk
  <2>4. PICK n \in 1 .. Size(c) :
          /\ wire' = [count |-> wire.count + n, edge |-> c.from + n - 1]
          /\ port' = Append(port, [chunk |-> c, sent |-> n, ok |-> TRUE])
    BY <1>7, <2>1 DEF KernelSend
  <2>5. QueueOK' /\ Front' = Front  BY <1>len, <2>1 DEF QueueOK, Front
  <2>6. AheadOf(c)  BY <1>len, <2>0, <2>2 DEF Ahead
  <2>7. Len(kernel') = 0 /\ port'[1] = [chunk |-> c, sent |-> n, ok |-> TRUE]
    BY <1>typ, <2>1, <2>2, <2>4, TailLen
  <2>8. wire'.edge = c.from + n - 1  BY <2>4
  <2>9. wire'.edge < Front'  BY <1>frt, <2>3, <2>5, <2>6, <2>8 DEF AheadOf, Size
  <2>10. PICK r : r = [c EXCEPT !.from = @ + n]  OBVIOUS
  <2>11. ASSUME n < Size(c) PROVE AheadOf(r)'
    <3>1. r.from = c.from + n /\ r.to = c.to  BY <2>3, <2>10 DEF Chunk
    <3>2. wire'.edge < r.from /\ r.from <= r.to /\ r.to < Front'
      BY <2>3, <2>5, <2>6, <2>8, <2>11, <3>1 DEF AheadOf, Size
    <3>3. Size(r) <= Size(c) /\ Size(r) \in Int /\ Size(c) \in Int
      BY <2>3, <3>1 DEF Size
    <3>4. Size(r) <= SEND_BATCH_SIZE \/ Size(r) <= MaxPacket
      BY <2>6, <3>3, SendAssumption DEF AheadOf
    <3> QED  BY <3>2, <3>4 DEF AheadOf
  <2>12. Rest(port[1])' = r /\ port'[1].sent = n /\ port'[1].chunk = c
    BY <2>7, <2>10 DEF Rest
  <2>13. Len(port') > 0 /\ port'[1].sent > 0 /\ port'[1].sent < Size(port'[1].chunk)
            => AheadOf(Rest(port[1]))'
    BY <2>11, <2>12 DEF AheadOf
  <2>14. \A v \in Workers : pc'[v] # "post"  BY <2>1, <2>2 DEF Busy
  <2> QED  BY <1>len, <2>1, <2>5, <2>7, <2>9, <2>13, <2>14 DEF Ahead
<1>8. CASE KernelAbort
  <2>1. /\ kernel # <<>> /\ kernel' = Tail(kernel)
        /\ UNCHANGED <<accepted, m_send_queue, pc, over, wire>>
        /\ \E ok : port' = Append(port, [chunk |-> Head(kernel), sent |-> 0, ok |-> ok])
    BY <1>8 DEF KernelAbort
  <2>2. Len(kernel) = 1 /\ Len(port) = 0 /\ \A v \in Workers : ~Busy(v)
    <3>0. Len(kernel) # 0  BY <1>len, <2>1
    <3>1. /\ Len(kernel) = 1 /\ Len(port) = 0 /\ Len(kernel) + Len(port) # 0
      BY <1>len, <3>0, Tight
    <3> QED  BY <1>len, <3>1 DEF Single
  <2>3. QueueOK' /\ Front' = Front  BY <1>len, <2>1 DEF QueueOK, Front
  <2>4. Len(kernel') = 0 /\ port'[1].sent = 0  BY <1>typ, <2>1, <2>2, TailLen
  <2> QED  BY <1>len, <2>1, <2>2, <2>3, <2>4 DEF Ahead, Busy
<1>9. CASE Break \/ UNCHANGED vars
  BY <1>9, <1>same DEF Break, vars
<1> QED
  BY <1>1, <1>2, <1>3, <1>4, <1>5, <1>6, <1>7, <1>8, <1>9 DEF Next, Step

LEMMA BInvHolds == Spec => []BInv
<1>1. Init => BInv  BY InitType, InitSingle, InitFlow, InitAhead DEF BInv
<1>2. BInv /\ [Next]_vars => BInv'
  <2> SUFFICES ASSUME BInv, [Next]_vars PROVE BInv'  OBVIOUS
  <2>1. TypeOK'  BY NextType DEF BInv
  <2>2. Single'  BY <2>1, NextSingle DEF BInv
  <2>3. QueueOK' /\ Ahead'  BY <2>1, NextAhead
  <2> QED  BY <2>1, <2>2, <2>3 DEF BInv
<1> QED  BY <1>1, <1>2, PTL DEF Spec

\* What is handed to WSASend is never empty and is larger than a batch only
\* if it is one packet or the rest of one.
THEOREM BatchesFit == Spec => []BatchFits
<1>1. BInv => BatchFits
  <2> SUFFICES ASSUME BInv, NEW w \in Workers, pc[w] = "post"
               PROVE  /\ Size(over[w]) >= 1
                      /\ Size(over[w]) <= SEND_BATCH_SIZE \/ Size(over[w]) <= MaxPacket
    BY DEF BatchFits
  <2>1. AheadOf(over[w]) /\ over[w] \in Chunk  BY DEF BInv, Ahead, TypeOK
  <2> QED  BY <2>1 DEF AheadOf, Chunk, Size
<1> QED  BY <1>1, BInvHolds, PTL

\* No byte is delivered twice or after a later one, even when WSASend fails
\* on a working connection and fail_send throws the queue away.
THEOREM NeverReorders == Spec => NoReorder
<1>1. BInv /\ [Next]_vars
        => [wire' # wire => wire'.edge - wire.edge >= wire'.count - wire.count]_vars
  <2> SUFFICES ASSUME BInv, Next, wire' # wire
               PROVE  wire'.edge - wire.edge >= wire'.count - wire.count
    BY DEF vars
  <2>1. KernelSend
    BY DEF Next, Step, Caller, DoSend, HandOver, StartNextSend, Drained, TakeBatch, PostSend,
           FailSend, Disconnect, CloseSocket, Unregister, Completion, RecvClosed, KernelAbort,
           Break
  <2> DEFINE c == kernel[1]
  <2>2. kernel \in Seq(Chunk) /\ kernel # <<>> /\ Head(kernel) = c /\ Len(kernel) > 0
    BY <2>1 DEF KernelSend, BInv, TypeOK
  <2>3. AheadOf(c) /\ c \in Chunk  BY <2>2 DEF BInv, Ahead
  <2>4. PICK n \in 1 .. Size(c) :
          wire' = [count |-> wire.count + n, edge |-> c.from + n - 1]
    BY <2>1, <2>2 DEF KernelSend
  <2>5. /\ c.from \in Nat /\ c.to \in Nat /\ wire.edge \in Nat /\ wire.count \in Nat
        /\ wire.edge < c.from
    BY <2>3 DEF AheadOf, Chunk, BInv, TypeOK
  <2>6. wire'.edge = c.from + n - 1 /\ wire'.count = wire.count + n  BY <2>4
  <2> HIDE DEF c
  <2> QED  BY <2>5, <2>6 DEF Size
<1> QED  BY <1>1, BInvHolds, PTL DEF Spec, NoReorder
=============================================================================
