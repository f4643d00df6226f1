----------------------------- MODULE Stcp_proofs -----------------------------
(***************************************************************************)
(* Proofs about modules Stcp and StcpStream, for every value of their      *)
(* constants: types, the bytes an application may be given, what a         *)
(* transport thread has sent when it returns, and, over a reliable link,   *)
(* the stream from the client to the server and the sliding windows.       *)
(***************************************************************************)
EXTENDS StcpStream, SequenceTheorems, TLAPS

(* While the transport thread is in its APP_DATA section the application's *)
(* queue is not empty: only this thread takes buffers out of it.           *)
AppPhase == \A e \in Endpoint : pc[e] = "app" => app_recv_queue[e] # << >>

TypeInv == TypeOK /\ AppPhase

-----------------------------------------------------------------------------
(* The arithmetic of size_t and tcp_seq yields natural numbers. *)
LEMMA SizeSubType ==
    ASSUME NEW a \in Nat, NEW b \in Nat PROVE SizeSub(a, b) \in Nat
BY ConstantsAssumption DEF SizeSub

LEMMA RemType ==
    ASSUME NEW a \in Nat, NEW b \in Nat, NEW c \in Nat
    PROVE  SizeSub(a, SizeSub(b, c)) \in Nat
<1> DEFINE d == SizeSub(b, c)
<1>1. d \in Nat
  BY SizeSubType
<1> HIDE DEF d
<1>2. SizeSub(a, d) \in Nat
  BY <1>1, SizeSubType
<1>3. QED
  BY <1>2 DEF d

(* Putting an element back in front of a sequence. *)
LEMMA ConsType ==
    ASSUME NEW S, NEW x \in S, NEW t \in Seq(S)
    PROVE  <<x>> \o t \in Seq(S)
<1>1. <<x>> \in Seq(S)
  OBVIOUS
<1>2. QED
  BY <1>1

(* What is left of a queue after a read is a queue. *)
LEMMA BufferAfterType ==
    ASSUME NEW q \in Seq(Chunk), q # << >>, NEW n \in Nat
    PROVE  BufferAfter(q, n) \in Seq(Chunk)
<1>1. Head(q) \in Chunk /\ Tail(q) \in Seq(Chunk)
  OBVIOUS
<1>2. Head(q).from \in Nat /\ Head(q).len \in Nat
  BY <1>1 DEF Chunk
<1>3. CASE Head(q).len > n
  <2>1. Head(q).from + n \in Nat /\ Head(q).len - n \in Nat
    BY <1>2, <1>3
  <2>2. [from |-> Head(q).from + n, len |-> Head(q).len - n] \in Chunk
    BY <2>1 DEF Chunk
  <2>3. QED
    BY <1>1, <1>3, <2>2, ConsType DEF BufferAfter
<1>4. CASE ~(Head(q).len > n)
  BY <1>1, <1>4 DEF BufferAfter
<1>5. QED
  BY <1>3, <1>4

LEMMA TcpSeqType ==
    ASSUME NEW a \in Nat PROVE TcpSeq(a) \in Nat
BY ConstantsAssumption DEF TcpSeq

(* The congestion window stays a natural number when it grows. *)
LEMMA GrownType ==
    ASSUME TypeOK, NEW e \in Endpoint
    PROVE  GrownCWND(e) \in Nat /\ GrownSWND(e) \in Nat
<1>1. CWND[e] \in Nat /\ MSS \in Nat /\ MSS > 0 /\ RECV_WIN \in Nat
  BY ConstantsAssumption DEF TypeOK
<1>2. ASSUME NEW a \in Nat, NEW b \in Nat, b > 0 PROVE a \div b \in Nat
  BY <1>2
<1>3. MSS * MSS \in Nat
  BY <1>1
<1>4. GrownCWND(e) \in Nat
  <2>1. CASE CWND[e] < 4 * MSS
    BY <1>1, <2>1 DEF GrownCWND
  <2>2. CASE ~(CWND[e] < 4 * MSS)
    <3>1. CWND[e] > 0
      BY <1>1, <2>2
    <3>2. (MSS * MSS) \div CWND[e] \in Nat
      BY <1>1, <1>2, <1>3, <3>1
    <3>3. QED
      BY <1>1, <2>2, <3>2 DEF GrownCWND
  <2>3. QED
    BY <2>1, <2>2
<1>5. QED
  BY <1>1, <1>4 DEF GrownSWND, MIN

(* Sending a packet keeps the network well typed, whatever becomes of it. *)
LEMMA SendType ==
    ASSUME TypeOK, NEW e \in Endpoint, NEW p \in Packet, NetworkSend(e, p)
    PROVE  /\ wire' \in [Endpoint -> Seq(Packet)]
           /\ copied' \in [Endpoint -> Packet \cup {NoPacket}]
           /\ mishaps' \in [Endpoint -> Nat]
<1>1. /\ wire \in [Endpoint -> Seq(Packet)] /\ mishaps \in [Endpoint -> Nat]
      /\ copied \in [Endpoint -> Packet \cup {NoPacket}]
  BY DEF TypeOK
<1>2. Peer(e) \in Endpoint
  BY DEF Peer, Endpoint
<1>3. CASE SendPackets(e, <<p>>) /\ UNCHANGED <<copied, mishaps>>
  <2>1. <<p>> \in Seq(Packet) /\ wire[Peer(e)] \in Seq(Packet)
    BY <1>1, <1>2
  <2>2. wire[Peer(e)] \o <<p>> \in Seq(Packet)
    BY <2>1
  <2>3. QED
    BY <1>1, <1>2, <1>3, <2>2 DEF SendPackets
<1>4. ASSUME NEW m \in Mishaps(e, p),
             SendPackets(e, m[1]),
             copied' = [copied EXCEPT ![e] = m[2]],
             mishaps' = [mishaps EXCEPT ![e] = @ + 1]
      PROVE  /\ wire' \in [Endpoint -> Seq(Packet)]
             /\ copied' \in [Endpoint -> Packet \cup {NoPacket}]
             /\ mishaps' \in [Endpoint -> Nat]
  <2>1. m[1] \in Seq(Packet) /\ m[2] \in Packet \cup {NoPacket}
    <3>1. << >> \in Seq(Packet) /\ <<p, p>> \in Seq(Packet)
      OBVIOUS
    <3>2. copied[e] \in Packet \cup {NoPacket}
      BY <1>1
    <3>3. copied[e] # NoPacket => <<copied[e]>> \in Seq(Packet)
      BY <3>2
    <3>4. \/ m = << << >>, copied[e]>>
          \/ m = << <<p, p>>, copied[e]>>
          \/ m = << << >>, p>>
          \/ copied[e] # NoPacket /\ m = << <<copied[e]>>, copied[e]>>
      BY Zenon DEF Mishaps
    <3>5. CASE m = << << >>, copied[e]>>
      BY <3>1, <3>2, <3>5
    <3>6. CASE m = << <<p, p>>, copied[e]>>
      BY <3>1, <3>2, <3>6
    <3>7. CASE m = << << >>, p>>
      BY <3>1, <3>7
    <3>8. CASE copied[e] # NoPacket /\ m = << <<copied[e]>>, copied[e]>>
      BY <3>2, <3>3, <3>8
    <3>9. QED
      BY <3>4, <3>5, <3>6, <3>7, <3>8
  <2>2. wire[Peer(e)] \o m[1] \in Seq(Packet)
    BY <1>1, <1>2, <2>1
  <2>3. QED
    BY <1>1, <1>2, <1>4, <2>1, <2>2 DEF SendPackets
<1>5. QED
  BY <1>3, <1>4 DEF NetworkSend

(* Taking a packet from the network queue yields a packet. *)
LEMMA RecvType ==
    ASSUME TypeOK, NEW e \in Endpoint, NetworkRecv(e)
    PROVE  /\ Received(e) \in Packet
           /\ network_recv_queue' \in [Endpoint -> Seq(Packet)]
<1>1. network_recv_queue \in [Endpoint -> Seq(Packet)]
  BY DEF TypeOK
<1>2. network_recv_queue[e] \in Seq(Packet) /\ network_recv_queue[e] # << >>
  BY <1>1 DEF NetworkRecv
<1>3. Head(network_recv_queue[e]) \in Packet /\ Tail(network_recv_queue[e]) \in Seq(Packet)
  BY <1>2
<1>4. QED
  BY <1>1, <1>3 DEF NetworkRecv, Received

(* The program counter stays in its range after each section of the loop. *)
LEMMA PhaseType ==
    ASSUME NEW bits, NEW state
    PROVE  /\ LoopEnd(state) \in {"done", "wait"}
           /\ AfterNet(bits, state) \in {"close", "done", "wait"}
           /\ AfterApp(bits, state) \in {"net", "close", "done", "wait"}
           /\ AfterWait(bits, state) \in {"app", "net", "close", "done", "wait"}
BY DEF LoopEnd, AfterNet, AfterApp, AfterWait

-----------------------------------------------------------------------------
(* The handshake keeps the type invariant. *)
LEMMA HandshakeType ==
    ASSUME TypeInv, NEW e \in Endpoint,
           TransportInit(e) \/ SynSent(e) \/ Listen(e) \/ SynRcvd(e)
    PROVE  TypeInv'
<1> USE DEF TypeInv, AppPhase, thread, queues, application, CSTATE
<1>0. /\ initial_sequence_num \in Nat /\ MSS \in Nat /\ 0 \in Nat
      /\ \A n \in Nat : TcpSeq(n + 1) \in Nat
  BY ConstantsAssumption, TcpSeqType DEF initial_sequence_num
<1>1. CASE TransportInit(e)
  <2>1. /\ wire' \in [Endpoint -> Seq(Packet)] /\ mishaps' \in [Endpoint -> Nat]
        /\ copied' \in [Endpoint -> Packet \cup {NoPacket}]
    <3>1. CASE e = "client"
      <4>1. [flags |-> "SYN", th_seq |-> initial_sequence_num, th_ack |-> 0,
             len |-> 0, pos |-> initial_sequence_num] \in Packet
        BY <1>0 DEF Packet
      <4>2. QED
        BY <1>1, <3>1, <4>1, SendType DEF TransportInit
    <3>2. CASE e # "client"
      BY <1>1, <3>2 DEF TransportInit, network, TypeOK
    <3>3. QED
      BY <3>1, <3>2
  <2>2. QED
    BY <1>1, <2>1 DEF TransportInit, TypeOK
<1>2. CASE SynSent(e)
  <2>1. Received(e) \in Packet /\ network_recv_queue' \in [Endpoint -> Seq(Packet)]
    BY <1>2, RecvType DEF SynSent
  <2>2. [flags |-> Received(e).flags, th_seq |-> Received(e).th_ack,
         th_ack |-> TcpSeq(Received(e).th_seq + 1), len |-> 0,
         pos |-> initial_sequence_num] \in Packet
    BY <1>0, <2>1 DEF Packet
  <2>3. /\ wire' \in [Endpoint -> Seq(Packet)] /\ mishaps' \in [Endpoint -> Nat]
        /\ copied' \in [Endpoint -> Packet \cup {NoPacket}]
    BY <1>2, <2>2, SendType DEF SynSent
  <2>4. QED
    BY <1>0, <1>2, <2>1, <2>3 DEF SynSent, Establish, TypeOK
<1>3. CASE Listen(e)
  <2>1. Received(e) \in Packet /\ network_recv_queue' \in [Endpoint -> Seq(Packet)]
    BY <1>3, RecvType DEF Listen
  <2>2. [flags |-> Received(e).flags, th_seq |-> initial_sequence_num,
         th_ack |-> TcpSeq(Received(e).th_seq + 1), len |-> 0,
         pos |-> initial_sequence_num] \in Packet
    BY <1>0, <2>1 DEF Packet
  <2>3. /\ wire' \in [Endpoint -> Seq(Packet)] /\ mishaps' \in [Endpoint -> Nat]
        /\ copied' \in [Endpoint -> Packet \cup {NoPacket}]
    BY <1>3, <2>2, SendType DEF Listen
  <2>4. QED
    BY <1>3, <2>1, <2>3 DEF Listen, TypeOK
<1>4. CASE SynRcvd(e)
  <2>1. network_recv_queue' \in [Endpoint -> Seq(Packet)]
    BY <1>4, RecvType DEF SynRcvd
  <2>2. QED
    BY <1>0, <1>4, <2>1 DEF SynRcvd, Establish, TypeOK, network
<1>5. QED
  BY <1>1, <1>2, <1>3, <1>4

(* The loop's wait and APP_DATA sections keep the type invariant. *)
LEMMA AppDataType ==
    ASSUME TypeInv, NEW e \in Endpoint,
           WaitForEvent(e) \/ WindowFull(e) \/ SendData(e) \/ SendOverrun(e)
    PROVE  TypeInv'
<1> USE DEF TypeInv, AppPhase, context, application
<1>1. CASE WaitForEvent(e)
  <2>1. PendingEvents(e) \in SUBSET EventBits
    BY DEF PendingEvents
  <2>2. AfterWait(PendingEvents(e), connection_state[e]) = "app" => app_recv_queue[e] # << >>
    BY PhaseType DEF AfterWait, PendingEvents
  <2>3. close_requested' \in [Endpoint -> BOOLEAN]
    BY <1>1 DEF WaitForEvent, TypeOK
  <2>4. pc' \in [Endpoint -> {"start", "handshake", "wait", "app", "net", "close",
                               "done", "exited", "aborted", "faulted"}]
    BY <1>1, PhaseType DEF WaitForEvent, TypeOK
  <2>5. AppPhase'
    BY <1>1, <2>2 DEF WaitForEvent, TypeOK, queues
  <2>6. QED
    BY <1>1, <2>1, <2>3, <2>4, <2>5 DEF WaitForEvent, TypeOK, queues, network
<1>2. CASE WindowFull(e)
  BY <1>2, PhaseType DEF WindowFull, TypeOK, queues, network
<1>3. CASE SendData(e)
  <2> DEFINE q == app_recv_queue[e]
             n == data_size(e)
             p == [flags |-> "DATA", th_seq |-> TcpSeq(next_seqnum[e]), th_ack |-> 0,
                   len |-> n, pos |-> Head(q).from]
  <2>1. /\ q \in Seq(Chunk) /\ q # << >>
        /\ next_seqnum[e] \in Nat /\ SWND[e] \in Nat /\ SendBase[e] \in Nat
        /\ rem[e] \in Nat /\ MSS \in Nat
    BY <1>3, ConstantsAssumption DEF SendData, TypeOK
  <2>2. Head(q) \in Chunk /\ max_size(e) \in Nat
    BY <2>1 DEF max_size, MIN
  <2>3. n \in Nat /\ Head(q).from \in Nat
    BY <2>1, <2>2 DEF data_size, MIN, Chunk
  <2>4. BufferAfter(q, max_size(e)) \in Seq(Chunk)
    BY <2>1, <2>2, BufferAfterType
  <2>5. p \in Packet
    BY <2>1, <2>3, TcpSeqType DEF Packet
  <2>6. /\ wire' \in [Endpoint -> Seq(Packet)] /\ mishaps' \in [Endpoint -> Nat]
        /\ copied' \in [Endpoint -> Packet \cup {NoPacket}]
    BY <1>3, <2>5, SendType DEF SendData
  <2>7. app_recv_queue' \in [Endpoint -> Seq(Chunk)]
    BY <1>3, <2>4 DEF SendData, TypeOK
  <2>8. next_seqnum' \in [Endpoint -> Nat]
    BY <1>3, <2>1, <2>3, SMTT(30) DEF SendData, TypeOK
  <2>9. rem' \in [Endpoint -> Nat]
    <3>1. next_seqnum[e] + n \in Nat
      BY <2>1, <2>3
    <3>2. SizeSub(SWND[e], SizeSub(next_seqnum[e] + n, SendBase[e])) \in Nat
      BY <2>1, <3>1, RemType
    <3>3. QED
      BY <1>3, <3>2 DEF SendData, TypeOK
  <2>10. /\ pc' \in [Endpoint -> {"start", "handshake", "wait", "app", "net", "close",
                                  "done", "exited", "aborted", "faulted"}]
         /\ AppPhase'
    BY <1>3, PhaseType DEF SendData, TypeOK
  <2>11. QED
    BY <1>3, <2>6, <2>7, <2>8, <2>9, <2>10 DEF SendData, TypeOK
<1>4. CASE SendOverrun(e)
  BY <1>4 DEF SendOverrun, TypeOK, queues, network
<1>5. QED
  BY <1>1, <1>2, <1>3, <1>4

(* The NETWORK_DATA section keeps the type invariant. *)
LEMMA NetworkDataType ==
    ASSUME TypeInv, NEW e \in Endpoint,
           RecvAck(e) \/ RecvFin(e) \/ RecvData(e) \/ AckOverrun(e)
    PROVE  TypeInv'
<1> USE DEF TypeInv, AppPhase, context, application
<1> DEFINE p == Received(e)
<1>0. p \in Packet /\ network_recv_queue' \in [Endpoint -> Seq(Packet)]
  BY RecvType DEF RecvAck, RecvFin, RecvData, AckOverrun
<1>1. CASE RecvAck(e)
  <2>1. GrownCWND(e) \in Nat /\ GrownSWND(e) \in Nat
    BY GrownType
  <2>2. p.th_ack \in Nat /\ next_seqnum[e] \in Nat
    BY <1>0 DEF Packet, TypeOK
  <2>3. RemAfterAck(e, p) \in Nat
    BY <2>1, <2>2, RemType DEF RemAfterAck
  <2>4. /\ pc' \in [Endpoint -> {"start", "handshake", "wait", "app", "net", "close",
                                 "done", "exited", "aborted", "faulted"}]
        /\ AppPhase'
    BY <1>1, PhaseType DEF RecvAck, NextPhase, TypeOK
  <2>5. QED
    BY <1>0, <1>1, <2>1, <2>2, <2>3, <2>4 DEF RecvAck, TypeOK, network
<1>2. CASE RecvFin(e)
  <2> DEFINE a == [flags |-> "ACK", th_seq |-> TcpSeq(RecvBase[e] + 1),
                   th_ack |-> TcpSeq(p.th_seq + 1), len |-> 0, pos |-> next_seqnum[e]]
  <2>1. /\ RecvBase[e] \in Nat /\ next_seqnum[e] \in Nat
        /\ p.th_seq \in Nat /\ p.pos \in Nat
    BY <1>0 DEF Packet, TypeOK
  <2>2. RecvBase[e] + 1 \in Nat /\ p.th_seq + 1 \in Nat
    BY <2>1
  <2>3. TcpSeq(RecvBase[e] + 1) \in Nat /\ TcpSeq(p.th_seq + 1) \in Nat
    BY <2>2, TcpSeqType
  <2>4. a \in Packet
    BY <2>1, <2>3 DEF Packet
  <2>5. /\ wire' \in [Endpoint -> Seq(Packet)] /\ mishaps' \in [Endpoint -> Nat]
        /\ copied' \in [Endpoint -> Packet \cup {NoPacket}]
    BY <1>2, <2>4, SendType DEF RecvFin
  <2>6. app_send_queue' \in [Endpoint -> Seq(Chunk)]
    <3>1. [from |-> p.pos, len |-> 0] \in Chunk
      BY <2>1 DEF Chunk
    <3>2. Append(app_send_queue[e], [from |-> p.pos, len |-> 0]) \in Seq(Chunk)
      BY <3>1 DEF TypeOK
    <3>3. QED
      BY <1>2, <3>2 DEF RecvFin, Enqueued, EofNode, TypeOK
  <2>7. /\ pc' \in [Endpoint -> {"start", "handshake", "wait", "app", "net", "close",
                                 "done", "exited", "aborted", "faulted"}]
        /\ AppPhase'
    BY <1>2, PhaseType DEF RecvFin, NextPhase, TypeOK
  <2>8. connection_state' \in [Endpoint -> CSTATE]
    BY <1>2 DEF RecvFin, StateAfterFin, TypeOK, CSTATE
  <2>9. QED
    BY <1>0, <1>2, <2>2, <2>5, <2>6, <2>7, <2>8 DEF RecvFin, TypeOK
<1>3. CASE RecvData(e)
  <2> DEFINE a == [flags |-> "ACK", th_seq |-> TcpSeq(RecvBase[e] + p.len),
                   th_ack |-> AckNumber(p), len |-> 0, pos |-> next_seqnum[e]]
  <2>1. /\ RecvBase[e] \in Nat /\ next_seqnum[e] \in Nat
        /\ p.th_seq \in Nat /\ p.pos \in Nat /\ p.len \in Nat
    BY <1>0 DEF Packet, TypeOK
  <2>2. RecvBase[e] + p.len \in Nat /\ p.th_seq + p.len \in Nat
    BY <2>1
  <2>3. TcpSeq(RecvBase[e] + p.len) \in Nat /\ AckNumber(p) \in Nat
    BY <2>2, TcpSeqType DEF AckNumber
  <2>4. a \in Packet
    BY <2>1, <2>3 DEF Packet
  <2>5. /\ wire' \in [Endpoint -> Seq(Packet)] /\ mishaps' \in [Endpoint -> Nat]
        /\ copied' \in [Endpoint -> Packet \cup {NoPacket}]
    BY <1>3, <2>4, SendType DEF RecvData
  <2>6. app_send_queue' \in [Endpoint -> Seq(Chunk)]
    <3>1. [from |-> p.pos, len |-> p.len] \in Chunk
      BY <2>1 DEF Chunk
    <3>2. Append(app_send_queue[e], [from |-> p.pos, len |-> p.len]) \in Seq(Chunk)
      BY <3>1 DEF TypeOK
    <3>3. PassedUp(e, p) \in Seq(Chunk)
      BY <3>2 DEF PassedUp, Enqueued, TypeOK
    <3>4. QED
      BY <1>3, <3>3 DEF RecvData, TypeOK
  <2>7. /\ pc' \in [Endpoint -> {"start", "handshake", "wait", "app", "net", "close",
                                 "done", "exited", "aborted", "faulted"}]
        /\ AppPhase'
    BY <1>3, PhaseType DEF RecvData, NextPhase, TypeOK
  <2>8. QED
    BY <1>0, <1>3, <2>2, <2>5, <2>6, <2>7 DEF RecvData, TypeOK
<1>4. CASE AckOverrun(e)
  BY <1>0, <1>4 DEF AckOverrun, TypeOK, network
<1>5. QED
  BY <1>1, <1>2, <1>3, <1>4

(* The close section and the end of the thread keep the type invariant. *)
LEMMA CloseType ==
    ASSUME TypeInv, NEW e \in Endpoint,
           \/ SendFin(e) \/ CloseIgnored(e) \/ ClosingRecv(e)
           \/ TransportReturn(e) \/ ChecksumAbort(e)
    PROVE  TypeInv'
<1> USE DEF TypeInv, AppPhase, context, application
<1>1. CASE SendFin(e)
  <2>1. next_seqnum[e] \in Nat /\ SWND[e] \in Nat /\ SendBase[e] \in Nat
    BY DEF TypeOK
  <2>2. TcpSeq(next_seqnum[e]) \in Nat
    BY <2>1, TcpSeqType
  <2>3. [flags |-> "FIN", th_seq |-> TcpSeq(next_seqnum[e]), th_ack |-> 0,
         len |-> 0, pos |-> next_seqnum[e]] \in Packet
    BY <2>1, <2>2 DEF Packet
  <2>4. /\ wire' \in [Endpoint -> Seq(Packet)] /\ mishaps' \in [Endpoint -> Nat]
        /\ copied' \in [Endpoint -> Packet \cup {NoPacket}]
    BY <1>1, <2>3, SendType DEF SendFin
  <2>5. next_seqnum[e] + 1 \in Nat
    BY <2>1
  <2>6. SizeSub(SWND[e], SizeSub(next_seqnum[e] + 1, SendBase[e])) \in Nat
    BY <2>1, <2>5, RemType
  <2>7. QED
    BY <1>1, <2>4, <2>5, <2>6 DEF SendFin, TypeOK, queues, CSTATE
<1>2. CASE CloseIgnored(e)
  BY <1>2, PhaseType DEF CloseIgnored, TypeOK, queues, network
<1>3. CASE ClosingRecv(e)
  <2>1. network_recv_queue' \in [Endpoint -> Seq(Packet)]
    BY <1>3, RecvType DEF ClosingRecv
  <2>2. StateAfterClosingRecv(e, Received(e)) \in CSTATE
    BY DEF StateAfterClosingRecv, TypeOK, CSTATE
  <2>3. QED
    BY <1>3, <2>1, <2>2, PhaseType DEF ClosingRecv, TypeOK, network
<1>4. CASE TransportReturn(e)
  <2>1. [from |-> RecvBase[e], len |-> 0] \in Chunk
    BY DEF TypeOK, Chunk
  <2>2. Append(app_send_queue[e], [from |-> RecvBase[e], len |-> 0]) \in Seq(Chunk)
    BY <2>1 DEF TypeOK
  <2>3. QED
    BY <1>4, <2>2 DEF TransportReturn, Enqueued, EofNode, TypeOK, network
<1>5. CASE ChecksumAbort(e)
  <2>1. network_recv_queue' \in [Endpoint -> Seq(Packet)]
    BY <1>5, RecvType DEF ChecksumAbort
  <2>2. QED
    BY <1>5, <2>1 DEF ChecksumAbort, TypeOK, network
<1>6. QED
  BY <1>1, <1>2, <1>3, <1>4, <1>5

(* The receive thread and the socket calls keep the type invariant. *)
LEMMA OutsideType ==
    ASSUME TypeInv, NEW e \in Endpoint, RecvPacket(e) \/ Application(e)
    PROVE  TypeInv'
<1> USE DEF TypeInv, AppPhase, context, thread
<1>1. CASE RecvPacket(e)
  <2>1. wire[e] \in Seq(Packet) /\ wire[e] # << >> /\ network_recv_queue[e] \in Seq(Packet)
    BY <1>1 DEF RecvPacket, TypeOK
  <2>2. Head(wire[e]) \in Packet /\ Tail(wire[e]) \in Seq(Packet)
    BY <2>1
  <2>3. Append(network_recv_queue[e], Head(wire[e])) \in Seq(Packet)
    BY <2>1, <2>2
  <2>4. QED
    BY <1>1, <2>2, <2>3 DEF RecvPacket, Enqueued, TypeOK, application
<1>2. ASSUME NEW n \in WriteSizes, mywrite(e, n) PROVE TypeInv'
  <2> DEFINE c == [from |-> bytes_written[e] + 1, len |-> n]
  <2>1. n \in Nat /\ app_recv_queue[e] \in Seq(Chunk) /\ bytes_written[e] \in Nat
    BY ConstantsAssumption DEF TypeOK
  <2>2. c \in Chunk /\ bytes_written[e] + n \in Nat
    BY <2>1 DEF Chunk
  <2>3. Append(app_recv_queue[e], c) \in Seq(Chunk) /\ Append(app_recv_queue[e], c) # << >>
    BY <2>1, <2>2
  <2>4. QED
    BY <1>2, <2>2, <2>3 DEF mywrite, Enqueued, TypeOK, network
<1>3. ASSUME NEW n \in ReadSizes, myread(e, n) PROVE TypeInv'
  <2> DEFINE q == app_send_queue[e]
             got == MIN(n, Head(q).len)
  <2>1. n \in Nat /\ q \in Seq(Chunk) /\ q # << >> /\ bytes_read[e] \in Nat
    BY <1>3, ConstantsAssumption DEF TypeOK, myread
  <2>2. Head(q) \in Chunk /\ Tail(q) \in Seq(Chunk)
    BY <2>1
  <2>3. Head(q).from \in Nat /\ Head(q).len \in Nat
    BY <2>2 DEF Chunk
  <2>4. bytes_read[e] + got \in Nat
    BY <2>1, <2>3 DEF MIN
  <2>5. BufferAfter(q, n) \in Seq(Chunk)
    BY <2>1, BufferAfterType
  <2>6. app_send_queue' \in [Endpoint -> Seq(Chunk)] /\ bytes_read' \in [Endpoint -> Nat]
    BY <1>3, <2>4, <2>5 DEF myread, TypeOK
  <2>7. eof' \in [Endpoint -> BOOLEAN]
    BY <1>3 DEF myread, TypeOK
  <2>8. QED
    BY <1>3, <2>6, <2>7 DEF myread, TypeOK, network
<1>4. CASE myclose(e)
  BY <1>4 DEF myclose, TypeOK, queues, network
<1>5. CASE mycloseReturn(e)
  <2>1. << >> \in Seq(Chunk) /\ << >> \in Seq(Packet)
    OBVIOUS
  <2>2. QED
    BY <1>5, <2>1 DEF mycloseReturn, FreedQueue, TypeOK, network
<1>6. QED
  BY <1>1, <1>2, <1>3, <1>4, <1>5 DEF Application

(* No step of Next breaks the type invariant. *)
LEMMA TypeStep == TypeInv /\ [Next]_vars => TypeInv'
<1> SUFFICES ASSUME TypeInv, [Next]_vars PROVE TypeInv'
  OBVIOUS
<1>1. ASSUME NEW e \in Endpoint, Transport(e) \/ RecvThread(e) \/ Application(e)
      PROVE  TypeInv'
  <2>1. CASE Transport(e)
    BY <2>1, HandshakeType, AppDataType, NetworkDataType, CloseType DEF Transport
  <2>2. CASE RecvPacket(e) \/ Application(e)
    BY <2>2, OutsideType
  <2>3. CASE RecvEnd(e) \/ PollError(e)
    BY <2>3 DEF RecvEnd, PollError, context, thread, queues, network, TypeInv, TypeOK, AppPhase
  <2>4. QED
    BY <1>1, <2>1, <2>2, <2>3 DEF RecvThread
<1>2. CASE UNCHANGED vars
  BY <1>2 DEF vars, context, thread, queues, network, application, TypeInv, TypeOK, AppPhase
<1>3. QED
  BY <1>1, <1>2 DEF Next

(* Everything but how the receive threads stand: nothing that follows      *)
(* looks at that.                                                          *)
observed == <<context, thread, queues, close_requested, network, app, bytes_written,
              bytes_read, eof>>

(* The receive thread's end and its abort change nothing else. *)
LEMMA StepCases ==
    ASSUME [Next]_vars
    PROVE  \/ \E e \in Endpoint : Transport(e) \/ RecvPacket(e) \/ Application(e)
           \/ UNCHANGED observed
<1>1. CASE UNCHANGED vars
  BY <1>1 DEF vars, observed, application
<1>2. ASSUME NEW e \in Endpoint, RecvEnd(e) \/ PollError(e) PROVE UNCHANGED observed
  BY <1>2 DEF RecvEnd, PollError, observed
<1>3. QED
  BY <1>1, <1>2 DEF Next, RecvThread

(* TypeInv is an inductive invariant. *)
LEMMA TypeInvariance == Spec => []TypeInv
<1>1. Init => TypeInv
  BY DEF Init, TypeInv, TypeOK, AppPhase, CSTATE, EventBits
<1>2. QED
  BY <1>1, TypeStep, PTL DEF Spec

(* Every state the connection reaches is well typed: the windows stay      *)
(* natural numbers through size_t arithmetic and congestion control, and   *)
(* the queues hold what their readers expect.  (AppPhase is what it needs: *)
(* the transport thread never takes a buffer from an empty queue.)         *)
THEOREM TypeCorrect == Spec => []TypeOK
<1>1. TypeInv => TypeOK
  BY DEF TypeInv
<1>2. QED
  BY <1>1, TypeInvariance, PTL

-----------------------------------------------------------------------------
(* Streams of chunks *)

(* The chunks of q continue a stream from position a; nothing but ends of  *)
(* file comes after an end of file.                                        *)
Stream(q, a) ==
    /\ q # << >> => q[1].from = a
    /\ \A i \in 1 .. Len(q) - 1 : q[i].len > 0 => q[i + 1].from = q[i].from + q[i].len
    /\ \A i, j \in 1 .. Len(q) : i < j /\ q[i].len = 0 => q[j].len = 0

(* A stream without end of file that starts at a ends before b. *)
EndsAt(q, a, b) ==
    IF q = << >> THEN a = b
                 ELSE q[Len(q)].len > 0 /\ q[Len(q)].from + q[Len(q)].len = b

(* The first end of file in a queue is at position a. *)
FirstEofAt(q, a) ==
    \A i \in 1 .. Len(q) : q[i].len = 0 /\ (i > 1 => q[i - 1].len > 0) => q[i].from = a

(* The elements of a sequence *)
Elements(s) == {s[i] : i \in 1 .. Len(s)}

(* The positions and lengths of chunks are numbers. *)
LEMMA ChunkType == \A q \in Seq(Chunk) : \A i \in 1 .. Len(q) :
                      q[i] \in Chunk /\ q[i].len \in Nat /\ q[i].from \in Nat
<1>1. \A c \in Chunk : c.len \in Nat /\ c.from \in Nat
  BY DEF Chunk
<1>2. \A q \in Seq(Chunk) : \A i \in 1 .. Len(q) : q[i] \in Chunk
  OBVIOUS
<1>3. QED
  BY <1>1, <1>2

(* What Append adds to a sequence *)
LEMMA AppendLast ==
    ASSUME NEW T, NEW s \in Seq(T), NEW x \in T
    PROVE  /\ s \o <<x>> = Append(s, x)
           /\ Append(s, x) \in Seq(T) /\ Len(Append(s, x)) = Len(s) + 1
           /\ \A i \in 1 .. Len(s) : Append(s, x)[i] = s[i]
           /\ Append(s, x)[Len(s) + 1] = x
           /\ Append(s, x) # << >>
OBVIOUS

(* What Tail leaves of one *)
LEMMA TailRest ==
    ASSUME NEW T, NEW s \in Seq(T), s # << >>
    PROVE  /\ Tail(s) \in Seq(T) /\ Len(s) \in Nat \ {0} /\ Len(Tail(s)) = Len(s) - 1
           /\ \A i \in 1 .. Len(s) - 1 : Tail(s)[i] = s[i + 1]
           /\ Head(s) = s[1] /\ s[1] \in T
           /\ Tail(s) = << >> <=> Len(s) = 1
<1>1. Len(s) \in Nat \ {0}
  OBVIOUS
<1>2. /\ Tail(s) \in Seq(T) /\ Len(Tail(s)) = Len(s) - 1
      /\ Head(s) = s[1] /\ s[1] \in T
  OBVIOUS
<1>3. \A i \in 1 .. Len(s) - 1 : Tail(s)[i] = s[i + 1]
  OBVIOUS
<1>4. \A t \in Seq(T) : t = << >> <=> Len(t) = 0
  OBVIOUS
<1>5. Tail(s) = << >> <=> Len(Tail(s)) = 0
  BY <1>2, <1>4, Zenon
<1>6. Tail(s) = << >> <=> Len(s) = 1
  BY <1>1, <1>2, <1>5
<1>7. QED
  BY <1>1, <1>2, <1>3, <1>6, Zenon

(* A chunk with data at the end of a stream that has no end of file *)
LEMMA StreamAppend ==
    ASSUME NEW q \in Seq(Chunk), NEW x \in Chunk, NEW a \in Nat, NEW b \in Nat,
           Stream(q, a), EndsAt(q, a, b), x.from = b
    PROVE  /\ Stream(Append(q, x), a)
           /\ x.len > 0 => EndsAt(Append(q, x), a, b + x.len)
           /\ FirstEofAt(Append(q, x), b)
<1> DEFINE t == Append(q, x)
<1>1. /\ t \in Seq(Chunk) /\ Len(t) = Len(q) + 1 /\ t # << >>
      /\ \A i \in 1 .. Len(q) : t[i] = q[i]
      /\ t[Len(q) + 1] = x
  BY AppendLast
<1>2. /\ x.len \in Nat /\ Len(q) \in Nat
      /\ \A i \in 1 .. Len(q) : q[i].len \in Nat /\ q[i].from \in Nat
  <2>1. x.len \in Nat
    BY DEF Chunk
  <2>2. QED
    BY <2>1, ChunkType
<1>3. q # << >> => Len(q) \in 1 .. Len(q) /\ Len(q) >= 1
  OBVIOUS
<1> HIDE DEF t
<1>4. \A i \in 1 .. Len(q) : q[i].len > 0
  <2> SUFFICES ASSUME NEW i \in 1 .. Len(q), q[i].len = 0 PROVE FALSE
    BY <1>2
  <2>1. q # << >> /\ q[Len(q)].len > 0
    BY <1>2 DEF EndsAt
  <2>2. QED
    BY <1>2, <1>3, <2>1 DEF Stream
<1>5. t[1].from = a
  BY <1>1, <1>2, <1>3 DEF Stream, EndsAt
<1>6. ASSUME NEW i \in 1 .. Len(t) - 1 PROVE t[i + 1].from = t[i].from + t[i].len
  <2>1. CASE i = Len(q)
    BY <1>1, <1>2, <2>1 DEF EndsAt
  <2>2. CASE i # Len(q)
    <3>1. i \in 1 .. Len(q) - 1 /\ i \in 1 .. Len(q) /\ i + 1 \in 1 .. Len(q)
      BY <1>1, <1>2, <2>2
    <3>2. q[i + 1].from = q[i].from + q[i].len
      BY <1>4, <3>1 DEF Stream
    <3>3. QED
      BY <1>1, <3>1, <3>2
  <2>3. QED
    BY <2>1, <2>2
<1>7. ASSUME NEW i \in 1 .. Len(t), NEW j \in 1 .. Len(t), i < j, t[i].len = 0 PROVE FALSE
  <2>1. i \in 1 .. Len(q)
    BY <1>1, <1>2, <1>7
  <2>2. QED
    BY <1>1, <1>4, <1>7, <2>1
<1>8. Stream(t, a)
  BY <1>1, <1>5, <1>6, <1>7 DEF Stream
<1>9. x.len > 0 => EndsAt(t, a, b + x.len)
  BY <1>1 DEF EndsAt
<1>10. FirstEofAt(t, b)
  <2> SUFFICES ASSUME NEW i \in 1 .. Len(t), t[i].len = 0 PROVE t[i].from = b
    BY DEF FirstEofAt
  <2>1. i = Len(q) + 1
    BY <1>1, <1>2, <1>4
  <2>2. QED
    BY <1>1, <2>1
<1>11. QED
  BY <1>8, <1>9, <1>10 DEF t

(* A buffer put back in front of a queue *)
LEMMA ConsRest ==
    ASSUME NEW T, NEW x \in T, NEW s \in Seq(T), s # << >>
    PROVE  LET t == <<x>> \o Tail(s) IN
           /\ t \in Seq(T) /\ Len(t) = Len(s) /\ t # << >>
           /\ t[1] = x
           /\ \A i \in 1 .. Len(s) : i # 1 => t[i] = s[i]
<1>1. /\ Tail(s) \in Seq(T) /\ Len(s) \in Nat \ {0} /\ Len(Tail(s)) = Len(s) - 1
      /\ \A i \in 1 .. Len(s) - 1 : Tail(s)[i] = s[i + 1]
  BY TailRest
<1>2. <<x>> \in Seq(T) /\ Len(<<x>>) = 1 /\ <<x>>[1] = x
  OBVIOUS
<1> DEFINE t == <<x>> \o Tail(s)
<1>3. t \in Seq(T) /\ Len(t) = 1 + Len(Tail(s))
  BY <1>1, <1>2
<1>4. \A i \in 1 .. Len(t) : t[i] = IF i <= 1 THEN <<x>>[i] ELSE Tail(s)[i - 1]
  BY <1>1, <1>2
<1> HIDE DEF t
<1>5. Len(t) = Len(s) /\ t # << >> /\ t[1] = x
  BY <1>1, <1>2, <1>3, <1>4
<1>6. ASSUME NEW i \in 1 .. Len(s), i # 1 PROVE t[i] = s[i]
  <2>1. i \in 1 .. Len(t) /\ i - 1 \in 1 .. Len(s) - 1 /\ ~(i <= 1) /\ (i - 1) + 1 = i
    BY <1>1, <1>5, <1>6
  <2>2. t[i] = Tail(s)[i - 1]
    BY <1>4, <2>1
  <2>3. Tail(s)[i - 1] = s[(i - 1) + 1]
    BY <1>1, <2>1
  <2>4. QED
    BY <2>1, <2>2, <2>3
<1>7. QED
  BY <1>3, <1>5, <1>6 DEF t

(* What _mysock_dequeue_buffer() leaves of a stream *)
LEMMA StreamTake ==
    ASSUME NEW q \in Seq(Chunk), q # << >>, NEW n \in Nat \ {0}, NEW a \in Nat,
           q[1].len > 0, Stream(q, a)
    PROVE  LET g == MIN(n, q[1].len)
               t == BufferAfter(q, n)
           IN
           /\ g \in Nat /\ a + g \in Nat
           /\ Stream(t, a + g)
           /\ \A b \in Nat : EndsAt(q, a, b) => EndsAt(t, a + g, b)
           /\ \A b \in Nat : FirstEofAt(q, b) => FirstEofAt(t, b)
           /\ q[Len(q)].len = 0 => t # << >> /\ t[Len(t)].len = 0
<1> DEFINE g == MIN(n, q[1].len)
           t == BufferAfter(q, n)
<1>1. /\ Tail(q) \in Seq(Chunk) /\ Len(q) \in Nat \ {0} /\ Len(Tail(q)) = Len(q) - 1
      /\ \A i \in 1 .. Len(q) - 1 : Tail(q)[i] = q[i + 1]
      /\ Head(q) = q[1] /\ q[1] \in Chunk
      /\ Tail(q) = << >> <=> Len(q) = 1
  BY TailRest
<1>2. \A i \in 1 .. Len(q) : q[i].len \in Nat /\ q[i].from \in Nat
  BY ChunkType
<1>3. q[1].from = a /\ q[1].len \in Nat
  BY <1>1, <1>2 DEF Stream
<1>4. g \in Nat /\ a + g \in Nat
  BY <1>3 DEF MIN
<1>5. CASE q[1].len > n
  <2> DEFINE x == [from |-> q[1].from + n, len |-> q[1].len - n]
  <2>1. x \in Chunk /\ x.from = a + n /\ x.len = q[1].len - n /\ x.len > 0 /\ x.len \in Nat /\ g = n
    BY <1>3, <1>5 DEF Chunk, MIN
  <2>2. t = <<x>> \o Tail(q)
    BY <1>1, <1>5 DEF BufferAfter
  <2>3. /\ t \in Seq(Chunk) /\ Len(t) = Len(q) /\ t # << >>
        /\ t[1] = x
        /\ \A i \in 1 .. Len(q) : i # 1 => t[i] = q[i]
    BY <2>1, <2>2, ConsRest
  <2> HIDE DEF t, x, g
  <2>4. ASSUME NEW i \in 1 .. Len(q) PROVE (t[i].len > 0 <=> q[i].len > 0) /\ (t[i].len = 0 <=> q[i].len = 0)
    BY <1>2, <2>1, <2>3, <2>4
  <2>5. ASSUME NEW i \in 1 .. Len(q) PROVE t[i].from + t[i].len = q[i].from + q[i].len
    <3>1. CASE i = 1
      <4>1. t[i].from = q[1].from + n /\ t[i].len = q[1].len - n /\ q[i] = q[1]
        BY <1>3, <2>1, <2>3, <3>1
      <4>2. q[1].from \in Nat /\ q[1].len \in Nat /\ n \in Nat
        BY <1>3
      <4>3. QED
        BY ONLY <4>1, <4>2
    <3>2. CASE i # 1
      BY <2>3, <3>2
    <3>3. QED
      BY <3>1, <3>2
  <2>6. ASSUME NEW i \in 1 .. Len(t) - 1, t[i].len > 0 PROVE t[i + 1].from = t[i].from + t[i].len
    <3>1. i \in 1 .. Len(q) - 1 /\ i \in 1 .. Len(q) /\ i + 1 \in 1 .. Len(q) /\ i + 1 # 1
      BY <1>1, <2>3
    <3>2. t[i + 1] = q[i + 1] /\ q[i].len > 0
      BY <2>3, <2>4, <2>6, <3>1
    <3>3. q[i + 1].from = q[i].from + q[i].len
      BY <3>1, <3>2 DEF Stream
    <3>4. QED
      BY <2>5, <3>1, <3>2, <3>3
  <2>7. ASSUME NEW i \in 1 .. Len(t), NEW j \in 1 .. Len(t), i < j, t[i].len = 0 PROVE t[j].len = 0
    BY <2>3, <2>4, <2>7 DEF Stream
  <2>8. Stream(t, a + g)
    BY <2>1, <2>3, <2>6, <2>7 DEF Stream
  <2>9. ASSUME NEW b \in Nat, EndsAt(q, a, b) PROVE EndsAt(t, a + g, b)
    BY <1>1, <2>3, <2>4, <2>5, <2>9 DEF EndsAt
  <2>10. ASSUME NEW b \in Nat, FirstEofAt(q, b) PROVE FirstEofAt(t, b)
    <3> SUFFICES ASSUME NEW i \in 1 .. Len(t), t[i].len = 0, i > 1 => t[i - 1].len > 0
                 PROVE  t[i].from = b
      BY DEF FirstEofAt
    <3>1. i \in 1 .. Len(q) /\ i # 1 /\ i - 1 \in 1 .. Len(q)
      BY <1>1, <2>1, <2>3
    <3>2. t[i] = q[i] /\ q[i - 1].len > 0
      BY <2>3, <2>4, <3>1
    <3>3. QED
      BY <2>10, <3>1, <3>2 DEF FirstEofAt
  <2>11. q[Len(q)].len = 0 => t # << >> /\ t[Len(t)].len = 0
    BY <1>1, <2>3, <2>4
  <2>12. QED
    BY <1>4, <2>8, <2>9, <2>10, <2>11 DEF t, g
<1>6. CASE ~(q[1].len > n)
  <2>1. t = Tail(q) /\ g = q[1].len
    <3>1. t = Tail(q)
      BY <1>1, <1>6 DEF BufferAfter
    <3>2. g = q[1].len
      BY <1>3, <1>6 DEF MIN
    <3>3. QED
      BY <3>1, <3>2
  <2>2. /\ t \in Seq(Chunk) /\ Len(t) = Len(q) - 1
        /\ \A i \in 1 .. Len(q) - 1 : t[i] = q[i + 1]
        /\ t = << >> <=> Len(q) = 1
    BY <1>1, <2>1
  <2> HIDE DEF t, g
  <2>3. t # << >> => 1 \in 1 .. Len(q) - 1 /\ 2 \in 1 .. Len(q) /\ t[1] = q[2]
    BY <1>1, <2>2
  <2>4. t # << >> => t[1].from = a + g
    BY <1>1, <1>3, <2>1, <2>3 DEF Stream
  <2>5. ASSUME NEW i \in 1 .. Len(t) - 1, t[i].len > 0 PROVE t[i + 1].from = t[i].from + t[i].len
    <3>1. i \in 1 .. Len(q) - 1 /\ i + 1 \in 1 .. Len(q) - 1
      BY <1>1, <2>2
    <3>2. t[i] = q[i + 1] /\ t[i + 1] = q[i + 1 + 1]
      BY <2>2, <3>1
    <3>3. QED
      BY <2>5, <3>1, <3>2 DEF Stream
  <2>6. ASSUME NEW i \in 1 .. Len(t), NEW j \in 1 .. Len(t), i < j, t[i].len = 0 PROVE t[j].len = 0
    <3>1. i + 1 \in 1 .. Len(q) /\ j + 1 \in 1 .. Len(q) /\ i + 1 < j + 1
          /\ i \in 1 .. Len(q) - 1 /\ j \in 1 .. Len(q) - 1
      BY <1>1, <2>2, <2>6
    <3>2. t[i] = q[i + 1] /\ t[j] = q[j + 1]
      BY <2>2, <3>1
    <3>3. QED
      BY <2>6, <3>1, <3>2 DEF Stream
  <2>7. Stream(t, a + g)
    BY <2>4, <2>5, <2>6 DEF Stream
  <2>8. t # << >> => Len(t) \in 1 .. Len(q) - 1 /\ t[Len(t)] = q[Len(q)]
    BY <1>1, <2>2
  <2>9. ASSUME NEW b \in Nat, EndsAt(q, a, b) PROVE EndsAt(t, a + g, b)
    BY <1>1, <1>3, <2>1, <2>2, <2>8, <2>9 DEF EndsAt
  <2>10. ASSUME NEW b \in Nat, FirstEofAt(q, b) PROVE FirstEofAt(t, b)
    <3> SUFFICES ASSUME NEW i \in 1 .. Len(t), t[i].len = 0, i > 1 => t[i - 1].len > 0
                 PROVE  t[i].from = b
      BY DEF FirstEofAt
    <3>1. /\ i \in 1 .. Len(q) - 1 /\ i + 1 \in 1 .. Len(q) /\ i + 1 > 1 /\ (i + 1) - 1 = i
          /\ i > 1 => i - 1 \in 1 .. Len(q) - 1 /\ (i - 1) + 1 = i
      BY <1>1, <2>2
    <3>2. t[i] = q[i + 1]
      BY <2>2, <3>1
    <3>3. q[i].len > 0
      <4>1. CASE i = 1
        BY <4>1
      <4>2. CASE i # 1
        <5>1. i > 1
          BY <4>2
        <5>2. t[i - 1] = q[i]
          BY <2>2, <3>1, <5>1
        <5>3. QED
          BY <5>1, <5>2
      <4>3. QED
        BY <4>1, <4>2
    <3>4. QED
      BY <2>10, <3>1, <3>2, <3>3 DEF FirstEofAt
  <2>11. q[Len(q)].len = 0 => t # << >> /\ t[Len(t)].len = 0
    BY <1>1, <2>2, <2>8
  <2>12. QED
    BY <1>4, <2>7, <2>9, <2>10, <2>11 DEF t, g
<1>7. QED
  BY <1>5, <1>6

(* The elements of a sequence after Append and after Tail *)
LEMMA ElementsOf ==
    ASSUME NEW T, NEW s \in Seq(T)
    PROVE  /\ \A x \in T : Elements(Append(s, x)) = Elements(s) \cup {x}
           /\ s # << >> => Head(s) \in Elements(s) /\ Elements(Tail(s)) \subseteq Elements(s)
<1>1. ASSUME NEW x \in T PROVE Elements(Append(s, x)) = Elements(s) \cup {x}
  <2>1. /\ Len(Append(s, x)) = Len(s) + 1 /\ Len(s) \in Nat
        /\ \A i \in 1 .. Len(s) : Append(s, x)[i] = s[i]
        /\ Append(s, x)[Len(s) + 1] = x
    BY AppendLast
  <2>2. 1 .. Len(s) + 1 = (1 .. Len(s)) \cup {Len(s) + 1}
    BY <2>1
  <2>3. QED
    BY <2>1, <2>2 DEF Elements
<1>2. ASSUME s # << >> PROVE Head(s) \in Elements(s) /\ Elements(Tail(s)) \subseteq Elements(s)
  <2>1. /\ Len(s) \in Nat \ {0} /\ Len(Tail(s)) = Len(s) - 1
        /\ \A i \in 1 .. Len(s) - 1 : Tail(s)[i] = s[i + 1]
        /\ Head(s) = s[1]
    BY <1>2, TailRest
  <2>2. \A i \in 1 .. Len(s) - 1 : i + 1 \in 1 .. Len(s)
    BY <2>1
  <2>3. 1 \in 1 .. Len(s)
    BY <2>1
  <2>4. QED
    BY <2>1, <2>2, <2>3 DEF Elements
<1>3. QED
  BY <1>1, <1>2

-----------------------------------------------------------------------------
(* What one endpoint does leaves the other's own state alone. *)

(* Nothing of the state of f changes. *)
Own(f) ==
    /\ pc'[f] = pc[f] /\ event'[f] = event[f]
    /\ connection_state'[f] = connection_state[f]
    /\ SWND'[f] = SWND[f] /\ CWND'[f] = CWND[f] /\ rem'[f] = rem[f]
    /\ SendBase'[f] = SendBase[f] /\ RecvBase'[f] = RecvBase[f]
    /\ next_seqnum'[f] = next_seqnum[f]
    /\ app_recv_queue'[f] = app_recv_queue[f] /\ app_send_queue'[f] = app_send_queue[f]
    /\ network_recv_queue'[f] = network_recv_queue[f]
    /\ close_requested'[f] = close_requested[f] /\ eof'[f] = eof[f]
    /\ app'[f] = app[f]
    /\ bytes_written'[f] = bytes_written[f] /\ bytes_read'[f] = bytes_read[f]

(* A step of e changes nothing of f. *)
LEMMA OtherOwn ==
    ASSUME TypeOK, NEW e \in Endpoint, NEW f \in Endpoint, f # e,
           Transport(e) \/ RecvPacket(e) \/ Application(e)
    PROVE  Own(f)
<1> USE DEF TypeOK, context, thread, queues, application
<1>1. CASE TransportInit(e)
  BY <1>1 DEF TransportInit, Own
<1>2. CASE SynSent(e)
  BY <1>2 DEF SynSent, NetworkRecv, Establish, Own
<1>3. CASE Listen(e)
  BY <1>3 DEF Listen, NetworkRecv, Own
<1>4. CASE SynRcvd(e)
  BY <1>4 DEF SynRcvd, NetworkRecv, Establish, Own
<1>5. CASE WaitForEvent(e)
  BY <1>5 DEF WaitForEvent, Own
<1>6. CASE WindowFull(e)
  BY <1>6 DEF WindowFull, Own
<1>7. CASE SendData(e)
  BY <1>7 DEF SendData, Own
<1>8. CASE RecvAck(e)
  BY <1>8 DEF RecvAck, NetworkRecv, NextPhase, Own
<1>9. CASE RecvFin(e)
  BY <1>9 DEF RecvFin, NetworkRecv, NextPhase, Own
<1>10. CASE RecvData(e)
  BY <1>10 DEF RecvData, NetworkRecv, NextPhase, Own
<1>11. CASE SendFin(e)
  BY <1>11 DEF SendFin, Own
<1>12. CASE CloseIgnored(e)
  BY <1>12 DEF CloseIgnored, Own
<1>13. CASE ClosingRecv(e)
  BY <1>13 DEF ClosingRecv, NetworkRecv, Own
<1>14. CASE TransportReturn(e)
  BY <1>14 DEF TransportReturn, Own
<1>15. CASE ChecksumAbort(e)
  BY <1>15 DEF ChecksumAbort, NetworkRecv, Own
<1>16. CASE SendOverrun(e)
  BY <1>16 DEF SendOverrun, Own
<1>17. CASE AckOverrun(e)
  BY <1>17 DEF AckOverrun, NetworkRecv, Own
<1>18. CASE RecvPacket(e)
  BY <1>18 DEF RecvPacket, Own
<1>19. CASE Application(e)
  <2>1. ASSUME NEW n, mywrite(e, n) PROVE Own(f)
    BY <2>1 DEF mywrite, Own
  <2>2. ASSUME NEW n, myread(e, n) PROVE Own(f)
    BY <2>2 DEF myread, Own
  <2>3. CASE myclose(e)
    BY <2>3 DEF myclose, Own
  <2>4. CASE mycloseReturn(e)
    BY <2>4 DEF mycloseReturn, Own
  <2>5. QED
    BY <1>19, <2>1, <2>2, <2>3, <2>4 DEF Application
<1>20. QED
  BY <1>1, <1>2, <1>3, <1>4, <1>5, <1>6, <1>7, <1>8, <1>9, <1>10, <1>11, <1>12, <1>13,
     <1>14, <1>15, <1>16, <1>17, <1>18, <1>19 DEF Transport

-----------------------------------------------------------------------------
(* The phases of the connection *)

(* The server has not yet taken a segment. *)
Fresh ==
    \/ pc["server"] = "start"
    \/ pc["server"] = "handshake" /\ connection_state["server"] = "LISTEN"

(* The states of an endpoint during and after the handshake *)
HandshakeStates(e) == IF e = "client" THEN {"SYN_SENT"} ELSE {"LISTEN", "SYN_RCVD"}

OpenStates(e) ==
    IF e = "client" THEN {"ESTABLISHED", "FIN_WAIT_1", "FIN_WAIT_2", "CLOSED"}
                    ELSE {"ESTABLISHED", "CLOSE_WAIT", "LAST_ACK", "CLOSED"}

(* Endpoint e has sent its FIN. *)
FinOut(e) == /\ ~Handshaking(e)
             /\ connection_state[e] \in {"FIN_WAIT_1", "FIN_WAIT_2", "LAST_ACK", "CLOSED"}

(* Endpoint e has handled the FIN of its peer. *)
FinIn(e) == /\ ~Handshaking(e)
            /\ connection_state[e] \in {"CLOSE_WAIT", "LAST_ACK", "CLOSED"}

(* An endpoint that died during the handshake stays in a state of it. *)
PhaseInv(e) ==
    /\ pc[e] = "handshake" => connection_state[e] \in HandshakeStates(e)
    /\ ~Handshaking(e) =>
          connection_state[e] \in OpenStates(e) \cup
              IF TransportAlive(e) THEN {} ELSE HandshakeStates(e)
    /\ pc[e] \in {"done", "exited"} => connection_state[e] = "CLOSED"
    /\ pc[e] \in {"wait", "app", "net"} => connection_state[e] # "CLOSED"
    /\ pc[e] = "close" => "APP_CLOSE_REQUESTED" \in event[e]
    /\ app[e] = "closed" => pc[e] = "exited"

(* The bytes from position a on, n of them, were written by e. *)
WrittenBy(e, a, n) == n > 0 => a >= 1 /\ a + n <= 1 + bytes_written[e]

(* The application of e and what its transport thread has yet to send: the *)
(* bytes from next_seqnum on, and nothing once the FIN is out.             *)
SendInv(e) ==
    LET q == app_recv_queue[e]
        a == next_seqnum[e]
        written == bytes_written[e]
    IN
    /\ close_requested[e] => app[e] # "open"
    /\ pc[e] \in {"app", "net", "close"} /\ "APP_CLOSE_REQUESTED" \in event[e]
          => app[e] # "open" /\ q = << >>
    /\ Handshaking(e) => q = << >> /\ written = 0
    /\ TransportAlive(e) /\ ~Handshaking(e) /\ ~FinOut(e) => Stream(q, a) /\ EndsAt(q, a, 1 + written)
    /\ FinOut(e) => q = << >> /\ app[e] # "open" /\ a = written + 2
    /\ \A c \in Elements(q) : WrittenBy(e, c.from, c.len)

(* Every segment that may still reach e: in its queue, on the wire, or put *)
(* aside by the peer's _network_send.                                      *)
Pending(e) == Elements(network_recv_queue[e]) \cup Elements(wire[e])
                  \cup ({copied[Peer(e)]} \ {NoPacket})

(* A segment of e carries bytes its application wrote, and a FIN is sent   *)
(* after all of them.                                                      *)
GenuineSegment(e, p) == /\ WrittenBy(e, p.pos, p.len)
                        /\ p.flags = "FIN" => FinOut(e)

(* So does a chunk; one without bytes is the end of the stream of e. *)
GenuineChunk(e, c) == /\ WrittenBy(e, c.from, c.len)
                      /\ c.len = 0 => FinOut(e)

(* What e has received, and may still receive, came from its peer. *)
ReceiveInv(e) ==
    /\ \A p \in Pending(e) : GenuineSegment(Peer(e), p)
    /\ \A c \in Elements(app_send_queue[e]) : GenuineChunk(Peer(e), c)
    /\ eof[e] => FinOut(Peer(e))
    /\ FinIn(e) => FinOut(Peer(e))

ConnectionInv ==
    /\ TypeInv
    /\ \A e \in Endpoint : PhaseInv(e) /\ SendInv(e) /\ ReceiveInv(e)
    /\ Fresh => Handshaking("client") /\ Pending("client") = {}

-----------------------------------------------------------------------------
(* Whatever the network does to a segment, it reaches its receiver as it   *)
(* was sent or not at all.                                                 *)

(* The elements of two sequences together *)
LEMMA ElementsConcat ==
    ASSUME NEW T, NEW s \in Seq(T), NEW t \in Seq(T)
    PROVE  Elements(s \o t) \subseteq Elements(s) \cup Elements(t)
<1>1. /\ Len(s \o t) = Len(s) + Len(t) /\ Len(s) \in Nat /\ Len(t) \in Nat
      /\ \A i \in 1 .. Len(s) + Len(t) :
            (s \o t)[i] = IF i <= Len(s) THEN s[i] ELSE t[i - Len(s)]
  OBVIOUS
<1>2. ASSUME NEW i \in 1 .. Len(s) + Len(t)
      PROVE  (s \o t)[i] \in Elements(s) \cup Elements(t)
  <2>1. CASE i <= Len(s)
    <3>1. i \in 1 .. Len(s) /\ (s \o t)[i] = s[i]
      BY <1>1, <2>1
    <3>2. QED
      BY <3>1 DEF Elements
  <2>2. CASE ~(i <= Len(s))
    <3>1. i - Len(s) \in 1 .. Len(t) /\ (s \o t)[i] = t[i - Len(s)]
      BY <1>1, <2>2
    <3>2. QED
      BY <3>1 DEF Elements
  <2>3. QED
    BY <2>1, <2>2
<1>3. QED
  BY <1>1, <1>2 DEF Elements

(* The two endpoints are each other's peers. *)
LEMMA PeerFacts ==
    ASSUME NEW e \in Endpoint
    PROVE  /\ Peer(e) \in Endpoint /\ Peer(e) # e /\ Peer(Peer(e)) = e
           /\ \A f \in Endpoint : f = e \/ f = Peer(e)
           /\ e = "client" \/ e = "server"
           /\ e = "client" <=> Peer(e) = "server"
           /\ e = "server" <=> Peer(e) = "client"
BY DEF Peer, Endpoint

(* What a send adds to the segments on their way: at most the one sent.    *)
LEMMA PendingSend ==
    ASSUME TypeOK, NEW e \in Endpoint, NEW p \in Packet, NetworkSend(e, p),
           network_recv_queue'[Peer(e)] = network_recv_queue[Peer(e)],
           Elements(network_recv_queue'[e]) \subseteq Elements(network_recv_queue[e])
    PROVE  /\ Pending(Peer(e))' \subseteq Pending(Peer(e)) \cup {p}
           /\ Pending(e)' \subseteq Pending(e)
<1> DEFINE f == Peer(e)
<1>1. f \in Endpoint /\ f # e /\ Peer(f) = e
  BY PeerFacts
<1> HIDE DEF f
<1>2. /\ wire \in [Endpoint -> Seq(Packet)] /\ wire[f] \in Seq(Packet) /\ wire[e] \in Seq(Packet)
      /\ copied \in [Endpoint -> Packet \cup {NoPacket}]
  BY <1>1 DEF TypeOK
<1>3. ASSUME NEW ps \in Seq(Packet), SendPackets(e, ps)
      PROVE  /\ Elements(wire'[f]) \subseteq Elements(wire[f]) \cup Elements(ps)
             /\ wire'[e] = wire[e]
  <2>1. wire' = [wire EXCEPT ![f] = @ \o ps]
    BY <1>3 DEF SendPackets, f
  <2>2. wire'[f] = wire[f] \o ps /\ wire'[e] = wire[e]
    BY <1>1, <1>2, <2>1
  <2>3. QED
    BY <1>2, <2>2, ElementsConcat
<1>4. ASSUME NEW x PROVE Elements(<<x>>) = {x} /\ Elements(<<x, x>>) = {x} /\ Elements(<< >>) = {}
  <2>1. Elements(<< >>) = {}
    BY DEF Elements
  <2>2. Elements(<<x>>) = {x}
    <3>1. 1 .. Len(<<x>>) = {1}
      OBVIOUS
    <3>2. QED
      BY <3>1 DEF Elements
  <2>3. Elements(<<x, x>>) = {x}
    <3>1. 1 .. Len(<<x, x>>) = {1, 2}
      OBVIOUS
    <3>2. <<x, x>>[1] = x /\ <<x, x>>[2] = x
      OBVIOUS
    <3>3. QED
      BY <3>1, <3>2 DEF Elements
  <2>4. QED
    BY <2>1, <2>2, <2>3
<1>5. /\ Elements(wire'[f]) \subseteq Elements(wire[f]) \cup {p, copied[e]}
      /\ Elements(wire'[f]) \subseteq Elements(wire[f]) \cup {p} \/ copied[e] # NoPacket
      /\ wire'[e] = wire[e]
      /\ copied'[e] \in {p, copied[e]}
      /\ copied'[f] = copied[f]
  <2>1. CASE SendPackets(e, <<p>>) /\ UNCHANGED <<copied, mishaps>>
    <3>1. <<p>> \in Seq(Packet)
      OBVIOUS
    <3>2. QED
      BY <1>3, <1>4, <2>1, <3>1
  <2>2. ASSUME NEW m \in Mishaps(e, p),
               SendPackets(e, m[1]), copied' = [copied EXCEPT ![e] = m[2]]
        PROVE  /\ Elements(wire'[f]) \subseteq Elements(wire[f]) \cup {p, copied[e]}
               /\ Elements(wire'[f]) \subseteq Elements(wire[f]) \cup {p} \/ copied[e] # NoPacket
               /\ wire'[e] = wire[e]
               /\ copied'[e] \in {p, copied[e]}
               /\ copied'[f] = copied[f]
    <3>1. copied'[e] = m[2] /\ copied'[f] = copied[f]
      BY <1>1, <1>2, <2>2
    <3>2. /\ << >> \in Seq(Packet) /\ <<p, p>> \in Seq(Packet)
          /\ copied[e] # NoPacket => <<copied[e]>> \in Seq(Packet)
      BY <1>2
    <3>3. \/ m = << << >>, copied[e]>>
          \/ m = << <<p, p>>, copied[e]>>
          \/ m = << << >>, p>>
          \/ copied[e] # NoPacket /\ m = << <<copied[e]>>, copied[e]>>
      BY Zenon DEF Mishaps
    <3>4. CASE m = << << >>, copied[e]>> \/ m = << << >>, p>>
      <4>1. m[1] = << >> /\ m[2] \in {p, copied[e]}
        BY <3>4
      <4>2. Elements(wire'[f]) \subseteq Elements(wire[f]) \cup Elements(<< >>) /\ wire'[e] = wire[e]
        BY <1>3, <2>2, <3>2, <4>1
      <4>3. QED
        BY <1>4, <3>1, <4>1, <4>2
    <3>5. CASE m = << <<p, p>>, copied[e]>>
      <4>1. m[1] = <<p, p>> /\ m[2] = copied[e]
        BY <3>5
      <4>2. Elements(wire'[f]) \subseteq Elements(wire[f]) \cup Elements(<<p, p>>) /\ wire'[e] = wire[e]
        BY <1>3, <2>2, <3>2, <4>1
      <4>3. QED
        BY <1>4, <3>1, <4>1, <4>2, ZenonT(60)
    <3>6. CASE copied[e] # NoPacket /\ m = << <<copied[e]>>, copied[e]>>
      <4>1. m[1] = <<copied[e]>> /\ m[2] = copied[e]
        BY <3>6
      <4>2. /\ Elements(wire'[f]) \subseteq Elements(wire[f]) \cup Elements(<<copied[e]>>)
            /\ wire'[e] = wire[e]
        BY <1>3, <2>2, <3>2, <3>6, <4>1
      <4>3. Elements(<<copied[e]>>) = {copied[e]}
        BY <1>4
      <4>4. QED
        BY <3>1, <3>6, <4>1, <4>2, <4>3
    <3>7. QED
      BY <3>3, <3>4, <3>5, <3>6
  <2>3. QED
    BY <2>1, <2>2 DEF NetworkSend
<1>6. Pending(e)' \subseteq Pending(e)
  <2>1. Elements(network_recv_queue[e])' \subseteq Elements(network_recv_queue[e])
    BY DEF Elements
  <2>2. Elements(wire[e])' = Elements(wire[e])
    BY <1>5 DEF Elements
  <2>3. QED
    BY <1>5, <2>1, <2>2 DEF Pending, f
<1>7. Pending(f)' \subseteq Pending(f) \cup {p}
  <2>1. Elements(network_recv_queue[f])' = Elements(network_recv_queue[f])
    BY DEF Elements, f
  <2>2. Elements(wire[f])' = Elements(wire'[f])
    BY DEF Elements
  <2>3. Pending(f) = Elements(network_recv_queue[f]) \cup Elements(wire[f]) \cup ({copied[e]} \ {NoPacket})
    BY <1>1 DEF Pending
  <2>4. Pending(f)' = Elements(network_recv_queue[f])' \cup Elements(wire[f])' \cup ({copied'[e]} \ {NoPacket})
    BY <1>1 DEF Pending
  <2>5. QED
    BY <1>5, <2>1, <2>2, <2>3, <2>4
<1>8. QED
  BY <1>6, <1>7 DEF f

(* Taking a segment from the queue leaves the others. *)
LEMMA PendingRecv ==
    ASSUME TypeOK, NEW e \in Endpoint, NetworkRecv(e)
    PROVE  /\ network_recv_queue'[Peer(e)] = network_recv_queue[Peer(e)]
           /\ Elements(network_recv_queue'[e]) \subseteq Elements(network_recv_queue[e])
           /\ Received(e) \in Packet /\ Received(e) \in Pending(e)
<1>1. network_recv_queue \in [Endpoint -> Seq(Packet)]
  BY DEF TypeOK
<1>2. /\ network_recv_queue[e] # << >> /\ network_recv_queue[e] \in Seq(Packet)
      /\ network_recv_queue' = [network_recv_queue EXCEPT ![e] = Tail(@)]
  BY <1>1 DEF NetworkRecv
<1>3. /\ network_recv_queue'[e] = Tail(network_recv_queue[e])
      /\ network_recv_queue'[Peer(e)] = network_recv_queue[Peer(e)]
  BY <1>1, <1>2, PeerFacts
<1>4. /\ Head(network_recv_queue[e]) \in Elements(network_recv_queue[e])
      /\ Elements(Tail(network_recv_queue[e])) \subseteq Elements(network_recv_queue[e])
  BY <1>2, ElementsOf
<1>5. QED
  BY <1>3, <1>4, RecvType DEF Received, Pending

(* A step that sends nothing *)
LEMMA PendingQuiet ==
    ASSUME NEW e \in Endpoint, wire' = wire, copied' = copied,
           network_recv_queue'[Peer(e)] = network_recv_queue[Peer(e)],
           Elements(network_recv_queue'[e]) \subseteq Elements(network_recv_queue[e])
    PROVE  Pending(Peer(e))' \subseteq Pending(Peer(e)) /\ Pending(e)' \subseteq Pending(e)
<1>1. /\ Elements(wire[e])' = Elements(wire[e])
      /\ Elements(wire[Peer(e)])' = Elements(wire[Peer(e)])
      /\ Elements(network_recv_queue[Peer(e)])' = Elements(network_recv_queue[Peer(e)])
      /\ Elements(network_recv_queue[e])' = Elements(network_recv_queue'[e])
  BY DEF Elements
<1>2. QED
  BY <1>1 DEF Pending

(* What is left of a queue of chunks are its chunks and, of the first, the *)
(* part behind what was taken.                                             *)
LEMMA BufferElements ==
    ASSUME NEW q \in Seq(Chunk), q # << >>, NEW n \in Nat
    PROVE  \A c \in Elements(BufferAfter(q, n)) :
              \/ c \in Elements(q)
              \/ Head(q).len > n /\ c = [from |-> Head(q).from + n, len |-> Head(q).len - n]
<1>1. Head(q) \in Chunk /\ Tail(q) \in Seq(Chunk) /\ Elements(Tail(q)) \subseteq Elements(q)
  BY ElementsOf
<1>2. CASE Head(q).len > n
  <2>1. PICK x : x = [from |-> Head(q).from + n, len |-> Head(q).len - n]
    OBVIOUS
  <2>2. x \in Chunk
    BY <1>1, <1>2, <2>1 DEF Chunk
  <2>3. <<x>> \in Seq(Chunk) /\ Elements(<<x>>) = {x}
    <3>1. 1 .. Len(<<x>>) = {1}
      OBVIOUS
    <3>2. QED
      BY <2>2, <3>1 DEF Elements
  <2>4. Elements(<<x>> \o Tail(q)) \subseteq Elements(<<x>>) \cup Elements(Tail(q))
    BY <1>1, <2>3, ElementsConcat
  <2>5. BufferAfter(q, n) = <<x>> \o Tail(q)
    BY <1>2, <2>1 DEF BufferAfter
  <2>6. QED
    BY <1>1, <1>2, <2>1, <2>3, <2>4, <2>5
<1>3. CASE ~(Head(q).len > n)
  BY <1>1, <1>3 DEF BufferAfter
<1>4. QED
  BY <1>2, <1>3

-----------------------------------------------------------------------------
(* How a step of e carries the invariant over to the next state *)

(* The phase of an endpoint, and what it has sent, depend on its own state. *)
LEMMA OwnFrame ==
    ASSUME NEW f \in Endpoint, Own(f)
    PROVE  /\ Handshaking(f)' <=> Handshaking(f)
           /\ TransportAlive(f)' <=> TransportAlive(f)
           /\ FinOut(f)' <=> FinOut(f)
           /\ FinIn(f)' <=> FinIn(f)
           /\ PhaseInv(f) => PhaseInv(f)'
           /\ SendInv(f) => SendInv(f)'
           /\ f = "server" => (Fresh' <=> Fresh)
<1>1. /\ Handshaking(f)' <=> Handshaking(f)
      /\ TransportAlive(f)' <=> TransportAlive(f)
  BY DEF Own, Handshaking, TransportAlive
<1>2. (FinOut(f)' <=> FinOut(f)) /\ (FinIn(f)' <=> FinIn(f))
  BY <1>1 DEF Own, FinOut, FinIn
<1>3. PhaseInv(f) => PhaseInv(f)'
  BY <1>1 DEF Own, PhaseInv, OpenStates, HandshakeStates
<1>4. SendInv(f) => SendInv(f)'
  BY <1>1, <1>2 DEF Own, SendInv, Elements, WrittenBy
<1>5. f = "server" => (Fresh' <=> Fresh)
  BY DEF Own, Fresh
<1>6. QED
  BY <1>1, <1>2, <1>3, <1>4, <1>5

(* What an endpoint has written stays written. *)
LEMMA GenuineKeeps ==
    ASSUME NEW e \in Endpoint, TypeOK, TypeOK', FinOut(e) => FinOut(e)',
           bytes_written[e] <= bytes_written'[e]
    PROVE  /\ \A p \in Packet : GenuineSegment(e, p) => GenuineSegment(e, p)'
           /\ \A c \in Chunk : GenuineChunk(e, c) => GenuineChunk(e, c)'
<1>1. bytes_written[e] \in Nat /\ bytes_written'[e] \in Nat
  BY DEF TypeOK
<1>2. ASSUME NEW a \in Nat, NEW n \in Nat, WrittenBy(e, a, n) PROVE WrittenBy(e, a, n)'
  BY <1>1, <1>2 DEF WrittenBy
<1>3. \A p \in Packet : p.pos \in Nat /\ p.len \in Nat
  BY DEF Packet
<1>4. \A c \in Chunk : c.from \in Nat /\ c.len \in Nat
  BY DEF Chunk
<1>5. QED
  BY <1>2, <1>3, <1>4 DEF GenuineSegment, GenuineChunk

(* What may still reach an endpoint are segments. *)
LEMMA PendingType ==
    ASSUME TypeOK, NEW e \in Endpoint
    PROVE  Pending(e) \subseteq Packet /\ Elements(app_send_queue[e]) \subseteq Chunk
<1>1. /\ network_recv_queue[e] \in Seq(Packet) /\ wire[e] \in Seq(Packet)
      /\ app_send_queue[e] \in Seq(Chunk)
      /\ copied[Peer(e)] \in Packet \cup {NoPacket}
  BY PeerFacts DEF TypeOK
<1>2. QED
  BY <1>1 DEF Pending, Elements

(* The parts of the invariant that a step of e has to establish *)
LEMMA ConnectionKeep ==
    ASSUME ConnectionInv, TypeInv', NEW e \in Endpoint, Own(Peer(e)),
           PhaseInv(e)', SendInv(e)',
           FinOut(e) => FinOut(e)', bytes_written[e] <= bytes_written'[e],
           Pending(e)' \subseteq Pending(e),
           \A p \in Pending(Peer(e))' : p \in Pending(Peer(e)) \/ GenuineSegment(e, p)',
           \A c \in Elements(app_send_queue[e])' :
               c \in Elements(app_send_queue[e]) \/ GenuineChunk(Peer(e), c),
           eof'[e] => eof[e] \/ FinOut(Peer(e)),
           FinIn(e)' => FinOut(Peer(e)),
           Fresh' => Handshaking("client")' /\ Pending("client")' = {}
    PROVE  ConnectionInv'
<1> DEFINE f == Peer(e)
<1>1. f \in Endpoint /\ f # e /\ Peer(f) = e /\ \A x \in Endpoint : x = e \/ x = f
  BY PeerFacts
<1> HIDE DEF f
<1>2. /\ TypeOK /\ TypeOK'
      /\ PhaseInv(f) /\ SendInv(f) /\ ReceiveInv(e) /\ ReceiveInv(f)
  BY <1>1 DEF ConnectionInv, TypeInv
<1>3. Own(f)
  BY DEF f
<1>4. PhaseInv(f)' /\ SendInv(f)' /\ (FinOut(f)' <=> FinOut(f)) /\ (FinIn(f)' <=> FinIn(f))
  BY <1>1, <1>2, <1>3, OwnFrame
<1>5. bytes_written'[f] = bytes_written[f] /\ eof'[f] = eof[f] /\ app_send_queue'[f] = app_send_queue[f]
  BY <1>3 DEF Own
<1>6. bytes_written[f] <= bytes_written'[f]
  <2>1. bytes_written[f] \in Nat
    BY <1>1, <1>2 DEF TypeOK
  <2>2. QED
    BY <1>5, <2>1
<1>7. /\ \A p \in Packet : GenuineSegment(f, p) => GenuineSegment(f, p)'
      /\ \A c \in Chunk : GenuineChunk(f, c) => GenuineChunk(f, c)'
  BY <1>1, <1>2, <1>4, <1>6, GenuineKeeps
<1>8. /\ \A p \in Packet : GenuineSegment(e, p) => GenuineSegment(e, p)'
      /\ \A c \in Chunk : GenuineChunk(e, c) => GenuineChunk(e, c)'
  BY <1>1, <1>2, GenuineKeeps
<1>9. /\ Pending(e) \subseteq Packet /\ Elements(app_send_queue[e])' \subseteq Chunk
      /\ Pending(f) \subseteq Packet /\ Elements(app_send_queue[f]) \subseteq Chunk
  <2>1. Elements(app_send_queue[e])' \subseteq Chunk
    <3>1. app_send_queue'[e] \in Seq(Chunk)
      BY <1>2 DEF TypeOK
    <3>2. QED
      BY <3>1 DEF Elements
  <2>2. QED
    BY <1>1, <1>2, <2>1, PendingType
<1>10. ReceiveInv(e)'
  <2>1. \A p \in Pending(e)' : GenuineSegment(f, p)'
    BY <1>2, <1>7, <1>9 DEF ReceiveInv, f
  <2>2. \A c \in Elements(app_send_queue[e])' : GenuineChunk(f, c)'
    BY <1>2, <1>7, <1>9 DEF ReceiveInv, f
  <2>3. (eof'[e] => FinOut(f)') /\ (FinIn(e)' => FinOut(f)')
    BY <1>2, <1>4 DEF ReceiveInv, f
  <2>4. QED
    BY <2>1, <2>2, <2>3 DEF ReceiveInv, f
<1>11. ReceiveInv(f)'
  <2>1. \A p \in Pending(f)' : GenuineSegment(e, p)'
    BY <1>1, <1>2, <1>8, <1>9 DEF ReceiveInv, f
  <2>2. \A c \in Elements(app_send_queue[f])' : GenuineChunk(e, c)'
    <3>1. Elements(app_send_queue[f])' = Elements(app_send_queue[f])
      BY <1>5 DEF Elements
    <3>2. QED
      BY <1>1, <1>2, <1>8, <1>9, <3>1 DEF ReceiveInv
  <2>3. (eof'[f] => FinOut(e)') /\ (FinIn(f)' => FinOut(e)')
    BY <1>1, <1>2, <1>4, <1>5 DEF ReceiveInv
  <2>4. QED
    BY <1>1, <2>1, <2>2, <2>3 DEF ReceiveInv
<1>12. QED
  BY <1>1, <1>4, <1>10, <1>11 DEF ConnectionInv

(* Once an endpoint is past its handshake, the server is no longer fresh. *)
LEMMA NotFresh ==
    ASSUME ConnectionInv, NEW e \in Endpoint, Own(Peer(e)), ~Handshaking(e)',
           e = "client" => ~Handshaking("client") \/ Pending("client") # {}
    PROVE  ~Fresh'
<1>1. CASE e = "client"
  <2>1. ~Fresh
    BY <1>1 DEF ConnectionInv
  <2>2. Own("server") /\ "server" \in Endpoint
    BY <1>1, PeerFacts
  <2>3. QED
    BY <2>1, <2>2, OwnFrame
<1>2. CASE e = "server"
  BY <1>2 DEF Fresh, Handshaking
<1>3. QED
  BY <1>1, <1>2, PeerFacts

(* An endpoint in CLOSED has handled its peer's FIN. *)
LEMMA ClosedGotFin ==
    ASSUME ConnectionInv, NEW e \in Endpoint, FinIn(e) PROVE FinOut(Peer(e))
BY DEF ConnectionInv, ReceiveInv

-----------------------------------------------------------------------------
(* The state machine of an endpoint *)

(* Where the loop goes: it ends in CLOSED only, and the close section is   *)
(* entered only on a close request.                                        *)
LEMMA PhaseAfter ==
    ASSUME NEW bits, NEW state
    PROVE  /\ LoopEnd(state) = "done" <=> state = "CLOSED"
           /\ AfterNet(bits, state) = "done" => state = "CLOSED"
           /\ AfterNet(bits, state) = "wait" => state # "CLOSED"
           /\ AfterNet(bits, state) = "close" => "APP_CLOSE_REQUESTED" \in bits
           /\ AfterApp(bits, state) = "done" => state = "CLOSED"
           /\ AfterApp(bits, state) = "close" => "APP_CLOSE_REQUESTED" \in bits
           /\ AfterWait(bits, state) = "done" => state = "CLOSED"
           /\ AfterWait(bits, state) = "close" => "APP_CLOSE_REQUESTED" \in bits
BY DEF LoopEnd, AfterNet, AfterApp, AfterWait

(* Steps of the control loop keep the phases of an endpoint. *)
LEMMA PhaseStep ==
    ASSUME TypeInv, NEW e \in Endpoint, PhaseInv(e),
           \/ WaitForEvent(e) \/ WindowFull(e) \/ SendData(e) \/ RecvAck(e)
           \/ RecvFin(e) \/ RecvData(e) \/ SendFin(e) \/ CloseIgnored(e)
           \/ ClosingRecv(e) \/ TransportReturn(e)
           \/ SendOverrun(e) \/ AckOverrun(e)
    PROVE  ~Handshaking(e) /\ TransportAlive(e) /\ ~Handshaking(e)' /\ PhaseInv(e)'
<1> USE DEF TypeInv, PhaseInv, Handshaking, TransportAlive
<1>0. /\ OpenStates(e) \cup {} = OpenStates(e)
      /\ pc[e] \notin {"start", "handshake", "aborted", "faulted"} =>
            connection_state[e] \in OpenStates(e)
  OBVIOUS
<1>1. CASE WaitForEvent(e)
  BY <1>0, <1>1, PhaseType, PhaseAfter DEF WaitForEvent, context, application, TypeOK
<1>2. CASE WindowFull(e)
  BY <1>0, <1>2, PhaseType, PhaseAfter DEF WindowFull, context, application, TypeOK
<1>3. CASE SendData(e)
  BY <1>0, <1>3, PhaseType, PhaseAfter DEF SendData, application, TypeOK
<1>4. CASE RecvAck(e)
  BY <1>0, <1>4, PhaseType, PhaseAfter DEF RecvAck, HandlesPacket, NextPhase, application, TypeOK
<1>5. CASE RecvFin(e)
  <2>1. StateAfterFin(e) \in OpenStates(e)
    BY DEF StateAfterFin, OpenStates, Endpoint
  <2>2. /\ connection_state'[e] = StateAfterFin(e)
        /\ pc[e] = "net" /\ pc'[e] = AfterNet(event[e], StateAfterFin(e))
        /\ app' = app /\ event' = event
    BY <1>5 DEF RecvFin, HandlesPacket, NextPhase, application, TypeOK
  <2>3. /\ pc'[e] \in {"close", "done", "wait"}
        /\ pc'[e] = "done" => connection_state'[e] = "CLOSED"
        /\ pc'[e] = "wait" => connection_state'[e] # "CLOSED"
        /\ pc'[e] = "close" => "APP_CLOSE_REQUESTED" \in event'[e]
    BY <2>2, PhaseType, PhaseAfter
  <2>4. OpenStates(e)' = OpenStates(e)
    BY DEF OpenStates
  <2>5. QED
    BY <2>1, <2>2, <2>3, <2>4
<1>6. CASE RecvData(e)
  BY <1>0, <1>6, PhaseType, PhaseAfter DEF RecvData, HandlesPacket, NextPhase, application, TypeOK
<1>7. CASE SendFin(e)
  BY <1>7 DEF SendFin, OpenStates, Endpoint, application, TypeOK
<1>8. CASE CloseIgnored(e)
  BY <1>0, <1>8, PhaseType, PhaseAfter DEF CloseIgnored, context, application, TypeOK
<1>9. CASE ClosingRecv(e)
  <2>1. PICK state : state = StateAfterClosingRecv(e, Received(e))
    OBVIOUS
  <2>2. state \in OpenStates(e)
    <3>1. connection_state[e] \in OpenStates(e)
      BY <1>0, <1>9 DEF ClosingRecv
    <3>2. QED
      BY <2>1, <3>1 DEF StateAfterClosingRecv, OpenStates, Endpoint
  <2>3. /\ connection_state'[e] = state /\ pc'[e] = LoopEnd(state)
        /\ pc[e] \in {"net", "close"} /\ app' = app /\ event' = event
    BY <1>9, <2>1 DEF ClosingRecv, application, TypeOK
  <2>4. pc'[e] \in {"done", "wait"} /\ (pc'[e] = "done" <=> connection_state'[e] = "CLOSED")
    BY <2>3, PhaseType, PhaseAfter
  <2>5. OpenStates(e)' = OpenStates(e)
    BY DEF OpenStates
  <2>6. QED
    BY <2>2, <2>3, <2>4, <2>5
<1>10. CASE TransportReturn(e)
  BY <1>0, <1>10 DEF TransportReturn, context, application, TypeOK
<1>11. CASE SendOverrun(e)
  BY <1>0, <1>11 DEF SendOverrun, context, application, TypeOK
<1>12. CASE AckOverrun(e)
  BY <1>0, <1>12 DEF AckOverrun, HandlesPacket, context, application, TypeOK
<1>13. QED
  BY <1>1, <1>2, <1>3, <1>4, <1>5, <1>6, <1>7, <1>8, <1>9, <1>10, <1>11, <1>12

(* A step that leaves the application's side of e as it is *)
LEMMA SendKeeps ==
    ASSUME NEW e \in Endpoint, SendInv(e), ~Handshaking(e), TransportAlive(e), ~Handshaking(e)',
           next_seqnum'[e] = next_seqnum[e],
           app_recv_queue'[e] = app_recv_queue[e],
           bytes_written'[e] = bytes_written[e],
           app[e] # "open" => app'[e] # "open",
           close_requested'[e] => app'[e] # "open",
           FinOut(e)' <=> FinOut(e),
           pc'[e] \in {"app", "net", "close"} /\ "APP_CLOSE_REQUESTED" \in event'[e]
               => app[e] # "open" /\ app_recv_queue[e] = << >>
    PROVE  SendInv(e)'
BY DEF SendInv, Elements, WrittenBy

(* The thread goes on, or ends, without taking or sending a segment. *)
LEMMA LocalSteps ==
    ASSUME ConnectionInv, TypeInv', NEW e \in Endpoint,
           \/ WaitForEvent(e) \/ WindowFull(e) \/ CloseIgnored(e)
           \/ SendOverrun(e) \/ TransportReturn(e)
    PROVE  ConnectionInv'
<1> USE DEF TypeInv
<1>1. /\ TypeInv /\ TypeOK /\ TypeOK'
      /\ PhaseInv(e) /\ SendInv(e) /\ ReceiveInv(e)
  BY DEF ConnectionInv
<1>2. ~Handshaking(e) /\ TransportAlive(e) /\ ~Handshaking(e)' /\ PhaseInv(e)'
  BY <1>1, PhaseStep
<1>3. Own(Peer(e))
  BY <1>1, OtherOwn, PeerFacts DEF Transport
<1>4. /\ next_seqnum' = next_seqnum /\ app_recv_queue' = app_recv_queue
      /\ network_recv_queue' = network_recv_queue /\ wire' = wire /\ copied' = copied
      /\ bytes_written' = bytes_written /\ app' = app /\ eof' = eof
      /\ connection_state' = connection_state
  BY DEF WaitForEvent, WindowFull, CloseIgnored, SendOverrun, TransportReturn,
         context, queues, network, application
<1>5. (FinOut(e)' <=> FinOut(e)) /\ (FinIn(e)' <=> FinIn(e))
  BY <1>2, <1>4 DEF FinOut, FinIn
<1>6. /\ close_requested'[e] => close_requested[e]
      /\ pc'[e] \in {"app", "net", "close"} /\ "APP_CLOSE_REQUESTED" \in event'[e]
            => app[e] # "open" /\ app_recv_queue[e] = << >>
  <2>1. CASE WaitForEvent(e)
    <3>1. /\ event'[e] = PendingEvents(e)
          /\ close_requested'[e] <=> close_requested[e] /\ "APP_CLOSE_REQUESTED" \notin PendingEvents(e)
      BY <1>1, <2>1, ZenonT(60) DEF WaitForEvent, TypeOK
    <3>2. "APP_CLOSE_REQUESTED" \in PendingEvents(e) => close_requested[e] /\ app_recv_queue[e] = << >>
      BY DEF PendingEvents
    <3>3. QED
      BY <1>1, <3>1, <3>2 DEF SendInv
  <2>2. CASE ~WaitForEvent(e)
    <3>1. /\ event' = event /\ close_requested' = close_requested
          /\ pc[e] \in {"app", "net", "close"} \/ pc'[e] \notin {"app", "net", "close"}
      BY <1>1, <2>2 DEF WindowFull, CloseIgnored, SendOverrun, TransportReturn, TypeOK
    <3>2. QED
      BY <1>1, <3>1 DEF SendInv
  <2>3. QED
    BY <2>1, <2>2
<1>7. SendInv(e)'
  BY <1>1, <1>2, <1>4, <1>5, <1>6, SendKeeps DEF SendInv
<1>8. Pending(Peer(e))' \subseteq Pending(Peer(e)) /\ Pending(e)' \subseteq Pending(e)
  BY <1>4, PendingQuiet
<1>9. \A c \in Elements(app_send_queue[e])' :
         c \in Elements(app_send_queue[e]) \/ GenuineChunk(Peer(e), c)
  <2>1. CASE TransportReturn(e)
    <3>1. PICK x : x = [from |-> RecvBase[e], len |-> 0]
      OBVIOUS
    <3>2. x \in Chunk /\ x.len = 0
      BY <1>1, <3>1 DEF TypeOK, Chunk
    <3>3. app_send_queue'[e] = Append(app_send_queue[e], x) /\ app_send_queue[e] \in Seq(Chunk)
      BY <1>1, <2>1, <3>1 DEF TransportReturn, Enqueued, EofNode, TypeOK
    <3>4. Elements(app_send_queue[e])' = Elements(app_send_queue[e]) \cup {x}
      <4>1. Elements(app_send_queue[e])' = Elements(Append(app_send_queue[e], x))
        BY <3>3 DEF Elements
      <4>2. QED
        BY <3>2, <3>3, <4>1, ElementsOf
    <3>5. FinIn(e)
      BY <1>1, <1>2, <2>1 DEF TransportReturn, PhaseInv, FinIn
    <3>6. FinOut(Peer(e))
      BY <3>5, ClosedGotFin
    <3>7. GenuineChunk(Peer(e), x)
      BY <3>2, <3>6 DEF GenuineChunk, WrittenBy
    <3>8. QED
      BY <3>4, <3>7
  <2>2. CASE ~TransportReturn(e)
    <3>1. app_send_queue' = app_send_queue
      BY <2>2 DEF WaitForEvent, WindowFull, CloseIgnored, SendOverrun, queues
    <3>2. QED
      BY <3>1 DEF Elements
  <2>3. QED
    BY <2>1, <2>2
<1>10. ~Fresh'
  BY <1>2, <1>3, NotFresh
<1>11. FinIn(e)' => FinOut(Peer(e))
  BY <1>5, ClosedGotFin
<1>12. bytes_written[e] <= bytes_written'[e]
  <2>1. bytes_written[e] \in Nat
    BY <1>1 DEF TypeOK
  <2>2. QED
    BY <1>4, <2>1
<1>13. QED
  BY <1>2, <1>3, <1>4, <1>5, <1>7, <1>8, <1>9, <1>10, <1>11, <1>12, ConnectionKeep

(* A segment is taken, and not answered. *)
LEMMA ReceiveSteps ==
    ASSUME ConnectionInv, TypeInv', NEW e \in Endpoint,
           RecvAck(e) \/ AckOverrun(e) \/ ClosingRecv(e) \/ ChecksumAbort(e)
    PROVE  ConnectionInv'
<1> USE DEF TypeInv
<1>1. /\ TypeInv /\ TypeOK /\ TypeOK'
      /\ PhaseInv(e) /\ SendInv(e) /\ ReceiveInv(e)
  BY DEF ConnectionInv
<1>2. /\ NetworkRecv(e)
      /\ next_seqnum' = next_seqnum /\ app_recv_queue' = app_recv_queue
      /\ app_send_queue' = app_send_queue /\ wire' = wire /\ copied' = copied
      /\ bytes_written' = bytes_written /\ app' = app /\ eof' = eof
      /\ close_requested' = close_requested /\ event' = event
  BY DEF RecvAck, AckOverrun, ClosingRecv, ChecksumAbort, context, network, application
<1>3. Own(Peer(e))
  BY <1>1, OtherOwn, PeerFacts DEF Transport
<1>4. /\ network_recv_queue'[Peer(e)] = network_recv_queue[Peer(e)]
      /\ Elements(network_recv_queue'[e]) \subseteq Elements(network_recv_queue[e])
      /\ Received(e) \in Pending(e)
  BY <1>1, <1>2, PendingRecv
<1>5. Pending(Peer(e))' \subseteq Pending(Peer(e)) /\ Pending(e)' \subseteq Pending(e)
  BY <1>2, <1>4, PendingQuiet
<1>6. /\ pc[e] \in {"handshake", "net", "close"} /\ ~Handshaking(e)'
      /\ PhaseInv(e)'
      /\ FinOut(e) => FinOut(e)'
      /\ FinIn(e)' => FinOut(Peer(e))
      /\ SendInv(e)'
  <2>1. CASE ChecksumAbort(e)
    <3>1. /\ pc'[e] = "aborted" /\ connection_state' = connection_state
          /\ pc[e] \in {"handshake", "net", "close"}
      BY <1>1, <2>1 DEF ChecksumAbort, HeaderOnlyRecv, context, TypeOK
    <3>2. connection_state[e] \in OpenStates(e) \cup HandshakeStates(e)
      BY <1>1, <3>1 DEF PhaseInv, Handshaking
    <3>3. PhaseInv(e)'
      <4>1. app[e] # "closed"
        BY <1>1, <3>1 DEF PhaseInv
      <4>2. QED
        BY <1>2, <3>1, <3>2, <4>1 DEF PhaseInv, TransportAlive, OpenStates, HandshakeStates
    <3>4. (FinOut(e)' <=> FinOut(e)) /\ (FinIn(e)' <=> FinIn(e))
      BY <1>1, <3>1 DEF FinOut, FinIn, Handshaking, PhaseInv, HandshakeStates
    <3>5. SendInv(e)'
      BY <1>1, <1>2, <3>1, <3>4 DEF SendInv, Handshaking, TransportAlive, Elements, WrittenBy
    <3>6. QED
      BY <3>1, <3>3, <3>4, <3>5, ClosedGotFin DEF Handshaking
  <2>2. CASE RecvAck(e) \/ AckOverrun(e) \/ ClosingRecv(e)
    <3>1. ~Handshaking(e) /\ TransportAlive(e) /\ ~Handshaking(e)' /\ PhaseInv(e)'
      BY <1>1, <2>2, PhaseStep
    <3>2. pc[e] \in {"net", "close"}
      BY <2>2 DEF RecvAck, AckOverrun, ClosingRecv, HandlesPacket
    <3>3. /\ FinOut(e)' <=> FinOut(e)
          /\ FinIn(e)' => FinIn(e)
      <4>1. CASE ClosingRecv(e)
        <5>1. /\ connection_state[e] \in {"FIN_WAIT_1", "LAST_ACK"}
              /\ connection_state[e] \in OpenStates(e)
          BY <1>1, <3>1, <4>1 DEF ClosingRecv, AwaitsFinAck, PhaseInv
        <5>2. connection_state'[e] \in
                 {connection_state[e], IF e = "client" THEN "FIN_WAIT_2" ELSE "CLOSED"}
          BY <1>1, <4>1 DEF ClosingRecv, StateAfterClosingRecv, TypeOK
        <5>3. QED
          BY <3>1, <5>1, <5>2 DEF FinOut, FinIn, OpenStates
      <4>2. CASE ~ClosingRecv(e)
        <5>1. connection_state' = connection_state
          BY <2>2, <4>2 DEF RecvAck, AckOverrun, context
        <5>2. QED
          BY <3>1, <5>1 DEF FinOut, FinIn
      <4>3. QED
        BY <4>1, <4>2
    <3>4. SendInv(e)'
      BY <1>1, <1>2, <3>1, <3>2, <3>3, SendKeeps DEF SendInv
    <3>5. QED
      BY <3>1, <3>2, <3>3, <3>4, ClosedGotFin
  <2>3. QED
    BY <2>1, <2>2
<1>7. ~Fresh'
  BY <1>3, <1>4, <1>6, NotFresh
<1>8. \A c \in Elements(app_send_queue[e])' : c \in Elements(app_send_queue[e])
  BY <1>2 DEF Elements
<1>9. bytes_written[e] <= bytes_written'[e]
  <2>1. bytes_written[e] \in Nat
    BY <1>1 DEF TypeOK
  <2>2. QED
    BY <1>2, <2>1
<1>10. QED
  BY <1>2, <1>3, <1>5, <1>6, <1>7, <1>8, <1>9, ConnectionKeep

-----------------------------------------------------------------------------
(* Steps that send *)

(* A step after the handshake in which e sends p *)
LEMMA SendingStep ==
    ASSUME ConnectionInv, TypeInv', NEW e \in Endpoint, Own(Peer(e)),
           ~Handshaking(e), ~Handshaking(e)',
           PhaseInv(e)', SendInv(e)', FinOut(e) => FinOut(e)',
           NEW p \in Packet, NetworkSend(e, p), GenuineSegment(e, p)',
           network_recv_queue'[Peer(e)] = network_recv_queue[Peer(e)],
           Elements(network_recv_queue'[e]) \subseteq Elements(network_recv_queue[e]),
           bytes_written'[e] = bytes_written[e], eof'[e] = eof[e],
           \A c \in Elements(app_send_queue[e])' :
               c \in Elements(app_send_queue[e]) \/ GenuineChunk(Peer(e), c),
           FinIn(e)' => FinOut(Peer(e))
    PROVE  ConnectionInv'
<1>1. TypeOK
  BY DEF ConnectionInv, TypeInv
<1>2. /\ Pending(Peer(e))' \subseteq Pending(Peer(e)) \cup {p}
      /\ Pending(e)' \subseteq Pending(e)
  BY <1>1, PendingSend
<1>3. bytes_written[e] <= bytes_written'[e]
  <2>1. bytes_written[e] \in Nat
    BY <1>1 DEF TypeOK
  <2>2. QED
    BY <2>1
<1>4. ~Fresh'
  BY NotFresh
<1>5. \A x \in Pending(Peer(e))' : x \in Pending(Peer(e)) \/ GenuineSegment(e, x)'
  BY <1>2
<1>6. QED
  BY <1>2, <1>3, <1>4, <1>5, ConnectionKeep

(* The next bytes of the application *)
LEMMA SendDataStep ==
    ASSUME ConnectionInv, TypeInv', NEW e \in Endpoint, SendData(e)
    PROVE  ConnectionInv'
<1> USE DEF TypeInv
<1> DEFINE q == app_recv_queue[e]
           a == next_seqnum[e]
           w == bytes_written[e]
           m == max_size(e)
           n == data_size(e)
<1>0. PICK p : p = [flags |-> "DATA", th_seq |-> TcpSeq(a), th_ack |-> 0, len |-> n,
                    pos |-> Head(q).from]
  OBVIOUS
<1>1. /\ TypeInv /\ TypeOK /\ TypeOK'
      /\ PhaseInv(e) /\ SendInv(e) /\ ReceiveInv(e)
  BY DEF ConnectionInv
<1>2. ~Handshaking(e) /\ TransportAlive(e) /\ ~Handshaking(e)' /\ PhaseInv(e)'
  BY <1>1, PhaseStep
<1>3. Own(Peer(e))
  BY <1>1, OtherOwn, PeerFacts DEF Transport
<1>4. /\ q \in Seq(Chunk) /\ q # << >> /\ a \in Nat /\ w \in Nat
      /\ rem[e] \in Nat \ {0} /\ MSS \in Nat \ {0}
  BY <1>1, ConstantsAssumption DEF SendData, TypeOK, AppPhase
<1>5. m \in Nat \ {0}
  BY <1>4 DEF max_size, MIN
<1>6. /\ NetworkSend(e, p) /\ pc[e] = "app"
      /\ app_recv_queue'[e] = BufferAfter(q, m)
      /\ next_seqnum'[e] = a + n
      /\ connection_state' = connection_state /\ event' = event
      /\ bytes_written' = bytes_written /\ app' = app /\ close_requested' = close_requested
      /\ eof' = eof /\ app_send_queue' = app_send_queue
      /\ network_recv_queue' = network_recv_queue
  BY <1>0, <1>1 DEF SendData, TypeOK, application
<1>7. ~FinOut(e) /\ ~FinOut(e)' /\ (FinIn(e)' <=> FinIn(e))
  BY <1>1, <1>2, <1>4, <1>6 DEF SendInv, FinOut, FinIn
<1>8. Stream(q, a) /\ EndsAt(q, a, 1 + w)
  BY <1>1, <1>2, <1>7 DEF SendInv
<1>9. Head(q) = q[1] /\ q[1].from = a /\ q[1].len \in Nat /\ q[1].len > 0
  <2>1. 1 \in 1 .. Len(q) /\ Len(q) \in 1 .. Len(q) /\ Head(q) = q[1]
    BY <1>4
  <2>2. q[1].len \in Nat /\ q[1].from = a /\ q[Len(q)].len > 0 /\ q[Len(q)].len \in Nat
    BY <1>4, <1>8, <2>1, ChunkType DEF Stream, EndsAt
  <2>3. q[1].len # 0
    BY <1>4, <1>8, <2>1, <2>2 DEF Stream
  <2>4. QED
    BY <2>1, <2>2, <2>3
<1>10. n = MIN(m, q[1].len) /\ n \in Nat
  BY <1>5, <1>9 DEF data_size, MIN
<1>11. p \in Packet /\ p.pos = a /\ p.flags = "DATA" /\ p.len = n
  BY <1>0, <1>4, <1>9, <1>10, TcpSeqType DEF Packet
<1> HIDE DEF q, a, w, m, n
<1>12. Stream(BufferAfter(q, m), a + n) /\ EndsAt(BufferAfter(q, m), a + n, 1 + w)
  <2>1. 1 + w \in Nat
    BY <1>4
  <2>2. QED
    BY <1>4, <1>5, <1>8, <1>9, <1>10, <2>1, StreamTake
<1>13. a >= 1 /\ a + q[1].len <= 1 + w
  <2>1. q[1] \in Elements(q)
    BY <1>4, <1>9, ElementsOf
  <2>2. WrittenBy(e, q[1].from, q[1].len)
    BY <1>1, <2>1 DEF SendInv, q
  <2>3. QED
    BY <1>9, <2>2 DEF WrittenBy, w
<1>14. SendInv(e)'
  <2>1. "APP_CLOSE_REQUESTED" \notin event[e] /\ (close_requested[e] => app[e] # "open")
    BY <1>1, <1>4, <1>6 DEF SendInv, q
  <2>2. ASSUME NEW c \in Elements(BufferAfter(q, m)) PROVE WrittenBy(e, c.from, c.len)
    <3>1. CASE c \in Elements(q)
      BY <1>1, <3>1 DEF SendInv, q
    <3>2. CASE Head(q).len > m /\ c = [from |-> Head(q).from + m, len |-> Head(q).len - m]
      BY <1>4, <1>5, <1>9, <1>13, <3>2 DEF WrittenBy, w
    <3>3. QED
      BY <1>4, <1>5, <3>1, <3>2, BufferElements
  <2>3. \A c \in Elements(app_recv_queue[e])' : WrittenBy(e, c.from, c.len)'
    BY <1>6, <2>2 DEF Elements, WrittenBy
  <2>4. QED
    BY <1>2, <1>6, <1>7, <1>12, <2>1, <2>3 DEF SendInv, w
<1>15. GenuineSegment(e, p)'
  <2>1. a + n <= 1 + w
    BY <1>4, <1>5, <1>9, <1>10, <1>13 DEF MIN
  <2>2. QED
    BY <1>6, <1>11, <1>13, <2>1 DEF GenuineSegment, WrittenBy, w
<1>16. \A c \in Elements(app_send_queue[e])' : c \in Elements(app_send_queue[e])
  BY <1>6 DEF Elements
<1>17. FinIn(e)' => FinOut(Peer(e))
  BY <1>7, ClosedGotFin
<1>18. QED
  BY <1>2, <1>3, <1>6, <1>7, <1>11, <1>14, <1>15, <1>16, <1>17, SendingStep

(* The FIN, after all of the application's bytes *)
LEMMA SendFinStep ==
    ASSUME ConnectionInv, TypeInv', NEW e \in Endpoint, SendFin(e)
    PROVE  ConnectionInv'
<1> USE DEF TypeInv
<1> DEFINE a == next_seqnum[e]
           w == bytes_written[e]
<1>0. PICK p : p = [flags |-> "FIN", th_seq |-> TcpSeq(a), th_ack |-> 0, len |-> 0, pos |-> a]
  OBVIOUS
<1>1. /\ TypeInv /\ TypeOK /\ TypeOK'
      /\ PhaseInv(e) /\ SendInv(e) /\ ReceiveInv(e)
  BY DEF ConnectionInv
<1>2. ~Handshaking(e) /\ TransportAlive(e) /\ ~Handshaking(e)' /\ PhaseInv(e)'
  BY <1>1, PhaseStep
<1>3. Own(Peer(e))
  BY <1>1, OtherOwn, PeerFacts DEF Transport
<1>4. a \in Nat /\ w \in Nat
  BY <1>1 DEF TypeOK
<1>5. /\ NetworkSend(e, p) /\ pc[e] = "close"
      /\ next_seqnum'[e] = a + 1 /\ pc'[e] = "wait"
      /\ connection_state'[e] = IF e = "client" THEN "FIN_WAIT_1" ELSE "LAST_ACK"
      /\ app_recv_queue' = app_recv_queue /\ app_send_queue' = app_send_queue
      /\ network_recv_queue' = network_recv_queue /\ eof' = eof
      /\ bytes_written' = bytes_written /\ app' = app /\ close_requested' = close_requested
  BY <1>0, <1>1 DEF SendFin, TypeOK, application, queues
<1>6. app[e] # "open" /\ app_recv_queue[e] = << >>
  BY <1>1, <1>5 DEF PhaseInv, SendInv
<1>7. ~FinOut(e) /\ FinOut(e)'
  BY <1>2, <1>5 DEF SendFin, MaySendFin, FinOut
<1>8. a = 1 + w
  BY <1>1, <1>2, <1>6, <1>7 DEF SendInv, EndsAt
<1>9. p \in Packet /\ p.pos = a /\ p.flags = "FIN" /\ p.len = 0
  BY <1>0, <1>4, TcpSeqType DEF Packet
<1>10. FinIn(e)' => FinOut(Peer(e))
  <2>1. FinIn(e)' => FinIn(e)
    BY <1>2, <1>5 DEF SendFin, MaySendFin, FinIn
  <2>2. QED
    BY <2>1, ClosedGotFin
<1>11. SendInv(e)'
  <2>1. a + 1 = w + 2
    BY <1>4, <1>8
  <2>2. \A c \in Elements(app_recv_queue[e])' : WrittenBy(e, c.from, c.len)'
    BY <1>5, <1>6 DEF Elements
  <2>3. QED
    BY <1>2, <1>5, <1>6, <1>7, <2>1, <2>2 DEF SendInv
<1>12. GenuineSegment(e, p)'
  BY <1>7, <1>9 DEF GenuineSegment, WrittenBy
<1>13. \A c \in Elements(app_send_queue[e])' : c \in Elements(app_send_queue[e])
  BY <1>5 DEF Elements
<1> HIDE DEF a, w
<1>14. QED
  BY <1>2, <1>3, <1>5, <1>7, <1>9, <1>10, <1>11, <1>12, <1>13, SendingStep

(* Data and FINs are acknowledged and passed up. *)
LEMMA AnswerStep ==
    ASSUME ConnectionInv, TypeInv', NEW e \in Endpoint, RecvFin(e) \/ RecvData(e)
    PROVE  ConnectionInv'
<1> USE DEF TypeInv
<1>0. PICK r : r = Received(e)
  OBVIOUS
<1>1. /\ TypeInv /\ TypeOK /\ TypeOK'
      /\ PhaseInv(e) /\ SendInv(e) /\ ReceiveInv(e)
  BY DEF ConnectionInv
<1>2. ~Handshaking(e) /\ TransportAlive(e) /\ ~Handshaking(e)' /\ PhaseInv(e)'
  BY <1>1, PhaseStep
<1>3. Own(Peer(e))
  BY <1>1, OtherOwn, PeerFacts DEF Transport
<1>4. /\ NetworkRecv(e) /\ pc[e] = "net"
      /\ next_seqnum' = next_seqnum /\ app_recv_queue' = app_recv_queue
      /\ bytes_written' = bytes_written /\ app' = app /\ close_requested' = close_requested
      /\ eof' = eof /\ event' = event
  BY DEF RecvFin, RecvData, HandlesPacket, application
<1>5. /\ network_recv_queue'[Peer(e)] = network_recv_queue[Peer(e)]
      /\ Elements(network_recv_queue'[e]) \subseteq Elements(network_recv_queue[e])
      /\ r \in Packet /\ r \in Pending(e)
  BY <1>0, <1>1, <1>4, PendingRecv
<1>6. GenuineSegment(Peer(e), r)
  BY <1>1, <1>5 DEF ReceiveInv
<1>7. /\ RecvBase[e] \in Nat /\ next_seqnum[e] \in Nat
      /\ r.th_seq \in Nat /\ r.pos \in Nat /\ r.len \in Nat
  BY <1>1, <1>5 DEF TypeOK, Packet
<1>8. \E p \in Packet : NetworkSend(e, p) /\ p.flags = "ACK" /\ p.len = 0
  <2>1. CASE RecvFin(e)
    <3>1. PICK p : p = [flags |-> "ACK", th_seq |-> TcpSeq(RecvBase[e] + 1),
                        th_ack |-> TcpSeq(r.th_seq + 1), len |-> 0, pos |-> next_seqnum[e]]
      OBVIOUS
    <3>2. TcpSeq(RecvBase[e] + 1) \in Nat /\ TcpSeq(r.th_seq + 1) \in Nat
      BY <1>7, TcpSeqType
    <3>3. p \in Packet /\ p.flags = "ACK" /\ p.len = 0
      BY <1>7, <3>1, <3>2 DEF Packet
    <3>4. NetworkSend(e, p)
      BY <1>0, <2>1, <3>1 DEF RecvFin
    <3>5. QED
      BY <3>3, <3>4
  <2>2. CASE RecvData(e)
    <3>1. PICK p : p = [flags |-> "ACK", th_seq |-> TcpSeq(RecvBase[e] + r.len),
                        th_ack |-> AckNumber(r), len |-> 0, pos |-> next_seqnum[e]]
      OBVIOUS
    <3>2. TcpSeq(RecvBase[e] + r.len) \in Nat /\ AckNumber(r) \in Nat
      BY <1>7, TcpSeqType DEF AckNumber
    <3>3. p \in Packet /\ p.flags = "ACK" /\ p.len = 0
      BY <1>7, <3>1, <3>2 DEF Packet
    <3>4. NetworkSend(e, p)
      BY <1>0, <2>2, <3>1 DEF RecvData
    <3>5. QED
      BY <3>3, <3>4
  <2>3. QED
    BY <2>1, <2>2
<1>9. PICK p \in Packet : NetworkSend(e, p) /\ p.flags = "ACK" /\ p.len = 0
  BY <1>8
<1>10. GenuineSegment(e, p)'
  BY <1>9 DEF GenuineSegment, WrittenBy
<1>11. RecvFin(e) => FinOut(Peer(e)) /\ connection_state'[e] = StateAfterFin(e)
  BY <1>0, <1>1, <1>6 DEF RecvFin, GenuineSegment, TypeOK
<1>12. /\ FinOut(e)' <=> FinOut(e)
       /\ FinIn(e)' => FinOut(Peer(e))
  <2>1. CASE RecvFin(e)
    <3>1. connection_state[e] \in OpenStates(e) /\ connection_state[e] # "CLOSED"
      BY <1>1, <1>2, <1>4 DEF PhaseInv
    <3>2. connection_state[e] \notin {"FIN_WAIT_1", "LAST_ACK"}
      BY <2>1 DEF RecvFin, HandlesPacket, AwaitsFinAck
    <3>3. CASE e = "server"
      BY <1>2, <1>11, <2>1, <3>1, <3>2, <3>3 DEF FinOut, StateAfterFin, OpenStates
    <3>4. CASE e = "client"
      <4>1. Peer(e) = "server" /\ FinOut("server")
        BY <1>11, <2>1, <3>4 DEF Peer
      <4>2. FinIn("server")
        <5>1. PhaseInv("server") /\ connection_state["server"] \in {"FIN_WAIT_1", "FIN_WAIT_2", "LAST_ACK", "CLOSED"}
              /\ ~Handshaking("server")
          BY <4>1 DEF ConnectionInv, FinOut, Endpoint
        <5>2. QED
          BY <5>1 DEF PhaseInv, FinIn, OpenStates, HandshakeStates
      <4>3. FinOut(e)
        <5>1. "server" \in Endpoint /\ Peer("server") = e
          BY <3>4 DEF Peer, Endpoint
        <5>2. QED
          BY <4>2, <5>1, ClosedGotFin
      <4>4. FinOut(e)'
        BY <1>2, <1>11, <2>1, <3>4 DEF FinOut, StateAfterFin
      <4>5. QED
        BY <1>11, <2>1, <4>3, <4>4
    <3>5. QED
      BY <1>11, <2>1, <3>3, <3>4, PeerFacts
  <2>2. CASE RecvData(e)
    <3>1. connection_state' = connection_state
      BY <2>2 DEF RecvData
    <3>2. (FinOut(e)' <=> FinOut(e)) /\ (FinIn(e)' <=> FinIn(e))
      BY <1>2, <3>1 DEF FinOut, FinIn
    <3>3. QED
      BY <3>2, ClosedGotFin
  <2>3. QED
    BY <2>1, <2>2
<1>13. SendInv(e)'
  BY <1>1, <1>2, <1>4, <1>12, SendKeeps DEF SendInv
<1>14. \A c \in Elements(app_send_queue[e])' :
          c \in Elements(app_send_queue[e]) \/ GenuineChunk(Peer(e), c)
  <2>1. app_send_queue[e] \in Seq(Chunk)
    BY <1>1 DEF TypeOK
  <2>2. ASSUME NEW x \in Chunk, app_send_queue'[e] = Append(app_send_queue[e], x),
               GenuineChunk(Peer(e), x)
        PROVE  \A c \in Elements(app_send_queue[e])' :
                  c \in Elements(app_send_queue[e]) \/ GenuineChunk(Peer(e), c)
    <3>1. Elements(app_send_queue[e])' = Elements(Append(app_send_queue[e], x))
      BY <2>2 DEF Elements
    <3>2. Elements(Append(app_send_queue[e], x)) = Elements(app_send_queue[e]) \cup {x}
      BY <2>1, ElementsOf
    <3>3. QED
      BY <2>2, <3>1, <3>2
  <2>3. CASE RecvFin(e)
    <3>1. PICK x : x = [from |-> r.pos, len |-> 0]
      OBVIOUS
    <3>2. x \in Chunk /\ x.len = 0
      BY <1>7, <3>1 DEF Chunk
    <3>3. app_send_queue'[e] = Append(app_send_queue[e], x)
      BY <1>0, <1>1, <2>3, <3>1 DEF RecvFin, Enqueued, EofNode, TypeOK
    <3>4. GenuineChunk(Peer(e), x)
      BY <1>11, <2>3, <3>2 DEF GenuineChunk, WrittenBy
    <3>5. QED
      BY <2>2, <3>2, <3>3, <3>4
  <2>4. CASE RecvData(e) /\ r.len > 0
    <3>1. PICK x : x = [from |-> r.pos, len |-> r.len]
      OBVIOUS
    <3>2. x \in Chunk /\ x.len = r.len /\ x.from = r.pos
      BY <1>7, <3>1 DEF Chunk
    <3>3. app_send_queue'[e] = Append(app_send_queue[e], x)
      <4>1. r.len # 0
        BY <1>7, <2>4
      <4>2. PassedUp(e, r) = Append(app_send_queue[e], x)
        BY <3>1, <4>1 DEF PassedUp, Enqueued
      <4>3. QED
        BY <1>0, <1>1, <2>4, <4>2 DEF RecvData, TypeOK
    <3>4. GenuineChunk(Peer(e), x)
      BY <1>6, <2>4, <3>2 DEF GenuineChunk, GenuineSegment
    <3>5. QED
      BY <2>2, <3>2, <3>3, <3>4
  <2>5. CASE RecvData(e) /\ r.len = 0
    <3>1. app_send_queue'[e] = app_send_queue[e]
      BY <1>0, <1>1, <2>5 DEF RecvData, PassedUp, TypeOK
    <3>2. QED
      BY <3>1 DEF Elements
  <2>6. QED
    BY <1>7, <2>3, <2>4, <2>5
<1>15. QED
  BY <1>2, <1>3, <1>4, <1>5, <1>9, <1>10, <1>12, <1>13, <1>14, SendingStep

-----------------------------------------------------------------------------
(* The handshake, the receive thread and the socket calls *)

(* The first state of an established connection *)
LEMMA Established ==
    ASSUME TypeOK, NEW e \in Endpoint, SendInv(e), pc[e] = "handshake", Establish(e),
           event' = event, app_recv_queue' = app_recv_queue, bytes_written' = bytes_written,
           close_requested' = close_requested, app' = app, app[e] # "closed"
    PROVE  /\ ~Handshaking(e)' /\ ~FinOut(e)' /\ ~FinIn(e)'
           /\ PhaseInv(e)' /\ SendInv(e)'
<1>1. /\ connection_state'[e] = "ESTABLISHED" /\ pc'[e] = "wait" /\ next_seqnum'[e] = 1
  BY DEF Establish, TypeOK, initial_sequence_num
<1>2. ~Handshaking(e)' /\ ~FinOut(e)' /\ ~FinIn(e)'
  BY <1>1 DEF Handshaking, FinOut, FinIn
<1>3. PhaseInv(e)'
  BY <1>1 DEF PhaseInv, OpenStates, HandshakeStates
<1>4. app_recv_queue[e] = << >> /\ bytes_written[e] = 0 /\ (close_requested[e] => app[e] # "open")
  BY DEF SendInv, Handshaking
<1>5. Stream(<< >>, 1) /\ EndsAt(<< >>, 1, 1) /\ Elements(<< >>) = {}
  BY DEF Stream, EndsAt, Elements
<1>6. SendInv(e)'
  <2>1. Elements(app_recv_queue[e])' = {}
    BY <1>4 DEF Elements
  <2>2. QED
    BY <1>1, <1>2, <1>4, <1>5, <2>1 DEF SendInv
<1>7. QED
  BY <1>2, <1>3, <1>6

(* The handshake *)
LEMMA HandshakeSteps ==
    ASSUME ConnectionInv, TypeInv', NEW e \in Endpoint,
           TransportInit(e) \/ SynSent(e) \/ Listen(e) \/ SynRcvd(e)
    PROVE  ConnectionInv'
<1> USE DEF TypeInv
<1>1. /\ TypeInv /\ TypeOK /\ TypeOK'
      /\ PhaseInv(e) /\ SendInv(e) /\ ReceiveInv(e)
      /\ Fresh => Handshaking("client") /\ Pending("client") = {}
  BY DEF ConnectionInv
<1>2. Own(Peer(e))
  BY <1>1, OtherOwn, PeerFacts DEF Transport
<1>3. /\ pc[e] \in {"start", "handshake"}
      /\ app_recv_queue' = app_recv_queue /\ app_send_queue' = app_send_queue
      /\ bytes_written' = bytes_written /\ app' = app /\ close_requested' = close_requested
      /\ eof' = eof /\ event' = event
  BY DEF TransportInit, SynSent, Listen, SynRcvd, queues, application, thread
<1>4. app[e] # "closed"
  BY <1>1, <1>3 DEF PhaseInv
<1>5. ~FinOut(e) /\ ~FinIn(e)
  BY <1>3 DEF FinOut, FinIn, Handshaking
<1>6. /\ \A c \in Elements(app_send_queue[e])' : c \in Elements(app_send_queue[e])
      /\ Elements(app_recv_queue[e])' = Elements(app_recv_queue[e])
  BY <1>3 DEF Elements
<1>7. bytes_written[e] <= bytes_written'[e]
  <2>1. bytes_written[e] \in Nat
    BY <1>1 DEF TypeOK
  <2>2. QED
    BY <1>3, <2>1
<1>8. ASSUME pc'[e] = "handshake", connection_state'[e] \in HandshakeStates(e)
      PROVE  ~FinIn(e)' /\ PhaseInv(e)' /\ SendInv(e)'
  <2>1. Handshaking(e)' /\ ~FinIn(e)' /\ ~FinOut(e)'
    BY <1>8 DEF Handshaking, FinIn, FinOut
  <2>2. PhaseInv(e)'
    BY <1>3, <1>4, <1>8, <2>1 DEF PhaseInv, HandshakeStates
  <2>3. app_recv_queue[e] = << >> /\ bytes_written[e] = 0 /\ (close_requested[e] => app[e] # "open")
    BY <1>1, <1>3 DEF SendInv, Handshaking
  <2>4. Elements(app_recv_queue[e])' = {}
    BY <1>3, <2>3 DEF Elements
  <2>5. SendInv(e)'
    BY <1>3, <1>8, <2>1, <2>3, <2>4 DEF SendInv
  <2>6. QED
    BY <2>1, <2>2, <2>5
<1>9. CASE TransportInit(e)
  <2>1. /\ pc'[e] = "handshake" /\ connection_state'[e] \in HandshakeStates(e)
        /\ network_recv_queue' = network_recv_queue
        /\ pc[e] = "start"
    BY <1>1, <1>9, SMTT(30) DEF TransportInit, HandshakeStates, queues, TypeOK
  <2>2. ~FinIn(e)' /\ PhaseInv(e)' /\ SendInv(e)'
    BY <1>8, <2>1
  <2>3. /\ Pending(e)' \subseteq Pending(e)
        /\ \A p \in Pending(Peer(e))' : p \in Pending(Peer(e)) \/ GenuineSegment(e, p)'
        /\ e = "server" => Pending("client")' \subseteq Pending("client")
    <3>1. CASE e = "client"
      <4>1. PICK p : p = [flags |-> "SYN", th_seq |-> initial_sequence_num,
                          th_ack |-> 0, len |-> 0, pos |-> initial_sequence_num]
        OBVIOUS
      <4>2. p \in Packet /\ p.flags = "SYN" /\ p.len = 0
        BY <4>1 DEF Packet, initial_sequence_num
      <4>3. NetworkSend(e, p)
        BY <1>9, <3>1, <4>1 DEF TransportInit
      <4>4. /\ Pending(Peer(e))' \subseteq Pending(Peer(e)) \cup {p}
            /\ Pending(e)' \subseteq Pending(e)
        BY <1>1, <2>1, <4>2, <4>3, PendingSend
      <4>5. GenuineSegment(e, p)'
        BY <4>2 DEF GenuineSegment, WrittenBy
      <4>6. QED
        BY <3>1, <4>4, <4>5
    <3>2. CASE e = "server"
      <4>1. wire' = wire /\ copied' = copied
        BY <1>9, <3>2 DEF TransportInit, network
      <4>2. Pending(Peer(e))' \subseteq Pending(Peer(e)) /\ Pending(e)' \subseteq Pending(e)
        BY <2>1, <4>1, PendingQuiet
      <4>3. QED
        BY <3>2, <4>2 DEF Peer
    <3>3. QED
      BY <3>1, <3>2, PeerFacts
  <2>4. Fresh' => Handshaking("client")' /\ Pending("client")' = {}
    <3>1. CASE e = "client"
      <4>1. "server" \in Endpoint /\ Own("server") /\ (Fresh' <=> Fresh)
        <5>1. "server" \in Endpoint /\ Own("server")
          BY <1>2, <3>1 DEF Peer, Endpoint
        <5>2. QED
          BY <5>1, OwnFrame
      <4>2. QED
        BY <1>1, <2>1, <2>3, <3>1, <4>1 DEF Handshaking
    <3>2. CASE e = "server"
      <4>1. Fresh
        BY <2>1, <3>2 DEF Fresh
      <4>2. "client" \in Endpoint /\ Own("client")
        BY <1>2, <3>2 DEF Peer, Endpoint
      <4>3. QED
        BY <1>1, <2>3, <3>2, <4>1, <4>2, OwnFrame
    <3>3. QED
      BY <3>1, <3>2, PeerFacts
  <2>5. QED
    BY <1>2, <1>3, <1>5, <1>6, <1>7, <2>2, <2>3, <2>4, ConnectionKeep
<1>10. CASE SynSent(e) \/ Listen(e) \/ SynRcvd(e)
  <2>0. PICK r : r = Received(e)
    OBVIOUS
  <2>1. NetworkRecv(e) /\ pc[e] = "handshake"
    BY <1>10 DEF SynSent, Listen, SynRcvd
  <2>2. /\ network_recv_queue'[Peer(e)] = network_recv_queue[Peer(e)]
        /\ Elements(network_recv_queue'[e]) \subseteq Elements(network_recv_queue[e])
        /\ r \in Packet /\ r \in Pending(e)
    BY <1>1, <2>0, <2>1, PendingRecv
  <2>3. e = "client" => ~Fresh /\ ~Fresh'
    <3>1. ASSUME e = "client" PROVE ~Fresh /\ ~Fresh'
      <4>1. ~Fresh
        BY <1>1, <2>2, <3>1
      <4>2. "server" \in Endpoint /\ Own("server")
        BY <1>2, <3>1 DEF Peer, Endpoint
      <4>3. QED
        BY <4>1, <4>2, OwnFrame
    <3>2. QED
      BY <3>1
  <2>4. /\ SynSent(e) => e = "client"
        /\ Listen(e) \/ SynRcvd(e) => e = "server"
        /\ Listen(e) => Fresh
    <3>1. connection_state[e] \in HandshakeStates(e)
      BY <1>1, <2>1 DEF PhaseInv
    <3>2. QED
      BY <3>1, PeerFacts DEF SynSent, Listen, SynRcvd, HandshakeStates, Fresh
  <2>5. SynSent(e) \/ Listen(e) => r.flags # "FIN"
    <3>1. ASSUME SynSent(e) \/ Listen(e), r.flags = "FIN" PROVE FALSE
      <4>1. FinOut(Peer(e))
        BY <1>1, <2>2, <3>1 DEF ReceiveInv, GenuineSegment
      <4>2. CASE Listen(e)
        <5>1. Peer(e) = "client" /\ Handshaking("client")
          BY <1>1, <2>4, <4>2 DEF Peer
        <5>2. QED
          BY <4>1, <5>1 DEF FinOut
      <4>3. CASE SynSent(e)
        <5>1. e = "client" /\ Peer(e) = "server" /\ "server" \in Endpoint /\ Peer("server") = e
          BY <2>4, <4>3 DEF Peer, Endpoint
        <5>2. FinIn("server")
          <6>1. PhaseInv("server") /\ FinOut("server")
            BY <4>1, <5>1 DEF ConnectionInv
          <6>2. QED
            BY <6>1 DEF PhaseInv, FinIn, FinOut, OpenStates, HandshakeStates
        <5>3. FinOut(e)
          BY <5>1, <5>2, ClosedGotFin
        <5>4. QED
          BY <1>5, <5>3
      <4>4. QED
        BY <3>1, <4>2, <4>3
    <3>2. QED
      BY <3>1
  <2>6. /\ Pending(e)' \subseteq Pending(e)
        /\ \A p \in Pending(Peer(e))' : p \in Pending(Peer(e)) \/ GenuineSegment(e, p)'
    <3>1. CASE SynRcvd(e)
      <4>1. wire' = wire /\ copied' = copied
        BY <3>1 DEF SynRcvd, network
      <4>2. QED
        BY <2>2, <4>1, PendingQuiet
    <3>2. ASSUME NEW p \in Packet, NetworkSend(e, p), p.flags # "FIN", p.len = 0
          PROVE  /\ Pending(e)' \subseteq Pending(e)
                 /\ \A x \in Pending(Peer(e))' : x \in Pending(Peer(e)) \/ GenuineSegment(e, x)'
      <4>1. /\ Pending(Peer(e))' \subseteq Pending(Peer(e)) \cup {p}
            /\ Pending(e)' \subseteq Pending(e)
        BY <1>1, <2>2, <3>2, PendingSend
      <4>2. GenuineSegment(e, p)'
        BY <3>2 DEF GenuineSegment, WrittenBy
      <4>3. QED
        BY <4>1, <4>2
    <3>3. /\ r.flags \in {"SYN", "ACK", "FIN", "DATA"} /\ r.th_ack \in Nat
          /\ TcpSeq(r.th_seq + 1) \in Nat /\ initial_sequence_num \in Nat
      BY <2>2, TcpSeqType DEF Packet, initial_sequence_num
    <3>4. CASE SynSent(e)
      <4>1. PICK p : p = [flags |-> r.flags, th_seq |-> r.th_ack,
                          th_ack |-> TcpSeq(r.th_seq + 1), len |-> 0,
                          pos |-> initial_sequence_num]
        OBVIOUS
      <4>2. p \in Packet /\ p.flags # "FIN" /\ p.len = 0
        BY <2>5, <3>3, <3>4, <4>1 DEF Packet
      <4>3. NetworkSend(e, p)
        BY <2>0, <3>4, <4>1 DEF SynSent
      <4>4. QED
        BY <3>2, <4>2, <4>3
    <3>5. CASE Listen(e)
      <4>1. PICK p : p = [flags |-> r.flags, th_seq |-> initial_sequence_num,
                          th_ack |-> TcpSeq(r.th_seq + 1), len |-> 0,
                          pos |-> initial_sequence_num]
        OBVIOUS
      <4>2. p \in Packet /\ p.flags # "FIN" /\ p.len = 0
        BY <2>5, <3>3, <3>5, <4>1 DEF Packet
      <4>3. NetworkSend(e, p)
        BY <2>0, <3>5, <4>1 DEF Listen
      <4>4. QED
        BY <3>2, <4>2, <4>3
    <3>6. QED
      BY <1>10, <3>1, <3>4, <3>5
  <2>7. ~FinIn(e)' /\ PhaseInv(e)' /\ SendInv(e)' /\ (e = "server" => ~Fresh')
    <3>1. CASE Listen(e)
      <4>1. pc'[e] = "handshake" /\ connection_state'[e] = "SYN_RCVD" /\ e = "server"
        BY <1>1, <2>1, <2>4, <3>1 DEF Listen, thread, TypeOK
      <4>2. connection_state'[e] \in HandshakeStates(e)
        BY <4>1 DEF HandshakeStates
      <4>3. QED
        BY <1>8, <4>1, <4>2 DEF Fresh
    <3>2. CASE SynSent(e) \/ SynRcvd(e)
      <4>1. Establish(e)
        BY <3>2 DEF SynSent, SynRcvd
      <4>2. ~Handshaking(e)' /\ ~FinOut(e)' /\ ~FinIn(e)' /\ PhaseInv(e)' /\ SendInv(e)'
        BY <1>1, <1>3, <1>4, <2>1, <4>1, Established
      <4>3. QED
        BY <4>2 DEF Fresh, Handshaking
    <3>3. QED
      BY <1>10, <3>1, <3>2
  <2>8. ~Fresh'
    BY <2>3, <2>7, PeerFacts
  <2>9. QED
    BY <1>2, <1>3, <1>5, <1>6, <1>7, <2>6, <2>7, <2>8, ConnectionKeep
<1>11. QED
  BY <1>9, <1>10

(* The receive thread moves a segment from the wire to the queue. *)
LEMMA RecvPacketStep ==
    ASSUME ConnectionInv, TypeInv', NEW e \in Endpoint, RecvPacket(e)
    PROVE  ConnectionInv'
<1> USE DEF TypeInv
<1> DEFINE f == Peer(e)
<1>1. /\ TypeInv /\ TypeOK /\ TypeOK'
      /\ PhaseInv(e) /\ SendInv(e) /\ ReceiveInv(e)
      /\ Fresh => Handshaking("client") /\ Pending("client") = {}
  BY DEF ConnectionInv
<1>2. Own(f)
  BY <1>1, OtherOwn, PeerFacts
<1>3. f \in Endpoint /\ f # e /\ Peer(f) = e
  BY PeerFacts
<1>4. /\ wire[e] \in Seq(Packet) /\ wire[e] # << >> /\ network_recv_queue[e] \in Seq(Packet)
      /\ wire'[e] = Tail(wire[e]) /\ wire'[f] = wire[f]
      /\ network_recv_queue'[e] = Append(network_recv_queue[e], Head(wire[e]))
      /\ network_recv_queue'[f] = network_recv_queue[f]
      /\ pc' = pc /\ event' = event /\ connection_state' = connection_state
      /\ next_seqnum' = next_seqnum /\ copied' = copied
      /\ app_recv_queue' = app_recv_queue /\ app_send_queue' = app_send_queue
      /\ bytes_written' = bytes_written /\ app' = app /\ close_requested' = close_requested
      /\ eof' = eof
  BY <1>1, <1>3 DEF RecvPacket, Enqueued, TypeOK, context, thread, application
<1> HIDE DEF f
<1>5. Head(wire[e]) \in Packet
  BY <1>4
<1>6. /\ Elements(network_recv_queue[e])' \subseteq Elements(network_recv_queue[e]) \cup Elements(wire[e])
      /\ Elements(wire[e])' \subseteq Elements(wire[e])
  <2>1. Elements(network_recv_queue[e])' = Elements(Append(network_recv_queue[e], Head(wire[e])))
    BY <1>4 DEF Elements
  <2>2. Elements(wire[e])' = Elements(Tail(wire[e]))
    BY <1>4 DEF Elements
  <2>3. QED
    BY <1>4, <1>5, <2>1, <2>2, ElementsOf
<1>7. Pending(e)' \subseteq Pending(e)
  BY <1>4, <1>6 DEF Pending
<1>8. Pending(f)' = Pending(f)
  BY <1>4 DEF Pending, Elements
<1>9. /\ Handshaking(e)' <=> Handshaking(e)
      /\ TransportAlive(e)' <=> TransportAlive(e)
      /\ Fresh' <=> Fresh
      /\ Handshaking("client")' <=> Handshaking("client")
  BY <1>4 DEF Handshaking, TransportAlive, Fresh
<1>10. (FinOut(e)' <=> FinOut(e)) /\ (FinIn(e)' <=> FinIn(e))
  BY <1>4, <1>9 DEF FinOut, FinIn
<1>11. PhaseInv(e)'
  BY <1>1, <1>4, <1>9 DEF PhaseInv, OpenStates, HandshakeStates
<1>12. SendInv(e)'
  BY <1>1, <1>4, <1>9, <1>10 DEF SendInv, Elements, WrittenBy
<1>13. Pending("client")' \subseteq Pending("client")
  <2>1. "client" \in Endpoint /\ ("client" = e \/ "client" = f)
    BY PeerFacts DEF Endpoint, f
  <2>2. QED
    BY <1>7, <1>8, <2>1
<1>14. FinIn(e)' => FinOut(f)
  BY <1>10, ClosedGotFin DEF f
<1>15. \A c \in Elements(app_send_queue[e])' : c \in Elements(app_send_queue[e])
  BY <1>4 DEF Elements
<1>16. bytes_written[e] <= bytes_written'[e]
  <2>1. bytes_written[e] \in Nat
    BY <1>1 DEF TypeOK
  <2>2. QED
    BY <1>4, <2>1
<1>17. Fresh' => Handshaking("client")' /\ Pending("client")' = {}
  BY <1>1, <1>9, <1>13
<1>18. QED
  BY <1>2, <1>4, <1>7, <1>8, <1>10, <1>11, <1>12, <1>14, <1>15, <1>16, <1>17, ConnectionKeep DEF f

(* The socket calls *)
LEMMA CallSteps ==
    ASSUME ConnectionInv, TypeInv', NEW e \in Endpoint, Application(e)
    PROVE  ConnectionInv'
<1> USE DEF TypeInv
<1>1. /\ TypeInv /\ TypeOK /\ TypeOK'
      /\ PhaseInv(e) /\ SendInv(e) /\ ReceiveInv(e)
  BY DEF ConnectionInv
<1>2. Own(Peer(e))
  BY <1>1, OtherOwn, PeerFacts
<1>3. ~Handshaking(e) /\ TransportAlive(e)
  BY DEF Application, mywrite, myread, myclose, mycloseReturn, Running, Handshaking, Alive, TransportAlive
<1>4. /\ pc' = pc /\ event' = event /\ connection_state' = connection_state
      /\ next_seqnum' = next_seqnum /\ wire' = wire /\ copied' = copied
  BY DEF Application, mywrite, myread, myclose, mycloseReturn, context, thread, network
<1>5. /\ ~Handshaking(e)' /\ (FinOut(e)' <=> FinOut(e)) /\ (FinIn(e)' <=> FinIn(e))
      /\ (TransportAlive(e)' <=> TransportAlive(e))
  BY <1>3, <1>4 DEF Handshaking, FinOut, FinIn, TransportAlive
<1>6. ~Fresh'
  BY <1>2, <1>3, <1>5, NotFresh
<1>7. /\ network_recv_queue'[Peer(e)] = network_recv_queue[Peer(e)]
      /\ Elements(network_recv_queue'[e]) \subseteq Elements(network_recv_queue[e])
  <2>1. network_recv_queue'[Peer(e)] = network_recv_queue[Peer(e)]
    BY <1>2 DEF Own
  <2>2. CASE mycloseReturn(e)
    <3>1. network_recv_queue'[e] = << >>
      BY <1>1, <2>2 DEF mycloseReturn, FreedQueue, TypeOK
    <3>2. QED
      BY <2>1, <3>1 DEF Elements
  <2>3. CASE ~mycloseReturn(e)
    <3>1. network_recv_queue' = network_recv_queue
      BY <2>3 DEF Application, mywrite, myread, myclose, queues
    <3>2. QED
      BY <3>1 DEF Elements
  <2>4. QED
    BY <2>2, <2>3
<1>8. Pending(Peer(e))' \subseteq Pending(Peer(e)) /\ Pending(e)' \subseteq Pending(e)
  BY <1>4, <1>7, PendingQuiet
<1>9. PhaseInv(e)'
  <2>1. app'[e] = "closed" => pc[e] = "exited"
    <3>1. CASE mycloseReturn(e)
      BY <3>1 DEF mycloseReturn
    <3>2. CASE ~mycloseReturn(e)
      <4>1. CASE myclose(e)
        <5>1. app' = [app EXCEPT ![e] = "closing"] /\ app \in [Endpoint -> {"open", "closing", "closed"}]
          BY <1>1, <4>1 DEF myclose, TypeOK
        <5>2. QED
          BY <5>1
      <4>2. CASE ~myclose(e)
        <5>1. app' = app /\ app[e] = "open"
          BY <3>2, <4>2 DEF Application, mywrite, myread, Running
        <5>2. QED
          BY <5>1
      <4>3. QED
        BY <4>1, <4>2
    <3>3. QED
      BY <3>1, <3>2
  <2>2. QED
    BY <1>1, <1>3, <1>4, <1>5, <2>1 DEF PhaseInv, OpenStates, HandshakeStates
<1>10. ASSUME SendInv(e)', bytes_written[e] <= bytes_written'[e],
              \A c \in Elements(app_send_queue[e])' :
                  c \in Elements(app_send_queue[e]) \/ GenuineChunk(Peer(e), c),
              eof'[e] => eof[e] \/ FinOut(Peer(e))
       PROVE  ConnectionInv'
  <2>1. FinIn(e)' => FinOut(Peer(e))
    BY <1>5, ClosedGotFin
  <2>2. QED
    BY <1>2, <1>5, <1>6, <1>8, <1>9, <1>10, <2>1, ConnectionKeep
<1>11. bytes_written[e] \in Nat
  BY <1>1 DEF TypeOK
<1>12. ASSUME NEW n \in WriteSizes, mywrite(e, n) PROVE ConnectionInv'
  <2> DEFINE q == app_recv_queue[e]
             a == next_seqnum[e]
             w == bytes_written[e]
  <2>0. PICK x : x = [from |-> w + 1, len |-> n]
    OBVIOUS
  <2>1. n \in Nat \ {0} /\ q \in Seq(Chunk) /\ a \in Nat /\ w \in Nat
    BY <1>1, ConstantsAssumption DEF TypeOK
  <2>2. x \in Chunk /\ x.from = 1 + w /\ x.len = n /\ x.len > 0 /\ 1 + w \in Nat
    BY <2>0, <2>1 DEF Chunk
  <2>3. app[e] = "open" /\ ~FinOut(e)
    BY <1>1, <1>12 DEF mywrite, Running, SendInv
  <2>4. /\ app_recv_queue'[e] = Append(q, x) /\ bytes_written'[e] = w + n
        /\ app' = app /\ close_requested' = close_requested
        /\ app_send_queue' = app_send_queue /\ eof' = eof
    BY <1>1, <1>12, <2>0 DEF mywrite, Enqueued, TypeOK
  <2> HIDE DEF q, a, w
  <2>5. Stream(q, a) /\ EndsAt(q, a, 1 + w)
    BY <1>1, <1>3, <2>3 DEF SendInv, q, a, w
  <2>6. Stream(Append(q, x), a) /\ EndsAt(Append(q, x), a, 1 + w + x.len)
    BY <2>1, <2>2, <2>5, StreamAppend
  <2>7. 1 + w + x.len = 1 + (w + n)
    BY <2>1, <2>2
  <2>8. /\ ~close_requested[e]
        /\ ~(pc[e] \in {"app", "net", "close"} /\ "APP_CLOSE_REQUESTED" \in event[e])
    BY <1>1, <2>3 DEF SendInv
  <2>9. \A c \in Elements(app_recv_queue[e])' : WrittenBy(e, c.from, c.len)'
    <3>1. Elements(app_recv_queue[e])' = Elements(Append(q, x))
      BY <2>4 DEF Elements
    <3>2. Elements(Append(q, x)) = Elements(q) \cup {x}
      BY <2>1, <2>2, ElementsOf
    <3>3. ASSUME NEW c \in Elements(q) PROVE WrittenBy(e, c.from, c.len)'
      <4>1. c \in Chunk
        BY <2>1 DEF Elements
      <4>2. c.from \in Nat /\ c.len \in Nat
        BY <4>1 DEF Chunk
      <4>3. WrittenBy(e, c.from, c.len)
        BY <1>1 DEF SendInv, q
      <4>4. QED
        BY <2>1, <2>4, <4>2, <4>3 DEF WrittenBy, w
    <3>4. WrittenBy(e, x.from, x.len)'
      BY <2>1, <2>2, <2>4 DEF WrittenBy
    <3>5. QED
      BY <3>1, <3>2, <3>3, <3>4
  <2>10. SendInv(e)'
    BY <1>4, <1>5, <2>3, <2>4, <2>6, <2>7, <2>8, <2>9 DEF SendInv, a
  <2>11. bytes_written[e] <= bytes_written'[e]
    BY <2>1, <2>4 DEF w
  <2>12. \A c \in Elements(app_send_queue[e])' : c \in Elements(app_send_queue[e])
    BY <2>4 DEF Elements
  <2>13. QED
    BY <1>10, <2>4, <2>10, <2>11, <2>12
<1>13. ASSUME bytes_written' = bytes_written, app_recv_queue'[e] = app_recv_queue[e],
              app[e] # "open" => app'[e] # "open",
              close_requested'[e] => app'[e] # "open"
       PROVE  SendInv(e)' /\ bytes_written[e] <= bytes_written'[e]
  <2>1. pc'[e] \in {"app", "net", "close"} /\ "APP_CLOSE_REQUESTED" \in event'[e]
           => app[e] # "open" /\ app_recv_queue[e] = << >>
    BY <1>1, <1>4 DEF SendInv
  <2>2. SendInv(e)'
    BY <1>1, <1>3, <1>4, <1>5, <1>13, <2>1, SendKeeps
  <2>3. QED
    BY <1>11, <1>13, <2>2
<1>14. ASSUME NEW n \in ReadSizes, myread(e, n) PROVE ConnectionInv'
  <2> DEFINE q == app_send_queue[e]
  <2>1. n \in Nat \ {0} /\ q \in Seq(Chunk) /\ q # << >>
    BY <1>1, <1>14, ConstantsAssumption DEF TypeOK, myread
  <2>2. /\ Head(q) \in Chunk /\ Head(q) \in Elements(q)
        /\ Head(q).from \in Nat /\ Head(q).len \in Nat
    <3>1. Head(q) \in Chunk /\ Head(q) \in Elements(q)
      BY <2>1, ElementsOf
    <3>2. QED
      BY <3>1 DEF Chunk
  <2>3. /\ app_send_queue'[e] = BufferAfter(q, n)
        /\ eof'[e] <=> MIN(n, Head(q).len) = 0
        /\ bytes_written' = bytes_written /\ app_recv_queue' = app_recv_queue
        /\ app' = app /\ close_requested' = close_requested
    <3>1. /\ app_send_queue' = [app_send_queue EXCEPT ![e] = BufferAfter(@, n)]
          /\ eof' = [eof EXCEPT ![e] = (MIN(n, Head(q).len) = 0)]
          /\ bytes_written' = bytes_written /\ app_recv_queue' = app_recv_queue
          /\ app' = app /\ close_requested' = close_requested
      BY <1>14 DEF myread
    <3>2. app_send_queue'[e] = BufferAfter(q, n)
      BY <1>1, <3>1 DEF TypeOK
    <3>3. eof'[e] = (MIN(n, Head(q).len) = 0)
      BY <1>1, <3>1, ZenonT(30) DEF TypeOK
    <3>4. QED
      BY <3>1, <3>2, <3>3
  <2>4. GenuineChunk(Peer(e), Head(q))
    BY <1>1, <2>2 DEF ReceiveInv
  <2>5. eof'[e] => FinOut(Peer(e))
    <3>1. MIN(n, Head(q).len) = 0 => Head(q).len = 0
      BY <2>1, <2>2 DEF MIN
    <3>2. QED
      BY <2>3, <2>4, <3>1 DEF GenuineChunk
  <2>6. \A c \in Elements(app_send_queue[e])' :
           c \in Elements(app_send_queue[e]) \/ GenuineChunk(Peer(e), c)
    <3>1. Elements(app_send_queue[e])' = Elements(BufferAfter(q, n))
      BY <2>3 DEF Elements
    <3>2. ASSUME NEW c, Head(q).len > n,
                 c = [from |-> Head(q).from + n, len |-> Head(q).len - n]
          PROVE  GenuineChunk(Peer(e), c)
      <4>1. bytes_written[Peer(e)] \in Nat
        BY <1>1, PeerFacts DEF TypeOK
      <4>2. /\ Head(q).from >= 1
            /\ Head(q).from + Head(q).len <= 1 + bytes_written[Peer(e)]
        BY <2>1, <2>2, <2>4, <3>2 DEF GenuineChunk, WrittenBy
      <4>3. c.from = Head(q).from + n /\ c.len = Head(q).len - n
        BY <3>2
      <4>4. QED
        BY <2>1, <2>2, <3>2, <4>1, <4>2, <4>3, SMTT(30) DEF GenuineChunk, WrittenBy
    <3>3. QED
      BY <2>1, <3>1, <3>2, BufferElements
  <2>7. SendInv(e)' /\ bytes_written[e] <= bytes_written'[e]
    <3>1. close_requested[e] => app[e] # "open"
      BY <1>1 DEF SendInv
    <3>2. QED
      BY <1>13, <2>3, <3>1
  <2>8. QED
    BY <1>10, <2>5, <2>6, <2>7
<1>15. CASE myclose(e)
  <2>1. /\ bytes_written' = bytes_written /\ app_recv_queue' = app_recv_queue
        /\ app_send_queue' = app_send_queue /\ eof' = eof /\ app'[e] = "closing"
    BY <1>1, <1>15 DEF myclose, queues, TypeOK
  <2>2. SendInv(e)' /\ bytes_written[e] <= bytes_written'[e]
    BY <1>13, <2>1
  <2>3. \A c \in Elements(app_send_queue[e])' : c \in Elements(app_send_queue[e])
    BY <2>1 DEF Elements
  <2>4. QED
    BY <1>10, <2>1, <2>2, <2>3
<1>16. CASE mycloseReturn(e)
  <2>1. /\ bytes_written' = bytes_written /\ app_recv_queue'[e] = << >>
        /\ app_send_queue'[e] = << >> /\ eof' = eof /\ app'[e] = "closed"
        /\ pc[e] = "exited"
    BY <1>1, <1>16 DEF mycloseReturn, FreedQueue, TypeOK
  <2>2. FinOut(e)
    BY <1>1, <1>3, <2>1 DEF PhaseInv, FinOut
  <2>3. app_recv_queue[e] = << >>
    BY <1>1, <2>2 DEF SendInv
  <2>4. SendInv(e)' /\ bytes_written[e] <= bytes_written'[e]
    BY <1>13, <2>1, <2>3
  <2>5. \A c \in Elements(app_send_queue[e])' : c \in Elements(app_send_queue[e])
    BY <2>1 DEF Elements
  <2>6. QED
    BY <1>10, <2>1, <2>4, <2>5
<1>17. QED
  BY <1>12, <1>14, <1>15, <1>16 DEF Application

-----------------------------------------------------------------------------
(* The invariant holds, over any network. *)
LEMMA ConnectionInit == Init => ConnectionInv
<1> SUFFICES ASSUME Init PROVE ConnectionInv
  OBVIOUS
<1>1. TypeInv
  BY DEF Init, TypeInv, TypeOK, AppPhase, CSTATE, EventBits
<1>2. ASSUME NEW e \in Endpoint PROVE PhaseInv(e) /\ SendInv(e) /\ ReceiveInv(e) /\ Pending(e) = {}
  <2>1. Peer(e) \in Endpoint
    BY PeerFacts
  <2>2. /\ pc[e] = "start" /\ app[e] = "open" /\ ~close_requested[e] /\ ~eof[e]
        /\ app_recv_queue[e] = << >> /\ app_send_queue[e] = << >> /\ bytes_written[e] = 0
        /\ network_recv_queue[e] = << >> /\ wire[e] = << >> /\ copied[Peer(e)] = NoPacket
    BY <2>1 DEF Init
  <2>3. Elements(<< >>) = {}
    BY DEF Elements
  <2>4. Pending(e) = {}
    BY <2>2, <2>3 DEF Pending
  <2>5. Handshaking(e) /\ ~FinIn(e) /\ ~FinOut(e)
    BY <2>2 DEF Handshaking, FinIn, FinOut
  <2>6. QED
    BY <2>2, <2>3, <2>4, <2>5 DEF PhaseInv, SendInv, ReceiveInv
<1>3. Handshaking("client") /\ "client" \in Endpoint
  BY DEF Init, Handshaking, Endpoint
<1>4. QED
  BY <1>1, <1>2, <1>3 DEF ConnectionInv

LEMMA ConnectionStep == ConnectionInv /\ [Next]_vars => ConnectionInv'
<1> SUFFICES ASSUME ConnectionInv, [Next]_vars PROVE ConnectionInv'
  OBVIOUS
<1>1. TypeInv'
  BY TypeStep DEF ConnectionInv
<1>2. ASSUME NEW e \in Endpoint, Transport(e) \/ RecvPacket(e) \/ Application(e)
      PROVE  ConnectionInv'
  <2>1. CASE Transport(e)
    BY <1>1, <2>1, HandshakeSteps, LocalSteps, SendDataStep, ReceiveSteps, AnswerStep,
       SendFinStep DEF Transport
  <2>2. CASE RecvPacket(e)
    BY <1>1, <2>2, RecvPacketStep
  <2>3. CASE Application(e)
    BY <1>1, <2>3, CallSteps
  <2>4. QED
    BY <1>2, <2>1, <2>2, <2>3
<1>3. CASE UNCHANGED observed
  <2>1. ASSUME NEW e \in Endpoint
        PROVE  /\ PhaseInv(e)' <=> PhaseInv(e)
               /\ SendInv(e)' <=> SendInv(e)
               /\ ReceiveInv(e)' <=> ReceiveInv(e)
    <3> USE <1>3 DEF observed, context, thread, queues, network
    <3>1. /\ Handshaking(e)' <=> Handshaking(e)
          /\ TransportAlive(e)' <=> TransportAlive(e)
          /\ FinOut(e)' <=> FinOut(e)
          /\ FinIn(e)' <=> FinIn(e)
          /\ FinOut(Peer(e))' <=> FinOut(Peer(e))
      BY DEF Handshaking, TransportAlive, FinOut, FinIn
    <3>2. PhaseInv(e)' <=> PhaseInv(e)
      BY <3>1 DEF PhaseInv, OpenStates, HandshakeStates
    <3>3. SendInv(e)' <=> SendInv(e)
      BY <3>1 DEF SendInv, Elements, WrittenBy
    <3>4. Pending(e)' = Pending(e) /\ Elements(app_send_queue[e])' = Elements(app_send_queue[e])
      BY DEF Pending, Elements
    <3>5. ReceiveInv(e)' <=> ReceiveInv(e)
      BY <3>1, <3>4 DEF ReceiveInv, GenuineSegment, GenuineChunk, WrittenBy
    <3>6. QED
      BY <3>2, <3>3, <3>5
  <2>2. Fresh' = Fresh /\ Handshaking("client")' = Handshaking("client")
    BY <1>3 DEF observed, context, thread, Fresh, Handshaking
  <2>3. Pending("client")' = Pending("client")
    BY <1>3 DEF observed, queues, network, Pending, Elements
  <2>4. QED
    BY <1>1, <2>1, <2>2, <2>3 DEF ConnectionInv
<1>4. QED
  BY <1>2, <1>3, StepCases

LEMMA ConnectionInvariance == Spec => []ConnectionInv
BY ConnectionInit, ConnectionStep, PTL DEF Spec

(* Whether or not the sockets are reliable: an application is given only   *)
(* bytes that the other one wrote, and sees end of file only if the other  *)
(* one closed.  What _network_send drops, repeats, holds back or replaces  *)
(* is a segment of this connection's sender, and control_loop() passes     *)
(* nothing else up.                                                        *)
THEOREM GenuineCorrect == Spec => []GenuineBytes
<1>1. ConnectionInv => GenuineBytes
  <2> SUFFICES ASSUME ConnectionInv, NEW e \in Endpoint
               PROVE  /\ \A i \in DOMAIN app_send_queue[e] :
                            LET c == app_send_queue[e][i] IN
                            c.len > 0 => c.from >= 1 /\ c.from + c.len - 1 <= bytes_written[Peer(e)]
                      /\ eof[e] => app[Peer(e)] # "open"
    BY DEF GenuineBytes
  <2>1. /\ Peer(e) \in Endpoint /\ ReceiveInv(e) /\ SendInv(Peer(e)) /\ TypeOK
    BY PeerFacts DEF ConnectionInv, TypeInv
  <2>2. app_send_queue[e] \in Seq(Chunk) /\ bytes_written[Peer(e)] \in Nat
    BY <2>1 DEF TypeOK
  <2>3. ASSUME NEW i \in DOMAIN app_send_queue[e]
        PROVE  LET c == app_send_queue[e][i] IN
               c.len > 0 => c.from >= 1 /\ c.from + c.len - 1 <= bytes_written[Peer(e)]
    <3>1. i \in 1 .. Len(app_send_queue[e])
      BY <2>2
    <3>2. PICK c : c = app_send_queue[e][i]
      OBVIOUS
    <3>3. c \in Elements(app_send_queue[e]) /\ c.len \in Nat /\ c.from \in Nat
      BY <2>2, <3>1, <3>2, ChunkType DEF Elements
    <3>4. GenuineChunk(Peer(e), c)
      BY <2>1, <3>3 DEF ReceiveInv
    <3>5. c.len > 0 => c.from >= 1 /\ c.from + c.len - 1 <= bytes_written[Peer(e)]
      BY <2>2, <3>3, <3>4 DEF GenuineChunk, WrittenBy
    <3>6. QED
      BY <3>2, <3>5
  <2>4. eof[e] => app[Peer(e)] # "open"
    BY <2>1 DEF ReceiveInv, SendInv
  <2>5. QED
    BY <2>3, <2>4
<1>2. QED
  BY <1>1, ConnectionInvariance, PTL

(* A transport thread returns only when every byte of its application and  *)
(* the FIN behind them were handed to the network: the close request waits *)
(* for the queue to be empty, and the application that made it writes no   *)
(* more.                                                                   *)
THEOREM ExitCorrect == Spec => []AllSentAtExit
<1>1. ConnectionInv => AllSentAtExit
  <2> SUFFICES ASSUME ConnectionInv, NEW e \in Endpoint, pc[e] \in {"done", "exited"}
               PROVE  next_seqnum[e] = 1 + bytes_written[e] + 1
    BY DEF AllSentAtExit
  <2>1. PhaseInv(e) /\ SendInv(e) /\ TypeOK
    BY DEF ConnectionInv, TypeInv
  <2>2. FinOut(e)
    BY <2>1 DEF PhaseInv, FinOut, Handshaking
  <2>3. next_seqnum[e] = bytes_written[e] + 2
    BY <2>1, <2>2 DEF SendInv
  <2>4. bytes_written[e] \in Nat
    BY <2>1 DEF TypeOK
  <2>5. QED
    BY <2>3, <2>4
<1>2. QED
  BY <1>1, ConnectionInvariance, PTL

-----------------------------------------------------------------------------
(***************************************************************************)
(* The client's stream: over a reliable link the server reads what the     *)
(* client wrote, in order, and all of it before end of file.               *)
(*                                                                         *)
(* The invariant follows the client's bytes from its application to the    *)
(* server's: the chunks it has yet to send, the segments on the wire, the  *)
(* ones the server has not handled, and the chunks the server has yet to   *)
(* read form one unbroken interval of positions.                           *)
(***************************************************************************)

(* The sequence numbers a segment takes up *)
Size(p) == IF p.flags = "FIN" THEN 1 ELSE p.len

(* The segments of s follow each other from position a to position b. *)
Chain(s, a, b) ==
    /\ a <= b
    /\ IF s = << >> THEN a = b
                    ELSE s[1].pos = a /\ s[Len(s)].pos + Size(s[Len(s)]) = b
    /\ \A i \in 1 .. Len(s) - 1 : s[i + 1].pos = s[i].pos + Size(s[i])
    /\ \A i \in 1 .. Len(s) : s[i].pos + Size(s[i]) <= b

-----------------------------------------------------------------------------
(* The phases of the connection *)

(* The server has taken the SYN of the client, but not the segment after it. *)
Waiting == pc["server"] = "handshake" /\ connection_state["server"] = "SYN_RCVD"

(* Established, and no FIN handled or sent *)
Open(e) == ~Handshaking(e) /\ connection_state[e] = "ESTABLISHED"

(* The client has sent its FIN. *)
FinSent == ~Handshaking("client") /\ connection_state["client"] # "ESTABLISHED"

(* The server has handled it. *)
FinHandled == ~Handshaking("server") /\ connection_state["server"] # "ESTABLISHED"

(* The segments on their way to e, on the wire or in its queue *)
InFlight(e) == Elements(network_recv_queue[e]) \cup Elements(wire[e])

(* The segment the server takes for the ACK of its handshake takes up no   *)
(* sequence number.                                                        *)
FirstEmpty ==
    IF network_recv_queue["server"] # << >> THEN Size(network_recv_queue["server"][1]) = 0
    ELSE wire["server"] # << >> /\ Size(wire["server"][1]) = 0

(* While the client connects, at most one SYN is under way. *)
HandshakeInv ==
    /\ Handshaking("server") => Fresh \/ Waiting
    /\ pc["client"] = "start" =>
          /\ Fresh
          /\ \A e \in Endpoint : network_recv_queue[e] = << >> /\ wire[e] = << >>
    /\ pc["client"] = "handshake" =>
          /\ connection_state["client"] = "SYN_SENT"
          /\ \/ /\ Fresh
                /\ Len(network_recv_queue["server"]) + Len(wire["server"]) = 1
                /\ network_recv_queue["client"] = << >> /\ wire["client"] = << >>
             \/ /\ Waiting
                /\ network_recv_queue["server"] = << >> /\ wire["server"] = << >>
          /\ \A e \in Endpoint : \A p \in InFlight(e) : p.flags = "SYN" /\ p.len = 0
    /\ ~Handshaking("client") => ~Fresh /\ (Waiting => FirstEmpty)

StateInv(e) ==
    /\ ~Handshaking(e) => connection_state[e] \in OpenStates(e)
    /\ pc[e] \in {"done", "exited"} => connection_state[e] = "CLOSED"
    /\ pc[e] = "close" => "APP_CLOSE_REQUESTED" \in event[e]
    /\ app[e] = "closed" => pc[e] = "exited"

(* The client's application and what it has yet to send *)
ClientInv ==
    LET q == app_recv_queue["client"]
        a == next_seqnum["client"]
        written == bytes_written["client"]
    IN
    /\ close_requested["client"] => app["client"] # "open"
    /\ pc["client"] \in {"app", "net", "close"} /\ "APP_CLOSE_REQUESTED" \in event["client"]
          => app["client"] # "open" /\ q = << >>
    /\ Handshaking("client") => q = << >> /\ written = 0
    /\ Open("client") => Stream(q, a) /\ EndsAt(q, a, 1 + written)
    /\ FinSent => q = << >> /\ app["client"] # "open" /\ a = written + 2

(* Where the stream stands at both ends *)
Sent == IF Handshaking("client") THEN 1 ELSE next_seqnum["client"]

Got == IF Handshaking("server") THEN 1 ELSE RecvBase["server"]

ToServerOK(p) ==
    /\ p.flags # "DATA" => p.len = 0
    /\ p.flags = "FIN" => FinSent /\ p.pos + 1 = Sent

(* Only data and FINs take up sequence numbers; a FIN is the last thing    *)
(* the client sends, and the server sends its own only after it got that.  *)
SegmentInv ==
    /\ \A p \in InFlight("server") : ToServerOK(p)
    /\ \A p \in InFlight("client") : p.flags = "FIN" => FinHandled
    /\ FinHandled => FinSent /\ Got = Sent

(* The segments in the server's queue and on the wire continue the stream  *)
(* from what the server got to what the client sent.                       *)
FlowInv ==
    app["server"] # "closed" =>
        \E m \in 0 .. Sent : /\ Chain(network_recv_queue["server"], Got, m)
                             /\ Chain(wire["server"], m, Sent)

(* What the server's application has yet to read *)
ServerInv ==
    LET q == app_send_queue["server"]
        a == 1 + bytes_read["server"]
    IN
    /\ Handshaking("server") => q = << >> /\ bytes_read["server"] = 0
    /\ ~FinHandled => ~eof["server"]
    /\ ~eof["server"] => Stream(q, a)
    /\ Open("server") => EndsAt(q, a, RecvBase["server"])
    /\ FinHandled /\ ~eof["server"] /\ app["server"] # "closed" =>
          /\ FirstEofAt(q, RecvBase["server"] - 1)
          /\ q # << >> /\ q[Len(q)].len = 0
    /\ eof["server"] => /\ \A i \in 1 .. Len(q) : q[i].len = 0
                        /\ bytes_read["server"] = bytes_written["client"]

StreamInv ==
    /\ TypeInv
    /\ HandshakeInv
    /\ \A e \in Endpoint : StateInv(e)
    /\ ClientInv
    /\ SegmentInv
    /\ FlowInv
    /\ ServerInv

-----------------------------------------------------------------------------
(* Lemmas about chains of segments and streams of chunks *)

(* The positions, lengths and sizes of segments are numbers. *)
LEMMA SizeType == \A p \in Packet : Size(p) \in Nat /\ p.pos \in Nat /\ p.len \in Nat
BY DEF Packet, Size

(* A segment that starts where a chain ends makes it longer. *)
LEMMA ChainAppend ==
    ASSUME NEW s \in Seq(Packet), NEW x \in Packet, NEW a \in Nat, NEW b \in Nat,
           Chain(s, a, b), x.pos = b
    PROVE  Chain(Append(s, x), a, b + Size(x))
<1> DEFINE t == Append(s, x)
<1>1. /\ t \in Seq(Packet) /\ Len(t) = Len(s) + 1 /\ t # << >>
      /\ \A i \in 1 .. Len(s) : t[i] = s[i]
      /\ t[Len(s) + 1] = x
  BY AppendLast
<1>2. Size(x) \in Nat /\ Len(s) \in Nat /\ \A i \in 1 .. Len(s) : s[i] \in Packet
  BY SizeType
<1>3. \A i \in 1 .. Len(s) : s[i].pos \in Nat /\ Size(s[i]) \in Nat
  BY <1>2, SizeType
<1> HIDE DEF t
<1>4. t[1].pos = a
  <2>1. CASE s = << >>
    BY <1>1, <2>1 DEF Chain
  <2>2. CASE s # << >>
    <3>1. Len(s) >= 1
      BY <2>2
    <3>2. QED
      BY <1>1, <2>2, <3>1 DEF Chain
  <2>3. QED
    BY <2>1, <2>2
<1>5. t[Len(t)].pos + Size(t[Len(t)]) = b + Size(x)
  BY <1>1
<1>6. ASSUME NEW i \in 1 .. Len(t) - 1 PROVE t[i + 1].pos = t[i].pos + Size(t[i])
  <2>1. CASE i = Len(s)
    BY <1>1, <1>2, <2>1 DEF Chain
  <2>2. CASE i # Len(s)
    <3>1. i \in 1 .. Len(s) - 1 /\ i + 1 \in 1 .. Len(s)
      BY <1>1, <1>2, <2>2
    <3>2. QED
      BY <1>1, <3>1 DEF Chain
  <2>3. QED
    BY <2>1, <2>2
<1>7. ASSUME NEW i \in 1 .. Len(t) PROVE t[i].pos + Size(t[i]) <= b + Size(x)
  <2>1. CASE i = Len(s) + 1
    BY <1>1, <1>2, <2>1
  <2>2. CASE i # Len(s) + 1
    <3>1. i \in 1 .. Len(s)
      BY <1>1, <1>2, <2>2
    <3>2. t[i] = s[i] /\ s[i].pos + Size(s[i]) <= b
      BY <1>1, <3>1 DEF Chain
    <3>3. QED
      BY <1>2, <1>3, <3>1, <3>2
  <2>3. QED
    BY <2>1, <2>2
<1>8. a <= b + Size(x)
  BY <1>2 DEF Chain
<1>9. QED
  <2>1. Chain(t, a, b + Size(x))
    BY <1>1, <1>4, <1>5, <1>6, <1>7, <1>8 DEF Chain
  <2>2. QED
    BY <2>1 DEF t

(* A chain without its first segment starts where that one ended. *)
LEMMA ChainTail ==
    ASSUME NEW s \in Seq(Packet), s # << >>, NEW a \in Nat, NEW b \in Nat, Chain(s, a, b)
    PROVE  /\ Head(s) = s[1] /\ s[1] \in Packet /\ s[1].pos = a
           /\ a + Size(s[1]) \in Nat /\ a + Size(s[1]) <= b
           /\ Chain(Tail(s), a + Size(s[1]), b)
<1> DEFINE t == Tail(s)
           c == a + Size(s[1])
<1>1. /\ t \in Seq(Packet) /\ Len(s) \in Nat \ {0} /\ Len(t) = Len(s) - 1
      /\ \A i \in 1 .. Len(s) - 1 : t[i] = s[i + 1]
      /\ Head(s) = s[1] /\ s[1] \in Packet
      /\ t = << >> <=> Len(s) = 1
  BY TailRest
<1> HIDE DEF t
<1>2. s[1].pos = a /\ c \in Nat /\ c <= b
  <2>1. s[1].pos = a /\ s[1].pos + Size(s[1]) <= b /\ Size(s[1]) \in Nat
    BY <1>1, SizeType DEF Chain
  <2>2. QED
    BY <2>1
<1>3. t = << >> => c = b
  BY <1>1, <1>2 DEF Chain
<1>4. ASSUME t # << >> PROVE t[1].pos = c /\ t[Len(t)].pos + Size(t[Len(t)]) = b
  <2>1. /\ 1 \in 1 .. Len(s) - 1 /\ Len(t) \in 1 .. Len(s) - 1
        /\ t[1] = s[2] /\ t[Len(t)] = s[Len(s)]
    BY <1>1, <1>4
  <2>2. s[2].pos = s[1].pos + Size(s[1]) /\ s[Len(s)].pos + Size(s[Len(s)]) = b
    BY <2>1 DEF Chain
  <2>3. QED
    BY <1>2, <2>1, <2>2
<1>5. ASSUME NEW i \in 1 .. Len(t) - 1 PROVE t[i + 1].pos = t[i].pos + Size(t[i])
  <2>1. i \in 1 .. Len(s) - 1 /\ i + 1 \in 1 .. Len(s) - 1
    BY <1>1
  <2>2. t[i] = s[i + 1] /\ t[i + 1] = s[i + 1 + 1]
    BY <1>1, <2>1
  <2>3. QED
    BY <2>1, <2>2 DEF Chain
<1>6. ASSUME NEW i \in 1 .. Len(t) PROVE t[i].pos + Size(t[i]) <= b
  <2>1. i \in 1 .. Len(s) - 1 /\ i + 1 \in 1 .. Len(s)
    BY <1>1
  <2>2. QED
    BY <1>1, <2>1 DEF Chain
<1>7. Chain(t, c, b)
  BY <1>2, <1>3, <1>4, <1>5, <1>6 DEF Chain
<1>8. QED
  BY <1>1, <1>2, <1>7 DEF t

(* One more end of file *)
LEMMA EofAppend ==
    ASSUME NEW q \in Seq(Chunk), NEW x \in Chunk, NEW a \in Nat, NEW b \in Nat,
           q # << >>, q[Len(q)].len = 0, x.len = 0, Stream(q, a), FirstEofAt(q, b)
    PROVE  Stream(Append(q, x), a) /\ FirstEofAt(Append(q, x), b)
<1> DEFINE t == Append(q, x)
<1>1. /\ t \in Seq(Chunk) /\ Len(t) = Len(q) + 1 /\ t # << >>
      /\ \A i \in 1 .. Len(q) : t[i] = q[i]
      /\ t[Len(q) + 1] = x
  BY AppendLast
<1>2. Len(q) \in Nat /\ Len(q) >= 1
  OBVIOUS
<1> HIDE DEF t
<1>3. t[1].from = a
  BY <1>1, <1>2 DEF Stream
<1>4. ASSUME NEW i \in 1 .. Len(t) - 1, t[i].len > 0 PROVE t[i + 1].from = t[i].from + t[i].len
  <2>1. i # Len(q)
    BY <1>1, <1>2, <1>4
  <2>2. i \in 1 .. Len(q) - 1 /\ i \in 1 .. Len(q) /\ i + 1 \in 1 .. Len(q)
    BY <1>1, <1>2, <2>1
  <2>3. QED
    BY <1>1, <1>4, <2>2 DEF Stream
<1>5. ASSUME NEW i \in 1 .. Len(t), NEW j \in 1 .. Len(t), i < j, t[i].len = 0
      PROVE  t[j].len = 0
  <2>1. CASE j = Len(q) + 1
    BY <1>1, <2>1
  <2>2. CASE j # Len(q) + 1
    <3>1. i \in 1 .. Len(q) /\ j \in 1 .. Len(q)
      BY <1>1, <1>2, <1>5, <2>2
    <3>2. QED
      BY <1>1, <1>5, <3>1 DEF Stream
  <2>3. QED
    BY <2>1, <2>2
<1>6. ASSUME NEW i \in 1 .. Len(t), t[i].len = 0, i > 1 => t[i - 1].len > 0 PROVE t[i].from = b
  <2>1. i # Len(q) + 1
    BY <1>1, <1>2, <1>6
  <2>2. i \in 1 .. Len(q) /\ (i > 1 => i - 1 \in 1 .. Len(q))
    BY <1>1, <1>2, <2>1
  <2>3. QED
    BY <1>1, <1>6, <2>2 DEF FirstEofAt
<1>7. Stream(t, a) /\ FirstEofAt(t, b)
  BY <1>1, <1>3, <1>4, <1>5, <1>6 DEF Stream, FirstEofAt
<1>8. QED
  BY <1>7 DEF t

-----------------------------------------------------------------------------
(* Steps that leave a part of the invariant alone *)

SameServer ==
    /\ pc'["server"] = pc["server"]
    /\ connection_state'["server"] = connection_state["server"]
    /\ event'["server"] = event["server"]
    /\ RecvBase'["server"] = RecvBase["server"]
    /\ app_send_queue'["server"] = app_send_queue["server"]
    /\ eof'["server"] = eof["server"]
    /\ bytes_read'["server"] = bytes_read["server"]
    /\ app'["server"] = app["server"]

SameClient ==
    /\ pc'["client"] = pc["client"]
    /\ connection_state'["client"] = connection_state["client"]
    /\ event'["client"] = event["client"]
    /\ next_seqnum'["client"] = next_seqnum["client"]
    /\ app_recv_queue'["client"] = app_recv_queue["client"]
    /\ close_requested'["client"] = close_requested["client"]
    /\ bytes_written'["client"] = bytes_written["client"]
    /\ app'["client"] = app["client"]

(* The server's part of the invariant depends only on its own state, and   *)
(* after end of file on what the client has written.                       *)
LEMMA ServerFrame ==
    ASSUME SameServer
    PROVE  /\ Fresh' <=> Fresh
           /\ Waiting' <=> Waiting
           /\ Handshaking("server")' <=> Handshaking("server")
           /\ FinHandled' <=> FinHandled
           /\ Got' = Got
           /\ StateInv("server") => StateInv("server")'
           /\ ServerInv /\ (eof["server"] => bytes_written'["client"] = bytes_written["client"])
                 => ServerInv'
<1>1. /\ Fresh' <=> Fresh
      /\ Waiting' <=> Waiting
      /\ Handshaking("server")' <=> Handshaking("server")
  BY DEF SameServer, Fresh, Waiting, Handshaking
<1>2. /\ FinHandled' <=> FinHandled
      /\ Open("server")' <=> Open("server")
      /\ Got' = Got
  BY <1>1 DEF SameServer, FinHandled, Open, Got
<1>3. StateInv("server") => StateInv("server")'
  BY <1>1 DEF SameServer, StateInv, OpenStates
<1>4. ServerInv /\ (eof["server"] => bytes_written'["client"] = bytes_written["client"])
          => ServerInv'
  BY <1>1, <1>2 DEF SameServer, ServerInv
<1>5. QED
  BY <1>1, <1>2, <1>3, <1>4

(* The client's part depends only on its own state. *)
LEMMA ClientFrame ==
    ASSUME SameClient
    PROVE  /\ Handshaking("client")' <=> Handshaking("client")
           /\ FinSent' <=> FinSent
           /\ Sent' = Sent
           /\ StateInv("client") => StateInv("client")'
           /\ ClientInv => ClientInv'
<1>1. Handshaking("client")' <=> Handshaking("client")
  BY DEF SameClient, Handshaking
<1>2. /\ FinSent' <=> FinSent
      /\ Open("client")' <=> Open("client")
      /\ Sent' = Sent
  BY <1>1 DEF SameClient, FinSent, Open, Sent
<1>3. StateInv("client") => StateInv("client")'
  BY <1>1 DEF SameClient, StateInv, OpenStates
<1>4. ClientInv => ClientInv'
  BY <1>1, <1>2 DEF SameClient, ClientInv
<1>5. QED
  BY <1>1, <1>2, <1>3, <1>4

(* The positions at both ends are numbers. *)
LEMMA PositionType == TypeOK => Got \in Nat /\ Sent \in Nat
BY DEF TypeOK, Got, Sent, Endpoint

(* A step that moves no segment of the stream keeps the flow. *)
LEMMA FlowSame ==
    ASSUME FlowInv, Got' = Got, Sent' = Sent,
           wire'["server"] = wire["server"],
           app'["server"] # "closed" =>
               /\ app["server"] # "closed"
               /\ network_recv_queue'["server"] = network_recv_queue["server"]
    PROVE  FlowInv'
BY DEF FlowInv

(* The client sends the next segment of its stream. *)
LEMMA FlowSend ==
    ASSUME TypeOK, FlowInv, NEW p \in Packet, p.pos = Sent,
           Sent' = Sent + Size(p), Got' = Got,
           app'["server"] = app["server"],
           network_recv_queue'["server"] = network_recv_queue["server"],
           wire'["server"] = Append(wire["server"], p)
    PROVE  FlowInv'
<1> SUFFICES ASSUME app["server"] # "closed"
             PROVE  \E m \in 0 .. Sent + Size(p) :
                        /\ Chain(network_recv_queue["server"], Got, m)
                        /\ Chain(Append(wire["server"], p), m, Sent + Size(p))
  BY DEF FlowInv
<1>1. PICK m \in 0 .. Sent : /\ Chain(network_recv_queue["server"], Got, m)
                             /\ Chain(wire["server"], m, Sent)
  BY DEF FlowInv
<1>2. wire["server"] \in Seq(Packet) /\ Sent \in Nat /\ Size(p) \in Nat
  BY PositionType, SizeType DEF TypeOK, Endpoint
<1>3. m \in Nat /\ m \in 0 .. Sent + Size(p)
  BY <1>2
<1>4. Chain(Append(wire["server"], p), m, Sent + Size(p))
  BY <1>1, <1>2, <1>3, ChainAppend
<1>5. QED
  BY <1>1, <1>3, <1>4

(* The segment the server handles next is where its stream stands. *)
LEMMA FlowHead ==
    ASSUME TypeOK, FlowInv, app["server"] # "closed", network_recv_queue["server"] # << >>
    PROVE  /\ Received("server") \in Packet
           /\ Received("server").pos = Got
           /\ Got + Size(Received("server")) <= Sent
<1>1. PICK m \in 0 .. Sent : /\ Chain(network_recv_queue["server"], Got, m)
                             /\ Chain(wire["server"], m, Sent)
  BY DEF FlowInv
<1>2. network_recv_queue["server"] \in Seq(Packet) /\ Got \in Nat /\ Sent \in Nat
  BY PositionType DEF TypeOK, Endpoint
<1>3. m \in Nat /\ m <= Sent
  BY <1>2
<1>4. LET s == network_recv_queue["server"] IN
      /\ Head(s) = s[1] /\ s[1] \in Packet /\ s[1].pos = Got
      /\ Got + Size(s[1]) \in Nat /\ Got + Size(s[1]) <= m
  BY <1>1, <1>2, <1>3, ChainTail
<1>5. QED
  BY <1>2, <1>3, <1>4 DEF Received

(* The server handles it. *)
LEMMA FlowRecv ==
    ASSUME TypeOK, FlowInv, app["server"] # "closed", network_recv_queue["server"] # << >>,
           network_recv_queue'["server"] = Tail(network_recv_queue["server"]),
           wire'["server"] = wire["server"],
           Sent' = Sent, Got' = Got + Size(Received("server"))
    PROVE  FlowInv'
<1>1. PICK m \in 0 .. Sent : /\ Chain(network_recv_queue["server"], Got, m)
                             /\ Chain(wire["server"], m, Sent)
  BY DEF FlowInv
<1>2. network_recv_queue["server"] \in Seq(Packet) /\ Got \in Nat /\ Sent \in Nat
  BY PositionType DEF TypeOK, Endpoint
<1>3. m \in Nat
  BY <1>2
<1>4. LET s == network_recv_queue["server"] IN
      Head(s) = s[1] /\ Chain(Tail(s), Got + Size(s[1]), m)
  BY <1>1, <1>2, <1>3, ChainTail
<1>5. Chain(network_recv_queue'["server"], Got', m) /\ Chain(wire'["server"], m, Sent')
  BY <1>1, <1>4 DEF Received
<1>6. m \in 0 .. Sent'
  BY <1>1
<1>7. QED
  BY <1>5, <1>6 DEF FlowInv

(* The receive thread of the server moves a segment. *)
LEMMA FlowMove ==
    ASSUME TypeOK, FlowInv, wire["server"] # << >>,
           network_recv_queue'["server"] =
               Append(network_recv_queue["server"], Head(wire["server"])),
           wire'["server"] = Tail(wire["server"]),
           Sent' = Sent, Got' = Got, app'["server"] = app["server"]
    PROVE  FlowInv'
<1> SUFFICES ASSUME app["server"] # "closed"
             PROVE  \E m \in 0 .. Sent : /\ Chain(network_recv_queue'["server"], Got, m)
                                         /\ Chain(wire'["server"], m, Sent)
  BY DEF FlowInv
<1>1. PICK m \in 0 .. Sent : /\ Chain(network_recv_queue["server"], Got, m)
                             /\ Chain(wire["server"], m, Sent)
  BY DEF FlowInv
<1>2. /\ network_recv_queue["server"] \in Seq(Packet) /\ wire["server"] \in Seq(Packet)
      /\ Got \in Nat /\ Sent \in Nat
  BY PositionType DEF TypeOK, Endpoint
<1>3. m \in Nat
  BY <1>2
<1> DEFINE x == wire["server"][1]
<1>4. /\ Head(wire["server"]) = x /\ x \in Packet /\ x.pos = m
      /\ m + Size(x) \in Nat /\ m + Size(x) <= Sent
      /\ Chain(Tail(wire["server"]), m + Size(x), Sent)
  BY <1>1, <1>2, <1>3, ChainTail
<1>5. Chain(Append(network_recv_queue["server"], x), Got, m + Size(x))
  BY <1>1, <1>2, <1>3, <1>4, ChainAppend
<1>6. m + Size(x) \in 0 .. Sent
  BY <1>2, <1>4
<1>7. QED
  BY <1>4, <1>5, <1>6

(* A step keeps SegmentInv if it adds no segment. *)
LEMMA SegmentQuiet ==
    ASSUME SegmentInv,
           FinSent => FinSent' /\ Sent' = Sent,
           FinHandled => FinHandled',
           FinHandled' => FinSent' /\ Got' = Sent',
           InFlight("server")' \subseteq InFlight("server"),
           InFlight("client")' \subseteq InFlight("client")
    PROVE  SegmentInv'
<1>1. \A p \in InFlight("server") : ToServerOK(p)'
  BY DEF SegmentInv, ToServerOK
<1>2. \A p \in InFlight("client") : p.flags = "FIN" => FinHandled'
  BY DEF SegmentInv
<1>3. QED
  BY <1>1, <1>2 DEF SegmentInv

(* A step in which the client sends x keeps it if x is fitting. *)
LEMMA SegmentToServer ==
    ASSUME SegmentInv, NEW x,
           FinSent => FinSent' /\ Sent' = Sent,
           FinHandled => FinHandled',
           FinHandled' => FinSent' /\ Got' = Sent',
           InFlight("server")' \subseteq InFlight("server") \cup {x},
           ToServerOK(x)',
           InFlight("client")' \subseteq InFlight("client")
    PROVE  SegmentInv'
<1>1. \A p \in InFlight("server") : ToServerOK(p)'
  BY DEF SegmentInv, ToServerOK
<1>2. \A p \in InFlight("client") : p.flags = "FIN" => FinHandled'
  BY DEF SegmentInv
<1>3. \A p \in InFlight("server")' : ToServerOK(p)'
  BY <1>1
<1>4. QED
  BY <1>2, <1>3 DEF SegmentInv

(* So does one in which the server does. *)
LEMMA SegmentToClient ==
    ASSUME SegmentInv, NEW x,
           FinSent => FinSent' /\ Sent' = Sent,
           FinHandled => FinHandled',
           FinHandled' => FinSent' /\ Got' = Sent',
           InFlight("server")' \subseteq InFlight("server"),
           InFlight("client")' \subseteq InFlight("client") \cup {x},
           x.flags = "FIN" => FinHandled'
    PROVE  SegmentInv'
<1>1. \A p \in InFlight("server") : ToServerOK(p)'
  BY DEF SegmentInv, ToServerOK
<1>2. \A p \in InFlight("client") : p.flags = "FIN" => FinHandled'
  BY DEF SegmentInv
<1>3. QED
  BY <1>1, <1>2 DEF SegmentInv

(* A segment sent over the reliable link *)
LEMMA ReliableSend ==
    ASSUME Unreliable = {}, TypeOK, NEW e \in Endpoint, NEW p \in Packet, NetworkSend(e, p)
    PROVE  /\ wire'[Peer(e)] = Append(wire[Peer(e)], p)
           /\ wire'[e] = wire[e]
           /\ Elements(wire[Peer(e)])' = Elements(wire[Peer(e)]) \cup {p}
           /\ Elements(wire[e])' = Elements(wire[e])
<1>1. Peer(e) \in Endpoint /\ Peer(e) # e
  BY DEF Peer, Endpoint
<1>2. wire \in [Endpoint -> Seq(Packet)] /\ wire[Peer(e)] \in Seq(Packet)
  BY <1>1 DEF TypeOK
<1>3. wire' = [wire EXCEPT ![Peer(e)] = @ \o <<p>>]
  BY DEF NetworkSend, SendPackets
<1>4. wire'[Peer(e)] = wire[Peer(e)] \o <<p>> /\ wire'[e] = wire[e]
  BY <1>1, <1>2, <1>3
<1>5. wire[Peer(e)] \o <<p>> = Append(wire[Peer(e)], p)
  BY <1>2, AppendLast
<1>6. Elements(Append(wire[Peer(e)], p)) = Elements(wire[Peer(e)]) \cup {p}
  BY <1>2, ElementsOf
<1>7. QED
  BY <1>4, <1>5, <1>6 DEF Elements

(* A segment taken from the queue *)
LEMMA QueueTail ==
    ASSUME TypeOK, NEW e \in Endpoint, NetworkRecv(e)
    PROVE  /\ network_recv_queue[e] # << >>
           /\ network_recv_queue'[e] = Tail(network_recv_queue[e])
           /\ \A f \in Endpoint : f # e => network_recv_queue'[f] = network_recv_queue[f]
           /\ Received(e) \in Packet
           /\ Received(e) \in InFlight(e)
           /\ Elements(network_recv_queue'[e]) \subseteq Elements(network_recv_queue[e])
<1>1. network_recv_queue \in [Endpoint -> Seq(Packet)]
  BY DEF TypeOK
<1>2. /\ network_recv_queue[e] # << >> /\ network_recv_queue[e] \in Seq(Packet)
      /\ network_recv_queue' = [network_recv_queue EXCEPT ![e] = Tail(@)]
  BY <1>1 DEF NetworkRecv
<1>3. /\ network_recv_queue'[e] = Tail(network_recv_queue[e])
      /\ \A f \in Endpoint : f # e => network_recv_queue'[f] = network_recv_queue[f]
  BY <1>1, <1>2
<1>4. /\ Head(network_recv_queue[e]) \in Elements(network_recv_queue[e])
      /\ Elements(Tail(network_recv_queue[e])) \subseteq Elements(network_recv_queue[e])
  BY <1>2, ElementsOf
<1>5. QED
  BY <1>2, <1>3, <1>4, RecvType DEF Received, InFlight

-----------------------------------------------------------------------------
(* What one endpoint does leaves the other's own state alone. *)

(* The same for the two endpoints of this connection *)
LEMMA OtherSame ==
    ASSUME TypeOK, NEW e \in Endpoint, Transport(e) \/ RecvPacket(e) \/ Application(e)
    PROVE  /\ e = "client" => SameServer /\ network_recv_queue'["server"] = network_recv_queue["server"]
           /\ e = "server" => SameClient /\ network_recv_queue'["client"] = network_recv_queue["client"]
<1>1. CASE e = "client"
  <2>1. "server" \in Endpoint /\ "server" # e
    BY <1>1 DEF Endpoint
  <2>2. Own("server")
    BY <2>1, OtherOwn
  <2>3. QED
    BY <1>1, <2>2 DEF Own, SameServer
<1>2. CASE e = "server"
  <2>1. "client" \in Endpoint /\ "client" # e
    BY <1>2 DEF Endpoint
  <2>2. Own("client")
    BY <2>1, OtherOwn
  <2>3. QED
    BY <1>2, <2>2 DEF Own, SameClient
<1>3. QED
  BY <1>1, <1>2

-----------------------------------------------------------------------------
(* The connection's state after the handshake *)

(* After the handshake the connection stays within OpenStates, and its     *)
(* thread ends only in CLOSED.                                             *)
LEMMA StateStep ==
    ASSUME TypeInv, NEW e \in Endpoint, StateInv(e), ~Handshaking(e),
           \/ WaitForEvent(e) \/ WindowFull(e) \/ SendData(e) \/ RecvAck(e)
           \/ RecvFin(e) \/ RecvData(e) \/ SendFin(e) \/ CloseIgnored(e)
           \/ ClosingRecv(e) \/ TransportReturn(e) \/ ChecksumAbort(e)
           \/ SendOverrun(e) \/ AckOverrun(e) \/ Application(e)
    PROVE  ~Handshaking(e)' /\ StateInv(e)'
<1> USE DEF TypeInv, StateInv, Handshaking
<1>1. CASE WaitForEvent(e)
  <2>1. \A bits, state :
           /\ AfterWait(bits, state) \in {"app", "net", "close", "done", "wait"}
           /\ AfterWait(bits, state) = "done" => state = "CLOSED"
           /\ AfterWait(bits, state) = "close" => "APP_CLOSE_REQUESTED" \in bits
    BY DEF AfterWait, AfterApp, AfterNet, LoopEnd
  <2>2. QED
    BY <1>1, <2>1 DEF WaitForEvent, context, application, TypeOK
<1>2. \A bits, state :
         /\ AfterApp(bits, state) \in {"net", "close", "done", "wait"}
         /\ AfterApp(bits, state) = "done" => state = "CLOSED"
         /\ AfterApp(bits, state) = "close" => "APP_CLOSE_REQUESTED" \in bits
  BY DEF AfterApp, AfterNet, LoopEnd
<1>3. CASE WindowFull(e)
  BY <1>2, <1>3 DEF WindowFull, context, application, TypeOK
<1>4. CASE SendData(e)
  BY <1>2, <1>4 DEF SendData, application, TypeOK
<1>5. \A bits, state :
         /\ AfterNet(bits, state) \in {"close", "done", "wait"}
         /\ AfterNet(bits, state) = "done" => state = "CLOSED"
         /\ AfterNet(bits, state) = "close" => "APP_CLOSE_REQUESTED" \in bits
  BY DEF AfterNet, LoopEnd
<1>6. CASE RecvAck(e)
  BY <1>5, <1>6 DEF RecvAck, HandlesPacket, NextPhase, application, TypeOK
<1>7. CASE RecvFin(e)
  <2>1. StateAfterFin(e) \in OpenStates(e)
    BY DEF StateAfterFin, OpenStates, Endpoint
  <2>2. QED
    BY <1>5, <1>7, <2>1 DEF RecvFin, HandlesPacket, NextPhase, OpenStates, application, TypeOK
<1>8. CASE RecvData(e)
  BY <1>5, <1>8 DEF RecvData, HandlesPacket, NextPhase, application, TypeOK
<1>9. CASE SendFin(e)
  BY <1>9 DEF SendFin, OpenStates, Endpoint, application, TypeOK
<1>10. CASE CloseIgnored(e)
  BY <1>10 DEF CloseIgnored, LoopEnd, context, application, TypeOK
<1>11. CASE ClosingRecv(e)
  <2>1. StateAfterClosingRecv(e, Received(e)) \in OpenStates(e)
    BY DEF StateAfterClosingRecv, OpenStates, Endpoint
  <2>2. QED
    BY <1>11, <2>1 DEF ClosingRecv, LoopEnd, OpenStates, application, TypeOK
<1>12. CASE TransportReturn(e)
  BY <1>12 DEF TransportReturn, context, application, TypeOK
<1>13. CASE ChecksumAbort(e)
  BY <1>13 DEF ChecksumAbort, HeaderOnlyRecv, context, application, TypeOK
<1>14. CASE SendOverrun(e)
  BY <1>14 DEF SendOverrun, context, application, TypeOK
<1>15. CASE AckOverrun(e)
  BY <1>15 DEF AckOverrun, HandlesPacket, context, application, TypeOK
<1>16. CASE Application(e)
  BY <1>16 DEF Application, mywrite, myread, myclose, mycloseReturn, Running, Alive, TransportAlive,
               context, thread, TypeOK
<1>17. QED
  BY <1>1, <1>3, <1>4, <1>6, <1>7, <1>8, <1>9, <1>10, <1>11, <1>12, <1>13, <1>14, <1>15, <1>16

-----------------------------------------------------------------------------
(* Steps of the client *)

(* After its handshake the client can only add to what the server has to   *)
(* take for the ACK of the handshake.                                      *)
LEMMA ClientKeepsHandshake ==
    ASSUME TypeOK, HandshakeInv, ~Handshaking("client"), ~Handshaking("client")', SameServer,
           network_recv_queue'["server"] = network_recv_queue["server"],
           \/ wire'["server"] = wire["server"]
           \/ \E p \in Packet : wire'["server"] = Append(wire["server"], p)
    PROVE  HandshakeInv'
<1>1. /\ Fresh' <=> Fresh
      /\ Waiting' <=> Waiting
      /\ Handshaking("server")' <=> Handshaking("server")
  BY ServerFrame
<1>2. FirstEmpty => FirstEmpty'
  <2>1. CASE wire'["server"] = wire["server"]
    BY <2>1 DEF FirstEmpty
  <2>2. ASSUME NEW p \in Packet, wire'["server"] = Append(wire["server"], p)
        PROVE  FirstEmpty => FirstEmpty'
    <3>1. wire["server"] \in Seq(Packet)
      BY DEF TypeOK, Endpoint
    <3>2. wire["server"] # << >> => wire'["server"] # << >> /\ wire'["server"][1] = wire["server"][1]
      BY <2>2, <3>1
    <3>3. QED
      BY <3>2 DEF FirstEmpty
  <2>3. QED
    BY <2>1, <2>2
<1>3. pc'["client"] # "start" /\ pc'["client"] # "handshake"
  BY DEF Handshaking
<1>4. QED
  BY <1>1, <1>2, <1>3 DEF HandshakeInv

(* A step after the handshake in which the client sends nothing *)
LEMMA ClientQuiet ==
    ASSUME StreamInv, TypeInv', SameServer, ~Handshaking("client"), ~Handshaking("client")',
           next_seqnum'["client"] = next_seqnum["client"],
           FinSent => FinSent',
           network_recv_queue'["server"] = network_recv_queue["server"], wire' = wire,
           Elements(network_recv_queue'["client"]) \subseteq Elements(network_recv_queue["client"]),
           eof["server"] => bytes_written'["client"] = bytes_written["client"],
           StateInv("client")', ClientInv'
    PROVE  StreamInv'
<1>1. Sent' = Sent /\ Got' = Got /\ (FinHandled' <=> FinHandled)
  BY ServerFrame DEF Sent
<1>2. HandshakeInv'
  BY ClientKeepsHandshake DEF StreamInv, TypeInv
<1>3. StateInv("server")' /\ ServerInv'
  BY ServerFrame DEF StreamInv, Endpoint
<1>4. FlowInv'
  BY <1>1, FlowSame DEF StreamInv, SameServer
<1>5. SegmentInv'
  <2>1. InFlight("server")' \subseteq InFlight("server")
    BY DEF InFlight, Elements
  <2>2. InFlight("client")' \subseteq InFlight("client")
    BY DEF InFlight, Elements
  <2>3. FinHandled => FinSent /\ Got = Sent
    BY DEF StreamInv, SegmentInv
  <2>4. SegmentInv
    BY DEF StreamInv
  <2>5. QED
    BY <1>1, <2>1, <2>2, <2>3, <2>4, SegmentQuiet
<1>6. QED
  BY <1>2, <1>3, <1>4, <1>5 DEF StreamInv, Endpoint

(* A step in which the client's application and its queue stay as they are *)
LEMMA ClientKeeps ==
    ASSUME ClientInv, ~Handshaking("client"), ~Handshaking("client")',
           next_seqnum'["client"] = next_seqnum["client"],
           app_recv_queue'["client"] = app_recv_queue["client"],
           bytes_written'["client"] = bytes_written["client"],
           app["client"] # "open" => app'["client"] # "open",
           close_requested'["client"] => app'["client"] # "open",
           connection_state'["client"] = "ESTABLISHED" <=> connection_state["client"] = "ESTABLISHED",
           pc'["client"] \in {"app", "net", "close"} /\ "APP_CLOSE_REQUESTED" \in event'["client"]
               => app["client"] # "open" /\ app_recv_queue["client"] = << >>
    PROVE  ClientInv' /\ (FinSent' <=> FinSent)
<1>1. (Open("client")' <=> Open("client")) /\ (FinSent' <=> FinSent)
  BY DEF Open, FinSent
<1>2. QED
  BY <1>1 DEF ClientInv

(* The client neither takes nor sends a segment. *)
LEMMA ClientSteps ==
    ASSUME StreamInv, TypeInv', ~Handshaking("client"),
           \/ WaitForEvent("client") \/ WindowFull("client") \/ CloseIgnored("client")
           \/ SendOverrun("client") \/ TransportReturn("client")
    PROVE  StreamInv'
<1> USE DEF StreamInv, TypeInv
<1>1. "client" \in Endpoint /\ "server" \in Endpoint /\ TypeOK /\ TypeOK'
  BY DEF Endpoint
<1>2. ~Handshaking("client")' /\ StateInv("client")'
  BY <1>1, StateStep
<1>3. /\ SameServer
      /\ next_seqnum' = next_seqnum /\ app_recv_queue' = app_recv_queue
      /\ network_recv_queue' = network_recv_queue /\ wire' = wire
      /\ bytes_written' = bytes_written /\ app' = app
      /\ connection_state' = connection_state
  <2>1. SameServer
    BY <1>1, OtherSame DEF Transport
  <2>2. /\ next_seqnum' = next_seqnum /\ app_recv_queue' = app_recv_queue
        /\ network_recv_queue' = network_recv_queue /\ wire' = wire
        /\ bytes_written' = bytes_written /\ app' = app
        /\ connection_state' = connection_state
    BY DEF WaitForEvent, WindowFull, CloseIgnored, SendOverrun, TransportReturn,
           context, queues, network, application
  <2>3. QED
    BY <2>1, <2>2
<1>4. close_requested'["client"] => app["client"] # "open"
  <2>1. close_requested'["client"] => close_requested["client"]
    BY <1>1, ZenonT(60) DEF TypeOK, WaitForEvent, WindowFull, CloseIgnored, SendOverrun, TransportReturn
  <2>2. QED
    BY <2>1 DEF ClientInv
<1>5. pc'["client"] \in {"app", "net", "close"} /\ "APP_CLOSE_REQUESTED" \in event'["client"]
          => app["client"] # "open" /\ app_recv_queue["client"] = << >>
  <2>1. CASE WaitForEvent("client")
    <3>1. event'["client"] = PendingEvents("client")
      BY <1>1, <2>1 DEF WaitForEvent, TypeOK
    <3>2. "APP_CLOSE_REQUESTED" \in PendingEvents("client")
             => close_requested["client"] /\ app_recv_queue["client"] = << >>
      BY DEF PendingEvents
    <3>3. QED
      BY <3>1, <3>2 DEF ClientInv
  <2>2. CASE ~WaitForEvent("client")
    <3>1. /\ event' = event
          /\ pc'["client"] \in {"app", "net", "close"} => pc["client"] \in {"app", "net", "close"}
      BY <1>1, <2>2 DEF TypeOK, WindowFull, CloseIgnored, SendOverrun, TransportReturn, LoopEnd
    <3>2. QED
      BY <3>1 DEF ClientInv
  <2>3. QED
    BY <2>1, <2>2
<1>6. ClientInv' /\ (FinSent' <=> FinSent)
  BY <1>2, <1>3, <1>4, <1>5, ClientKeeps
<1>7. QED
  BY <1>2, <1>3, <1>6, ClientQuiet

(* The client takes a segment and sends nothing. *)
LEMMA ClientReceives ==
    ASSUME StreamInv, TypeInv', ~Handshaking("client"),
           \/ RecvAck("client") \/ AckOverrun("client") \/ ClosingRecv("client")
           \/ ChecksumAbort("client")
    PROVE  StreamInv'
<1> USE DEF StreamInv, TypeInv
<1>1. "client" \in Endpoint /\ "server" \in Endpoint /\ TypeOK /\ TypeOK'
  BY DEF Endpoint
<1>2. ~Handshaking("client")' /\ StateInv("client")'
  BY <1>1, StateStep
<1>3. NetworkRecv("client")
  BY DEF RecvAck, AckOverrun, ClosingRecv, ChecksumAbort
<1>4. /\ network_recv_queue'["server"] = network_recv_queue["server"]
      /\ Elements(network_recv_queue'["client"]) \subseteq Elements(network_recv_queue["client"])
  BY <1>1, <1>3, QueueTail
<1>5. /\ SameServer
      /\ next_seqnum' = next_seqnum /\ app_recv_queue' = app_recv_queue /\ wire' = wire
      /\ bytes_written' = bytes_written /\ app' = app /\ close_requested' = close_requested
      /\ event' = event
  <2>1. /\ next_seqnum' = next_seqnum /\ app_recv_queue' = app_recv_queue /\ wire' = wire
        /\ bytes_written' = bytes_written /\ app' = app /\ close_requested' = close_requested
        /\ event' = event
    BY DEF RecvAck, AckOverrun, ClosingRecv, ChecksumAbort, context, network, application
  <2>2. SameServer
    BY <1>1, OtherSame DEF Transport
  <2>3. QED
    BY <2>1, <2>2
<1>6. connection_state'["client"] = "ESTABLISHED" <=> connection_state["client"] = "ESTABLISHED"
  BY <1>1 DEF TypeOK, RecvAck, AckOverrun, ClosingRecv, ChecksumAbort, StateAfterClosingRecv,
              AwaitsFinAck, context
<1>7. pc'["client"] \in {"app", "net", "close"} => pc["client"] \in {"app", "net", "close"}
  BY <1>1 DEF TypeOK, RecvAck, AckOverrun, ClosingRecv, ChecksumAbort, HandlesPacket,
              HeaderOnlyRecv, LoopEnd
<1>8. ClientInv' /\ (FinSent' <=> FinSent)
  <2>1. pc'["client"] \in {"app", "net", "close"} /\ "APP_CLOSE_REQUESTED" \in event'["client"]
          => app["client"] # "open" /\ app_recv_queue["client"] = << >>
    BY <1>5, <1>7 DEF ClientInv
  <2>2. close_requested'["client"] => app'["client"] # "open"
    BY <1>5 DEF ClientInv
  <2>3. QED
    BY <1>2, <1>5, <1>6, <2>1, <2>2, ClientKeeps
<1>9. QED
  BY <1>2, <1>4, <1>5, <1>8, ClientQuiet

(* The socket calls of the client's application *)
LEMMA ClientCalls ==
    ASSUME StreamInv, TypeInv', Application("client")
    PROVE  StreamInv'
<1> USE DEF StreamInv, TypeInv
<1>1. "client" \in Endpoint /\ "server" \in Endpoint /\ TypeOK /\ TypeOK'
  BY DEF Endpoint
<1>2. ~Handshaking("client")
  BY DEF Application, mywrite, myread, myclose, mycloseReturn, Running, Handshaking
<1>3. ~Handshaking("client")' /\ StateInv("client")'
  BY <1>1, <1>2, StateStep
<1>4. SameServer /\ network_recv_queue'["server"] = network_recv_queue["server"]
  BY <1>1, OtherSame
<1>5. /\ pc' = pc /\ event' = event /\ connection_state' = connection_state
      /\ next_seqnum' = next_seqnum /\ wire' = wire
  BY DEF Application, mywrite, myread, myclose, mycloseReturn, context, thread, network
<1>6. Elements(network_recv_queue'["client"]) \subseteq Elements(network_recv_queue["client"])
  <2>1. CASE mycloseReturn("client")
    <3>1. network_recv_queue'["client"] = << >>
      BY <1>1, <2>1 DEF mycloseReturn, FreedQueue, TypeOK
    <3>2. QED
      BY <3>1 DEF Elements
  <2>2. CASE ~mycloseReturn("client")
    BY <2>2 DEF Application, mywrite, myread, myclose, queues
  <2>3. QED
    BY <2>1, <2>2
<1>7. FinHandled => FinSent
  BY DEF SegmentInv
<1>8. ASSUME NEW n \in WriteSizes, mywrite("client", n)
      PROVE  /\ ClientInv' /\ (FinSent' <=> FinSent)
             /\ eof["server"] => bytes_written'["client"] = bytes_written["client"]
  <2> DEFINE q == app_recv_queue["client"]
             a == next_seqnum["client"]
             w == bytes_written["client"]
             x == [from |-> w + 1, len |-> n]
  <2>1. n \in Nat \ {0} /\ q \in Seq(Chunk) /\ a \in Nat /\ w \in Nat
    BY <1>1, ConstantsAssumption DEF TypeOK
  <2>2. x \in Chunk /\ x.from = 1 + w /\ x.len = n /\ x.len > 0 /\ 1 + w \in Nat
    BY <2>1 DEF Chunk
  <2>3. app["client"] = "open"
    BY <1>8 DEF mywrite, Running
  <2>4. Open("client") /\ ~FinSent
    BY <1>2, <2>3 DEF ClientInv, Open, FinSent
  <2>5. ~FinHandled /\ ~eof["server"]
    BY <1>7, <2>4 DEF ServerInv
  <2>6. /\ app_recv_queue'["client"] = Append(q, x)
        /\ bytes_written'["client"] = w + n
        /\ app'["client"] = "open" /\ close_requested' = close_requested
    BY <1>1, <1>8, <2>3 DEF mywrite, Enqueued, TypeOK
  <2> HIDE DEF q, a, w, x
  <2>7. Stream(q, a) /\ EndsAt(q, a, 1 + w)
    BY <2>4 DEF ClientInv, q, a, w
  <2>8. Stream(Append(q, x), a) /\ EndsAt(Append(q, x), a, 1 + w + x.len)
    BY <2>1, <2>2, <2>7, StreamAppend
  <2>9. 1 + w + x.len = 1 + (w + n)
    BY <2>1, <2>2
  <2>10. Open("client")' /\ ~FinSent'
    BY <1>3, <1>5, <2>4 DEF Open, FinSent
  <2>11. ~close_requested["client"]
          /\ ~(pc["client"] \in {"app", "net", "close"} /\ "APP_CLOSE_REQUESTED" \in event["client"])
    BY <2>3 DEF ClientInv
  <2>12. ClientInv'
    BY <1>3, <1>5, <2>6, <2>8, <2>9, <2>10, <2>11 DEF ClientInv, a
  <2>13. QED
    BY <2>4, <2>5, <2>10, <2>12
<1>9. ASSUME \/ \E n \in ReadSizes : myread("client", n)
             \/ myclose("client")
             \/ mycloseReturn("client")
      PROVE  ClientInv' /\ (FinSent' <=> FinSent) /\ bytes_written' = bytes_written
  <2>1. /\ bytes_written' = bytes_written
        /\ app["client"] # "open" => app'["client"] # "open"
        /\ close_requested'["client"] => app'["client"] # "open"
    <3>1. CASE \E n \in ReadSizes : myread("client", n)
      BY <3>1 DEF myread, ClientInv
    <3>2. CASE myclose("client")
      BY <1>1, <3>2 DEF myclose, TypeOK
    <3>3. CASE mycloseReturn("client")
      BY <1>1, <3>3 DEF mycloseReturn, TypeOK
    <3>4. QED
      BY <1>9, <3>1, <3>2, <3>3
  <2>2. app_recv_queue'["client"] = app_recv_queue["client"]
    <3>1. CASE mycloseReturn("client")
      <4>1. pc["client"] = "exited"
        BY <3>1 DEF mycloseReturn
      <4>2. FinSent
        BY <1>1, <1>2, <4>1 DEF StateInv, FinSent
      <4>3. app_recv_queue["client"] = << >>
        BY <4>2 DEF ClientInv
      <4>4. QED
        BY <1>1, <3>1, <4>3 DEF mycloseReturn, FreedQueue, TypeOK
    <3>2. CASE ~mycloseReturn("client")
      BY <1>9, <3>2 DEF myread, myclose, queues
    <3>3. QED
      BY <3>1, <3>2
  <2>3. pc'["client"] \in {"app", "net", "close"} /\ "APP_CLOSE_REQUESTED" \in event'["client"]
          => app["client"] # "open" /\ app_recv_queue["client"] = << >>
    BY <1>5 DEF ClientInv
  <2>4. QED
    BY <1>2, <1>3, <1>5, <2>1, <2>2, <2>3, ClientKeeps
<1>10. /\ ClientInv' /\ (FinSent' <=> FinSent)
       /\ eof["server"] => bytes_written'["client"] = bytes_written["client"]
  BY <1>8, <1>9 DEF Application
<1>11. QED
  BY <1>2, <1>3, <1>4, <1>5, <1>6, <1>10, ClientQuiet

(* A step in which the client sends segment p *)
LEMMA ClientTransmits ==
    ASSUME Unreliable = {}, StreamInv, TypeInv', SameServer, HandshakeInv',
           NEW p \in Packet, NetworkSend("client", p),
           p.pos = Sent, Sent' = Sent + Size(p),
           FinSent => FinSent' /\ Sent' = Sent,
           ToServerOK(p)',
           network_recv_queue'["server"] = network_recv_queue["server"],
           Elements(network_recv_queue'["client"]) \subseteq Elements(network_recv_queue["client"]),
           bytes_written'["client"] = bytes_written["client"],
           StateInv("client")', ClientInv'
    PROVE  StreamInv'
<1>1. "client" \in Endpoint /\ Peer("client") = "server" /\ TypeOK
  BY DEF Endpoint, Peer, StreamInv, TypeInv
<1>2. /\ wire'["server"] = Append(wire["server"], p)
      /\ wire'["client"] = wire["client"]
      /\ Elements(wire["server"])' = Elements(wire["server"]) \cup {p}
      /\ Elements(wire["client"])' = Elements(wire["client"])
  BY <1>1, ReliableSend
<1>3. Got' = Got /\ (FinHandled' <=> FinHandled)
  BY ServerFrame
<1>4. StateInv("server")' /\ ServerInv'
  BY ServerFrame DEF StreamInv, Endpoint
<1>5. FlowInv'
  BY <1>1, <1>2, <1>3, FlowSend DEF StreamInv, SameServer
<1>6. SegmentInv'
  <2>1. InFlight("server")' \subseteq InFlight("server") \cup {p}
    BY <1>2 DEF InFlight, Elements
  <2>2. InFlight("client")' \subseteq InFlight("client")
    BY <1>2 DEF InFlight, Elements
  <2>3. SegmentInv /\ (FinHandled => FinSent /\ Got = Sent)
    BY DEF StreamInv, SegmentInv
  <2>4. FinHandled' => FinSent' /\ Got' = Sent'
    BY <1>3, <2>3
  <2>5. QED
    BY <1>3, <2>1, <2>2, <2>3, <2>4, SegmentToServer
<1>7. QED
  BY <1>4, <1>5, <1>6 DEF StreamInv, Endpoint

(* After the handshake *)
LEMMA ClientSends ==
    ASSUME Unreliable = {}, StreamInv, TypeInv', SameServer,
           ~Handshaking("client"), ~Handshaking("client")',
           NEW p \in Packet, NetworkSend("client", p),
           p.pos = Sent, Sent' = Sent + Size(p),
           FinSent => FinSent' /\ Sent' = Sent,
           ToServerOK(p)',
           network_recv_queue'["server"] = network_recv_queue["server"],
           Elements(network_recv_queue'["client"]) \subseteq Elements(network_recv_queue["client"]),
           bytes_written'["client"] = bytes_written["client"],
           StateInv("client")', ClientInv'
    PROVE  StreamInv'
<1>1. "client" \in Endpoint /\ Peer("client") = "server" /\ TypeOK
  BY DEF Endpoint, Peer, StreamInv, TypeInv
<1>2. wire'["server"] = Append(wire["server"], p)
  BY <1>1, ReliableSend
<1>3. HandshakeInv'
  BY <1>1, <1>2, ClientKeepsHandshake DEF StreamInv
<1>4. QED
  BY <1>3, ClientTransmits

(* The client sends the next bytes of its stream. *)
LEMMA ClientSendData ==
    ASSUME Unreliable = {}, StreamInv, TypeInv', SendData("client")
    PROVE  StreamInv'
<1> USE DEF StreamInv, TypeInv
<1> DEFINE q == app_recv_queue["client"]
           a == next_seqnum["client"]
           w == bytes_written["client"]
           m == max_size("client")
           n == data_size("client")
<1>0. PICK p : p = [flags |-> "DATA", th_seq |-> TcpSeq(a), th_ack |-> 0, len |-> n,
                    pos |-> Head(q).from]
  OBVIOUS
<1>1. "client" \in Endpoint /\ TypeOK /\ TypeOK' /\ ~Handshaking("client")
  BY DEF Endpoint, SendData, Handshaking
<1>2. ~Handshaking("client")' /\ StateInv("client")'
  BY <1>1, StateStep
<1>3. SameServer /\ network_recv_queue' = network_recv_queue
  BY <1>1, OtherSame DEF Transport, SendData
<1>4. /\ q \in Seq(Chunk) /\ q # << >> /\ a \in Nat /\ w \in Nat
      /\ rem["client"] \in Nat \ {0} /\ MSS \in Nat \ {0}
  BY <1>1, ConstantsAssumption DEF SendData, TypeOK, AppPhase
<1>5. m \in Nat \ {0}
  BY <1>4 DEF max_size, MIN
<1>6. /\ NetworkSend("client", p)
      /\ app_recv_queue'["client"] = BufferAfter(q, m)
      /\ next_seqnum'["client"] = a + n
      /\ connection_state' = connection_state /\ event' = event
      /\ bytes_written' = bytes_written /\ app' = app /\ close_requested' = close_requested
  BY <1>0, <1>1 DEF SendData, TypeOK, application
<1>7. pc["client"] = "app"
  BY DEF SendData
<1>8. Open("client") /\ ~FinSent /\ Sent = a
  BY <1>1, <1>4 DEF ClientInv, Open, FinSent, Sent
<1>9. Stream(q, a) /\ EndsAt(q, a, 1 + w)
  BY <1>8 DEF ClientInv
<1>10. Head(q) = q[1] /\ q[1].from = a /\ q[1].len \in Nat /\ q[1].len > 0
  <2>1. 1 \in 1 .. Len(q) /\ Len(q) \in 1 .. Len(q) /\ Head(q) = q[1]
    BY <1>4
  <2>2. q[1].len \in Nat /\ q[1].from = a /\ q[Len(q)].len > 0 /\ q[Len(q)].len \in Nat
    BY <1>4, <1>9, <2>1, ChunkType DEF Stream, EndsAt
  <2>3. q[1].len # 0
    BY <1>4, <1>9, <2>1, <2>2 DEF Stream
  <2>4. QED
    BY <2>1, <2>2, <2>3
<1>11. n = MIN(m, q[1].len) /\ n \in Nat
  BY <1>5, <1>10 DEF data_size, MIN
<1>12. p \in Packet /\ p.pos = a /\ p.flags = "DATA" /\ p.len = n /\ Size(p) = n
  BY <1>0, <1>4, <1>10, <1>11, TcpSeqType DEF Packet, Size
<1> HIDE DEF q, a, w, m, n
<1>13. Stream(BufferAfter(q, m), a + n) /\ EndsAt(BufferAfter(q, m), a + n, 1 + w)
  <2>1. 1 + w \in Nat
    BY <1>4
  <2>2. QED
    BY <1>4, <1>5, <1>9, <1>10, <1>11, <2>1, StreamTake
<1>14. Open("client")' /\ ~FinSent' /\ Sent' = a + n
  BY <1>2, <1>6, <1>8 DEF Open, FinSent, Sent
<1>15. "APP_CLOSE_REQUESTED" \notin event["client"]
  BY <1>4, <1>7 DEF ClientInv, q
<1>16. ClientInv'
  <2>1. close_requested["client"] => app["client"] # "open"
    BY DEF ClientInv
  <2>2. QED
    BY <1>2, <1>6, <1>13, <1>14, <1>15, <2>1 DEF ClientInv, w
<1>17. ToServerOK(p)'
  BY <1>12 DEF ToServerOK
<1>18. QED
  BY <1>1, <1>2, <1>3, <1>6, <1>8, <1>12, <1>14, <1>16, <1>17, ClientSends

(* The client sends its FIN, when its application has closed and all its   *)
(* bytes are sent.                                                         *)
LEMMA ClientSendFin ==
    ASSUME Unreliable = {}, StreamInv, TypeInv', SendFin("client")
    PROVE  StreamInv'
<1> USE DEF StreamInv, TypeInv
<1> DEFINE a == next_seqnum["client"]
           w == bytes_written["client"]
<1>0. PICK p : p = [flags |-> "FIN", th_seq |-> TcpSeq(a), th_ack |-> 0, len |-> 0, pos |-> a]
  OBVIOUS
<1>1. "client" \in Endpoint /\ TypeOK /\ TypeOK' /\ ~Handshaking("client")
  BY DEF Endpoint, SendFin, Handshaking
<1>2. ~Handshaking("client")' /\ StateInv("client")'
  BY <1>1, StateStep
<1>3. SameServer /\ network_recv_queue' = network_recv_queue
  BY <1>1, OtherSame DEF Transport, SendFin, queues
<1>4. a \in Nat /\ w \in Nat
  BY <1>1 DEF TypeOK
<1>5. /\ NetworkSend("client", p)
      /\ next_seqnum'["client"] = a + 1
      /\ connection_state'["client"] = "FIN_WAIT_1" /\ pc'["client"] = "wait"
      /\ app_recv_queue' = app_recv_queue
      /\ bytes_written' = bytes_written /\ app' = app /\ close_requested' = close_requested
  BY <1>0, <1>1 DEF SendFin, TypeOK, application, queues
<1>6. app["client"] # "open" /\ app_recv_queue["client"] = << >>
  BY <1>1 DEF SendFin, StateInv, ClientInv
<1>7. Open("client") /\ ~FinSent /\ Sent = a
  BY <1>1 DEF SendFin, MaySendFin, Open, FinSent, Sent
<1>8. a = 1 + w
  BY <1>6, <1>7 DEF ClientInv, EndsAt
<1>9. p \in Packet /\ p.pos = a /\ p.flags = "FIN" /\ p.len = 0 /\ Size(p) = 1
  BY <1>0, <1>4, TcpSeqType DEF Packet, Size
<1>10. FinSent' /\ ~Open("client")' /\ Sent' = a + 1
  BY <1>2, <1>5 DEF Open, FinSent, Sent
<1>11. ClientInv'
  <2>1. a + 1 = w + 2
    BY <1>4, <1>8
  <2>2. QED
    BY <1>2, <1>5, <1>6, <1>10, <2>1 DEF ClientInv
<1>12. ToServerOK(p)'
  BY <1>9, <1>10 DEF ToServerOK
<1> HIDE DEF a, w
<1>13. QED
  BY <1>1, <1>2, <1>3, <1>5, <1>7, <1>9, <1>10, <1>11, <1>12, ClientSends

(* The client acknowledges what it receives. *)
LEMMA ClientAcknowledges ==
    ASSUME Unreliable = {}, StreamInv, TypeInv', RecvFin("client") \/ RecvData("client")
    PROVE  StreamInv'
<1> USE DEF StreamInv, TypeInv
<1>1. "client" \in Endpoint /\ TypeOK /\ TypeOK' /\ ~Handshaking("client")
  BY DEF Endpoint, RecvFin, RecvData, HandlesPacket, Handshaking
<1>2. ~Handshaking("client")' /\ StateInv("client")'
  BY <1>1, StateStep
<1>3. NetworkRecv("client") /\ pc["client"] = "net"
  BY DEF RecvFin, RecvData, HandlesPacket
<1>4. /\ network_recv_queue'["server"] = network_recv_queue["server"]
      /\ Elements(network_recv_queue'["client"]) \subseteq Elements(network_recv_queue["client"])
      /\ Received("client") \in InFlight("client") /\ Received("client") \in Packet
  <2>1. "server" \in Endpoint /\ "server" # "client"
    BY DEF Endpoint
  <2>2. QED
    BY <1>1, <1>3, <2>1, QueueTail
<1>5. SameServer
  BY <1>1, OtherSame DEF Transport
<1>6. /\ next_seqnum' = next_seqnum /\ app_recv_queue' = app_recv_queue
      /\ bytes_written' = bytes_written /\ app' = app /\ close_requested' = close_requested
      /\ event' = event
  BY DEF RecvFin, RecvData, application
<1>7. connection_state'["client"] = "ESTABLISHED" <=> connection_state["client"] = "ESTABLISHED"
  <2>1. CASE RecvFin("client")
    <3>1. FinHandled
      BY <1>4, <2>1 DEF RecvFin, SegmentInv
    <3>2. FinSent
      BY <3>1 DEF SegmentInv
    <3>3. connection_state'["client"] = "CLOSED"
      BY <1>1, <2>1 DEF RecvFin, StateAfterFin, TypeOK
    <3>4. QED
      BY <3>2, <3>3 DEF FinSent
  <2>2. CASE RecvData("client")
    BY <2>2 DEF RecvData
  <2>3. QED
    BY <2>1, <2>2
<1>8. ClientInv' /\ (FinSent' <=> FinSent)
  <2>1. /\ close_requested'["client"] => app'["client"] # "open"
        /\ pc'["client"] \in {"app", "net", "close"} /\ "APP_CLOSE_REQUESTED" \in event'["client"]
               => app["client"] # "open" /\ app_recv_queue["client"] = << >>
    BY <1>3, <1>6 DEF ClientInv
  <2>2. QED
    BY <1>1, <1>2, <1>6, <1>7, <2>1, ClientKeeps
<1>9. PICK p \in Packet : /\ NetworkSend("client", p)
                          /\ p.flags = "ACK" /\ p.len = 0 /\ p.pos = next_seqnum["client"]
  <2>1. /\ RecvBase["client"] \in Nat /\ next_seqnum["client"] \in Nat
        /\ Received("client").th_seq \in Nat /\ Received("client").len \in Nat
    BY <1>1, <1>4 DEF TypeOK, Packet
  <2>2. \A i, j \in Nat : [flags |-> "ACK", th_seq |-> TcpSeq(i), th_ack |-> TcpSeq(j), len |-> 0,
                           pos |-> next_seqnum["client"]] \in Packet
    BY <2>1, TcpSeqType DEF Packet
  <2>3. CASE RecvFin("client")
    <3> DEFINE x == [flags |-> "ACK", th_seq |-> TcpSeq(RecvBase["client"] + 1),
                     th_ack |-> TcpSeq(Received("client").th_seq + 1), len |-> 0,
                     pos |-> next_seqnum["client"]]
    <3>1. x \in Packet
      BY <2>1, <2>2
    <3>2. NetworkSend("client", x)
      BY <2>3 DEF RecvFin
    <3>3. x.flags = "ACK" /\ x.len = 0 /\ x.pos = next_seqnum["client"]
      OBVIOUS
    <3> HIDE DEF x
    <3>4. QED
      BY <3>1, <3>2, <3>3
  <2>4. CASE RecvData("client")
    <3> DEFINE x == [flags |-> "ACK", th_seq |-> TcpSeq(RecvBase["client"] + Received("client").len),
                     th_ack |-> AckNumber(Received("client")), len |-> 0,
                     pos |-> next_seqnum["client"]]
    <3>1. x \in Packet
      BY <2>1, <2>2 DEF AckNumber
    <3>2. NetworkSend("client", x)
      BY <2>4 DEF RecvData
    <3>3. x.flags = "ACK" /\ x.len = 0 /\ x.pos = next_seqnum["client"]
      OBVIOUS
    <3> HIDE DEF x
    <3>4. QED
      BY <3>1, <3>2, <3>3
  <2>5. QED
    BY <2>3, <2>4
<1>10. Size(p) = 0 /\ ToServerOK(p)'
  BY <1>9 DEF Size, ToServerOK
<1>11. Sent = next_seqnum["client"] /\ Sent' = next_seqnum["client"] /\ Sent \in Nat
  BY <1>1, <1>2, <1>6 DEF Sent, TypeOK
<1>12. Sent' = Sent + Size(p)
  BY <1>10, <1>11
<1>13. QED
  BY <1>1, <1>2, <1>4, <1>5, <1>6, <1>8, <1>9, <1>10, <1>11, <1>12, ClientSends

(* The client's SYN *)
LEMMA ClientInit ==
    ASSUME Unreliable = {}, StreamInv, TypeInv', TransportInit("client")
    PROVE  StreamInv'
<1> USE DEF StreamInv, TypeInv
<1>0. PICK p : p = [flags |-> "SYN", th_seq |-> 1, th_ack |-> 0, len |-> 0, pos |-> 1]
  OBVIOUS
<1>1. "client" \in Endpoint /\ "server" \in Endpoint /\ Peer("client") = "server" /\ TypeOK /\ TypeOK'
  BY DEF Endpoint, Peer
<1>2. SameServer
  BY <1>1, OtherSame DEF Transport
<1>3. /\ pc["client"] = "start" /\ pc'["client"] = "handshake"
      /\ connection_state'["client"] = "SYN_SENT"
      /\ NetworkSend("client", p)
      /\ network_recv_queue' = network_recv_queue /\ app_recv_queue' = app_recv_queue
      /\ bytes_written' = bytes_written /\ app' = app /\ close_requested' = close_requested
  BY <1>0, <1>1 DEF TransportInit, TypeOK, initial_sequence_num, queues, application
<1>4. /\ Fresh
      /\ network_recv_queue["server"] = << >> /\ network_recv_queue["client"] = << >>
      /\ wire["server"] = << >> /\ wire["client"] = << >>
  BY <1>1, <1>3 DEF HandshakeInv
<1>5. p \in Packet /\ p.flags = "SYN" /\ p.len = 0 /\ p.pos = 1 /\ Size(p) = 0
  BY <1>0 DEF Packet, Size
<1>6. Handshaking("client") /\ Handshaking("client")' /\ ~FinSent /\ ~FinSent' /\ Sent = 1 /\ Sent' = 1
  BY <1>3 DEF Handshaking, FinSent, Sent
<1>7. wire'["server"] = <<p>> /\ wire'["client"] = << >>
  <2>1. wire'["server"] = Append(wire["server"], p) /\ wire'["client"] = wire["client"]
    BY <1>1, <1>3, <1>5, ReliableSend
  <2>2. QED
    BY <1>4, <2>1
<1>8. HandshakeInv'
  <2>1. Fresh' /\ (Handshaking("server")' => Fresh' \/ Waiting')
    BY <1>2, <1>4, ServerFrame
  <2>2. Len(network_recv_queue'["server"]) + Len(wire'["server"]) = 1
    BY <1>3, <1>4, <1>7
  <2>3. InFlight("server")' = {p} /\ InFlight("client")' = {}
    <3>1. Elements(<<p>>) = {p} /\ Elements(<< >>) = {}
      <4>1. Len(<<p>>) = 1 /\ <<p>>[1] = p /\ Len(<< >>) = 0
        OBVIOUS
      <4>2. 1 .. 1 = {1} /\ 1 .. 0 = {}
        OBVIOUS
      <4>3. QED
        BY <4>1, <4>2 DEF Elements
    <3>2. /\ InFlight("server")' = Elements(network_recv_queue'["server"]) \cup Elements(wire'["server"])
          /\ InFlight("client")' = Elements(network_recv_queue'["client"]) \cup Elements(wire'["client"])
      BY DEF InFlight, Elements
    <3>3. QED
      BY <1>3, <1>4, <1>7, <3>1, <3>2
  <2>4. \A e \in Endpoint : \A x \in InFlight(e)' : x.flags = "SYN" /\ x.len = 0
    BY <1>5, <2>3 DEF Endpoint
  <2>5. QED
    BY <1>3, <1>4, <1>6, <1>7, <2>1, <2>2, <2>4 DEF HandshakeInv
<1>9. StateInv("client")'
  BY <1>1, <1>3, <1>6 DEF StateInv
<1>10. ClientInv'
  <2>1. ~Open("client")'
    BY <1>6 DEF Open
  <2>2. QED
    BY <1>3, <1>6, <2>1 DEF ClientInv
<1>11. ToServerOK(p)' /\ Sent' = Sent + Size(p)
  BY <1>5, <1>6 DEF ToServerOK
<1>12. QED
  BY <1>2, <1>3, <1>5, <1>6, <1>8, <1>9, <1>10, <1>11, ClientTransmits

(* The client's answer to the server's SYN *)
LEMMA ClientSynSent ==
    ASSUME Unreliable = {}, StreamInv, TypeInv', SynSent("client")
    PROVE  StreamInv'
<1> USE DEF StreamInv, TypeInv
<1>0. PICK p : p = [flags |-> Received("client").flags, th_seq |-> Received("client").th_ack,
                    th_ack |-> TcpSeq(Received("client").th_seq + 1), len |-> 0, pos |-> 1]
  OBVIOUS
<1>1. "client" \in Endpoint /\ "server" \in Endpoint /\ Peer("client") = "server" /\ TypeOK /\ TypeOK'
  BY DEF Endpoint, Peer
<1>2. SameServer /\ network_recv_queue'["server"] = network_recv_queue["server"]
  BY <1>1, OtherSame DEF Transport
<1>3. NetworkRecv("client") /\ pc["client"] = "handshake"
  BY DEF SynSent
<1>4. /\ network_recv_queue["client"] # << >>
      /\ Elements(network_recv_queue'["client"]) \subseteq Elements(network_recv_queue["client"])
      /\ Received("client") \in InFlight("client") /\ Received("client") \in Packet
  BY <1>1, <1>3, QueueTail
<1>5. /\ Waiting /\ Received("client").flags = "SYN"
      /\ network_recv_queue["server"] = << >> /\ wire["server"] = << >>
  BY <1>1, <1>3, <1>4 DEF HandshakeInv
<1>6. /\ pc'["client"] = "wait" /\ connection_state'["client"] = "ESTABLISHED"
      /\ next_seqnum'["client"] = 1
      /\ NetworkSend("client", p)
      /\ app_recv_queue' = app_recv_queue
      /\ bytes_written' = bytes_written /\ app' = app /\ close_requested' = close_requested
  BY <1>0, <1>1 DEF SynSent, Establish, TypeOK, initial_sequence_num, application
<1>7. p \in Packet /\ p.flags = "SYN" /\ p.len = 0 /\ p.pos = 1 /\ Size(p) = 0
  <2>1. Received("client").th_ack \in Nat /\ Received("client").th_seq + 1 \in Nat
    BY <1>4 DEF Packet
  <2>2. QED
    BY <1>0, <1>5, <2>1, TcpSeqType DEF Packet, Size
<1>8. Handshaking("client") /\ ~Handshaking("client")' /\ ~FinSent /\ ~FinSent' /\ Sent = 1 /\ Sent' = 1
  BY <1>3, <1>6 DEF Handshaking, FinSent, Sent
<1>9. wire'["server"] = <<p>>
  <2>1. wire'["server"] = Append(wire["server"], p)
    BY <1>1, <1>6, <1>7, ReliableSend
  <2>2. QED
    BY <1>5, <2>1
<1>10. HandshakeInv'
  <2>1. Waiting' /\ ~Fresh' /\ (Handshaking("server")' => Fresh' \/ Waiting')
    BY <1>2, <1>5, ServerFrame DEF Waiting, Fresh
  <2>2. FirstEmpty'
    BY <1>2, <1>5, <1>7, <1>9 DEF FirstEmpty
  <2>3. QED
    BY <1>6, <1>8, <2>1, <2>2 DEF HandshakeInv
<1>11. StateInv("client")'
  BY <1>1, <1>3, <1>6 DEF StateInv, OpenStates
<1>12. ClientInv'
  <2>1. app_recv_queue["client"] = << >> /\ bytes_written["client"] = 0
        /\ (close_requested["client"] => app["client"] # "open")
    BY <1>8 DEF ClientInv
  <2>2. Stream(<< >>, 1) /\ EndsAt(<< >>, 1, 1 + 0)
    BY DEF Stream, EndsAt
  <2>3. QED
    BY <1>6, <1>8, <2>1, <2>2 DEF ClientInv
<1>13. ToServerOK(p)' /\ Sent' = Sent + Size(p)
  BY <1>7, <1>8 DEF ToServerOK
<1>14. QED
  BY <1>2, <1>4, <1>6, <1>7, <1>8, <1>10, <1>11, <1>12, <1>13, ClientTransmits

(* The client's receive thread takes a segment from the wire. *)
LEMMA ClientRecvPacket ==
    ASSUME StreamInv, TypeInv', RecvPacket("client")
    PROVE  StreamInv'
<1> USE DEF StreamInv, TypeInv
<1>1. "client" \in Endpoint /\ "server" \in Endpoint /\ TypeOK /\ TypeOK'
  BY DEF Endpoint
<1> DEFINE x == Head(wire["client"])
<1>2. /\ wire["client"] \in Seq(Packet) /\ wire["client"] # << >>
      /\ wire["server"] \in Seq(Packet) /\ network_recv_queue["client"] \in Seq(Packet)
  BY <1>1 DEF RecvPacket, TypeOK
<1>3. /\ wire'["client"] = Tail(wire["client"]) /\ wire'["server"] = wire["server"]
      /\ network_recv_queue'["client"] = Append(network_recv_queue["client"], x)
      /\ network_recv_queue'["server"] = network_recv_queue["server"]
  BY <1>1 DEF RecvPacket, Enqueued, TypeOK
<1>4. SameServer /\ SameClient /\ bytes_written' = bytes_written
  BY <1>1 DEF RecvPacket, SameServer, SameClient, context, thread, application
<1>5. x \in Packet /\ x \in Elements(wire["client"])
  BY <1>2, ElementsOf, TailRest
<1> HIDE DEF x
<1>6. InFlight("client")' \subseteq InFlight("client") /\ InFlight("server")' = InFlight("server")
  <2>1. /\ Elements(Append(network_recv_queue["client"], x)) = Elements(network_recv_queue["client"]) \cup {x}
        /\ Elements(Tail(wire["client"])) \subseteq Elements(wire["client"])
    BY <1>2, <1>5, ElementsOf
  <2>2. /\ InFlight("client")' = Elements(network_recv_queue'["client"]) \cup Elements(wire'["client"])
        /\ InFlight("server")' = Elements(network_recv_queue'["server"]) \cup Elements(wire'["server"])
    BY DEF InFlight, Elements
  <2>3. QED
    BY <1>3, <1>5, <2>1, <2>2 DEF InFlight
<1>7. /\ Sent' = Sent /\ Got' = Got
      /\ (FinHandled' <=> FinHandled) /\ (FinSent' <=> FinSent)
      /\ (Fresh' <=> Fresh) /\ (Waiting' <=> Waiting)
      /\ (Handshaking("server")' <=> Handshaking("server"))
      /\ (Handshaking("client")' <=> Handshaking("client"))
  BY <1>4, ServerFrame, ClientFrame
<1>8. StateInv("server")' /\ StateInv("client")' /\ ServerInv' /\ ClientInv'
  BY <1>1, <1>4, ServerFrame, ClientFrame
<1>9. FlowInv'
  BY <1>3, <1>4, <1>7, FlowSame DEF SameServer
<1>10. SegmentInv'
  <2>1. FinHandled' => FinSent' /\ Got' = Sent'
    BY <1>7 DEF SegmentInv
  <2>2. QED
    BY <1>6, <1>7, <2>1, SegmentQuiet
<1>11. HandshakeInv'
  <2>1. pc'["client"] = pc["client"] /\ connection_state'["client"] = connection_state["client"]
    BY <1>4 DEF SameClient
  <2>2. FirstEmpty' <=> FirstEmpty
    BY <1>3 DEF FirstEmpty
  <2>3. CASE pc["client"] = "start"
    BY <1>1, <1>2, <2>3 DEF HandshakeInv
  <2>4. CASE pc["client"] = "handshake"
    <3>1. /\ Waiting /\ connection_state["client"] = "SYN_SENT"
          /\ network_recv_queue["server"] = << >> /\ wire["server"] = << >>
          /\ \A e \in Endpoint : \A p \in InFlight(e) : p.flags = "SYN" /\ p.len = 0
      BY <1>2, <2>4 DEF HandshakeInv
    <3>2. \A e \in Endpoint : \A p \in InFlight(e)' : p.flags = "SYN" /\ p.len = 0
      BY <1>6, <3>1 DEF Endpoint
    <3>3. Handshaking("client")
      BY <2>4 DEF Handshaking
    <3>4. QED
      BY <1>3, <1>7, <2>1, <2>4, <3>1, <3>2, <3>3 DEF HandshakeInv
  <2>5. CASE ~Handshaking("client")
    BY <1>7, <2>1, <2>2, <2>5 DEF HandshakeInv, Handshaking
  <2>6. QED
    BY <2>3, <2>4, <2>5 DEF Handshaking
<1>12. QED
  BY <1>8, <1>9, <1>10, <1>11 DEF Endpoint

-----------------------------------------------------------------------------
(* Steps of the server *)

(* After the server's handshake nothing is left to show of either. *)
LEMMA ServerKeepsHandshake ==
    ASSUME HandshakeInv, SameClient, ~Handshaking("server"), ~Handshaking("server")'
    PROVE  HandshakeInv'
<1>1. ~Fresh /\ ~Waiting /\ ~Fresh' /\ ~Waiting'
  BY DEF Handshaking, Fresh, Waiting
<1>2. pc["client"] # "start" /\ pc["client"] # "handshake"
  BY <1>1 DEF HandshakeInv
<1>3. QED
  BY <1>1, <1>2 DEF HandshakeInv, SameClient

(* A step after the handshake in which the server sends nothing *)
LEMMA ServerQuiet ==
    ASSUME StreamInv, TypeInv', SameClient,
           ~Handshaking("server"), ~Handshaking("server")',
           FinHandled' <=> FinHandled,
           Got' = Got,
           wire' = wire,
           network_recv_queue'["client"] = network_recv_queue["client"],
           Elements(network_recv_queue'["server"]) \subseteq Elements(network_recv_queue["server"]),
           FlowInv', StateInv("server")', ServerInv'
    PROVE  StreamInv'
<1>1. Sent' = Sent /\ (FinSent' <=> FinSent)
  BY ClientFrame
<1>2. HandshakeInv'
  BY ServerKeepsHandshake DEF StreamInv
<1>3. StateInv("client")' /\ ClientInv'
  BY ClientFrame DEF StreamInv, Endpoint
<1>4. SegmentInv'
  <2>1. InFlight("server")' \subseteq InFlight("server") /\ InFlight("client")' \subseteq InFlight("client")
    BY DEF InFlight, Elements
  <2>2. SegmentInv /\ (FinHandled' => FinSent' /\ Got' = Sent')
    BY <1>1 DEF StreamInv, SegmentInv
  <2>3. QED
    BY <1>1, <2>1, <2>2, SegmentQuiet
<1>5. QED
  BY <1>2, <1>3, <1>4 DEF StreamInv, Endpoint

(* A step after the handshake in which the server sends segment p *)
LEMMA ServerSends ==
    ASSUME Unreliable = {}, StreamInv, TypeInv', SameClient,
           ~Handshaking("server"), ~Handshaking("server")',
           FinHandled => FinHandled',
           FinHandled' => FinSent /\ Got' = Sent,
           NEW p \in Packet, NetworkSend("server", p), p.flags = "FIN" => FinHandled',
           network_recv_queue'["client"] = network_recv_queue["client"],
           Elements(network_recv_queue'["server"]) \subseteq Elements(network_recv_queue["server"]),
           FlowInv', StateInv("server")', ServerInv'
    PROVE  StreamInv'
<1>1. Sent' = Sent /\ (FinSent' <=> FinSent)
  BY ClientFrame
<1>2. HandshakeInv'
  BY ServerKeepsHandshake DEF StreamInv
<1>3. StateInv("client")' /\ ClientInv'
  BY ClientFrame DEF StreamInv, Endpoint
<1>4. SegmentInv'
  <2>1. "server" \in Endpoint /\ Peer("server") = "client" /\ TypeOK
    BY DEF Endpoint, Peer, StreamInv, TypeInv
  <2>2. /\ Elements(wire["client"])' = Elements(wire["client"]) \cup {p}
        /\ Elements(wire["server"])' = Elements(wire["server"])
    BY <2>1, ReliableSend
  <2>3. InFlight("server")' \subseteq InFlight("server")
    BY <2>2 DEF InFlight, Elements
  <2>4. InFlight("client")' \subseteq InFlight("client") \cup {p}
    BY <2>2 DEF InFlight, Elements
  <2>5. SegmentInv /\ (FinHandled' => FinSent' /\ Got' = Sent')
    BY <1>1 DEF StreamInv
  <2>6. QED
    BY <1>1, <2>3, <2>4, <2>5, SegmentToClient
<1>5. QED
  BY <1>2, <1>3, <1>4 DEF StreamInv, Endpoint

(* A step in which what the server's application has yet to read stays *)
LEMMA ServerKeeps ==
    ASSUME ServerInv, ~Handshaking("server"), ~Handshaking("server")', SameClient,
           RecvBase'["server"] = RecvBase["server"],
           app_send_queue'["server"] = app_send_queue["server"],
           eof'["server"] = eof["server"], bytes_read'["server"] = bytes_read["server"],
           app["server"] = "closed" => app'["server"] = "closed",
           connection_state'["server"] = "ESTABLISHED" <=> connection_state["server"] = "ESTABLISHED"
    PROVE  ServerInv' /\ Got' = Got /\ (FinHandled' <=> FinHandled)
<1>1. /\ (Open("server")' <=> Open("server")) /\ (FinHandled' <=> FinHandled)
      /\ Got' = Got
  BY DEF Open, FinHandled, Got
<1>2. bytes_written'["client"] = bytes_written["client"]
  BY DEF SameClient
<1>3. QED
  BY <1>1, <1>2 DEF ServerInv

(* Steps of the server that neither take nor send a segment of the stream *)
LEMMA ServerSteps ==
    ASSUME StreamInv, TypeInv', ~Handshaking("server"),
           \/ WaitForEvent("server") \/ WindowFull("server") \/ CloseIgnored("server")
           \/ SendOverrun("server") \/ myclose("server")
           \/ \E n \in WriteSizes : mywrite("server", n)
    PROVE  StreamInv'
<1> USE DEF StreamInv, TypeInv
<1>1. "server" \in Endpoint /\ TypeOK /\ TypeOK'
  BY DEF Endpoint
<1>2. ~Handshaking("server")' /\ StateInv("server")'
  BY <1>1, StateStep DEF Application
<1>3. SameClient /\ network_recv_queue'["client"] = network_recv_queue["client"]
  BY <1>1, OtherSame DEF Transport, Application
<1>4. /\ RecvBase' = RecvBase /\ app_send_queue' = app_send_queue
      /\ network_recv_queue' = network_recv_queue /\ wire' = wire
      /\ eof' = eof /\ bytes_read' = bytes_read
      /\ connection_state' = connection_state
  BY DEF WaitForEvent, WindowFull, CloseIgnored, SendOverrun, myclose, mywrite,
         context, queues, network, application
<1>5. app'["server"] = "closed" <=> app["server"] = "closed"
  BY <1>1, ZenonT(60) DEF WaitForEvent, WindowFull, CloseIgnored, SendOverrun, myclose, mywrite,
              Running, application, TypeOK
<1>6. ServerInv' /\ Got' = Got /\ (FinHandled' <=> FinHandled)
  BY <1>2, <1>3, <1>4, <1>5, ServerKeeps
<1>7. FlowInv'
  <2>1. Sent' = Sent
    BY <1>3, ClientFrame
  <2>2. QED
    BY <1>4, <1>5, <1>6, <2>1, FlowSame
<1>8. QED
  BY <1>2, <1>3, <1>4, <1>6, <1>7, ServerQuiet

(* The server sends its own data or its FIN. *)
LEMMA ServerSendsOwn ==
    ASSUME Unreliable = {}, StreamInv, TypeInv', SendData("server") \/ SendFin("server")
    PROVE  StreamInv'
<1> USE DEF StreamInv, TypeInv
<1>1. "server" \in Endpoint /\ Peer("server") = "client" /\ TypeOK /\ TypeOK' /\ ~Handshaking("server")
  BY DEF Endpoint, Peer, SendData, SendFin, Handshaking
<1>2. ~Handshaking("server")' /\ StateInv("server")'
  BY <1>1, StateStep
<1>3. SameClient /\ network_recv_queue' = network_recv_queue
  BY <1>1, OtherSame DEF Transport, SendData, SendFin, queues
<1>4. /\ RecvBase' = RecvBase /\ app_send_queue' = app_send_queue
      /\ eof' = eof /\ bytes_read' = bytes_read /\ app' = app
  BY DEF SendData, SendFin, queues, application
<1>5. connection_state'["server"] = "ESTABLISHED" <=> connection_state["server"] = "ESTABLISHED"
  <2>1. CASE SendData("server")
    BY <2>1 DEF SendData
  <2>2. CASE SendFin("server")
    BY <1>1, <2>2 DEF SendFin, MaySendFin, TypeOK
  <2>3. QED
    BY <2>1, <2>2
<1>6. ServerInv' /\ Got' = Got /\ (FinHandled' <=> FinHandled)
  BY <1>1, <1>2, <1>3, <1>4, <1>5, ServerKeeps
<1>7. PICK p \in Packet : NetworkSend("server", p) /\ (p.flags = "FIN" => FinHandled')
  <2>1. next_seqnum["server"] \in Nat
    BY <1>1 DEF TypeOK
  <2>2. CASE SendData("server")
    <3> DEFINE q == app_recv_queue["server"]
               x == [flags |-> "DATA", th_seq |-> TcpSeq(next_seqnum["server"]), th_ack |-> 0,
                     len |-> data_size("server"), pos |-> Head(q).from]
    <3>1. q \in Seq(Chunk) /\ q # << >> /\ rem["server"] \in Nat /\ MSS \in Nat
      BY <1>1, <2>2, ConstantsAssumption DEF SendData, TypeOK, AppPhase
    <3>2. Head(q) \in Chunk
      BY <3>1
    <3>3. Head(q).from \in Nat /\ data_size("server") \in Nat
      BY <3>1, <3>2 DEF Chunk, data_size, max_size, MIN
    <3>4. x \in Packet /\ x.flags = "DATA"
      BY <2>1, <3>3, TcpSeqType DEF Packet
    <3>5. NetworkSend("server", x)
      BY <2>2 DEF SendData
    <3> HIDE DEF x
    <3>6. QED
      BY <3>4, <3>5
  <2>3. CASE SendFin("server")
    <3> DEFINE x == [flags |-> "FIN", th_seq |-> TcpSeq(next_seqnum["server"]), th_ack |-> 0,
                     len |-> 0, pos |-> next_seqnum["server"]]
    <3>1. x \in Packet
      BY <2>1, TcpSeqType DEF Packet
    <3>2. NetworkSend("server", x)
      BY <2>3 DEF SendFin
    <3>3. FinHandled
      BY <1>1, <2>3 DEF SendFin, MaySendFin, FinHandled
    <3> HIDE DEF x
    <3>4. QED
      BY <1>6, <3>1, <3>2, <3>3
  <2>4. QED
    BY <2>2, <2>3
<1>8. FlowInv'
  <2>1. wire'["server"] = wire["server"]
    BY <1>1, <1>7, ReliableSend
  <2>2. Sent' = Sent
    BY <1>3, ClientFrame
  <2>3. QED
    BY <1>3, <1>4, <1>6, <2>1, <2>2, FlowSame
<1>9. FinHandled' => FinSent /\ Got' = Sent
  BY <1>6 DEF SegmentInv
<1>10. QED
  BY <1>1, <1>2, <1>3, <1>6, <1>7, <1>8, <1>9, ServerSends

(* The segment the server takes is the next one of the client's stream. *)
LEMMA ServerHead ==
    ASSUME StreamInv, NetworkRecv("server"), pc["server"] \in {"net", "close"}
    PROVE  /\ app["server"] # "closed"
           /\ Received("server") \in Packet
           /\ Received("server").len \in Nat
           /\ Received("server").flags # "DATA" => Received("server").len = 0
           /\ Received("server").pos = Got
           /\ Got = RecvBase["server"] /\ Got \in Nat
           /\ Received("server").flags = "FIN" => FinSent /\ Got + 1 = Sent
           /\ FinHandled => Size(Received("server")) = 0
<1> USE DEF StreamInv, TypeInv
<1>1. "server" \in Endpoint /\ TypeOK
  BY DEF Endpoint
<1>2. network_recv_queue["server"] # << >> /\ Received("server") \in InFlight("server")
  BY <1>1, QueueTail
<1>3. app["server"] # "closed"
  BY <1>1 DEF StateInv
<1>4. /\ Received("server") \in Packet
      /\ Received("server").pos = Got
      /\ Got + Size(Received("server")) <= Sent
  BY <1>1, <1>2, <1>3, FlowHead
<1>5. Got = RecvBase["server"] /\ Got \in Nat /\ Sent \in Nat
  BY <1>1, PositionType DEF Got, Handshaking
<1>6. ToServerOK(Received("server"))
  BY <1>2 DEF SegmentInv
<1>7. Received("server").len \in Nat /\ Size(Received("server")) \in Nat
  BY <1>4, SizeType
<1>8. FinHandled => Got = Sent
  BY DEF SegmentInv
<1>9. FinHandled => Size(Received("server")) = 0
  BY <1>4, <1>5, <1>7, <1>8
<1>10. QED
  BY <1>3, <1>4, <1>5, <1>6, <1>7, <1>9 DEF ToServerOK

(* The server takes a segment that is not part of the stream. *)
LEMMA ServerReceives ==
    ASSUME StreamInv, TypeInv', ~Handshaking("server"),
           \/ RecvAck("server") \/ AckOverrun("server") \/ ClosingRecv("server")
           \/ ChecksumAbort("server")
    PROVE  StreamInv'
<1> USE DEF StreamInv, TypeInv
<1>1. "server" \in Endpoint /\ TypeOK /\ TypeOK'
  BY DEF Endpoint
<1>2. ~Handshaking("server")' /\ StateInv("server")'
  BY <1>1, StateStep
<1>3. NetworkRecv("server") /\ pc["server"] \in {"net", "close"}
  BY DEF RecvAck, AckOverrun, ClosingRecv, ChecksumAbort, HandlesPacket, HeaderOnlyRecv, Handshaking
<1>4. SameClient /\ network_recv_queue'["client"] = network_recv_queue["client"]
  BY <1>1, OtherSame DEF Transport
<1>5. /\ RecvBase' = RecvBase /\ app_send_queue' = app_send_queue /\ wire' = wire
      /\ eof' = eof /\ bytes_read' = bytes_read /\ app' = app
  BY DEF RecvAck, AckOverrun, ClosingRecv, ChecksumAbort, context, network, application
<1>6. connection_state'["server"] = "ESTABLISHED" <=> connection_state["server"] = "ESTABLISHED"
  BY <1>1 DEF TypeOK, RecvAck, AckOverrun, ClosingRecv, ChecksumAbort, StateAfterClosingRecv,
              AwaitsFinAck, context
<1>7. ServerInv' /\ Got' = Got /\ (FinHandled' <=> FinHandled)
  BY <1>2, <1>4, <1>5, <1>6, ServerKeeps
<1>8. Size(Received("server")) = 0
  <2>1. CASE RecvAck("server") \/ AckOverrun("server")
    BY <1>3, <2>1, ServerHead DEF RecvAck, AckOverrun, Size
  <2>2. CASE ClosingRecv("server") \/ ChecksumAbort("server")
    <3>1. FinHandled
      BY <2>2 DEF ClosingRecv, ChecksumAbort, HeaderOnlyRecv, AwaitsFinAck, FinHandled, Handshaking
    <3>2. QED
      BY <1>3, <3>1, ServerHead
  <2>3. QED
    BY <2>1, <2>2
<1>9. /\ network_recv_queue["server"] # << >>
      /\ network_recv_queue'["server"] = Tail(network_recv_queue["server"])
      /\ Elements(network_recv_queue'["server"]) \subseteq Elements(network_recv_queue["server"])
  BY <1>1, <1>3, QueueTail
<1>10. FlowInv'
  <2>1. Sent' = Sent
    BY <1>4, ClientFrame
  <2>2. app["server"] # "closed" /\ Got \in Nat
    BY <1>3, ServerHead
  <2>3. Got' = Got + Size(Received("server"))
    BY <1>7, <1>8, <2>2
  <2>4. QED
    BY <1>1, <1>5, <1>9, <2>1, <2>2, <2>3, FlowRecv
<1>11. QED
  BY <1>2, <1>4, <1>5, <1>7, <1>9, <1>10, ServerQuiet

(* The last end-of-file node, and the end of the server's socket *)
LEMMA ServerEnds ==
    ASSUME StreamInv, TypeInv', TransportReturn("server") \/ mycloseReturn("server")
    PROVE  StreamInv'
<1> USE DEF StreamInv, TypeInv
<1> DEFINE q == app_send_queue["server"]
<1>1. "server" \in Endpoint /\ TypeOK /\ TypeOK' /\ ~Handshaking("server")
  BY DEF Endpoint, TransportReturn, mycloseReturn, Handshaking
<1>2. ~Handshaking("server")' /\ StateInv("server")'
  BY <1>1, StateStep DEF Application
<1>3. SameClient /\ network_recv_queue'["client"] = network_recv_queue["client"]
  BY <1>1, OtherSame DEF Transport, Application
<1>4. /\ RecvBase' = RecvBase /\ wire' = wire /\ connection_state' = connection_state
      /\ eof' = eof /\ bytes_read' = bytes_read
      /\ bytes_written'["client"] = bytes_written["client"]
  BY <1>3 DEF TransportReturn, mycloseReturn, SameClient, context, network, application
<1>5. /\ (FinHandled' <=> FinHandled) /\ Got' = Got /\ FinHandled /\ ~Open("server")'
      /\ Sent' = Sent
  <2>1. connection_state["server"] = "CLOSED"
    BY <1>1 DEF TransportReturn, mycloseReturn, StateInv
  <2>2. QED
    BY <1>1, <1>2, <1>3, <1>4, <2>1, ClientFrame DEF FinHandled, Got, Open
<1>6. CASE TransportReturn("server")
  <2> DEFINE x == [from |-> RecvBase["server"], len |-> 0]
             b == RecvBase["server"] - 1
  <2>1. /\ app_send_queue'["server"] = Append(q, x) /\ app' = app
        /\ network_recv_queue' = network_recv_queue
    BY <1>1, <1>6 DEF TransportReturn, Enqueued, EofNode, TypeOK, application
  <2>2. q \in Seq(Chunk) /\ x \in Chunk /\ x.len = 0 /\ RecvBase["server"] \in Nat
        /\ bytes_read["server"] \in Nat
    BY <1>1 DEF TypeOK, Chunk
  <2>3. app["server"] # "closed"
    BY <1>1, <1>6 DEF TransportReturn, StateInv
  <2>4. ASSUME ~eof["server"]
        PROVE  /\ Stream(Append(q, x), 1 + bytes_read["server"])
               /\ FirstEofAt(Append(q, x), b)
               /\ Append(q, x) # << >> /\ Append(q, x)[Len(Append(q, x))].len = 0
    <3>1. /\ Stream(q, 1 + bytes_read["server"]) /\ FirstEofAt(q, b)
          /\ q # << >> /\ q[Len(q)].len = 0
      BY <1>5, <2>3, <2>4 DEF ServerInv
    <3>2. b \in Nat
      <4>1. Got = Sent /\ FinSent
        BY <1>5 DEF SegmentInv
      <4>2. Sent = bytes_written["client"] + 2 /\ bytes_written["client"] \in Nat
        BY <1>1, <4>1 DEF ClientInv, FinSent, Sent, TypeOK, Endpoint
      <4>3. Got = RecvBase["server"]
        BY <1>1 DEF Got
      <4>4. QED
        BY <4>1, <4>2, <4>3
    <3>3. 1 + bytes_read["server"] \in Nat
      BY <2>2
    <3>4. Len(Append(q, x)) = Len(q) + 1 /\ Append(q, x)[Len(q) + 1] = x /\ Append(q, x) # << >>
      BY <2>2, AppendLast
    <3> HIDE DEF q, x, b
    <3>5. Stream(Append(q, x), 1 + bytes_read["server"]) /\ FirstEofAt(Append(q, x), b)
      BY <2>2, <3>1, <3>2, <3>3, EofAppend
    <3>6. QED
      BY <2>2, <3>4, <3>5
  <2>5. ASSUME eof["server"]
        PROVE  \A i \in 1 .. Len(Append(q, x)) : Append(q, x)[i].len = 0
    <3>1. \A i \in 1 .. Len(q) : q[i].len = 0
      BY <2>5 DEF ServerInv
    <3>2. QED
      BY <2>2, <3>1, AppendLast
  <2> HIDE DEF q, x, b
  <2>6. ServerInv'
    <3>1. eof["server"] => bytes_read["server"] = bytes_written["client"]
      BY DEF ServerInv
    <3>2. QED
      BY <1>2, <1>4, <1>5, <2>1, <2>4, <2>5, <3>1 DEF ServerInv, b
  <2>7. FlowInv'
    BY <1>4, <1>5, <2>1, FlowSame
  <2>8. Elements(network_recv_queue'["server"]) \subseteq Elements(network_recv_queue["server"])
    BY <2>1
  <2>9. QED
    BY <1>1, <1>2, <1>3, <1>4, <1>5, <2>6, <2>7, <2>8, ServerQuiet
<1>7. CASE mycloseReturn("server")
  <2>1. /\ app_send_queue'["server"] = << >> /\ network_recv_queue'["server"] = << >>
        /\ app'["server"] = "closed"
    BY <1>1, <1>7 DEF mycloseReturn, FreedQueue, TypeOK
  <2>2. Elements(network_recv_queue'["server"]) \subseteq Elements(network_recv_queue["server"])
    BY <2>1 DEF Elements
  <2>3. FlowInv'
    BY <2>1 DEF FlowInv
  <2>4. ServerInv'
    <3>1. eof["server"] => bytes_read["server"] = bytes_written["client"]
      BY DEF ServerInv
    <3>2. \A a : Stream(<< >>, a)
      BY DEF Stream
    <3>3. QED
      BY <1>2, <1>4, <1>5, <2>1, <3>1, <3>2 DEF ServerInv
  <2>5. QED
    BY <1>1, <1>2, <1>3, <1>4, <1>5, <2>2, <2>3, <2>4, ServerQuiet
<1>8. QED
  BY <1>6, <1>7

(* The server's application reads. *)
LEMMA ServerReads ==
    ASSUME StreamInv, TypeInv', NEW n \in ReadSizes, myread("server", n)
    PROVE  StreamInv'
<1> USE DEF StreamInv, TypeInv
<1> DEFINE q == app_send_queue["server"]
           r == bytes_read["server"]
           g == MIN(n, q[1].len)
           t == BufferAfter(q, n)
<1>1. "server" \in Endpoint /\ TypeOK /\ TypeOK' /\ ~Handshaking("server") /\ Application("server")
  BY DEF Endpoint, myread, Running, Application
<1>2. ~Handshaking("server")' /\ StateInv("server")'
  BY <1>1, StateStep
<1>3. SameClient /\ network_recv_queue' = network_recv_queue
  BY <1>1, OtherSame DEF myread
<1>4. /\ q \in Seq(Chunk) /\ q # << >> /\ n \in Nat \ {0} /\ r \in Nat
      /\ RecvBase["server"] \in Nat /\ ~eof["server"] /\ app["server"] = "open"
  BY <1>1, ConstantsAssumption DEF myread, Running, TypeOK
<1>5. 1 \in 1 .. Len(q) /\ Len(q) \in 1 .. Len(q) /\ Head(q) = q[1]
      /\ q[1].len \in Nat /\ q[Len(q)].len \in Nat
  <2>1. 1 \in 1 .. Len(q) /\ Len(q) \in 1 .. Len(q) /\ Head(q) = q[1]
    BY <1>4
  <2>2. QED
    BY <1>4, <2>1, ChunkType
<1>6. /\ RecvBase' = RecvBase /\ wire' = wire /\ connection_state' = connection_state /\ app' = app
      /\ bytes_written' = bytes_written
      /\ app_send_queue'["server"] = t
      /\ bytes_read'["server"] = r + g
      /\ eof'["server"] <=> g = 0
  <2>1. /\ RecvBase' = RecvBase /\ wire' = wire /\ connection_state' = connection_state
        /\ app' = app /\ bytes_written' = bytes_written
        /\ app_send_queue' = [app_send_queue EXCEPT !["server"] = BufferAfter(@, n)]
        /\ bytes_read' = [bytes_read EXCEPT !["server"] = @ + MIN(n, Head(q).len)]
        /\ eof' = [eof EXCEPT !["server"] = (MIN(n, Head(q).len) = 0)]
    BY DEF myread, context, network
  <2>2. app_send_queue'["server"] = t /\ bytes_read'["server"] = r + g
    BY <1>1, <1>5, <2>1 DEF TypeOK
  <2>3. eof'["server"] = (MIN(n, Head(q).len) = 0)
    BY <1>1, <2>1, ZenonT(30) DEF TypeOK
  <2>4. eof'["server"] <=> g = 0
    BY <1>5, <2>3
  <2>5. QED
    BY <2>1, <2>2, <2>4
<1>7. /\ (FinHandled' <=> FinHandled) /\ Got' = Got /\ (Open("server")' <=> Open("server"))
      /\ Sent' = Sent
  BY <1>1, <1>2, <1>3, <1>6, ClientFrame DEF FinHandled, Got, Open
<1> HIDE DEF q, r, g, t
<1>8. /\ Stream(q, 1 + r)
      /\ Open("server") => EndsAt(q, 1 + r, RecvBase["server"])
      /\ FinHandled => /\ FirstEofAt(q, RecvBase["server"] - 1)
                        /\ q[Len(q)].len = 0
  BY <1>4 DEF ServerInv, q, r
<1>9. FinHandled => /\ RecvBase["server"] = bytes_written["client"] + 2
                     /\ bytes_written["client"] \in Nat
  <2>1. FinHandled => Got = Sent /\ FinSent
    BY DEF SegmentInv
  <2>2. FinSent => Sent = bytes_written["client"] + 2
    BY DEF ClientInv, FinSent, Sent
  <2>3. Got = RecvBase["server"] /\ bytes_written["client"] \in Nat
    BY <1>1 DEF Got, TypeOK, Endpoint
  <2>4. QED
    BY <2>1, <2>2, <2>3
<1>10. FinHandled \/ Open("server")
  BY <1>1 DEF FinHandled, Open
<1>11. ServerInv'
  <2>1. CASE q[1].len > 0
    <3>1. RecvBase["server"] \in Nat /\ 1 + r \in Nat /\ (FinHandled => RecvBase["server"] - 1 \in Nat)
      BY <1>4, <1>9
    <3>2. /\ g \in Nat /\ 1 + r + g \in Nat
          /\ Stream(t, 1 + r + g)
          /\ \A b \in Nat : EndsAt(q, 1 + r, b) => EndsAt(t, 1 + r + g, b)
          /\ \A b \in Nat : FirstEofAt(q, b) => FirstEofAt(t, b)
          /\ q[Len(q)].len = 0 => t # << >> /\ t[Len(t)].len = 0
      BY <1>4, <1>8, <2>1, <3>1, StreamTake DEF g, t
    <3>3. g # 0
      BY <1>4, <1>5, <2>1 DEF g, MIN
    <3>4. 1 + r + g = 1 + (r + g)
      BY <1>4, <3>2
    <3>5. ~eof'["server"]
      BY <1>6, <3>3
    <3>6. Stream(t, 1 + (r + g)) /\ (Open("server") => EndsAt(t, 1 + (r + g), RecvBase["server"]))
      BY <1>8, <3>1, <3>2, <3>4
    <3>7. FinHandled => FirstEofAt(t, RecvBase["server"] - 1) /\ t # << >> /\ t[Len(t)].len = 0
      BY <1>8, <3>1, <3>2
    <3>8. QED
      BY <1>2, <1>6, <1>7, <3>5, <3>6, <3>7 DEF ServerInv
  <2>2. CASE ~(q[1].len > 0)
    <3>1. q[1].len = 0 /\ g = 0
      BY <1>4, <1>5, <2>2 DEF g, MIN
    <3>2. \A j \in 1 .. Len(q) : q[j].len = 0
      <4>1. \A j \in 1 .. Len(q) : j # 1 => 1 < j
        OBVIOUS
      <4>2. QED
        BY <1>5, <1>8, <3>1, <4>1 DEF Stream
    <3>3. FinHandled
      <4>1. q[Len(q)].len = 0
        BY <1>5, <3>2
      <4>2. ~Open("server")
        BY <1>4, <1>8, <4>1 DEF EndsAt
      <4>3. QED
        BY <1>10, <4>2
    <3>4. r = bytes_written["client"]
      <4>1. q[1].from = 1 + r
        BY <1>4, <1>8 DEF Stream
      <4>2. q[1].from = RecvBase["server"] - 1
        BY <1>5, <1>8, <3>1, <3>3 DEF FirstEofAt
      <4>3. QED
        BY <1>4, <1>9, <3>3, <4>1, <4>2
    <3>5. t = Tail(q)
      BY <1>4, <1>5, <3>1 DEF t, BufferAfter
    <3>6. \A i \in 1 .. Len(t) : t[i].len = 0
      <4>1. /\ Len(q) \in Nat \ {0} /\ Len(t) = Len(q) - 1
            /\ \A i \in 1 .. Len(q) - 1 : t[i] = q[i + 1]
        BY <1>4, <3>5, TailRest
      <4>2. \A i \in 1 .. Len(t) : i \in 1 .. Len(q) - 1 /\ i + 1 \in 1 .. Len(q)
        BY <4>1
      <4>3. QED
        BY <3>2, <4>1, <4>2
    <3>7. eof'["server"] /\ r + g = r
      BY <1>4, <1>6, <3>1
    <3>8. ~Open("server")
      BY <3>3 DEF FinHandled, Open
    <3>9. QED
      BY <1>2, <1>6, <1>7, <3>3, <3>4, <3>6, <3>7, <3>8 DEF ServerInv
  <2>3. QED
    BY <2>1, <2>2
<1>12. FlowInv'
  BY <1>3, <1>6, <1>7, FlowSame
<1>13. QED
  BY <1>1, <1>2, <1>3, <1>6, <1>7, <1>11, <1>12, ServerQuiet

(* The server acknowledges what it receives and passes it up. *)
LEMMA ServerAcknowledges ==
    ASSUME Unreliable = {}, StreamInv, TypeInv', RecvFin("server") \/ RecvData("server")
    PROVE  StreamInv'
<1> USE DEF StreamInv, TypeInv
<1> DEFINE p == Received("server")
           q == app_send_queue["server"]
           r == bytes_read["server"]
           b == RecvBase["server"]
<1>1. "server" \in Endpoint /\ Peer("server") = "client" /\ TypeOK /\ TypeOK' /\ ~Handshaking("server")
  BY DEF Endpoint, Peer, RecvFin, RecvData, HandlesPacket, Handshaking
<1>2. ~Handshaking("server")' /\ StateInv("server")'
  BY <1>1, StateStep
<1>3. NetworkRecv("server") /\ pc["server"] \in {"net", "close"}
  BY DEF RecvFin, RecvData, HandlesPacket
<1>4. SameClient /\ network_recv_queue'["client"] = network_recv_queue["client"]
  BY <1>1, OtherSame DEF Transport
<1>5. /\ network_recv_queue["server"] # << >>
      /\ network_recv_queue'["server"] = Tail(network_recv_queue["server"])
      /\ Elements(network_recv_queue'["server"]) \subseteq Elements(network_recv_queue["server"])
  BY <1>1, <1>3, QueueTail
<1>6. /\ app["server"] # "closed"
      /\ p \in Packet /\ p.len \in Nat /\ (p.flags # "DATA" => p.len = 0)
      /\ p.pos = b /\ Got = b
      /\ p.flags = "FIN" => FinSent /\ b + 1 = Sent
      /\ FinHandled => Size(p) = 0
  BY <1>3, ServerHead
<1>7. /\ q \in Seq(Chunk) /\ r \in Nat /\ 1 + r \in Nat /\ b \in Nat
      /\ next_seqnum["server"] \in Nat /\ p.th_seq \in Nat
  <2>1. q \in Seq(Chunk) /\ r \in Nat /\ b \in Nat /\ next_seqnum["server"] \in Nat
    BY <1>1 DEF TypeOK
  <2>2. \A x \in Packet : x.th_seq \in Nat
    BY DEF Packet
  <2>3. p.th_seq \in Nat
    BY <1>6, <2>2
  <2>4. 1 + r \in Nat
    BY <2>1
  <2>5. QED
    BY <2>1, <2>3, <2>4
<1>8. eof' = eof /\ bytes_read' = bytes_read /\ app' = app /\ bytes_written' = bytes_written
  BY DEF RecvFin, RecvData, application
<1>9. Sent' = Sent /\ Got' = RecvBase'["server"]
  BY <1>2, <1>4, ClientFrame DEF Got
<1>10. /\ ~FinHandled => ~eof["server"] /\ Open("server")
       /\ ~eof["server"] => Stream(q, 1 + r)
       /\ Open("server") => EndsAt(q, 1 + r, b)
  BY <1>1 DEF ServerInv, FinHandled, Open
<1>11. \A i, j \in Nat : [flags |-> "ACK", th_seq |-> TcpSeq(i), th_ack |-> TcpSeq(j), len |-> 0,
                          pos |-> next_seqnum["server"]] \in Packet
  BY <1>7, TcpSeqType DEF Packet
<1>12. CASE RecvFin("server")
  <2> DEFINE x == [from |-> p.pos, len |-> 0]
             y == [flags |-> "ACK", th_seq |-> TcpSeq(b + 1), th_ack |-> TcpSeq(p.th_seq + 1),
                   len |-> 0, pos |-> next_seqnum["server"]]
  <2>1. /\ app_send_queue'["server"] = Append(q, x)
        /\ RecvBase'["server"] = b + 1
        /\ connection_state'["server"] = "CLOSE_WAIT"
    BY <1>1, <1>12 DEF RecvFin, StateAfterFin, Enqueued, EofNode, TypeOK
  <2>2. NetworkSend("server", y) /\ y \in Packet /\ y.flags = "ACK"
    BY <1>7, <1>11, <1>12 DEF RecvFin
  <2>3. p.flags = "FIN" /\ Size(p) = 1
    BY <1>12 DEF RecvFin, Size
  <2>4. ~FinHandled /\ FinSent /\ b + 1 = Sent
    BY <1>6, <2>3
  <2>5. FinHandled' /\ ~Open("server")' /\ Got' = Sent /\ Got' = Got + Size(p)
    BY <1>2, <1>6, <1>9, <2>1, <2>3, <2>4 DEF FinHandled, Open
  <2>6. x \in Chunk /\ x.from = b /\ x.len = 0
    BY <1>6, <1>7 DEF Chunk
  <2> HIDE DEF p, q, r, b, x, y
  <2>7. Stream(Append(q, x), 1 + r) /\ FirstEofAt(Append(q, x), b)
    BY <1>7, <1>10, <2>4, <2>6, StreamAppend
  <2>8. Append(q, x) # << >> /\ Append(q, x)[Len(Append(q, x))] = x
    BY <1>7, <2>6, AppendLast
  <2>9. ServerInv'
    <3>1. ~eof'["server"]
      BY <1>8, <1>10, <2>4
    <3>2. RecvBase'["server"] - 1 = b
      BY <1>7, <2>1
    <3>3. /\ FirstEofAt(app_send_queue'["server"], RecvBase'["server"] - 1)
          /\ Stream(app_send_queue'["server"], 1 + bytes_read'["server"])
          /\ app_send_queue'["server"] # << >>
          /\ app_send_queue'["server"][Len(app_send_queue'["server"])].len = 0
      BY <1>8, <2>1, <2>6, <2>7, <2>8, <3>2 DEF r
    <3>4. QED
      BY <1>2, <2>5, <3>1, <3>3 DEF ServerInv
  <2>10. FlowInv'
    <3>1. wire'["server"] = wire["server"]
      BY <1>1, <2>2, ReliableSend
    <3>2. QED
      BY <1>1, <1>5, <1>6, <1>9, <2>5, <3>1, FlowRecv DEF p
  <2>11. QED
    BY <1>1, <1>2, <1>4, <1>5, <2>2, <2>4, <2>5, <2>9, <2>10, ServerSends
<1>13. CASE RecvData("server")
  <2> DEFINE x == [from |-> p.pos, len |-> p.len]
             y == [flags |-> "ACK", th_seq |-> TcpSeq(b + p.len), th_ack |-> AckNumber(p),
                   len |-> 0, pos |-> next_seqnum["server"]]
  <2>1. /\ app_send_queue'["server"] = PassedUp("server", p)
        /\ RecvBase'["server"] = b + p.len
        /\ connection_state' = connection_state
    BY <1>1, <1>13 DEF RecvData, TypeOK
  <2>2. NetworkSend("server", y) /\ y \in Packet /\ y.flags = "ACK"
    <3>1. b + p.len \in Nat /\ p.th_seq + p.len \in Nat
      BY <1>6, <1>7
    <3>2. QED
      BY <1>11, <1>13, <3>1 DEF RecvData, AckNumber
  <2>3. Size(p) = p.len
    BY <1>13 DEF RecvData, Size
  <2>4. (FinHandled' <=> FinHandled) /\ (Open("server")' <=> Open("server"))
    BY <1>1, <1>2, <2>1 DEF FinHandled, Open
  <2>5. Got' = Got + Size(p)
    BY <1>6, <1>9, <2>1, <2>3
  <2>6. x \in Chunk /\ x.from = b /\ x.len = p.len
    BY <1>6, <1>7 DEF Chunk
  <2>7. app_send_queue'["server"] = IF p.len = 0 THEN q ELSE Append(q, x)
    BY <2>1 DEF PassedUp, Enqueued
  <2> HIDE DEF p, q, r, b, x, y
  <2>8. ServerInv'
    <3>1. CASE p.len = 0
      <4>1. app_send_queue'["server"] = app_send_queue["server"] /\ RecvBase'["server"] = RecvBase["server"]
        BY <1>7, <2>1, <2>7, <3>1 DEF q, b
      <4>2. QED
        BY <1>1, <1>2, <1>4, <1>8, <2>1, <4>1, ServerKeeps
    <3>2. CASE p.len # 0
      <4>1. ~FinHandled /\ ~eof["server"] /\ Open("server")
        BY <1>6, <1>10, <2>3, <3>2
      <4>2. Stream(Append(q, x), 1 + r) /\ EndsAt(Append(q, x), 1 + r, b + p.len)
        <5>1. x.len > 0
          BY <1>6, <2>6, <3>2
        <5>2. QED
          BY <1>7, <1>10, <2>6, <4>1, <5>1, StreamAppend
      <4>3. QED
        BY <1>2, <1>8, <2>1, <2>4, <2>7, <3>2, <4>1, <4>2 DEF ServerInv, r
    <3>3. QED
      BY <3>1, <3>2
  <2>9. FlowInv'
    <3>1. wire'["server"] = wire["server"]
      BY <1>1, <2>2, ReliableSend
    <3>2. QED
      BY <1>1, <1>5, <1>6, <1>9, <2>5, <3>1, FlowRecv DEF p
  <2>10. FinHandled' => FinSent /\ Got' = Sent
    <3>1. FinHandled => FinSent /\ Got = Sent
      BY DEF SegmentInv
    <3>2. FinHandled => Got' = Got
      BY <1>6, <1>7, <2>5
    <3>3. QED
      BY <2>4, <3>1, <3>2
  <2>11. QED
    BY <1>1, <1>2, <1>4, <1>5, <2>2, <2>4, <2>8, <2>9, <2>10, ServerSends
<1>14. QED
  BY <1>12, <1>13

(* The server starts to listen. *)
LEMMA ServerInit ==
    ASSUME StreamInv, TypeInv', TransportInit("server")
    PROVE  StreamInv'
<1> USE DEF StreamInv, TypeInv
<1>1. "server" \in Endpoint /\ "client" \in Endpoint /\ TypeOK /\ TypeOK'
  BY DEF Endpoint
<1>2. SameClient
  BY <1>1, OtherSame DEF Transport
<1>3. /\ pc["server"] = "start" /\ pc'["server"] = "handshake" /\ connection_state'["server"] = "LISTEN"
      /\ network_recv_queue' = network_recv_queue /\ wire' = wire
      /\ app_send_queue' = app_send_queue /\ eof' = eof /\ bytes_read' = bytes_read /\ app' = app
      /\ event' = event
  BY <1>1 DEF TransportInit, TypeOK, network, queues, application
<1>4. /\ Handshaking("server") /\ Handshaking("server")' /\ Fresh /\ Fresh' /\ ~Waiting /\ ~Waiting'
      /\ ~FinHandled /\ ~FinHandled' /\ Got = 1 /\ Got' = 1 /\ ~Open("server")'
  BY <1>3 DEF Handshaking, Fresh, Waiting, FinHandled, Got, Open
<1>5. Sent' = Sent /\ (FinSent' <=> FinSent) /\ (Handshaking("client")' <=> Handshaking("client"))
      /\ StateInv("client")' /\ ClientInv'
  BY <1>1, <1>2, ClientFrame
<1>6. InFlight("server")' = InFlight("server") /\ InFlight("client")' = InFlight("client")
  BY <1>3 DEF InFlight, Elements
<1>7. HandshakeInv'
  <2>1. pc'["client"] = pc["client"] /\ connection_state'["client"] = connection_state["client"]
    BY <1>2 DEF SameClient
  <2>2. Handshaking("client")
    BY <1>4 DEF HandshakeInv
  <2>3. \A e \in Endpoint : InFlight(e)' = InFlight(e)
    BY <1>6 DEF Endpoint
  <2>4. QED
    BY <1>3, <1>4, <1>5, <2>1, <2>2, <2>3 DEF HandshakeInv
<1>8. StateInv("server")'
  BY <1>1, <1>3, <1>4 DEF StateInv
<1>9. ServerInv'
  <2>1. app_send_queue["server"] = << >> /\ bytes_read["server"] = 0 /\ ~eof["server"]
        /\ Stream(app_send_queue["server"], 1 + bytes_read["server"])
    BY <1>4 DEF ServerInv
  <2>2. QED
    BY <1>3, <1>4, <2>1 DEF ServerInv
<1>10. FlowInv'
  BY <1>3, <1>4, <1>5, FlowSame
<1>11. SegmentInv'
  BY <1>4, <1>5, <1>6, SegmentQuiet
<1>12. QED
  BY <1>5, <1>7, <1>8, <1>9, <1>10, <1>11 DEF Endpoint

(* The segment the server takes in its handshake takes up no sequence      *)
(* number: the client's SYN, then whatever the client sends next.          *)
LEMMA ServerHandshakeHead ==
    ASSUME StreamInv, NetworkRecv("server"), Handshaking("server")
    PROVE  /\ Size(Received("server")) = 0 /\ Received("server").len = 0
           /\ Received("server") \in Packet
           /\ Fresh => /\ pc["client"] = "handshake" /\ Received("server").flags = "SYN"
                       /\ Len(network_recv_queue["server"]) = 1 /\ wire["server"] = << >>
           /\ Waiting => ~Handshaking("client")
<1> USE DEF StreamInv, TypeInv
<1>1. "server" \in Endpoint /\ TypeOK
  BY DEF Endpoint
<1>2. /\ network_recv_queue["server"] # << >> /\ Received("server") \in InFlight("server")
      /\ Received("server") \in Packet
  BY <1>1, QueueTail
<1>3. Fresh \/ Waiting
  BY DEF HandshakeInv
<1>4. ~(Fresh /\ Waiting)
  BY DEF Fresh, Waiting
<1>5. ASSUME Fresh
      PROVE  /\ pc["client"] = "handshake" /\ Received("server").flags = "SYN"
             /\ Received("server").len = 0
             /\ Len(network_recv_queue["server"]) = 1 /\ wire["server"] = << >>
  <2>1. pc["client"] = "handshake"
    BY <1>1, <1>2, <1>5 DEF HandshakeInv, Handshaking
  <2>2. /\ Len(network_recv_queue["server"]) + Len(wire["server"]) = 1
        /\ Received("server").flags = "SYN" /\ Received("server").len = 0
    BY <1>1, <1>2, <1>4, <1>5, <2>1 DEF HandshakeInv
  <2>3. network_recv_queue["server"] \in Seq(Packet) /\ wire["server"] \in Seq(Packet)
    BY <1>1 DEF TypeOK
  <2>4. Len(network_recv_queue["server"]) \in Nat \ {0} /\ Len(wire["server"]) \in Nat
    BY <1>2, <2>3
  <2>5. Len(network_recv_queue["server"]) = 1 /\ Len(wire["server"]) = 0
    <3>1. \A i \in Nat \ {0}, j \in Nat : i + j = 1 => i = 1 /\ j = 0
      OBVIOUS
    <3>2. QED
      BY <2>2, <2>4, <3>1
  <2>6. wire["server"] = << >>
    BY <2>3, <2>5
  <2>7. QED
    BY <2>1, <2>2, <2>5, <2>6
<1>6. ASSUME Waiting PROVE ~Handshaking("client") /\ Size(Received("server")) = 0
  <2>1. ~Handshaking("client")
    BY <1>2, <1>4, <1>6 DEF HandshakeInv, Handshaking
  <2>2. Size(network_recv_queue["server"][1]) = 0
    BY <1>2, <1>6, <2>1 DEF HandshakeInv, FirstEmpty
  <2>3. Received("server") = network_recv_queue["server"][1]
    <3>1. network_recv_queue["server"] \in Seq(Packet)
      BY <1>1 DEF TypeOK
    <3>2. QED
      BY <1>2, <3>1 DEF Received
  <2>4. QED
    BY <2>1, <2>2, <2>3
<1>7. Size(Received("server")) = 0 /\ Received("server").len = 0
  BY <1>3, <1>5, <1>6 DEF Size
<1>8. QED
  BY <1>2, <1>5, <1>6, <1>7

(* The server answers the client's SYN. *)
LEMMA ServerListen ==
    ASSUME Unreliable = {}, StreamInv, TypeInv', Listen("server")
    PROVE  StreamInv'
<1> USE DEF StreamInv, TypeInv
<1>0. PICK p : p = [flags |-> Received("server").flags, th_seq |-> 1,
                    th_ack |-> TcpSeq(Received("server").th_seq + 1), len |-> 0, pos |-> 1]
  OBVIOUS
<1>1. "server" \in Endpoint /\ "client" \in Endpoint /\ Peer("server") = "client" /\ TypeOK /\ TypeOK'
  BY DEF Endpoint, Peer
<1>2. SameClient /\ network_recv_queue'["client"] = network_recv_queue["client"]
  BY <1>1, OtherSame DEF Transport
<1>3. /\ NetworkRecv("server") /\ pc["server"] = "handshake" /\ pc' = pc
      /\ connection_state["server"] = "LISTEN" /\ connection_state'["server"] = "SYN_RCVD"
      /\ NetworkSend("server", p)
      /\ app_send_queue' = app_send_queue /\ eof' = eof /\ bytes_read' = bytes_read /\ app' = app
      /\ event' = event
  BY <1>0, <1>1 DEF Listen, TypeOK, initial_sequence_num, thread, application
<1>4. /\ Handshaking("server") /\ Handshaking("server")' /\ Fresh /\ ~Fresh' /\ ~Waiting /\ Waiting'
      /\ ~FinHandled /\ ~FinHandled' /\ Got = 1 /\ Got' = 1 /\ ~Open("server")'
  BY <1>3 DEF Handshaking, Fresh, Waiting, FinHandled, Got, Open
<1>5. /\ Size(Received("server")) = 0 /\ Received("server").flags = "SYN"
      /\ Received("server") \in Packet
      /\ pc["client"] = "handshake"
      /\ Len(network_recv_queue["server"]) = 1 /\ wire["server"] = << >>
  BY <1>3, <1>4, ServerHandshakeHead
<1>6. p \in Packet /\ p.flags = "SYN" /\ p.len = 0
  <2>1. Received("server").th_seq + 1 \in Nat
    BY <1>5 DEF Packet
  <2>2. QED
    BY <1>0, <1>5, <2>1, TcpSeqType DEF Packet
<1>7. Sent' = Sent /\ (FinSent' <=> FinSent) /\ (Handshaking("client")' <=> Handshaking("client"))
      /\ StateInv("client")' /\ ClientInv'
  BY <1>1, <1>2, ClientFrame
<1>8. /\ network_recv_queue["server"] # << >>
      /\ network_recv_queue'["server"] = Tail(network_recv_queue["server"])
      /\ Elements(network_recv_queue'["server"]) \subseteq Elements(network_recv_queue["server"])
  BY <1>1, <1>3, QueueTail
<1>9. network_recv_queue'["server"] = << >>
  <2>1. network_recv_queue["server"] \in Seq(Packet)
    BY <1>1 DEF TypeOK
  <2>2. QED
    BY <1>5, <1>8, <2>1, TailRest
<1>10. /\ wire'["server"] = wire["server"]
       /\ Elements(wire["client"])' = Elements(wire["client"]) \cup {p}
       /\ Elements(wire["server"])' = Elements(wire["server"])
  BY <1>1, <1>3, <1>6, ReliableSend
<1>11. /\ InFlight("server")' \subseteq InFlight("server")
       /\ InFlight("client")' \subseteq InFlight("client") \cup {p}
  <2>1. InFlight("server")' \subseteq InFlight("server")
    BY <1>8, <1>10 DEF InFlight, Elements
  <2>2. InFlight("client")' \subseteq InFlight("client") \cup {p}
    BY <1>2, <1>10 DEF InFlight, Elements
  <2>3. QED
    BY <2>1, <2>2
<1>12. HandshakeInv'
  <2>1. pc'["client"] = "handshake" /\ connection_state'["client"] = "SYN_SENT"
    BY <1>2, <1>5 DEF SameClient, HandshakeInv
  <2>2. \A e \in Endpoint : \A x \in InFlight(e) : x.flags = "SYN" /\ x.len = 0
    BY <1>5 DEF HandshakeInv
  <2>3. \A e \in Endpoint : \A x \in InFlight(e)' : x.flags = "SYN" /\ x.len = 0
    BY <1>6, <1>11, <2>2 DEF Endpoint
  <2>4. Handshaking("client")'
    BY <2>1 DEF Handshaking
  <2>5. QED
    BY <1>4, <1>5, <1>9, <1>10, <2>1, <2>3, <2>4 DEF HandshakeInv
<1>13. StateInv("server")'
  BY <1>1, <1>3, <1>4 DEF StateInv
<1>14. ServerInv'
  <2>1. app_send_queue["server"] = << >> /\ bytes_read["server"] = 0 /\ ~eof["server"]
        /\ Stream(app_send_queue["server"], 1 + bytes_read["server"])
    BY <1>4 DEF ServerInv
  <2>2. QED
    BY <1>3, <1>4, <2>1 DEF ServerInv
<1>15. FlowInv'
  <2>1. app["server"] # "closed"
    BY <1>1, <1>3 DEF StateInv
  <2>2. Got' = Got + Size(Received("server"))
    BY <1>4, <1>5
  <2>3. QED
    BY <1>1, <1>7, <1>8, <1>10, <2>1, <2>2, FlowRecv
<1>16. SegmentInv'
  BY <1>4, <1>6, <1>7, <1>11, SegmentToClient
<1>17. QED
  BY <1>7, <1>12, <1>13, <1>14, <1>15, <1>16 DEF Endpoint

(* The server's connection is established. *)
LEMMA ServerSynRcvd ==
    ASSUME StreamInv, TypeInv', SynRcvd("server")
    PROVE  StreamInv'
<1> USE DEF StreamInv, TypeInv
<1>1. "server" \in Endpoint /\ "client" \in Endpoint /\ TypeOK /\ TypeOK'
  BY DEF Endpoint
<1>2. SameClient /\ network_recv_queue'["client"] = network_recv_queue["client"]
  BY <1>1, OtherSame DEF Transport
<1>3. /\ NetworkRecv("server") /\ pc["server"] = "handshake" /\ pc'["server"] = "wait"
      /\ connection_state["server"] = "SYN_RCVD" /\ connection_state'["server"] = "ESTABLISHED"
      /\ RecvBase'["server"] = 1 /\ wire' = wire
      /\ app_send_queue' = app_send_queue /\ eof' = eof /\ bytes_read' = bytes_read /\ app' = app
  BY <1>1 DEF SynRcvd, Establish, TypeOK, initial_sequence_num, network, application
<1>4. /\ Handshaking("server") /\ ~Handshaking("server")' /\ ~Fresh' /\ Waiting /\ ~Waiting'
      /\ ~FinHandled /\ ~FinHandled' /\ Got = 1 /\ Got' = 1
  BY <1>3 DEF Handshaking, Fresh, Waiting, FinHandled, Got
<1>5. Size(Received("server")) = 0 /\ ~Handshaking("client")
  BY <1>3, <1>4, ServerHandshakeHead
<1>6. Sent' = Sent /\ (FinSent' <=> FinSent) /\ ~Handshaking("client")'
      /\ StateInv("client")' /\ ClientInv'
  BY <1>1, <1>2, <1>5, ClientFrame
<1>7. /\ network_recv_queue["server"] # << >>
      /\ network_recv_queue'["server"] = Tail(network_recv_queue["server"])
      /\ Elements(network_recv_queue'["server"]) \subseteq Elements(network_recv_queue["server"])
  BY <1>1, <1>3, QueueTail
<1>8. HandshakeInv'
  BY <1>4, <1>6 DEF HandshakeInv, Handshaking
<1>9. StateInv("server")'
  BY <1>1, <1>3, <1>4 DEF StateInv, OpenStates
<1>10. ServerInv'
  <2>1. app_send_queue["server"] = << >> /\ bytes_read["server"] = 0 /\ ~eof["server"]
    BY <1>4 DEF ServerInv
  <2>2. Stream(<< >>, 1 + 0) /\ EndsAt(<< >>, 1 + 0, 1)
    BY DEF Stream, EndsAt
  <2>3. QED
    BY <1>3, <1>4, <2>1, <2>2 DEF ServerInv
<1>11. FlowInv'
  <2>1. app["server"] # "closed"
    BY <1>1, <1>3 DEF StateInv
  <2>2. Got' = Got + Size(Received("server"))
    BY <1>4, <1>5
  <2>3. QED
    BY <1>1, <1>3, <1>6, <1>7, <2>1, <2>2, FlowRecv
<1>12. SegmentInv'
  <2>1. InFlight("server")' \subseteq InFlight("server") /\ InFlight("client")' \subseteq InFlight("client")
    BY <1>2, <1>3, <1>7 DEF InFlight, Elements
  <2>2. QED
    BY <1>4, <1>6, <2>1, SegmentQuiet
<1>13. QED
  BY <1>6, <1>8, <1>9, <1>10, <1>11, <1>12 DEF Endpoint

(* The server's receive thread takes a segment from the wire. *)
LEMMA ServerRecvPacket ==
    ASSUME StreamInv, TypeInv', RecvPacket("server")
    PROVE  StreamInv'
<1> USE DEF StreamInv, TypeInv
<1>1. "client" \in Endpoint /\ "server" \in Endpoint /\ TypeOK /\ TypeOK'
  BY DEF Endpoint
<1> DEFINE s == network_recv_queue["server"]
           w == wire["server"]
           x == Head(w)
<1>2. w \in Seq(Packet) /\ w # << >> /\ s \in Seq(Packet)
  BY <1>1 DEF RecvPacket, TypeOK
<1>3. /\ wire'["server"] = Tail(w) /\ wire'["client"] = wire["client"]
      /\ network_recv_queue'["server"] = Append(s, x)
      /\ network_recv_queue'["client"] = network_recv_queue["client"]
  BY <1>1 DEF RecvPacket, Enqueued, TypeOK
<1>4. SameServer /\ SameClient /\ bytes_written' = bytes_written /\ app' = app
  BY <1>1 DEF RecvPacket, SameServer, SameClient, context, thread, application
<1>5. x \in Packet /\ x \in Elements(w) /\ x = w[1]
  BY <1>2, ElementsOf, TailRest
<1>6. /\ Len(Append(s, x)) = Len(s) + 1 /\ Len(Tail(w)) = Len(w) - 1 /\ Len(s) \in Nat
      /\ Len(w) \in Nat \ {0} /\ Append(s, x) # << >>
      /\ s # << >> => Append(s, x)[1] = s[1]
      /\ s = << >> => Append(s, x)[1] = x
  BY <1>2, <1>5, AppendLast, TailRest
<1> HIDE DEF s, w, x
<1>7. InFlight("server")' \subseteq InFlight("server") /\ InFlight("client")' = InFlight("client")
  <2>1. /\ Elements(Append(s, x)) = Elements(s) \cup {x}
        /\ Elements(Tail(w)) \subseteq Elements(w)
    BY <1>2, <1>5, ElementsOf
  <2>2. /\ InFlight("client")' = Elements(network_recv_queue'["client"]) \cup Elements(wire'["client"])
        /\ InFlight("server")' = Elements(network_recv_queue'["server"]) \cup Elements(wire'["server"])
    BY DEF InFlight, Elements
  <2>3. QED
    BY <1>3, <1>5, <2>1, <2>2 DEF InFlight, s, w
<1>8. /\ Sent' = Sent /\ Got' = Got
      /\ (FinHandled' <=> FinHandled) /\ (FinSent' <=> FinSent)
      /\ (Fresh' <=> Fresh) /\ (Waiting' <=> Waiting)
      /\ (Handshaking("server")' <=> Handshaking("server"))
      /\ (Handshaking("client")' <=> Handshaking("client"))
  BY <1>4, ServerFrame, ClientFrame
<1>9. StateInv("server")' /\ StateInv("client")' /\ ServerInv' /\ ClientInv'
  BY <1>1, <1>4, ServerFrame, ClientFrame
<1>10. FlowInv'
  BY <1>1, <1>2, <1>3, <1>4, <1>8, FlowMove DEF s, w, x
<1>11. SegmentInv'
  <2>1. FinHandled' => FinSent' /\ Got' = Sent'
    BY <1>8 DEF SegmentInv
  <2>2. QED
    BY <1>7, <1>8, <2>1, SegmentQuiet
<1>12. HandshakeInv'
  <2>1. pc'["client"] = pc["client"] /\ connection_state'["client"] = connection_state["client"]
    BY <1>4 DEF SameClient
  <2>2. FirstEmpty => FirstEmpty'
    BY <1>2, <1>3, <1>5, <1>6 DEF FirstEmpty, s, w
  <2>3. CASE pc["client"] = "start"
    BY <1>1, <1>2, <2>3 DEF HandshakeInv, w
  <2>4. CASE pc["client"] = "handshake"
    <3>1. /\ Fresh /\ connection_state["client"] = "SYN_SENT"
          /\ Len(s) + Len(w) = 1
          /\ network_recv_queue["client"] = << >> /\ wire["client"] = << >>
          /\ \A e \in Endpoint : \A p \in InFlight(e) : p.flags = "SYN" /\ p.len = 0
      BY <1>2, <2>4 DEF HandshakeInv, s, w
    <3>2. \A e \in Endpoint : \A p \in InFlight(e)' : p.flags = "SYN" /\ p.len = 0
      BY <1>7, <3>1 DEF Endpoint
    <3>3. Handshaking("client")
      BY <2>4 DEF Handshaking
    <3>4. Len(network_recv_queue'["server"]) + Len(wire'["server"]) = 1
      BY <1>3, <1>6, <3>1
    <3>5. QED
      BY <1>3, <1>8, <2>1, <2>4, <3>1, <3>2, <3>3, <3>4 DEF HandshakeInv
  <2>5. CASE ~Handshaking("client")
    BY <1>8, <2>1, <2>2, <2>5 DEF HandshakeInv, Handshaking
  <2>6. QED
    BY <2>3, <2>4, <2>5 DEF Handshaking
<1>13. QED
  BY <1>9, <1>10, <1>11, <1>12 DEF Endpoint

-----------------------------------------------------------------------------
(* The invariant and the theorems *)

(* Every step of the client keeps the invariant. *)
LEMMA ClientStep ==
    ASSUME Unreliable = {}, StreamInv, TypeInv',
           Transport("client") \/ RecvPacket("client") \/ Application("client")
    PROVE  StreamInv'
<1>1. CASE RecvPacket("client") \/ Application("client")
  BY <1>1, ClientRecvPacket, ClientCalls
<1>2. CASE Handshaking("client") /\ Transport("client")
  <2>1. pc["client"] = "handshake" => connection_state["client"] = "SYN_SENT"
    BY DEF StreamInv, HandshakeInv
  <2>2. ~ChecksumAbort("client")
    <3> SUFFICES ASSUME ChecksumAbort("client") PROVE FALSE
      OBVIOUS
    <3>1. "client" \in Endpoint /\ TypeOK /\ NetworkRecv("client") /\ Received("client").len > 0
          /\ pc["client"] = "handshake"
      BY <1>2 DEF Endpoint, StreamInv, TypeInv, ChecksumAbort, HeaderOnlyRecv, Handshaking
    <3>2. Received("client") \in InFlight("client")
      BY <3>1, QueueTail
    <3>3. Received("client").len = 0
      BY <3>1, <3>2 DEF StreamInv, HandshakeInv
    <3>4. QED
      BY <3>1, <3>3
  <2>3. TransportInit("client") \/ SynSent("client")
    BY <1>2, <2>1, <2>2 DEF Transport, Handshaking, Listen, SynRcvd, WaitForEvent, WindowFull,
          SendData, RecvAck, RecvFin, RecvData, SendFin, CloseIgnored, ClosingRecv,
          TransportReturn, SendOverrun, AckOverrun, HandlesPacket
  <2>4. QED
    BY <2>3, ClientInit, ClientSynSent
<1>3. CASE ~Handshaking("client") /\ Transport("client")
  <2>1. ~TransportInit("client") /\ ~SynSent("client") /\ ~Listen("client") /\ ~SynRcvd("client")
    BY <1>3 DEF TransportInit, SynSent, Listen, SynRcvd, Handshaking
  <2>2. QED
    BY <1>3, <2>1, ClientSteps, ClientReceives, ClientSendData, ClientSendFin, ClientAcknowledges
       DEF Transport
<1>4. QED
  BY <1>1, <1>2, <1>3

(* Every step of the server keeps it. *)
LEMMA ServerStep ==
    ASSUME Unreliable = {}, StreamInv, TypeInv',
           Transport("server") \/ RecvPacket("server") \/ Application("server")
    PROVE  StreamInv'
<1>1. CASE RecvPacket("server")
  BY <1>1, ServerRecvPacket
<1>2. CASE Application("server")
  <2>1. CASE mycloseReturn("server")
    BY <2>1, ServerEnds
  <2>2. CASE \E n \in ReadSizes : myread("server", n)
    BY <2>2, ServerReads
  <2>3. CASE myclose("server") \/ \E n \in WriteSizes : mywrite("server", n)
    <3>1. ~Handshaking("server")
      BY <2>3 DEF myclose, mywrite, Running
    <3>2. QED
      BY <2>3, <3>1, ServerSteps
  <2>4. QED
    BY <1>2, <2>1, <2>2, <2>3 DEF Application
<1>3. CASE Handshaking("server") /\ Transport("server")
  <2>1. pc["server"] = "handshake" => connection_state["server"] \in {"LISTEN", "SYN_RCVD"}
    BY DEF StreamInv, HandshakeInv, Handshaking, Fresh, Waiting
  <2>2. ~ChecksumAbort("server")
    <3> SUFFICES ASSUME ChecksumAbort("server") PROVE FALSE
      OBVIOUS
    <3>1. NetworkRecv("server") /\ Received("server").len > 0
      BY DEF ChecksumAbort
    <3>2. Received("server").len = 0
      BY <1>3, <3>1, ServerHandshakeHead
    <3>3. QED
      BY <3>1, <3>2
  <2>3. TransportInit("server") \/ Listen("server") \/ SynRcvd("server")
    BY <1>3, <2>1, <2>2 DEF Transport, Handshaking, SynSent, WaitForEvent, WindowFull,
          SendData, RecvAck, RecvFin, RecvData, SendFin, CloseIgnored, ClosingRecv,
          TransportReturn, SendOverrun, AckOverrun, HandlesPacket
  <2>4. QED
    BY <2>3, ServerInit, ServerListen, ServerSynRcvd
<1>4. CASE ~Handshaking("server") /\ Transport("server")
  <2>1. ~TransportInit("server") /\ ~SynSent("server") /\ ~Listen("server") /\ ~SynRcvd("server")
    BY <1>4 DEF TransportInit, SynSent, Listen, SynRcvd, Handshaking
  <2>2. QED
    BY <1>4, <2>1, ServerSteps, ServerReceives, ServerSendsOwn, ServerAcknowledges, ServerEnds
       DEF Transport
<1>5. QED
  BY <1>1, <1>2, <1>3, <1>4

(* It holds initially. *)
LEMMA StreamInit == Init => StreamInv
<1> SUFFICES ASSUME Init PROVE StreamInv
  OBVIOUS
<1>1. TypeInv
  BY DEF Init, TypeInv, TypeOK, AppPhase, CSTATE, EventBits
<1>2. \A e \in Endpoint : /\ pc[e] = "start" /\ event[e] = {} /\ app[e] = "open"
                          /\ app_recv_queue[e] = << >> /\ app_send_queue[e] = << >>
                          /\ network_recv_queue[e] = << >> /\ wire[e] = << >>
                          /\ close_requested[e] = FALSE /\ eof[e] = FALSE
                          /\ bytes_written[e] = 0 /\ bytes_read[e] = 0
  BY DEF Init
<1>3. "client" \in Endpoint /\ "server" \in Endpoint
  BY DEF Endpoint
<1>4. /\ Handshaking("client") /\ Handshaking("server") /\ Fresh /\ ~FinSent /\ ~FinHandled
      /\ ~Open("client") /\ ~Open("server") /\ Sent = 1 /\ Got = 1
  BY <1>2, <1>3 DEF Handshaking, Fresh, FinSent, FinHandled, Open, Sent, Got
<1>5. Elements(<< >>) = {}
  BY DEF Elements
<1>6. InFlight("client") = {} /\ InFlight("server") = {}
  BY <1>2, <1>3, <1>5 DEF InFlight
<1>7. HandshakeInv
  BY <1>2, <1>3, <1>4 DEF HandshakeInv
<1>8. \A e \in Endpoint : StateInv(e)
  BY <1>2 DEF StateInv, Handshaking
<1>9. ClientInv
  BY <1>2, <1>3, <1>4 DEF ClientInv
<1>10. SegmentInv
  BY <1>4, <1>6 DEF SegmentInv
<1>11. FlowInv
  <2>1. Chain(<< >>, 1, 1)
    BY DEF Chain
  <2>2. QED
    BY <1>2, <1>3, <1>4, <2>1 DEF FlowInv
<1>12. ServerInv
  <2>1. \A a : Stream(<< >>, a)
    BY DEF Stream
  <2>2. QED
    BY <1>2, <1>3, <1>4, <2>1 DEF ServerInv
<1>13. QED
  BY <1>1, <1>7, <1>8, <1>9, <1>10, <1>11, <1>12 DEF StreamInv

(* It survives stuttering. *)
LEMMA StreamStutter ==
    ASSUME StreamInv, TypeInv', UNCHANGED observed PROVE StreamInv'
<1>1. TypeInv'
  OBVIOUS
<1>2. /\ SameServer /\ SameClient
      /\ network_recv_queue' = network_recv_queue /\ wire' = wire
      /\ bytes_written' = bytes_written
  BY DEF observed, context, thread, queues, network, SameServer, SameClient
<1>3. /\ Sent' = Sent /\ Got' = Got
      /\ (FinHandled' <=> FinHandled) /\ (FinSent' <=> FinSent)
      /\ (Fresh' <=> Fresh) /\ (Waiting' <=> Waiting)
      /\ (Handshaking("server")' <=> Handshaking("server"))
      /\ (Handshaking("client")' <=> Handshaking("client"))
  BY <1>2, ServerFrame, ClientFrame
<1>4. \A e : InFlight(e)' = InFlight(e)
  BY <1>2 DEF InFlight, Elements
<1>5. StateInv("server")' /\ StateInv("client")' /\ ServerInv' /\ ClientInv'
  BY <1>2, ServerFrame, ClientFrame DEF StreamInv, Endpoint
<1>6. FlowInv'
  BY <1>2, <1>3, FlowSame DEF StreamInv, SameServer
<1>7. SegmentInv'
  <2>1. SegmentInv /\ (FinHandled' => FinSent' /\ Got' = Sent')
    BY <1>3 DEF StreamInv, SegmentInv
  <2>2. QED
    BY <1>3, <1>4, <2>1, SegmentQuiet
<1>8. HandshakeInv'
  <2>1. pc'["client"] = pc["client"] /\ connection_state'["client"] = connection_state["client"]
    BY <1>2 DEF SameClient
  <2>2. FirstEmpty' <=> FirstEmpty
    BY <1>2 DEF FirstEmpty
  <2>3. HandshakeInv
    BY DEF StreamInv
  <2>4. QED
    BY <1>2, <1>3, <1>4, <2>1, <2>2, <2>3 DEF HandshakeInv
<1>9. QED
  BY <1>1, <1>5, <1>6, <1>7, <1>8 DEF StreamInv, Endpoint

(* StreamInv is an inductive invariant of a connection over a reliable     *)
(* link.                                                                   *)
LEMMA StreamInvariance ==
    ASSUME Unreliable = {} PROVE Spec => []StreamInv
<1>1. StreamInv /\ [Next]_vars => StreamInv'
  <2> SUFFICES ASSUME StreamInv, [Next]_vars PROVE StreamInv'
    OBVIOUS
  <2>1. TypeInv'
    BY TypeStep DEF StreamInv
  <2>2. CASE UNCHANGED observed
    BY <2>1, <2>2, StreamStutter
  <2>3. ASSUME NEW e \in Endpoint, Transport(e) \/ RecvPacket(e) \/ Application(e)
        PROVE  StreamInv'
    BY <2>1, <2>3, ClientStep, ServerStep DEF Endpoint
  <2>4. QED
    BY <2>2, <2>3, StepCases
<1>2. QED
  BY <1>1, StreamInit, PTL DEF Spec

(* Over a reliable link the bytes waiting for the server's application are *)
(* always the ones it expects next, although control_loop() passes every   *)
(* payload up without a look at its sequence number.                       *)
THEOREM ServerStreamCorrect ==
    ASSUME Unreliable = {} PROVE Spec => []ServerStreamInOrder
<1>1. StreamInv => ServerStreamInOrder
  <2> SUFFICES ASSUME StreamInv, app["server"] # "closed"
               PROVE  LET q == app_send_queue["server"] IN
                      /\ q # << >> /\ Head(q).len > 0 => Head(q).from = 1 + bytes_read["server"]
                      /\ \A i \in 1 .. Len(q) - 1 :
                            q[i + 1].len > 0 => q[i + 1].from = q[i].from + q[i].len
    BY DEF ServerStreamInOrder, InOrder
  <2> DEFINE q == app_send_queue["server"]
  <2>1. q \in Seq(Chunk)
    BY DEF StreamInv, TypeInv, TypeOK, Endpoint
  <2>2. q # << >> => Head(q) = q[1] /\ 1 \in 1 .. Len(q)
    BY <2>1
  <2>3. \A i \in 1 .. Len(q) : q[i].len \in Nat
    BY <2>1, ChunkType
  <2>4. \A i \in 1 .. Len(q) - 1 : i \in 1 .. Len(q) /\ i + 1 \in 1 .. Len(q) /\ i < i + 1
    BY <2>1
  <2>5. \/ Stream(q, 1 + bytes_read["server"])
        \/ \A i \in 1 .. Len(q) : q[i].len = 0
    BY DEF StreamInv, ServerInv
  <2> HIDE DEF q
  <2>6. q # << >> /\ Head(q).len > 0 => Head(q).from = 1 + bytes_read["server"]
    BY <2>2, <2>5 DEF Stream
  <2>7. ASSUME NEW i \in 1 .. Len(q) - 1, q[i + 1].len > 0
        PROVE  q[i + 1].from = q[i].from + q[i].len
    <3>1. Stream(q, 1 + bytes_read["server"])
      BY <2>4, <2>5, <2>7
    <3>2. q[i].len > 0
      BY <2>3, <2>4, <2>7, <3>1 DEF Stream
    <3>3. QED
      BY <3>1, <3>2 DEF Stream
  <2>8. QED
    BY <2>6, <2>7 DEF q
<1>2. QED
  BY <1>1, StreamInvariance, PTL

(* Over a reliable link myread() reports end of file to the server only    *)
(* after it returned every byte the client wrote, and after the client     *)
(* called myclose().                                                       *)
THEOREM ServerEofCorrect ==
    ASSUME Unreliable = {} PROVE Spec => []ServerEofComplete
<1>1. StreamInv => ServerEofComplete
  BY DEF StreamInv, ServerInv, ClientInv, SegmentInv, ServerEofComplete
<1>2. QED
  BY <1>1, StreamInvariance, PTL

-----------------------------------------------------------------------------
(* The connection implements the byte stream from client to server. *)

(* The chunks of q with the positions of ends of file left out *)
Shown(q) == [i \in 1 .. Len(q) |-> IF q[i].len = 0 THEN EofNode(0) ELSE q[i]]

(* Leaving them out goes along with the operations on queues. *)
LEMMA ShownQueue ==
    ASSUME NEW q \in Seq(Chunk)
    PROVE  /\ Shown(q) \in Seq(Chunk) /\ Len(Shown(q)) = Len(q)
           /\ Shown(q) = << >> <=> q = << >>
           /\ q # << >> => /\ Head(Shown(q)).len = Head(q).len
                           /\ Head(q).len > 0 => Head(Shown(q)) = Head(q)
                           /\ Shown(Tail(q)) = Tail(Shown(q))
           /\ \A x \in Chunk :
                 Shown(Append(q, x)) = Append(Shown(q), IF x.len = 0 THEN EofNode(0) ELSE x)
<1>1. EofNode(0) \in Chunk /\ EofNode(0).len = 0
  BY DEF EofNode, Chunk
<1>2. ASSUME NEW s \in Seq(Chunk)
      PROVE  /\ Shown(s) \in Seq(Chunk) /\ Len(Shown(s)) = Len(s) /\ Len(s) \in Nat
             /\ \A i \in 1 .. Len(s) :
                   Shown(s)[i] = IF s[i].len = 0 THEN EofNode(0) ELSE s[i]
  <2>1. Len(s) \in Nat /\ \A i \in 1 .. Len(s) : s[i] \in Chunk
    OBVIOUS
  <2>2. \A i \in 1 .. Len(s) : (IF s[i].len = 0 THEN EofNode(0) ELSE s[i]) \in Chunk
    BY <1>1, <2>1
  <2>3. Shown(s) \in Seq(Chunk)
    BY <2>1, <2>2, IsASeq DEF Shown
  <2>4. DOMAIN Shown(s) = 1 .. Len(s)
    BY DEF Shown
  <2>5. Len(Shown(s)) = Len(s)
    BY <2>1, <2>3, <2>4, LenProperties
  <2>6. QED
    BY <2>1, <2>3, <2>5 DEF Shown
<1>3. Shown(q) = << >> <=> q = << >>
  <2>1. \A s \in Seq(Chunk) : s = << >> <=> Len(s) = 0
    OBVIOUS
  <2>2. QED
    BY <1>2, <2>1
<1>4. ASSUME q # << >>
      PROVE  /\ Head(Shown(q)).len = Head(q).len
             /\ Head(q).len > 0 => Head(Shown(q)) = Head(q)
             /\ Shown(Tail(q)) = Tail(Shown(q))
  <2>1. /\ Tail(q) \in Seq(Chunk) /\ Len(q) \in Nat \ {0} /\ Len(Tail(q)) = Len(q) - 1
        /\ \A i \in 1 .. Len(q) - 1 : Tail(q)[i] = q[i + 1]
        /\ Head(q) = q[1]
    BY <1>4, TailRest
  <2>2. Shown(q) # << >>
    BY <1>3, <1>4
  <2>3. /\ Tail(Shown(q)) \in Seq(Chunk) /\ Len(Tail(Shown(q))) = Len(q) - 1
        /\ \A i \in 1 .. Len(q) - 1 : Tail(Shown(q))[i] = Shown(q)[i + 1]
        /\ Head(Shown(q)) = Shown(q)[1]
    BY <1>2, <2>2, TailRest
  <2>4. Head(Shown(q)) = IF q[1].len = 0 THEN EofNode(0) ELSE q[1]
    BY <1>2, <2>1, <2>3
  <2>5. ASSUME NEW i \in 1 .. Len(q) - 1 PROVE Shown(Tail(q))[i] = Tail(Shown(q))[i]
    <3>1. i + 1 \in 1 .. Len(q) /\ i \in 1 .. Len(Tail(q))
      BY <2>1
    <3>2. Shown(Tail(q))[i] = IF Tail(q)[i].len = 0 THEN EofNode(0) ELSE Tail(q)[i]
      BY <1>2, <2>1, <3>1
    <3>3. Shown(q)[i + 1] = IF q[i + 1].len = 0 THEN EofNode(0) ELSE q[i + 1]
      BY <1>2, <3>1
    <3>4. QED
      BY <2>1, <2>3, <3>2, <3>3
  <2>6. Shown(Tail(q)) \in Seq(Chunk) /\ Len(Shown(Tail(q))) = Len(q) - 1
    BY <1>2, <2>1
  <2>7. Shown(Tail(q)) = Tail(Shown(q))
    BY <2>3, <2>5, <2>6, SeqEqual
  <2>8. QED
    BY <1>1, <2>1, <2>4, <2>7
<1>5. ASSUME NEW x \in Chunk
      PROVE  Shown(Append(q, x)) = Append(Shown(q), IF x.len = 0 THEN EofNode(0) ELSE x)
  <2>1. PICK y : y = IF x.len = 0 THEN EofNode(0) ELSE x
    OBVIOUS
  <2>2. y \in Chunk
    BY <1>1, <2>1
  <2>3. /\ Append(q, x) \in Seq(Chunk) /\ Len(Append(q, x)) = Len(q) + 1
        /\ \A i \in 1 .. Len(q) : Append(q, x)[i] = q[i]
        /\ Append(q, x)[Len(q) + 1] = x
    BY AppendLast
  <2>4. /\ Append(Shown(q), y) \in Seq(Chunk) /\ Len(Append(Shown(q), y)) = Len(q) + 1
        /\ \A i \in 1 .. Len(q) : Append(Shown(q), y)[i] = Shown(q)[i]
        /\ Append(Shown(q), y)[Len(q) + 1] = y
    BY <1>2, <2>2, AppendLast
  <2>5. /\ Shown(Append(q, x)) \in Seq(Chunk) /\ Len(Shown(Append(q, x))) = Len(q) + 1
        /\ \A i \in 1 .. Len(q) + 1 :
              Shown(Append(q, x))[i] = IF Append(q, x)[i].len = 0 THEN EofNode(0) ELSE Append(q, x)[i]
    BY <1>2, <2>3
  <2>6. ASSUME NEW i \in 1 .. Len(q) + 1 PROVE Shown(Append(q, x))[i] = Append(Shown(q), y)[i]
    <3>1. CASE i = Len(q) + 1
      BY <2>1, <2>3, <2>4, <2>5, <3>1
    <3>2. CASE i # Len(q) + 1
      <4>1. i \in 1 .. Len(q)
        BY <1>2, <3>2
      <4>2. Shown(q)[i] = IF q[i].len = 0 THEN EofNode(0) ELSE q[i]
        BY <1>2, <4>1
      <4>3. QED
        BY <2>3, <2>4, <2>5, <4>1, <4>2
    <3>3. QED
      BY <3>1, <3>2
  <2>7. Shown(Append(q, x)) = Append(Shown(q), y)
    BY <2>4, <2>5, <2>6, SeqEqual
  <2>8. QED
    BY <2>1, <2>7
<1>6. QED
  BY <1>2, <1>3, <1>4, <1>5

(* The same for what a read leaves *)
LEMMA ShownBuffer ==
    ASSUME NEW q \in Seq(Chunk), q # << >>, NEW n \in Nat \ {0}
    PROVE  LET g == MIN(n, Head(q).len)
               r == Shown(q)
           IN  Shown(BufferAfter(q, n)) =
                  IF Head(r).len > g
                  THEN <<[from |-> Head(r).from + g, len |-> Head(r).len - g]>> \o Tail(r)
                  ELSE Tail(r)
<1>1. /\ Head(q) \in Chunk /\ Tail(q) \in Seq(Chunk)
      /\ Head(q).len \in Nat /\ Head(q).from \in Nat
  <2>1. Head(q) \in Chunk /\ Tail(q) \in Seq(Chunk)
    OBVIOUS
  <2>2. QED
    BY <2>1 DEF Chunk
<1>2. /\ Shown(q) \in Seq(Chunk) /\ Len(Shown(q)) = Len(q) /\ Shown(q) # << >>
      /\ Head(Shown(q)).len = Head(q).len
      /\ Head(q).len > 0 => Head(Shown(q)) = Head(q)
      /\ Shown(Tail(q)) = Tail(Shown(q))
  BY ShownQueue
<1>3. CASE Head(q).len > n
  <2>1. MIN(n, Head(q).len) = n /\ Head(Shown(q)) = Head(q)
    BY <1>1, <1>2, <1>3 DEF MIN
  <2>2. PICK x : x = [from |-> Head(q).from + n, len |-> Head(q).len - n]
    OBVIOUS
  <2>3. x \in Chunk /\ x.len > 0
    BY <1>1, <1>3, <2>2 DEF Chunk
  <2>4. BufferAfter(q, n) = <<x>> \o Tail(q)
    BY <1>3, <2>2 DEF BufferAfter
  <2> DEFINE t == <<x>> \o Tail(q)
             u == <<x>> \o Tail(Shown(q))
  <2>5. /\ t \in Seq(Chunk) /\ Len(t) = Len(q) /\ t[1] = x
        /\ \A i \in 1 .. Len(q) : i # 1 => t[i] = q[i]
    BY <2>3, ConsRest
  <2>6. /\ u \in Seq(Chunk) /\ Len(u) = Len(q) /\ u[1] = x
        /\ \A i \in 1 .. Len(q) : i # 1 => u[i] = Shown(q)[i]
    BY <1>2, <2>3, ConsRest
  <2>7. Shown(t) \in Seq(Chunk) /\ Len(Shown(t)) = Len(q)
    BY <2>5, ShownQueue
  <2> HIDE DEF t, u
  <2>8. ASSUME NEW i \in 1 .. Len(q) PROVE Shown(t)[i] = u[i]
    <3>1. Shown(t)[i] = IF t[i].len = 0 THEN EofNode(0) ELSE t[i]
      BY <2>5 DEF Shown
    <3>2. Shown(q)[i] = IF q[i].len = 0 THEN EofNode(0) ELSE q[i]
      BY DEF Shown
    <3>3. CASE i = 1
      BY <2>3, <2>5, <2>6, <3>1, <3>3
    <3>4. CASE i # 1
      BY <2>5, <2>6, <3>1, <3>2, <3>4
    <3>5. QED
      BY <3>3, <3>4
  <2>9. Shown(t) = u
    BY <2>6, <2>7, <2>8, SeqEqual
  <2>10. QED
    BY <1>1, <1>3, <2>1, <2>2, <2>4, <2>9 DEF t, u
<1>4. CASE ~(Head(q).len > n)
  <2>1. MIN(n, Head(q).len) = Head(q).len /\ BufferAfter(q, n) = Tail(q)
    BY <1>1, <1>4 DEF MIN, BufferAfter
  <2>2. QED
    BY <1>1, <1>2, <2>1
<1>5. QED
  BY <1>3, <1>4

(* Steps of the client are writes, the close, or nothing to the stream. *)
LEMMA ClientAbstract ==
    ASSUME TypeOK, Transport("client") \/ RecvPacket("client") \/ Application("client")
    PROVE  [ToServer!Next]_(ToServer!vars)
<1>1. "client" \in Endpoint /\ SameServer
  BY OtherSame DEF Endpoint
<1>2. /\ DeliveredBytes' = DeliveredBytes /\ ReadyChunks' = ReadyChunks
      /\ bytes_read'["server"] = bytes_read["server"] /\ eof'["server"] = eof["server"]
      /\ (app["server"] = "closed")' = (app["server"] = "closed")
  BY <1>1 DEF SameServer, DeliveredBytes, FinReceived, Handshaking, ReadyChunks
<1>3. ASSUME NEW n \in WriteSizes, mywrite("client", n) PROVE ToServer!Next
  <2>1. /\ bytes_written'["client"] = bytes_written["client"] + n
        /\ app["client"] = "open" /\ app' = app
    BY <1>1, <1>3 DEF mywrite, Running, TypeOK
  <2>2. ToServer!Write(n)
    BY <1>2, <2>1 DEF ToServer!Write
  <2>3. QED
    BY <2>2 DEF ToServer!Next
<1>4. CASE myclose("client")
  <2>1. app["client"] = "open" /\ app'["client"] = "closing" /\ bytes_written' = bytes_written
    BY <1>1, <1>4 DEF myclose, Running, TypeOK
  <2>2. ToServer!Close
    BY <1>2, <2>1 DEF ToServer!Close
  <2>3. QED
    BY <2>2 DEF ToServer!Next
<1>5. ASSUME bytes_written' = bytes_written,
             (app["client"] # "open")' = (app["client"] # "open")
      PROVE  UNCHANGED ToServer!vars
  BY <1>2, <1>5 DEF ToServer!vars
<1>6. CASE mycloseReturn("client")
  <2>1. bytes_written' = bytes_written /\ app["client"] # "open" /\ app'["client"] # "open"
    BY <1>1, <1>6 DEF mycloseReturn, TypeOK
  <2>2. QED
    BY <1>5, <2>1
<1>7. ASSUME NEW n, myread("client", n) PROVE UNCHANGED ToServer!vars
  <2>1. bytes_written' = bytes_written /\ app' = app
    BY <1>7 DEF myread
  <2>2. QED
    BY <1>5, <2>1
<1>8. CASE Transport("client") \/ RecvPacket("client")
  <2>1. bytes_written' = bytes_written /\ app' = app
    BY <1>8 DEF Transport, TransportInit, SynSent, Listen, SynRcvd, WaitForEvent, WindowFull,
                SendData, RecvAck, RecvFin, RecvData, SendFin, CloseIgnored, ClosingRecv,
                TransportReturn, ChecksumAbort, SendOverrun, AckOverrun, RecvPacket, application
  <2>2. QED
    BY <1>5, <2>1
<1>9. QED
  BY <1>3, <1>4, <1>6, <1>7, <1>8 DEF Application

(* After the handshake RecvBase counts the bytes delivered, and the FIN. *)
LEMMA Delivered ==
    ASSUME StreamInv, ~Handshaking("server")
    PROVE  DeliveredBytes = IF FinHandled THEN RecvBase["server"] - 2 ELSE RecvBase["server"] - 1
<1>1. /\ connection_state["server"] \in {"ESTABLISHED", "CLOSE_WAIT", "LAST_ACK", "CLOSED"}
      /\ RecvBase["server"] \in Nat
  BY DEF StreamInv, TypeInv, TypeOK, StateInv, OpenStates, Endpoint
<1>2. FinHandled <=> FinReceived
  BY <1>1 DEF FinHandled, FinReceived
<1>3. QED
  BY <1>1, <1>2 DEF DeliveredBytes

(* A step of the server that neither delivers nor reads *)
LEMMA ServerSilent ==
    ASSUME StreamInv, StreamInv', SameClient,
           Got' = Got, FinHandled' <=> FinHandled,
           app_send_queue'["server"] = app_send_queue["server"],
           bytes_read'["server"] = bytes_read["server"], eof'["server"] = eof["server"],
           (app["server"] = "closed")' = (app["server"] = "closed")
    PROVE  UNCHANGED ToServer!vars
<1>1. ASSUME StreamInv
      PROVE  DeliveredBytes = IF FinHandled THEN Got - 2 ELSE Got - 1
  <2>1. CASE Handshaking("server")
    BY <2>1 DEF DeliveredBytes, Got, FinHandled
  <2>2. CASE ~Handshaking("server")
    BY <2>2, Delivered DEF Got
  <2>3. QED
    BY <2>1, <2>2
<1>2. ASSUME StreamInv'
      PROVE  DeliveredBytes' = IF FinHandled' THEN Got' - 2 ELSE Got' - 1
  <2>1. CASE Handshaking("server")'
    BY <2>1 DEF DeliveredBytes, Got, FinHandled
  <2>2. CASE ~Handshaking("server")'
    <3>1. /\ connection_state'["server"] \in {"ESTABLISHED", "CLOSE_WAIT", "LAST_ACK", "CLOSED"}
          /\ RecvBase'["server"] \in Nat
      BY <2>2 DEF StreamInv, TypeInv, TypeOK, StateInv, OpenStates, Endpoint
    <3>2. FinHandled' <=> FinReceived'
      BY <2>2, <3>1 DEF FinHandled, FinReceived
    <3>3. QED
      BY <2>2, <3>1, <3>2 DEF DeliveredBytes, Got
  <2>3. QED
    BY <2>1, <2>2
<1>3. DeliveredBytes' = DeliveredBytes
  BY <1>1, <1>2
<1>4. ReadyChunks' = ReadyChunks
  BY DEF ReadyChunks
<1>5. QED
  BY <1>3, <1>4 DEF SameClient, ToServer!vars

(* The server delivers data and ends of file. *)
LEMMA ServerDelivers ==
    ASSUME StreamInv, StreamInv', ConnectionInv,
           RecvFin("server") \/ RecvData("server") \/ TransportReturn("server")
    PROVE  [ToServer!Next]_(ToServer!vars)
<1> DEFINE q == app_send_queue["server"]
           b == RecvBase["server"]
           w == bytes_written["client"]
<1>1. /\ "server" \in Endpoint /\ "client" \in Endpoint /\ Peer("server") = "client"
      /\ TypeInv /\ TypeOK /\ TypeOK' /\ SegmentInv /\ ClientInv /\ StateInv("server")
  BY DEF Endpoint, Peer, StreamInv, TypeInv
<1>2. SameClient
  BY <1>1, OtherSame DEF Transport
<1>3. /\ eof' = eof /\ bytes_read' = bytes_read /\ app' = app /\ bytes_written' = bytes_written
      /\ pc["server"] \in {"net", "done"}
  BY DEF RecvFin, RecvData, TransportReturn, HandlesPacket, application
<1>4. ~Handshaking("server") /\ app["server"] # "closed"
  BY <1>1, <1>3 DEF Handshaking, StateInv
<1>5. q \in Seq(Chunk) /\ b \in Nat /\ w \in Nat
  BY <1>1 DEF TypeOK
<1>6. /\ ~Handshaking("server")'
      /\ DeliveredBytes = IF FinHandled THEN b - 2 ELSE b - 1
      /\ DeliveredBytes' = IF FinHandled' THEN RecvBase'["server"] - 2 ELSE RecvBase'["server"] - 1
  <2>1. ~Handshaking("server")'
    BY <1>1, <1>4, StateStep
  <2>2. DeliveredBytes' = IF FinHandled' THEN RecvBase'["server"] - 2 ELSE RecvBase'["server"] - 1
    <3>1. /\ connection_state'["server"] \in {"ESTABLISHED", "CLOSE_WAIT", "LAST_ACK", "CLOSED"}
          /\ RecvBase'["server"] \in Nat
      BY <2>1 DEF StreamInv, TypeInv, TypeOK, StateInv, OpenStates, Endpoint
    <3>2. FinHandled' <=> FinReceived'
      BY <2>1, <3>1 DEF FinHandled, FinReceived
    <3>3. QED
      BY <2>1, <3>1, <3>2 DEF DeliveredBytes
  <2>3. QED
    BY <1>4, <2>1, <2>2, Delivered
<1>7. ReadyChunks = Shown(q) /\ ReadyChunks' = Shown(app_send_queue'["server"])
  BY DEF ReadyChunks, Shown
<1>8. ASSUME app["client"] # "open", DeliveredBytes = w, DeliveredBytes' = DeliveredBytes,
             NEW x \in Chunk, x.len = 0, app_send_queue'["server"] = Append(q, x)
      PROVE  ToServer!Next
  <2>1. ReadyChunks' = Append(ReadyChunks, ToServer!Eof)
    BY <1>5, <1>7, <1>8, ShownQueue DEF EofNode, ToServer!Eof
  <2>2. ToServer!DeliverEof
    BY <1>3, <1>4, <1>8, <2>1 DEF ToServer!DeliverEof
  <2>3. QED
    BY <2>2 DEF ToServer!Next
<1>9. CASE RecvFin("server")
  <2>0. PICK p : p = Received("server")
    OBVIOUS
  <2>1. NetworkRecv("server") /\ pc["server"] = "net" /\ p.flags = "FIN"
    BY <1>9, <2>0 DEF RecvFin, HandlesPacket
  <2>2. /\ p \in Packet /\ Got = b /\ FinSent /\ Got + 1 = Sent
        /\ FinHandled => Size(p) = 0
    BY <2>0, <2>1, ServerHead
  <2>3. ~FinHandled
    BY <2>1, <2>2 DEF Size
  <2>4. /\ app["client"] # "open" /\ Sent = w + 2
    BY <1>1, <2>2 DEF ClientInv, FinSent, Sent
  <2>5. PICK x : x = [from |-> p.pos, len |-> 0]
    OBVIOUS
  <2>6. x \in Chunk /\ x.len = 0
    BY <2>2, <2>5, SizeType DEF Chunk
  <2>7. /\ app_send_queue'["server"] = Append(q, x) /\ RecvBase'["server"] = b + 1
        /\ connection_state'["server"] = "CLOSE_WAIT"
    BY <1>1, <1>9, <2>0, <2>5 DEF RecvFin, StateAfterFin, Enqueued, EofNode, TypeOK
  <2>8. FinHandled'
    BY <1>6, <2>7 DEF FinHandled
  <2>9. DeliveredBytes = w /\ DeliveredBytes' = DeliveredBytes
    BY <1>5, <1>6, <2>2, <2>3, <2>4, <2>7, <2>8
  <2>10. QED
    BY <1>8, <2>4, <2>6, <2>7, <2>9
<1>10. CASE TransportReturn("server")
  <2>1. pc["server"] = "done" /\ connection_state' = connection_state /\ RecvBase' = RecvBase
    BY <1>10 DEF TransportReturn, context
  <2>2. FinHandled /\ FinHandled'
    BY <1>1, <1>4, <1>6, <2>1 DEF FinHandled, StateInv
  <2>3. FinSent /\ Got = Sent
    BY <1>1, <2>2 DEF SegmentInv
  <2>4. app["client"] # "open" /\ b = w + 2
    BY <1>1, <1>4, <2>3 DEF ClientInv, FinSent, Sent, Got
  <2>5. PICK x : x = [from |-> b, len |-> 0]
    OBVIOUS
  <2>6. x \in Chunk /\ x.len = 0
    BY <1>5, <2>5 DEF Chunk
  <2>7. app_send_queue'["server"] = Append(q, x)
    BY <1>1, <1>10, <2>5 DEF TransportReturn, Enqueued, EofNode, TypeOK
  <2>8. DeliveredBytes = w /\ DeliveredBytes' = DeliveredBytes
    BY <1>5, <1>6, <2>1, <2>2, <2>4
  <2>9. QED
    BY <1>8, <2>4, <2>6, <2>7, <2>8
<1>11. CASE RecvData("server")
  <2>0. PICK p : p = Received("server")
    OBVIOUS
  <2>1. NetworkRecv("server") /\ pc["server"] = "net" /\ p.flags \in {"DATA", "SYN"}
    BY <1>11, <2>0 DEF RecvData, HandlesPacket
  <2>2. /\ p \in Packet /\ p.len \in Nat /\ Got = b /\ p.pos = b
        /\ FinHandled => Size(p) = 0
    BY <2>0, <2>1, ServerHead
  <2>3. /\ connection_state' = connection_state /\ RecvBase'["server"] = b + p.len
        /\ app_send_queue'["server"] = PassedUp("server", p)
    BY <1>1, <1>11, <2>0 DEF RecvData, TypeOK
  <2>4. FinHandled' <=> FinHandled
    BY <1>4, <1>6, <2>3 DEF FinHandled
  <2>5. CASE p.len = 0
    <3>1. app_send_queue'["server"] = q /\ Got' = Got
      BY <1>5, <1>6, <2>2, <2>3, <2>5 DEF PassedUp, Got
    <3>2. QED
      BY <1>2, <1>3, <2>4, <3>1, ServerSilent
  <2>6. CASE p.len > 0
    <3>1. ~FinHandled
      BY <2>1, <2>2, <2>6 DEF Size
    <3>2. b + p.len <= 1 + w
      <4>1. p \in Pending("server")
        BY <1>1, <2>0, <2>1, PendingRecv
      <4>2. GenuineSegment("client", p)
        BY <1>1, <4>1 DEF ConnectionInv, ReceiveInv
      <4>3. QED
        BY <2>2, <2>6, <4>2 DEF GenuineSegment, WrittenBy
    <3>3. PICK x : x = [from |-> p.pos, len |-> p.len]
      OBVIOUS
    <3>4. x \in Chunk /\ x.len = p.len
      BY <1>5, <2>2, <3>3 DEF Chunk
    <3>5. p.len # 0
      BY <2>6
    <3>6. app_send_queue'["server"] = Append(q, x)
      BY <2>3, <3>3, <3>5 DEF PassedUp, Enqueued
    <3>7. DeliveredBytes = b - 1 /\ DeliveredBytes' = b + p.len - 1
      <4>1. ~FinHandled'
        BY <2>4, <3>1
      <4>2. DeliveredBytes = b - 1
        BY <1>6, <3>1
      <4>3. DeliveredBytes' = RecvBase'["server"] - 1
        BY <1>6, <4>1
      <4>4. QED
        BY <1>5, <2>2, <2>3, <4>2, <4>3
    <3>8. ReadyChunks' = Append(ReadyChunks, [from |-> DeliveredBytes + 1, len |-> p.len])
      <4>1. ReadyChunks' = Append(ReadyChunks, x)
        BY <1>5, <1>7, <3>4, <3>5, <3>6, ShownQueue
      <4>2. DeliveredBytes + 1 = p.pos
        BY <1>5, <2>2, <3>7
      <4>3. QED
        BY <3>3, <4>1, <4>2
    <3>9. p.len \in 1 .. w - DeliveredBytes /\ DeliveredBytes' = DeliveredBytes + p.len
      <4>1. PICK k, d, v : k = p.len /\ d = DeliveredBytes /\ v = w
        OBVIOUS
      <4>2. k \in Nat /\ k > 0 /\ v \in Nat /\ d = b - 1 /\ b \in Nat /\ b + k <= 1 + v
        BY <1>5, <2>2, <2>6, <3>2, <3>7, <4>1
      <4>3. k \in 1 .. v - d /\ DeliveredBytes' = d + k
        BY <3>7, <4>1, <4>2
      <4>4. QED
        BY <4>1, <4>3
    <3>10. ToServer!Deliver(p.len)
      BY <1>3, <1>4, <3>8, <3>9 DEF ToServer!Deliver
    <3>11. QED
      BY <3>9, <3>10 DEF ToServer!Next
  <2>7. QED
    BY <2>2, <2>5, <2>6
<1>12. QED
  BY <1>9, <1>10, <1>11

(* The server's application reads, or throws its queue away. *)
LEMMA ServerTakes ==
    ASSUME StreamInv, StreamInv', Application("server")
    PROVE  [ToServer!Next]_(ToServer!vars)
<1> DEFINE q == app_send_queue["server"]
<1>1. /\ "server" \in Endpoint /\ TypeOK /\ TypeOK' /\ ServerInv /\ SameClient
  BY OtherSame DEF Endpoint, StreamInv, TypeInv
<1>2. /\ pc' = pc /\ connection_state' = connection_state /\ RecvBase' = RecvBase
      /\ Got' = Got /\ (FinHandled' <=> FinHandled) /\ DeliveredBytes' = DeliveredBytes
  <2>1. pc' = pc /\ connection_state' = connection_state /\ RecvBase' = RecvBase
    BY DEF Application, mywrite, myread, myclose, mycloseReturn, context, thread
  <2>2. QED
    BY <2>1 DEF Got, FinHandled, DeliveredBytes, FinReceived, Handshaking
<1>3. bytes_written'["client"] = bytes_written["client"] /\ app'["client"] = app["client"]
  BY <1>1 DEF SameClient
<1>4. ReadyChunks = Shown(q) /\ ReadyChunks' = Shown(app_send_queue'["server"])
  BY DEF ReadyChunks, Shown
<1>5. ASSUME NEW n, mywrite("server", n) PROVE UNCHANGED ToServer!vars
  <2>1. app_send_queue' = app_send_queue /\ bytes_read' = bytes_read /\ eof' = eof /\ app' = app
    BY <1>5 DEF mywrite
  <2>2. QED
    BY <1>1, <1>2, <2>1, ServerSilent
<1>6. CASE myclose("server")
  <2>1. /\ app_send_queue' = app_send_queue /\ bytes_read' = bytes_read /\ eof' = eof
        /\ app["server"] = "open" /\ app'["server"] = "closing"
    BY <1>1, <1>6 DEF myclose, Running, queues, TypeOK
  <2>2. QED
    BY <1>1, <1>2, <2>1, ServerSilent
<1>7. CASE mycloseReturn("server")
  <2>1. /\ app_send_queue'["server"] = << >> /\ bytes_read' = bytes_read /\ eof' = eof
        /\ app["server"] = "closing" /\ app'["server"] = "closed"
    BY <1>1, <1>7 DEF mycloseReturn, FreedQueue, TypeOK
  <2>2. ReadyChunks' = << >>
    <3>1. << >> \in Seq(Chunk)
      OBVIOUS
    <3>2. QED
      BY <1>4, <2>1, <3>1, ShownQueue
  <2>3. ToServer!Abandon
    BY <1>2, <1>3, <2>1, <2>2 DEF ToServer!Abandon
  <2>4. QED
    BY <2>3 DEF ToServer!Next
<1>8. ASSUME NEW n \in ReadSizes, myread("server", n) PROVE ToServer!Next
  <2>1. n \in Nat \ {0} /\ q \in Seq(Chunk) /\ q # << >> /\ ~eof["server"]
    BY <1>1, <1>8, ConstantsAssumption DEF myread, TypeOK
  <2>2. PICK g : g = MIN(n, Head(q).len)
    OBVIOUS
  <2>3. Head(q) \in Chunk /\ Head(q) = q[1] /\ Head(q).len \in Nat /\ Head(q).from \in Nat
    <3>1. Head(q) \in Chunk /\ Head(q) = q[1]
      BY <2>1
    <3>2. QED
      BY <3>1 DEF Chunk
  <2>4. g \in Nat /\ g <= Head(q).len /\ (g = 0 <=> Head(q).len = 0)
    BY <2>1, <2>2, <2>3 DEF MIN
  <2>5. /\ app_send_queue'["server"] = BufferAfter(q, n)
        /\ bytes_read'["server"] = bytes_read["server"] + g
        /\ eof'["server"] = (g = 0) /\ app' = app
    BY <1>1, <1>8, <2>2 DEF myread, TypeOK
  <2>6. /\ ReadyChunks # << >> /\ Head(ReadyChunks).len = Head(q).len
        /\ Head(q).len > 0 => Head(ReadyChunks) = Head(q)
    BY <1>4, <2>1, ShownQueue
  <2>7. ReadyChunks' = IF Head(ReadyChunks).len > g
                       THEN <<[from |-> Head(ReadyChunks).from + g,
                               len |-> Head(ReadyChunks).len - g]>> \o Tail(ReadyChunks)
                       ELSE Tail(ReadyChunks)
    BY <1>4, <2>1, <2>2, <2>5, ShownBuffer
  <2>8. Head(q).from = 1 + bytes_read["server"]
    BY <1>1, <2>1, <2>3 DEF ServerInv, Stream
  <2>9. g > 0 => Head(ReadyChunks).from = bytes_read["server"] + 1
    <3>1. bytes_read["server"] \in Nat
      BY <1>1 DEF TypeOK
    <3>2. QED
      BY <2>3, <2>4, <2>6, <2>8, <3>1
  <2>10. g \in 0 .. Head(ReadyChunks).len
    BY <2>3, <2>4, <2>6
  <2> HIDE DEF q
  <2>11. ToServer!Read(g)
    <3>1. ReadyChunks' = ToServer!After(g)
      BY <2>7 DEF ToServer!After
    <3>2. /\ (app["server"] = "closed")' = (app["server"] = "closed")
          /\ (app["client"] # "open")' = (app["client"] # "open")
      BY <2>5
    <3>3. (g = 0) <=> (Head(ReadyChunks).len = 0)
      BY <2>4, <2>6
    <3>4. QED
      BY <1>2, <1>3, <2>1, <2>5, <2>6, <2>9, <2>10, <3>1, <3>2, <3>3 DEF ToServer!Read
  <2>12. QED
    BY <2>6, <2>10, <2>11 DEF ToServer!Next
<1>9. QED
  BY <1>5, <1>6, <1>7, <1>8 DEF Application

(* The server's other steps mean nothing to the stream. *)
LEMMA ServerHidden ==
    ASSUME StreamInv, StreamInv',
           \/ TransportInit("server") \/ SynSent("server") \/ Listen("server")
           \/ SynRcvd("server") \/ WaitForEvent("server") \/ WindowFull("server")
           \/ SendData("server") \/ RecvAck("server") \/ SendFin("server")
           \/ CloseIgnored("server") \/ ClosingRecv("server") \/ ChecksumAbort("server")
           \/ SendOverrun("server") \/ AckOverrun("server") \/ RecvPacket("server")
    PROVE  UNCHANGED ToServer!vars
<1>1. /\ "server" \in Endpoint /\ TypeInv /\ TypeOK /\ TypeOK' /\ SameClient
      /\ StateInv("server") /\ StateInv("server")'
      /\ Handshaking("server") => Fresh \/ Waiting
  BY OtherSame DEF Endpoint, StreamInv, TypeInv, Transport, HandshakeInv
<1>2. /\ app_send_queue' = app_send_queue /\ bytes_read' = bytes_read /\ eof' = eof /\ app' = app
  BY DEF TransportInit, SynSent, Listen, SynRcvd, WaitForEvent, WindowFull, SendData, RecvAck,
         SendFin, CloseIgnored, ClosingRecv, ChecksumAbort, SendOverrun, AckOverrun, RecvPacket,
         queues, application
<1>3. ASSUME Got' = Got, FinHandled' <=> FinHandled PROVE UNCHANGED ToServer!vars
  BY <1>1, <1>2, <1>3, ServerSilent
<1>4. CASE TransportInit("server") \/ Listen("server")
  <2>1. Handshaking("server") /\ Handshaking("server")'
    BY <1>1, <1>4 DEF TransportInit, Listen, Handshaking, thread, TypeOK
  <2>2. QED
    BY <1>3, <2>1 DEF Got, FinHandled
<1>5. CASE SynSent("server") \/ SynRcvd("server")
  <2>1. /\ Handshaking("server") /\ ~Handshaking("server")'
        /\ connection_state'["server"] = "ESTABLISHED" /\ RecvBase'["server"] = 1
    <3>1. pc["server"] = "handshake" /\ Establish("server")
      BY <1>5 DEF SynSent, SynRcvd
    <3>2. /\ pc'["server"] = "wait" /\ connection_state'["server"] = "ESTABLISHED"
          /\ RecvBase'["server"] = 1
      BY <1>1, <3>1 DEF Establish, TypeOK, initial_sequence_num
    <3>3. QED
      BY <3>1, <3>2 DEF Handshaking
  <2>2. QED
    BY <1>3, <2>1 DEF Got, FinHandled
<1>6. CASE RecvPacket("server")
  <2>1. pc' = pc /\ connection_state' = connection_state /\ RecvBase' = RecvBase
    BY <1>6 DEF RecvPacket, context, thread
  <2>2. QED
    BY <1>3, <2>1 DEF Got, FinHandled, Handshaking
<1>7. CASE ChecksumAbort("server")
  <2>1. /\ connection_state' = connection_state /\ RecvBase' = RecvBase
        /\ pc'["server"] = "aborted"
    BY <1>1, <1>7 DEF ChecksumAbort, context, TypeOK
  <2>2. connection_state["server"] \in OpenStates("server")
    BY <1>1, <2>1 DEF StateInv, Handshaking, OpenStates
  <2>3. ~Handshaking("server")
    <3>1. pc["server"] # "start"
      BY <1>7 DEF ChecksumAbort, HeaderOnlyRecv
    <3>2. QED
      BY <1>1, <2>2, <3>1 DEF Fresh, Waiting, OpenStates
  <2>4. QED
    BY <1>3, <2>1, <2>3 DEF Got, FinHandled, Handshaking
<1>8. CASE \/ WaitForEvent("server") \/ WindowFull("server")
           \/ SendData("server") \/ RecvAck("server") \/ SendFin("server")
           \/ CloseIgnored("server") \/ ClosingRecv("server")
           \/ SendOverrun("server") \/ AckOverrun("server")
  <2>1. ~Handshaking("server") /\ RecvBase' = RecvBase
    BY <1>8 DEF WaitForEvent, WindowFull, SendData, RecvAck, SendFin, CloseIgnored, ClosingRecv,
                SendOverrun, AckOverrun, HandlesPacket, Handshaking, context
  <2>2. ~Handshaking("server")'
    BY <1>1, <1>8, <2>1, StateStep
  <2>3. (connection_state'["server"] = "ESTABLISHED") <=> (connection_state["server"] = "ESTABLISHED")
    <3>1. CASE SendFin("server")
      BY <1>1, <3>1 DEF SendFin, MaySendFin, TypeOK
    <3>2. CASE ClosingRecv("server")
      <4>1. connection_state["server"] # "ESTABLISHED"
        BY <3>2 DEF ClosingRecv, AwaitsFinAck
      <4>2. connection_state'["server"] = StateAfterClosingRecv("server", Received("server"))
        BY <1>1, <3>2 DEF ClosingRecv, TypeOK
      <4>3. QED
        BY <4>1, <4>2 DEF StateAfterClosingRecv
    <3>3. CASE ~SendFin("server") /\ ~ClosingRecv("server")
      <4>1. connection_state' = connection_state
        BY <1>8, <3>3 DEF WaitForEvent, WindowFull, SendData, RecvAck, CloseIgnored,
                          SendOverrun, AckOverrun, context
      <4>2. QED
        BY <4>1
    <3>4. QED
      BY <3>1, <3>2, <3>3
  <2>4. QED
    BY <1>3, <2>1, <2>2, <2>3 DEF Got, FinHandled
<1>9. QED
  BY <1>4, <1>5, <1>6, <1>7, <1>8

(* Over a reliable link STCP is a byte stream from client to server: every *)
(* step of the two endpoints is one write, close, delivery or read of that *)
(* stream, or invisible to it.  Data is delivered only as the next bytes   *)
(* that were written, and end of file only behind the last of them.        *)
THEOREM StreamImplemented ==
    ASSUME Unreliable = {} PROVE Spec => ServerStreamImplemented
<1>1. Init => ToServer!Init
  <2> SUFFICES ASSUME Init PROVE ToServer!Init
    OBVIOUS
  <2>1. /\ "client" \in Endpoint /\ "server" \in Endpoint
    BY DEF Endpoint
  <2>2. /\ pc["server"] = "start" /\ app_send_queue["server"] = << >>
        /\ bytes_written["client"] = 0 /\ bytes_read["server"] = 0 /\ eof["server"] = FALSE
        /\ app["client"] = "open" /\ app["server"] = "open"
    BY <2>1 DEF Init
  <2>3. DeliveredBytes = 0
    BY <2>2 DEF DeliveredBytes, Handshaking
  <2>4. ReadyChunks = << >>
    <3>1. << >> \in Seq(Chunk)
      OBVIOUS
    <3>2. ReadyChunks = Shown(<< >>)
      BY <2>2 DEF ReadyChunks, Shown
    <3>3. QED
      BY <3>1, <3>2, ShownQueue
  <2>5. QED
    BY <2>2, <2>3, <2>4 DEF ToServer!Init
<1>2. StreamInv /\ StreamInv' /\ ConnectionInv /\ [Next]_vars => [ToServer!Next]_(ToServer!vars)
  <2> SUFFICES ASSUME StreamInv, StreamInv', ConnectionInv, [Next]_vars
               PROVE  [ToServer!Next]_(ToServer!vars)
    OBVIOUS
  <2>1. TypeOK
    BY DEF StreamInv, TypeInv
  <2>2. CASE UNCHANGED observed
    <3>1. UNCHANGED ToServer!vars
      BY <2>2 DEF observed, context, thread, queues, ToServer!vars, DeliveredBytes,
                  FinReceived, Handshaking, ReadyChunks
    <3>2. QED
      BY <3>1
  <2>3. CASE Transport("client") \/ RecvPacket("client") \/ Application("client")
    BY <2>1, <2>3, ClientAbstract
  <2>4. CASE Transport("server") \/ RecvPacket("server") \/ Application("server")
    BY <2>4, ServerDelivers, ServerTakes, ServerHidden DEF Transport
  <2>5. QED
    BY <2>2, <2>3, <2>4, StepCases DEF Endpoint
<1>3. Spec => [][ToServer!Next]_(ToServer!vars)
  BY <1>2, StreamInvariance, ConnectionInvariance, PTL DEF Spec
<1>4. Spec => ToServer!Init
  BY <1>1 DEF Spec
<1>5. QED
  BY <1>3, <1>4 DEF ServerStreamImplemented, ToServer!Spec

-----------------------------------------------------------------------------
(***************************************************************************)
(* The sliding window: over a reliable link, and before tcp_seq wraps, the *)
(* bytes sent and not acknowledged fit in SWND.  The invariant follows     *)
(* each segment of an endpoint to its peer and the ACK of it back: along   *)
(* that way the sequence numbers never decrease, from SendBase to          *)
(* next_seqnum, so an ACK neither moves the window back nor past what was  *)
(* sent.                                                                   *)
(***************************************************************************)

(* Everything on its way to e *)
Coming(e) == network_recv_queue[e] \o wire[e]

(* The sequence number a segment brings its receiver's peer back: an ACK   *)
(* carries it, and for data and FINs it is the ACK they will be given.     *)
Mark(p) == IF p.flags = "ACK" THEN p.th_ack ELSE p.th_seq + Size(p)

(* The segments of s whose flags are in K have marks that never decrease,  *)
(* between lo and hi.                                                      *)
Ascend(s, K, lo, hi) ==
    /\ lo <= hi
    /\ \A i \in 1 .. Len(s) : s[i].flags \in K => lo <= Mark(s[i]) /\ Mark(s[i]) <= hi
    /\ \A i, j \in 1 .. Len(s) : i < j /\ s[i].flags \in K /\ s[j].flags \in K
                                    => Mark(s[i]) <= Mark(s[j])

Acks == {"ACK"}

Payloads == {"DATA", "FIN"}

(* The ACKs in s and the segments in t still to be answered, with lo, hi   *)
Answers(s, t, lo, hi) ==
    \E b \in Nat : Ascend(s, Acks, lo, b) /\ Ascend(t, Payloads, b, hi)

(* From SendBase over the ACKs coming back and the segments not yet        *)
(* answered to next_seqnum                                                 *)
RoundTrip(e) == Answers(Coming(e), Coming(Peer(e)), SendBase[e], next_seqnum[e])

(* Before its handshake is over an endpoint has sent no data and is sent   *)
(* no ACK.                                                                 *)
Silent(e) ==
    /\ \A i \in 1 .. Len(Coming(e)) : Coming(e)[i].flags \notin Acks
    /\ \A i \in 1 .. Len(Coming(Peer(e))) : Coming(Peer(e))[i].flags \notin Payloads

(* No segment with the SYN flag reaches control_loop(), which would take   *)
(* it for data: each handshake ends with the only one under way.           *)
NoSyn(s) == \A i \in 1 .. Len(s) : s[i].flags # "SYN"

SynInv ==
    /\ pc["client"] = "handshake" => Len(Coming("client")) <= 1
    /\ \A e \in Endpoint : ~Handshaking(e) => NoSyn(Coming(e))
    /\ ~Handshaking("client") /\ Waiting => Coming("server") # << >> /\ NoSyn(Tail(Coming("server")))

(* The window itself; rem is what of it is free. *)
Room(e) ==
    /\ SWND[e] = MIN(CWND[e], RECV_WIN) /\ CWND[e] >= MSS
    /\ SendBase[e] <= next_seqnum[e]
    /\ next_seqnum[e] - SendBase[e] <= SWND[e] + IF FinOut(e) THEN 1 ELSE 0
    /\ ~FinOut(e) => rem[e] = SWND[e] - (next_seqnum[e] - SendBase[e])

(* Nothing has wrapped. *)
Bounded(e) == /\ bytes_written[e] <= MaxBytes[e]
              /\ next_seqnum[e] <= bytes_written[e] + 2

WindowInv ==
    /\ SynInv
    /\ \A e \in Endpoint :
          /\ Bounded(e)
          /\ IF Handshaking(e) THEN Silent(e) ELSE RoundTrip(e) /\ Room(e)

(* What the counters need not to wrap *)
NoWrap == /\ Unreliable = {}
          /\ RECV_WIN < SIZE_MOD
          /\ \A e \in Endpoint : MaxBytes[e] + 2 < SEQ_MOD

-----------------------------------------------------------------------------
(* What becomes of the segments on their way *)

LEMMA JoinedTail ==
    ASSUME NEW T, NEW s \in Seq(T), NEW t \in Seq(T), s # << >>
    PROVE  /\ s \o t # << >> /\ Tail(s) \o t = Tail(s \o t) /\ (s \o t)[1] = Head(s)
<1>1. /\ s \o t \in Seq(T) /\ Len(s \o t) = Len(s) + Len(t)
      /\ \A i \in 1 .. Len(s) + Len(t) :
            (s \o t)[i] = IF i <= Len(s) THEN s[i] ELSE t[i - Len(s)]
  BY ConcatProperties
<1>2. /\ Tail(s) \in Seq(T) /\ Len(s) \in Nat \ {0} /\ Len(Tail(s)) = Len(s) - 1
      /\ \A i \in 1 .. Len(s) - 1 : Tail(s)[i] = s[i + 1]
      /\ Head(s) = s[1]
  BY TailRest
<1>3. Len(t) \in Nat
  BY LenProperties
<1>4. s \o t # << >>
  BY <1>1, <1>2, <1>3
<1>5. /\ Tail(s \o t) \in Seq(T) /\ Len(Tail(s \o t)) = Len(s \o t) - 1
      /\ \A i \in 1 .. Len(s \o t) - 1 : Tail(s \o t)[i] = (s \o t)[i + 1]
  BY <1>1, <1>4, TailRest
<1>6. /\ Tail(s) \o t \in Seq(T) /\ Len(Tail(s) \o t) = Len(Tail(s)) + Len(t)
      /\ \A i \in 1 .. Len(Tail(s)) + Len(t) :
            (Tail(s) \o t)[i] = IF i <= Len(Tail(s)) THEN Tail(s)[i] ELSE t[i - Len(Tail(s))]
  BY <1>2, ConcatProperties
<1>7. PICK u : u = Tail(s \o t)
  OBVIOUS
<1>8. PICK v : v = Tail(s) \o t
  OBVIOUS
<1>9. PICK m \in Nat \ {0}, n \in Nat : m = Len(s) /\ n = Len(t)
  BY <1>2, <1>3
<1>10. Len(u) = m + n - 1 /\ Len(v) = m + n - 1 /\ u \in Seq(T) /\ v \in Seq(T)
  BY <1>1, <1>2, <1>5, <1>6, <1>7, <1>8, <1>9
<1>11. ASSUME NEW i \in 1 .. m + n - 1 PROVE u[i] = v[i]
  <2>1. u[i] = (s \o t)[i + 1]
    BY <1>1, <1>5, <1>7, <1>9
  <2>2. u[i] = IF i + 1 <= m THEN s[i + 1] ELSE t[i + 1 - m]
    BY <1>1, <1>9, <2>1
  <2>3. v[i] = IF i <= m - 1 THEN Tail(s)[i] ELSE t[i - (m - 1)]
    BY <1>2, <1>6, <1>8, <1>9
  <2>4. CASE i <= m - 1
    BY <1>2, <1>9, <2>2, <2>3, <2>4
  <2>5. CASE ~(i <= m - 1)
    <3>1. i + 1 - m = i - (m - 1) /\ ~(i + 1 <= m)
      BY <2>5
    <3>2. QED
      BY <2>2, <2>3, <2>5, <3>1
  <2>6. QED
    BY <2>4, <2>5
<1>12. u = v
  BY <1>10, <1>11, SeqEqual
<1>13. (s \o t)[1] = s[1]
  BY <1>1, <1>2, <1>3
<1>14. QED
  BY <1>2, <1>4, <1>7, <1>8, <1>12, <1>13

LEMMA JoinedAppend ==
    ASSUME NEW T, NEW s \in Seq(T), NEW t \in Seq(T), NEW x \in T
    PROVE  s \o Append(t, x) = Append(s \o t, x)
<1>1. <<x>> \in Seq(T) /\ s \o t \in Seq(T)
  BY ConcatProperties
<1>2. Append(t, x) = t \o <<x>> /\ Append(s \o t, x) = (s \o t) \o <<x>>
  BY <1>1, AppendLast
<1>3. QED
  BY <1>1, <1>2, ConcatAssociative

LEMMA JoinedMove ==
    ASSUME NEW T, NEW s \in Seq(T), NEW t \in Seq(T), t # << >>
    PROVE  Append(s, Head(t)) \o Tail(t) = s \o t
<1>1. Head(t) \in T /\ Tail(t) \in Seq(T) /\ t = <<Head(t)>> \o Tail(t)
  OBVIOUS
<1>2. PICK x \in T, r \in Seq(T) : x = Head(t) /\ r = Tail(t)
  BY <1>1
<1>3. <<x>> \in Seq(T) /\ t = <<x>> \o r /\ Append(s, x) = s \o <<x>>
  <2>1. <<x>> \in Seq(T)
    OBVIOUS
  <2>2. t = <<x>> \o r
    BY <1>1, <1>2, Zenon
  <2>3. Append(s, x) = s \o <<x>>
    BY AppendLast, ZenonT(60)
  <2>4. QED
    BY <2>1, <2>2, <2>3
<1>4. (s \o <<x>>) \o r = s \o (<<x>> \o r)
  BY <1>3, ConcatAssociative
<1>5. QED
  BY <1>2, <1>3, <1>4

LEMMA ComingType ==
    ASSUME TypeOK, NEW e \in Endpoint
    PROVE  /\ network_recv_queue[e] \in Seq(Packet) /\ wire[e] \in Seq(Packet)
           /\ Coming(e) \in Seq(Packet)
<1>1. network_recv_queue[e] \in Seq(Packet) /\ wire[e] \in Seq(Packet)
  BY DEF TypeOK
<1>2. QED
  BY <1>1, ConcatProperties DEF Coming

(* A segment is taken from the front, *)
LEMMA ComingTake ==
    ASSUME TypeOK, NEW e \in Endpoint, NetworkRecv(e), wire'[e] = wire[e]
    PROVE  /\ Coming(e) # << >> /\ Coming(e)' = Tail(Coming(e))
           /\ Received(e) = Coming(e)[1] /\ Received(e) \in Packet
           /\ network_recv_queue[e] # << >>
<1>1. /\ network_recv_queue[e] # << >> /\ network_recv_queue'[e] = Tail(network_recv_queue[e])
      /\ Received(e) \in Packet
  BY QueueTail
<1>2. network_recv_queue[e] \in Seq(Packet) /\ wire[e] \in Seq(Packet)
  BY ComingType
<1>3. QED
  BY <1>1, <1>2, JoinedTail DEF Coming, Received

(* put at the end, *)
LEMMA ComingPut ==
    ASSUME TypeOK, NEW e \in Endpoint, NEW x \in Packet,
           network_recv_queue'[e] = network_recv_queue[e], wire'[e] = Append(wire[e], x)
    PROVE  Coming(e)' = Append(Coming(e), x)
<1>1. network_recv_queue[e] \in Seq(Packet) /\ wire[e] \in Seq(Packet)
  BY ComingType
<1>2. ASSUME NEW s \in Seq(Packet), NEW t \in Seq(Packet)
      PROVE  s \o Append(t, x) = Append(s \o t, x)
  <2>1. x \in Packet
    OBVIOUS
  <2>2. QED
    BY ONLY <2>1, JoinedAppend
<1>3. Coming(e)' = network_recv_queue[e] \o Append(wire[e], x)
  BY DEF Coming
<1>4. QED
  BY <1>1, <1>2, <1>3 DEF Coming

(* and moved from the wire into the queue. *)
LEMMA ComingMove ==
    ASSUME TypeOK, NEW e \in Endpoint, RecvPacket(e)
    PROVE  \A f \in Endpoint : Coming(f)' = Coming(f)
<1>1. /\ network_recv_queue \in [Endpoint -> Seq(Packet)] /\ wire \in [Endpoint -> Seq(Packet)]
      /\ wire[e] # << >>
      /\ wire' = [wire EXCEPT ![e] = Tail(@)]
      /\ network_recv_queue' = [network_recv_queue EXCEPT ![e] = Append(@, Head(wire[e]))]
  BY DEF TypeOK, RecvPacket, Enqueued
<1>2. /\ wire'[e] = Tail(wire[e])
      /\ network_recv_queue'[e] = Append(network_recv_queue[e], Head(wire[e]))
      /\ \A f \in Endpoint : f # e => /\ wire'[f] = wire[f]
                                      /\ network_recv_queue'[f] = network_recv_queue[f]
  BY <1>1
<1>3. network_recv_queue[e] \in Seq(Packet) /\ wire[e] \in Seq(Packet)
  BY <1>1
<1>4. Append(network_recv_queue[e], Head(wire[e])) \o Tail(wire[e]) = network_recv_queue[e] \o wire[e]
  BY <1>1, <1>3, JoinedMove
<1>5. Coming(e)' = Coming(e)
  BY <1>2, <1>4 DEF Coming
<1>6. \A f \in Endpoint : f # e => Coming(f)' = Coming(f)
  BY <1>2 DEF Coming
<1>7. QED
  BY <1>5, <1>6

(* A queue that is freed leaves what is on the wire. *)
LEMMA ComingFreed ==
    ASSUME TypeOK, NEW e \in Endpoint, network_recv_queue'[e] = << >>, wire'[e] = wire[e]
    PROVE  \E n \in Nat : /\ Len(Coming(e)) = n + Len(Coming(e)')
                          /\ \A i \in 1 .. Len(Coming(e)') : Coming(e)'[i] = Coming(e)[n + i]
<1>1. PICK s \in Seq(Packet), t \in Seq(Packet) : s = network_recv_queue[e] /\ t = wire[e]
  BY ComingType
<1>2. Coming(e) = s \o t /\ Coming(e)' = t
  BY <1>1, ConcatEmptySeq DEF Coming
<1>3. /\ Len(s \o t) = Len(s) + Len(t) /\ Len(s) \in Nat /\ Len(t) \in Nat
      /\ \A i \in 1 .. Len(s) + Len(t) :
            (s \o t)[i] = IF i <= Len(s) THEN s[i] ELSE t[i - Len(s)]
  BY ConcatProperties, LenProperties
<1>4. ASSUME NEW i \in 1 .. Len(t) PROVE t[i] = (s \o t)[Len(s) + i]
  <2>1. Len(s) + i \in 1 .. Len(s) + Len(t) /\ ~(Len(s) + i <= Len(s)) /\ Len(s) + i - Len(s) = i
    BY <1>3
  <2>2. QED
    BY <1>3, <2>1
<1>5. QED
  BY <1>2, <1>3, <1>4

-----------------------------------------------------------------------------
(* Marks that never decrease *)

LEMMA MarkType == \A p \in Packet : Mark(p) \in Nat
<1>1. \A p \in Packet : p.th_ack \in Nat /\ p.th_seq \in Nat /\ Size(p) \in Nat
  BY SizeType DEF Packet
<1>2. QED
  BY <1>1 DEF Mark

LEMMA MarksType == \A s \in Seq(Packet) : \A i \in 1 .. Len(s) : s[i] \in Packet /\ Mark(s[i]) \in Nat
BY MarkType, ElementOfSeq

(* The bounds may be widened. *)
LEMMA AscendWiden ==
    ASSUME NEW s \in Seq(Packet), NEW K, NEW lo \in Nat, NEW hi \in Nat, NEW a \in Nat, NEW b \in Nat,
           Ascend(s, K, lo, hi), a <= lo, hi <= b
    PROVE  Ascend(s, K, a, b)
BY MarksType DEF Ascend

(* Between the same bounds any part of the segments ascends. *)
LEMMA AscendPart ==
    ASSUME NEW s \in Seq(Packet), NEW t \in Seq(Packet), NEW K, NEW lo \in Nat, NEW hi \in Nat,
           Ascend(s, K, lo, hi), NEW n \in Nat, Len(s) = n + Len(t),
           \A i \in 1 .. Len(t) : t[i] = s[n + i]
    PROVE  Ascend(t, K, lo, hi)
<1>1. Len(s) \in Nat /\ Len(t) \in Nat
  BY LenProperties
<1>2. \A i \in 1 .. Len(t) : n + i \in 1 .. Len(s)
  BY <1>1
<1>3. \A i, j \in 1 .. Len(t) : i < j => n + i < n + j
  BY <1>1
<1>4. QED
  BY <1>2, <1>3 DEF Ascend

(* None to be looked at *)
LEMMA AscendNone ==
    ASSUME NEW s, NEW K, NEW a \in Nat, \A i \in 1 .. Len(s) : s[i].flags \notin K
    PROVE  Ascend(s, K, a, a)
BY DEF Ascend

(* The first segment gone: its mark was between the bounds, and is a lower *)
(* bound of the rest.                                                      *)
LEMMA AscendTail ==
    ASSUME NEW s \in Seq(Packet), s # << >>, NEW K, NEW lo \in Nat, NEW hi \in Nat,
           Ascend(s, K, lo, hi)
    PROVE  /\ Ascend(Tail(s), K, lo, hi)
           /\ s[1].flags \in K => /\ lo <= Mark(s[1]) /\ Mark(s[1]) <= hi
                                  /\ Ascend(Tail(s), K, Mark(s[1]), hi)
<1>1. /\ Tail(s) \in Seq(Packet) /\ Len(s) \in Nat \ {0} /\ Len(Tail(s)) = Len(s) - 1
      /\ \A i \in 1 .. Len(s) - 1 : Tail(s)[i] = s[i + 1]
  BY TailRest
<1>2. PICK t \in Seq(Packet) : t = Tail(s)
  BY <1>1
<1>3. \A i \in 1 .. Len(t) : t[i] = s[i + 1] /\ i + 1 \in 1 .. Len(s) /\ 1 < i + 1
  BY <1>1, <1>2
<1>4. \A i, j \in 1 .. Len(t) : i < j => i + 1 < j + 1
  BY <1>1, <1>2
<1>5. 1 \in 1 .. Len(s)
  BY <1>1
<1>6. Ascend(t, K, lo, hi)
  BY <1>3, <1>4 DEF Ascend
<1>7. ASSUME s[1].flags \in K
      PROVE  lo <= Mark(s[1]) /\ Mark(s[1]) <= hi /\ Ascend(t, K, Mark(s[1]), hi)
  BY <1>3, <1>4, <1>5, <1>7 DEF Ascend
<1>8. QED
  BY <1>2, <1>6, <1>7

(* One segment more *)
LEMMA AscendAppend ==
    ASSUME NEW s \in Seq(Packet), NEW x \in Packet, NEW K, NEW lo \in Nat, NEW hi \in Nat,
           NEW b \in Nat, Ascend(s, K, lo, hi), hi <= b,
           x.flags \in K => hi <= Mark(x) /\ Mark(x) <= b
    PROVE  Ascend(Append(s, x), K, lo, b)
<1>1. /\ Len(s) \in Nat /\ Len(Append(s, x)) = Len(s) + 1
      /\ \A i \in 1 .. Len(s) : Append(s, x)[i] = s[i]
      /\ Append(s, x)[Len(s) + 1] = x
  BY AppendLast, LenProperties
<1>2. PICK t : t = Append(s, x)
  OBVIOUS
<1>3. PICK n \in Nat : n = Len(s)
  BY <1>1
<1>4. /\ Len(t) = n + 1 /\ \A i \in 1 .. n : t[i] = s[i] /\ Mark(s[i]) \in Nat
      /\ t[n + 1] = x /\ Mark(x) \in Nat
  BY <1>1, <1>2, <1>3, MarkType, MarksType
<1>5. /\ \A i \in 1 .. n : s[i].flags \in K => lo <= Mark(s[i]) /\ Mark(s[i]) <= hi
      /\ \A i, j \in 1 .. n : i < j /\ s[i].flags \in K /\ s[j].flags \in K
                                => Mark(s[i]) <= Mark(s[j])
      /\ lo <= hi
  BY <1>3 DEF Ascend
<1>6. \A i \in 1 .. n + 1 : i = n + 1 \/ i \in 1 .. n
  OBVIOUS
<1>7. \A i \in 1 .. n + 1 : t[i].flags \in K => lo <= Mark(t[i]) /\ Mark(t[i]) <= b
  BY <1>4, <1>5, <1>6, SMTT(30)
<1>8. ASSUME NEW i \in 1 .. n + 1, NEW j \in 1 .. n + 1, i < j, t[i].flags \in K, t[j].flags \in K
      PROVE  Mark(t[i]) <= Mark(t[j])
  <2>1. i \in 1 .. n
    BY <1>8
  <2>2. CASE j = n + 1
    BY <1>4, <1>5, <1>8, <2>1, <2>2
  <2>3. CASE j \in 1 .. n
    BY <1>4, <1>5, <1>8, <2>1, <2>3
  <2>4. QED
    BY <1>6, <2>2, <2>3
<1>9. Ascend(t, K, lo, b)
  BY <1>4, <1>5, <1>7, <1>8 DEF Ascend
<1>10. QED
  BY <1>2, <1>9

-----------------------------------------------------------------------------
(* The way of a segment and of its ACK *)

LEMMA AnswersBounds ==
    ASSUME NEW s, NEW t, NEW lo \in Nat, NEW hi \in Nat, Answers(s, t, lo, hi)
    PROVE  lo <= hi
<1>1. PICK b \in Nat : Ascend(s, Acks, lo, b) /\ Ascend(t, Payloads, b, hi)
  BY DEF Answers
<1>2. lo <= b /\ b <= hi
  BY <1>1 DEF Ascend
<1>3. QED
  BY <1>2

LEMMA AnswersNone ==
    ASSUME NEW s, NEW t, NEW a \in Nat,
           \A i \in 1 .. Len(s) : s[i].flags \notin Acks,
           \A i \in 1 .. Len(t) : t[i].flags \notin Payloads
    PROVE  Answers(s, t, a, a)
BY AscendNone DEF Answers

(* The sender takes the first segment coming back: if it is an ACK, the    *)
(* window may start at its number.                                         *)
LEMMA AnswersTaken ==
    ASSUME NEW s \in Seq(Packet), NEW t \in Seq(Packet), NEW lo \in Nat, NEW hi \in Nat,
           Answers(s, t, lo, hi), s # << >>
    PROVE  /\ Answers(Tail(s), t, lo, hi)
           /\ s[1].flags = "ACK" => /\ lo <= s[1].th_ack /\ s[1].th_ack <= hi
                                    /\ Answers(Tail(s), t, s[1].th_ack, hi)
<1>1. PICK b \in Nat : Ascend(s, Acks, lo, b) /\ Ascend(t, Payloads, b, hi)
  BY DEF Answers
<1>2. Answers(Tail(s), t, lo, hi)
  BY <1>1, AscendTail DEF Answers
<1>3. ASSUME s[1].flags = "ACK"
      PROVE  /\ lo <= s[1].th_ack /\ s[1].th_ack <= hi
             /\ Answers(Tail(s), t, s[1].th_ack, hi)
  <2>1. s[1].flags \in Acks /\ Mark(s[1]) = s[1].th_ack
    BY <1>3 DEF Acks, Mark
  <2>2. /\ lo <= Mark(s[1]) /\ Mark(s[1]) <= b /\ Ascend(Tail(s), Acks, Mark(s[1]), b)
    BY <1>1, <2>1, AscendTail
  <2>3. b <= hi
    BY <1>1 DEF Ascend
  <2>4. s[1] \in Packet /\ Mark(s[1]) \in Nat
    BY MarkType
  <2>5. Answers(Tail(s), t, s[1].th_ack, hi)
    BY <1>1, <2>1, <2>2 DEF Answers
  <2>6. QED
    BY <2>1, <2>2, <2>3, <2>4, <2>5
<1>4. QED
  BY <1>2, <1>3

(* The receiver takes the first segment, and may answer it. *)
LEMMA AnswersGiven ==
    ASSUME NEW s \in Seq(Packet), NEW t \in Seq(Packet), NEW lo \in Nat, NEW hi \in Nat,
           Answers(s, t, lo, hi), t # << >>
    PROVE  /\ Answers(s, Tail(t), lo, hi)
           /\ t[1].flags \in Payloads =>
                 /\ Mark(t[1]) <= hi
                 /\ \A x \in Packet : x.flags = "ACK" /\ x.th_ack = Mark(t[1])
                                         => Answers(Append(s, x), Tail(t), lo, hi)
<1>1. PICK b \in Nat : Ascend(s, Acks, lo, b) /\ Ascend(t, Payloads, b, hi)
  BY DEF Answers
<1>2. Answers(s, Tail(t), lo, hi)
  BY <1>1, AscendTail DEF Answers
<1>3. ASSUME t[1].flags \in Payloads, NEW x \in Packet, x.flags = "ACK", x.th_ack = Mark(t[1])
      PROVE  Answers(Append(s, x), Tail(t), lo, hi)
  <2>1. b <= Mark(t[1]) /\ Mark(t[1]) <= hi /\ Ascend(Tail(t), Payloads, Mark(t[1]), hi)
    BY <1>1, <1>3, AscendTail
  <2>2. PICK c \in Nat : c = Mark(t[1]) /\ c = Mark(x)
    BY <1>3, MarkType DEF Mark
  <2>3. Ascend(Append(s, x), Acks, lo, c)
    BY <1>1, <2>1, <2>2, AscendAppend
  <2>4. QED
    BY <2>1, <2>2, <2>3 DEF Answers
<1>4. t[1].flags \in Payloads => Mark(t[1]) <= hi
  BY <1>1, AscendTail
<1>5. QED
  BY <1>2, <1>3, <1>4

(* The sender sends a segment, with a number of its own or none. *)
LEMMA AnswersSent ==
    ASSUME NEW s \in Seq(Packet), NEW t \in Seq(Packet), NEW lo \in Nat, NEW hi \in Nat,
           Answers(s, t, lo, hi), NEW x \in Packet, NEW h \in Nat, hi <= h,
           x.flags \in Payloads => Mark(x) = h
    PROVE  Answers(s, Append(t, x), lo, h)
<1>1. PICK b \in Nat : Ascend(s, Acks, lo, b) /\ Ascend(t, Payloads, b, hi)
  BY DEF Answers
<1>2. x.flags \in Payloads => hi <= Mark(x) /\ Mark(x) <= h
  OBVIOUS
<1>3. Ascend(Append(t, x), Payloads, b, h)
  BY <1>1, <1>2, AscendAppend
<1>4. QED
  BY <1>1, <1>3 DEF Answers

(* The receiver sends a segment that is no ACK. *)
LEMMA AnswersOther ==
    ASSUME NEW s \in Seq(Packet), NEW t \in Seq(Packet), NEW lo \in Nat, NEW hi \in Nat,
           Answers(s, t, lo, hi), NEW x \in Packet, x.flags # "ACK"
    PROVE  Answers(Append(s, x), t, lo, hi)
<1>1. PICK b \in Nat : Ascend(s, Acks, lo, b) /\ Ascend(t, Payloads, b, hi)
  BY DEF Answers
<1>2. x.flags \notin Acks
  BY DEF Acks
<1>3. Ascend(Append(s, x), Acks, lo, b)
  BY <1>1, <1>2, AscendAppend
<1>4. QED
  BY <1>1, <1>3 DEF Answers

(* Segments are lost when a queue is freed. *)
LEMMA AnswersPart ==
    ASSUME NEW s \in Seq(Packet), NEW t \in Seq(Packet), NEW u \in Seq(Packet),
           NEW lo \in Nat, NEW hi \in Nat, NEW n \in Nat, Len(s) = n + Len(u),
           \A i \in 1 .. Len(u) : u[i] = s[n + i]
    PROVE  /\ Answers(s, t, lo, hi) => Answers(u, t, lo, hi)
           /\ Answers(t, s, lo, hi) => Answers(t, u, lo, hi)
<1>1. ASSUME NEW K, NEW a \in Nat, NEW b \in Nat, Ascend(s, K, a, b) PROVE Ascend(u, K, a, b)
  BY <1>1, AscendPart
<1>2. QED
  BY <1>1 DEF Answers

-----------------------------------------------------------------------------
(* Steps that leave the segments alone, and steps after the handshake *)

LEMMA WindowType ==
    ASSUME TypeOK, NEW e \in Endpoint
    PROVE  /\ SWND[e] \in Nat /\ CWND[e] \in Nat /\ SendBase[e] \in Nat /\ next_seqnum[e] \in Nat
           /\ rem[e] \in Nat /\ bytes_written[e] \in Nat /\ MaxBytes[e] \in Nat
BY ConstantsAssumption DEF TypeOK

(* The window of an endpoint depends on its own counters, and a FIN that   *)
(* is out leaves it more room.                                             *)
LEMMA RoomKeeps ==
    ASSUME TypeOK, NEW e \in Endpoint, Room(e), FinOut(e) => FinOut(e)',
           SWND'[e] = SWND[e], CWND'[e] = CWND[e], rem'[e] = rem[e],
           SendBase'[e] = SendBase[e], next_seqnum'[e] = next_seqnum[e]
    PROVE  Room(e)'
<1>1. /\ SWND[e] \in Nat /\ SendBase[e] \in Nat /\ next_seqnum[e] \in Nat
  BY WindowType
<1>2. next_seqnum[e] - SendBase[e] <= SWND[e] + IF FinOut(e)' THEN 1 ELSE 0
  <2>1. CASE FinOut(e)
    BY <2>1 DEF Room
  <2>2. CASE ~FinOut(e)
    BY <1>1, <2>2 DEF Room
  <2>3. QED
    BY <2>1, <2>2
<1>3. QED
  BY <1>2 DEF Room

(* What a step of the peer leaves alone *)
LEMMA OwnWindow ==
    ASSUME NEW e \in Endpoint, TypeOK, Own(e), Bounded(e)
    PROVE  /\ Handshaking(e)' <=> Handshaking(e)
           /\ Bounded(e)'
           /\ Room(e) => Room(e)'
<1>1. /\ Handshaking(e)' <=> Handshaking(e)
      /\ FinOut(e)' <=> FinOut(e)
  BY DEF Own, Handshaking, FinOut
<1>2. Bounded(e)'
  BY DEF Own, Bounded
<1>3. Room(e) => Room(e)'
  BY <1>1, RoomKeeps DEF Own
<1>4. QED
  BY <1>1, <1>2, <1>3

(* No segment sent or taken, no counter changed *)
LEMMA WindowFrame ==
    ASSUME WindowInv, TypeOK,
           \A e \in Endpoint :
              /\ Coming(e)' = Coming(e)
              /\ Handshaking(e)' <=> Handshaking(e)
              /\ FinOut(e) => FinOut(e)'
              /\ SWND'[e] = SWND[e] /\ CWND'[e] = CWND[e] /\ rem'[e] = rem[e]
              /\ SendBase'[e] = SendBase[e] /\ next_seqnum'[e] = next_seqnum[e]
              /\ bytes_written'[e] = bytes_written[e],
           pc'["client"] = "handshake" => pc["client"] = "handshake",
           Waiting' => Waiting
    PROVE  WindowInv'
<1>1. "client" \in Endpoint /\ "server" \in Endpoint
  BY DEF Endpoint
<1>2. SynInv'
  <2>1. \A e \in Endpoint : NoSyn(Coming(e)) => NoSyn(Coming(e))'
    BY DEF NoSyn
  <2>2. NoSyn(Tail(Coming("server"))) => NoSyn(Tail(Coming("server")))'
    BY <1>1 DEF NoSyn
  <2>3. SynInv
    BY DEF WindowInv
  <2>4. QED
    BY <1>1, <2>1, <2>2, <2>3 DEF SynInv
<1>3. ASSUME NEW e \in Endpoint
      PROVE  Bounded(e)' /\ IF Handshaking(e)' THEN Silent(e)' ELSE RoundTrip(e)' /\ Room(e)'
  <2>1. Peer(e) \in Endpoint
    BY PeerFacts
  <2>2. Bounded(e)'
    BY DEF WindowInv, Bounded
  <2>3. Room(e) => Room(e)'
    BY RoomKeeps
  <2>4. Silent(e) => Silent(e)'
    BY <2>1 DEF Silent
  <2>5. RoundTrip(e) => RoundTrip(e)'
    BY <2>1 DEF RoundTrip
  <2>6. QED
    BY <2>2, <2>3, <2>4, <2>5 DEF WindowInv
<1>4. QED
  BY <1>2, <1>3 DEF WindowInv

(* What a step of f, past its handshake, does with the segments on their   *)
(* way to it: none, the first or all those in its queue are gone, and the  *)
(* window may start where the ACK taken says.                              *)
Takes(f) ==
    \/ Coming(f)' = Coming(f) /\ SendBase'[f] = SendBase[f]
    \/ /\ Coming(f) # << >> /\ Coming(f)' = Tail(Coming(f))
       /\ \/ SendBase'[f] = SendBase[f]
          \/ Coming(f)[1].flags = "ACK" /\ SendBase'[f] = Coming(f)[1].th_ack
    \/ /\ SendBase'[f] = SendBase[f]
       /\ \E n \in Nat : /\ Len(Coming(f)) = n + Len(Coming(f)')
                         /\ \A i \in 1 .. Len(Coming(f)') : Coming(f)'[i] = Coming(f)[n + i]

(* And with those on their way to its peer: data or a FIN that takes up    *)
(* the next numbers, or the ACK of the segment taken.                      *)
Sends(f, x) ==
    /\ Coming(Peer(f))' = Append(Coming(Peer(f)), x)
    /\ \/ /\ x.flags \in Payloads /\ Mark(x) = next_seqnum'[f]
          /\ next_seqnum[f] <= next_seqnum'[f]
       \/ /\ x.flags = "ACK" /\ next_seqnum'[f] = next_seqnum[f]
          /\ Coming(f) # << >> /\ Coming(f)' = Tail(Coming(f)) /\ SendBase'[f] = SendBase[f]
          /\ Coming(f)[1].flags \in Payloads /\ x.th_ack = Mark(Coming(f)[1])

Exchanges(f) ==
    /\ Takes(f)
    /\ \/ Coming(Peer(f))' = Coming(Peer(f)) /\ next_seqnum'[f] = next_seqnum[f]
       \/ \E x \in Packet : Sends(f, x)

(* What is left of the segments on their way to f were there before. *)
LEMMA TakesPart ==
    ASSUME NEW f, NEW T, Coming(f) \in Seq(T), Coming(f)' \in Seq(T), Takes(f)
    PROVE  \A i \in 1 .. Len(Coming(f)') :
              \E j \in 1 .. Len(Coming(f)) : Coming(f)'[i] = Coming(f)[j]
<1>1. PICK s \in Seq(T) : s = Coming(f)
  OBVIOUS
<1>2. PICK u \in Seq(T) : u = Coming(f)'
  OBVIOUS
<1>3. Len(s) \in Nat /\ Len(u) \in Nat
  BY LenProperties
<1>4. CASE u = s
  BY <1>1, <1>2, <1>4
<1>5. CASE s # << >> /\ u = Tail(s)
  <2>1. /\ Len(u) = Len(s) - 1 /\ \A i \in 1 .. Len(s) - 1 : u[i] = s[i + 1]
    BY <1>5, TailRest
  <2>2. ASSUME NEW i \in 1 .. Len(u) PROVE \E j \in 1 .. Len(s) : u[i] = s[j]
    <3>1. i + 1 \in 1 .. Len(s) /\ u[i] = s[i + 1]
      BY <1>3, <2>1
    <3>2. QED
      BY <3>1
  <2>3. QED
    BY <1>1, <1>2, <2>2
<1>6. CASE \E n \in Nat : Len(s) = n + Len(u) /\ \A i \in 1 .. Len(u) : u[i] = s[n + i]
  <2>1. PICK n \in Nat : Len(s) = n + Len(u) /\ \A i \in 1 .. Len(u) : u[i] = s[n + i]
    BY <1>6
  <2>2. ASSUME NEW i \in 1 .. Len(u) PROVE \E j \in 1 .. Len(s) : u[i] = s[j]
    <3>1. n + i \in 1 .. Len(s) /\ u[i] = s[n + i]
      BY <1>3, <2>1
    <3>2. QED
      BY <3>1
  <2>3. QED
    BY <1>1, <1>2, <2>2
<1>7. QED
  BY <1>1, <1>2, <1>4, <1>5, <1>6 DEF Takes

(* Both ways stay in order. *)
LEMMA ExchangeTrips ==
    ASSUME TypeOK, TypeOK', NEW f \in Endpoint, Exchanges(f), Own(Peer(f)),
           RoundTrip(f)
    PROVE  /\ RoundTrip(f)'
           /\ RoundTrip(Peer(f)) => RoundTrip(Peer(f))'
<1>1. Peer(f) \in Endpoint /\ Peer(Peer(f)) = f
  BY PeerFacts
<1>2. PICK s \in Seq(Packet), t \in Seq(Packet) : s = Coming(f) /\ t = Coming(Peer(f))
  BY <1>1, ComingType
<1>3. Coming(f)' \in Seq(Packet) /\ Coming(Peer(f))' \in Seq(Packet)
  <2>1. \A e \in Endpoint : network_recv_queue'[e] \in Seq(Packet) /\ wire'[e] \in Seq(Packet)
    BY DEF TypeOK
  <2>2. \A e \in Endpoint : network_recv_queue'[e] \o wire'[e] \in Seq(Packet)
    BY <2>1, ConcatProperties
  <2>3. QED
    BY <1>1, <2>2 DEF Coming
<1>4. PICK u \in Seq(Packet), v \in Seq(Packet) : u = Coming(f)' /\ v = Coming(Peer(f))'
  BY <1>3
<1>5. PICK lo \in Nat, hi \in Nat, l \in Nat, h \in Nat :
         lo = SendBase[f] /\ hi = next_seqnum[f] /\ l = SendBase'[f] /\ h = next_seqnum'[f]
  <2>1. SendBase[f] \in Nat /\ next_seqnum[f] \in Nat /\ SendBase'[f] \in Nat /\ next_seqnum'[f] \in Nat
    BY DEF TypeOK
  <2>2. QED
    BY <2>1
<1>6. PICK a \in Nat, b \in Nat : a = SendBase[Peer(f)] /\ b = next_seqnum[Peer(f)]
  BY <1>1, WindowType
<1>7. a = SendBase'[Peer(f)] /\ b = next_seqnum'[Peer(f)]
  BY <1>6 DEF Own
<1>8. /\ RoundTrip(f) <=> Answers(s, t, lo, hi)
      /\ RoundTrip(f)' <=> Answers(u, v, l, h)
      /\ RoundTrip(Peer(f)) <=> Answers(t, s, a, b)
      /\ RoundTrip(Peer(f))' <=> Answers(v, u, a, b)
  BY <1>1, <1>2, <1>4, <1>5, <1>6, <1>7 DEF RoundTrip
<1>9. \/ u = s /\ l = lo
      \/ s # << >> /\ u = Tail(s) /\ (l = lo \/ (s[1].flags = "ACK" /\ l = s[1].th_ack))
      \/ l = lo /\ \E n \in Nat : Len(s) = n + Len(u) /\ \A i \in 1 .. Len(u) : u[i] = s[n + i]
  BY <1>2, <1>4, <1>5 DEF Exchanges, Takes
<1>10. \/ v = t /\ h = hi
       \/ \E x \in Packet :
             /\ v = Append(t, x)
             /\ \/ x.flags \in Payloads /\ Mark(x) = h /\ hi <= h
                \/ /\ x.flags = "ACK" /\ h = hi /\ s # << >> /\ u = Tail(s) /\ l = lo
                   /\ s[1].flags \in Payloads /\ x.th_ack = Mark(s[1])
  BY <1>2, <1>4, <1>5 DEF Exchanges, Sends
<1>11. Answers(u, t, l, hi)
  <2>1. Answers(s, t, lo, hi)
    BY <1>8
  <2>2. CASE u = s /\ l = lo
    BY <2>1, <2>2
  <2>3. CASE s # << >> /\ u = Tail(s) /\ (l = lo \/ (s[1].flags = "ACK" /\ l = s[1].th_ack))
    BY <2>1, <2>3, AnswersTaken
  <2>4. ASSUME l = lo, NEW n \in Nat, Len(s) = n + Len(u), \A i \in 1 .. Len(u) : u[i] = s[n + i]
        PROVE  Answers(u, t, l, hi)
    BY <2>1, <2>4, AnswersPart
  <2>5. QED
    BY <1>9, <2>2, <2>3, <2>4
<1>12. Answers(u, v, l, h)
  <2>1. CASE v = t /\ h = hi
    BY <1>11, <2>1
  <2>2. ASSUME NEW x \in Packet, v = Append(t, x),
               \/ x.flags \in Payloads /\ Mark(x) = h /\ hi <= h
               \/ x.flags = "ACK" /\ h = hi
        PROVE  Answers(u, v, l, h)
    <3>1. hi <= h /\ (x.flags \in Payloads => Mark(x) = h)
      BY <2>2 DEF Payloads
    <3>2. QED
      BY <1>11, <2>2, <3>1, AnswersSent
  <2>3. QED
    BY <1>10, <2>1, <2>2
<1>13. ASSUME Answers(t, s, a, b) PROVE Answers(v, u, a, b)
  <2>1. Answers(t, u, a, b)
    <3>1. CASE u = s
      BY <1>13, <3>1
    <3>2. CASE s # << >> /\ u = Tail(s)
      BY <1>13, <3>2, AnswersGiven
    <3>3. ASSUME NEW n \in Nat, Len(s) = n + Len(u), \A i \in 1 .. Len(u) : u[i] = s[n + i]
          PROVE  Answers(t, u, a, b)
      BY <1>13, <3>3, AnswersPart
    <3>4. QED
      BY <1>9, <3>1, <3>2, <3>3
  <2>2. CASE v = t
    BY <2>1, <2>2
  <2>3. ASSUME NEW x \in Packet, v = Append(t, x), x.flags \in Payloads
        PROVE  Answers(v, u, a, b)
    <3>1. x.flags # "ACK"
      BY <2>3 DEF Payloads
    <3>2. QED
      BY <2>1, <2>3, <3>1, AnswersOther
  <2>4. ASSUME NEW x \in Packet, v = Append(t, x), x.flags = "ACK", s # << >>, u = Tail(s),
               s[1].flags \in Payloads, x.th_ack = Mark(s[1])
        PROVE  Answers(v, u, a, b)
    BY <1>13, <2>4, AnswersGiven
  <2>5. QED
    BY <1>10, <2>2, <2>3, <2>4
<1>14. QED
  BY <1>8, <1>12, <1>13

(* What a segment more does to a queue without SYN *)
LEMMA NoSynAppend ==
    ASSUME NEW s \in Seq(Packet), NEW x \in Packet, x.flags # "SYN"
    PROVE  /\ NoSyn(s) => NoSyn(Append(s, x))
           /\ s # << >> /\ NoSyn(Tail(s)) => Append(s, x) # << >> /\ NoSyn(Tail(Append(s, x)))
<1>1. ASSUME NEW t \in Seq(Packet), NoSyn(t) PROVE NoSyn(Append(t, x))
  <2>1. /\ Len(t) \in Nat /\ Len(Append(t, x)) = Len(t) + 1
        /\ \A i \in 1 .. Len(t) : Append(t, x)[i] = t[i]
        /\ Append(t, x)[Len(t) + 1] = x
    BY AppendLast, LenProperties
  <2>2. \A i \in 1 .. Len(t) + 1 : i = Len(t) + 1 \/ i \in 1 .. Len(t)
    BY <2>1
  <2>3. QED
    BY <1>1, <2>1, <2>2 DEF NoSyn
<1>2. ASSUME s # << >> PROVE Tail(Append(s, x)) = Append(Tail(s), x) /\ Tail(s) \in Seq(Packet)
  <2>1. <<x>> \in Seq(Packet) /\ Tail(s) \in Seq(Packet)
    BY <1>2
  <2>2. Append(s, x) = s \o <<x>> /\ Append(Tail(s), x) = Tail(s) \o <<x>>
    BY <2>1, AppendLast
  <2>3. Tail(s \o <<x>>) = Tail(s) \o <<x>>
    BY <1>2, <2>1, JoinedTail
  <2>4. QED
    BY <2>1, <2>2, <2>3
<1>3. Append(s, x) # << >>
  BY AppendLast
<1>4. QED
  BY <1>1, <1>2, <1>3

(* A step of an endpoint past its handshake *)
LEMMA Exchange ==
    ASSUME TypeOK, TypeOK', HandshakeInv, WindowInv, NEW f \in Endpoint, Exchanges(f), Own(Peer(f)),
           ~Handshaking(f), ~Handshaking(f)', Room(f)', Bounded(f)'
    PROVE  WindowInv'
<1> DEFINE g == Peer(f)
<1>1. /\ g \in Endpoint /\ g # f /\ Peer(g) = f /\ \A e \in Endpoint : e = f \/ e = g
      /\ (f = "client" /\ g = "server") \/ (f = "server" /\ g = "client")
  BY PeerFacts
<1>2. /\ Bounded(f) /\ Bounded(g) /\ RoundTrip(f) /\ SynInv
      /\ Handshaking(g) => Silent(g)
      /\ ~Handshaking(g) => RoundTrip(g) /\ Room(g)
  BY <1>1 DEF WindowInv
<1>3. /\ Handshaking(g)' <=> Handshaking(g)
      /\ Bounded(g)'
      /\ Room(g) => Room(g)'
  BY <1>1, <1>2, OwnWindow
<1>4. RoundTrip(f)' /\ (RoundTrip(g) => RoundTrip(g)')
  BY <1>2, ExchangeTrips
<1>5. PICK s \in Seq(Packet), t \in Seq(Packet) : s = Coming(f) /\ t = Coming(g)
  BY <1>1, ComingType
<1>6. Coming(f)' \in Seq(Packet) /\ Coming(g)' \in Seq(Packet)
  <2>1. \A e \in Endpoint : network_recv_queue'[e] \in Seq(Packet) /\ wire'[e] \in Seq(Packet)
    BY DEF TypeOK
  <2>2. \A e \in Endpoint : network_recv_queue'[e] \o wire'[e] \in Seq(Packet)
    BY <2>1, ConcatProperties
  <2>3. QED
    BY <1>1, <2>2 DEF Coming
<1>7. PICK u \in Seq(Packet), v \in Seq(Packet) : u = Coming(f)' /\ v = Coming(g)'
  BY <1>6
<1>8. \A i \in 1 .. Len(u) : \E j \in 1 .. Len(s) : u[i] = s[j]
  BY <1>5, <1>6, <1>7, TakesPart DEF Exchanges
<1>9. \/ v = t
      \/ \E x \in Packet : /\ v = Append(t, x) /\ x.flags # "SYN"
                           /\ x.flags = "ACK" => s # << >> /\ s[1].flags \in Payloads
  <2>1. \A x \in Packet : x.flags \in Payloads => x.flags # "SYN" /\ x.flags # "ACK"
    BY DEF Payloads
  <2>2. QED
    BY <1>5, <1>7, <2>1 DEF Exchanges, Sends
<1>10. ASSUME Handshaking(g) PROVE Silent(g)'
  <2>1. /\ \A i \in 1 .. Len(t) : t[i].flags \notin Acks
        /\ \A i \in 1 .. Len(s) : s[i].flags \notin Payloads
    BY <1>1, <1>2, <1>5, <1>10 DEF Silent
  <2>2. \A i \in 1 .. Len(u) : u[i].flags \notin Payloads
    BY <1>8, <2>1
  <2>3. s # << >> => 1 \in 1 .. Len(s)
    BY LenProperties
  <2>4. \A i \in 1 .. Len(v) : v[i].flags \notin Acks
    <3>1. CASE v = t
      BY <2>1, <3>1
    <3>2. ASSUME NEW x \in Packet, v = Append(t, x), x.flags # "ACK"
          PROVE  \A i \in 1 .. Len(v) : v[i].flags \notin Acks
      <4>1. /\ Len(t) \in Nat /\ Len(v) = Len(t) + 1
            /\ \A i \in 1 .. Len(t) : v[i] = t[i]
            /\ v[Len(t) + 1] = x
        BY <3>2, AppendLast, LenProperties
      <4>2. \A i \in 1 .. Len(v) : i = Len(t) + 1 \/ i \in 1 .. Len(t)
        BY <4>1
      <4>3. QED
        BY <2>1, <3>2, <4>1, <4>2 DEF Acks
    <3>3. QED
      BY <1>9, <2>1, <2>3, <3>1, <3>2
  <2>5. QED
    BY <1>1, <1>7, <2>2, <2>4 DEF Silent
<1>11. SynInv'
  <2>1. pc'["client"] # "handshake"
    <3>1. CASE f = "client"
      BY <3>1 DEF Handshaking
    <3>2. CASE f = "server"
      <4>1. pc["client"] # "handshake"
        BY <3>2 DEF HandshakeInv, Fresh, Waiting, Handshaking
      <4>2. g = "client"
        BY <1>1, <3>2
      <4>3. QED
        BY <4>1, <4>2 DEF Own
    <3>3. QED
      BY <1>1, <3>1, <3>2
  <2>2. NoSyn(u)
    <3>1. NoSyn(s)
      BY <1>2, <1>5 DEF SynInv
    <3>2. QED
      BY <1>8, <3>1 DEF NoSyn
  <2>3. ASSUME ~Handshaking(g) PROVE NoSyn(v)
    <3>1. NoSyn(t)
      BY <1>1, <1>2, <1>5, <2>3 DEF SynInv
    <3>2. QED
      BY <1>9, <3>1, NoSynAppend
  <2>4. ASSUME Waiting' PROVE Coming("server")' # << >> /\ NoSyn(Tail(Coming("server")))'
    <3>1. f = "client" /\ g = "server"
      BY <1>1, <2>4 DEF Waiting, Handshaking
    <3>2. Waiting
      BY <2>4, <3>1 DEF Waiting, Own
    <3>3. t # << >> /\ NoSyn(Tail(t))
      BY <1>2, <1>5, <3>1, <3>2 DEF SynInv
    <3>4. v # << >> /\ NoSyn(Tail(v))
      BY <1>9, <3>3, NoSynAppend
    <3>5. QED
      BY <1>7, <3>1, <3>4 DEF NoSyn
  <2>5. \A e \in Endpoint : ~Handshaking(e)' => NoSyn(Coming(e))'
    <3>1. NoSyn(Coming(f))'
      BY <1>7, <2>2 DEF NoSyn
    <3>2. ~Handshaking(g)' => NoSyn(Coming(g))'
      BY <1>3, <1>7, <2>3 DEF NoSyn
    <3>3. QED
      BY <1>1, <3>1, <3>2
  <2>6. QED
    BY <2>1, <2>4, <2>5 DEF SynInv
<1>12. QED
  <2>1. /\ Bounded(f)' /\ RoundTrip(f)' /\ Room(f)' /\ ~Handshaking(f)'
    BY <1>4
  <2>2. Bounded(g)' /\ IF Handshaking(g)' THEN Silent(g)' ELSE RoundTrip(g)' /\ Room(g)'
    BY <1>2, <1>3, <1>4, <1>10
  <2>3. QED
    BY <1>1, <1>11, <2>1, <2>2 DEF WindowInv

-----------------------------------------------------------------------------
(* The steps that neither send nor take a segment *)

LEMMA QuietWindow ==
    ASSUME TypeOK, WindowInv, NEW f \in Endpoint, ~Handshaking(f),
           NEW p, p \notin {"start", "handshake"}, pc' = [pc EXCEPT ![f] = p],
           context' = context, network_recv_queue' = network_recv_queue, wire' = wire,
           bytes_written' = bytes_written
    PROVE  WindowInv'
<1>1. pc \in [Endpoint -> {"start", "handshake", "wait", "app", "net",
                           "close", "done", "exited", "aborted", "faulted"}]
  BY DEF TypeOK
<1>2. /\ pc'[f] = p /\ \A e \in Endpoint : e # f => pc'[e] = pc[e]
  BY <1>1
<1>3. \A e \in Endpoint : Handshaking(e)' <=> Handshaking(e)
  BY <1>2 DEF Handshaking
<1>4. "client" \in Endpoint /\ "server" \in Endpoint
  BY DEF Endpoint
<1>5. pc'["client"] = "handshake" => pc["client"] = "handshake"
  BY <1>2, <1>4
<1>6. /\ connection_state' = connection_state /\ SWND' = SWND /\ CWND' = CWND /\ rem' = rem
      /\ SendBase' = SendBase /\ next_seqnum' = next_seqnum
  BY DEF context
<1>7. Waiting' => Waiting
  BY <1>2, <1>4, <1>6 DEF Waiting
<1>8. \A e \in Endpoint : FinOut(e) => FinOut(e)'
  BY <1>3, <1>6 DEF FinOut
<1>9. \A e \in Endpoint : Coming(e)' = Coming(e)
  BY DEF Coming
<1>10. QED
  BY <1>3, <1>5, <1>6, <1>7, <1>8, <1>9, WindowFrame

LEMMA QuietSteps ==
    ASSUME StreamInv, WindowInv, NEW f \in Endpoint,
           \/ WaitForEvent(f) \/ WindowFull(f) \/ CloseIgnored(f) \/ TransportReturn(f)
           \/ SendOverrun(f)
    PROVE  WindowInv'
<1>1. TypeOK
  BY DEF StreamInv, TypeInv
<1>2. PICK p : p \notin {"start", "handshake"} /\ pc' = [pc EXCEPT ![f] = p]
  <2>1. CASE WaitForEvent(f)
    BY <2>1, PhaseType DEF WaitForEvent
  <2>2. CASE WindowFull(f)
    BY <2>2, PhaseType DEF WindowFull
  <2>3. CASE CloseIgnored(f)
    BY <2>3, PhaseType DEF CloseIgnored
  <2>4. CASE TransportReturn(f)
    BY <2>4 DEF TransportReturn
  <2>5. CASE SendOverrun(f)
    BY <2>5 DEF SendOverrun
  <2>6. QED
    BY <2>1, <2>2, <2>3, <2>4, <2>5
<1>3. /\ pc[f] \notin {"start", "handshake"} /\ context' = context
      /\ network_recv_queue' = network_recv_queue /\ wire' = wire
      /\ bytes_written' = bytes_written
  BY DEF WaitForEvent, WindowFull, CloseIgnored, TransportReturn, SendOverrun,
         queues, network, application
<1>4. ~Handshaking(f)
  BY <1>3 DEF Handshaking
<1>5. QED
  BY <1>1, <1>2, <1>3, <1>4, QuietWindow

(* The reader of the socket, and stuttering *)
LEMMA RecvPacketWindow ==
    ASSUME TypeOK, WindowInv, (\E f \in Endpoint : RecvPacket(f)) \/ UNCHANGED observed
    PROVE  WindowInv'
<1>1. /\ context' = context /\ pc' = pc /\ bytes_written' = bytes_written
  BY DEF RecvPacket, observed, thread, application
<1>2. /\ connection_state' = connection_state /\ SWND' = SWND /\ CWND' = CWND /\ rem' = rem
      /\ SendBase' = SendBase /\ next_seqnum' = next_seqnum
  BY <1>1 DEF context
<1>3. \A e \in Endpoint : Coming(e)' = Coming(e)
  <2>1. CASE UNCHANGED observed
    BY <2>1 DEF observed, queues, network, Coming
  <2>2. CASE \E f \in Endpoint : RecvPacket(f)
    BY <2>2, ComingMove
  <2>3. QED
    BY <2>1, <2>2
<1>4. /\ \A e \in Endpoint : (Handshaking(e)' <=> Handshaking(e)) /\ (FinOut(e) => FinOut(e)')
      /\ Waiting' => Waiting
  BY <1>1, <1>2 DEF Handshaking, FinOut, Waiting
<1>5. QED
  BY <1>1, <1>2, <1>3, <1>4, WindowFrame

(* The calls of the application *)
LEMMA CallWindow ==
    ASSUME StreamInv, StreamInv', WindowInv, NEW f \in Endpoint, Application(f)
    PROVE  WindowInv'
<1>1. TypeOK /\ TypeOK' /\ HandshakeInv
  BY DEF StreamInv, TypeInv
<1>2. /\ Own(Peer(f)) /\ Peer(f) \in Endpoint
  <2>1. Peer(f) \in Endpoint /\ Peer(f) # f
    BY PeerFacts
  <2>2. QED
    BY <1>1, <2>1, OtherOwn
<1>3. /\ context' = context /\ pc' = pc /\ wire' = wire
  BY DEF Application, mywrite, myread, myclose, mycloseReturn, thread, network
<1>4. /\ connection_state' = connection_state /\ SWND' = SWND /\ CWND' = CWND /\ rem' = rem
      /\ SendBase' = SendBase /\ next_seqnum' = next_seqnum
  BY <1>3 DEF context
<1>5. ~Handshaking(f) /\ ~Handshaking(f)'
  BY <1>3 DEF Application, mywrite, myread, myclose, mycloseReturn, Running, Handshaking
<1>6. Room(f)'
  <2>1. Room(f) /\ (FinOut(f) => FinOut(f)')
    BY <1>3, <1>4, <1>5 DEF WindowInv, FinOut, Handshaking
  <2>2. QED
    BY <1>1, <1>4, <2>1, RoomKeeps
<1>7. Bounded(f)'
  <2>1. Bounded(f) /\ bytes_written[f] \in Nat /\ next_seqnum[f] \in Nat
    BY <1>1, WindowType DEF WindowInv
  <2>2. CASE bytes_written' = bytes_written
    BY <1>4, <2>1, <2>2 DEF Bounded
  <2>3. ASSUME NEW n \in WriteSizes, mywrite(f, n) PROVE Bounded(f)'
    <3>1. n \in Nat /\ bytes_written \in [Endpoint -> Nat]
      BY <1>1, ConstantsAssumption DEF TypeOK
    <3>2. bytes_written'[f] = bytes_written[f] + n /\ bytes_written[f] + n <= MaxBytes[f]
      BY <2>3, <3>1 DEF mywrite
    <3>3. QED
      BY <1>4, <2>1, <3>1, <3>2 DEF Bounded
  <2>4. QED
    BY <2>2, <2>3 DEF Application, myread, myclose, mycloseReturn
<1>8. Exchanges(f)
  <2>1. Coming(Peer(f))' = Coming(Peer(f))
    BY <1>2, <1>3 DEF Own, Coming
  <2>2. Takes(f)
    <3>1. CASE network_recv_queue' = network_recv_queue
      <4>1. Coming(f)' = Coming(f)
        BY <1>3, <3>1 DEF Coming
      <4>2. QED
        BY <1>4, <4>1 DEF Takes
    <3>2. CASE mycloseReturn(f)
      <4>1. network_recv_queue'[f] = << >>
        BY <1>1, <3>2 DEF mycloseReturn, FreedQueue, TypeOK
      <4>2. \E n \in Nat : /\ Len(Coming(f)) = n + Len(Coming(f)')
                           /\ \A i \in 1 .. Len(Coming(f)') : Coming(f)'[i] = Coming(f)[n + i]
        BY <1>1, <1>3, <4>1, ComingFreed
      <4>3. QED
        BY <1>4, <4>2 DEF Takes
    <3>3. QED
      BY <3>1, <3>2 DEF Application, mywrite, myread, myclose, queues
  <2>3. QED
    BY <1>4, <2>1, <2>2 DEF Exchanges
<1>9. QED
  BY <1>1, <1>2, <1>5, <1>6, <1>7, <1>8, Exchange

-----------------------------------------------------------------------------
(* The steps that take or send a segment after the handshake *)

(* Differences that do not wrap *)
LEMMA SizeSubSmall ==
    ASSUME NEW a \in Nat, NEW b \in Nat, b <= a, a - b < SIZE_MOD
    PROVE  SizeSub(a, b) = a - b
BY ConstantsAssumption DEF SizeSub

LEMMA TcpSeqSmall ==
    ASSUME NEW a \in Nat, a < SEQ_MOD PROVE TcpSeq(a) = a
BY ConstantsAssumption DEF TcpSeq

LEMMA NextSmall ==
    ASSUME TypeOK, WindowInv, NoWrap, NEW e \in Endpoint
    PROVE  next_seqnum[e] < SEQ_MOD /\ TcpSeq(next_seqnum[e]) = next_seqnum[e]
<1>1. /\ next_seqnum[e] \in Nat /\ bytes_written[e] \in Nat /\ MaxBytes[e] \in Nat /\ SEQ_MOD \in Nat
  BY WindowType, ConstantsAssumption
<1>2. /\ bytes_written[e] <= MaxBytes[e] /\ next_seqnum[e] <= bytes_written[e] + 2
      /\ MaxBytes[e] + 2 < SEQ_MOD
  BY DEF WindowInv, Bounded, NoWrap
<1>3. next_seqnum[e] < SEQ_MOD
  BY <1>1, <1>2
<1>4. QED
  BY <1>1, <1>3, TcpSeqSmall

(* The numbers of a segment that control_loop() takes were sent by an      *)
(* established peer and have not wrapped.                                  *)
LEMMA PayloadSmall ==
    ASSUME TypeOK, WindowInv, NoWrap, NEW f \in Endpoint, Coming(f) # << >>,
           Coming(f)[1].flags \in Payloads
    PROVE  TcpSeq(Mark(Coming(f)[1])) = Mark(Coming(f)[1])
<1>1. Peer(f) \in Endpoint /\ Peer(Peer(f)) = f
  BY PeerFacts
<1>2. PICK s \in Seq(Packet), t \in Seq(Packet) : s = Coming(Peer(f)) /\ t = Coming(f)
  BY <1>1, ComingType
<1>3. t # << >> /\ t[1].flags \in Payloads /\ 1 \in 1 .. Len(t)
  BY <1>2, LenProperties
<1>4. ~Handshaking(Peer(f))
  BY <1>1, <1>2, <1>3 DEF WindowInv, Silent
<1>5. PICK lo \in Nat, hi \in Nat : lo = SendBase[Peer(f)] /\ hi = next_seqnum[Peer(f)]
  BY <1>1, WindowType
<1>6. Answers(s, t, lo, hi)
  BY <1>1, <1>2, <1>4, <1>5 DEF WindowInv, RoundTrip
<1>7. Mark(t[1]) <= hi
  BY <1>3, <1>6, AnswersGiven
<1>8. hi < SEQ_MOD
  BY <1>1, <1>5, NextSmall
<1>9. Mark(t[1]) \in Nat
  BY <1>3, MarksType
<1>10. SEQ_MOD \in Nat
  BY ConstantsAssumption
<1>11. Mark(t[1]) < SEQ_MOD
  BY <1>7, <1>8, <1>9, <1>10
<1>12. QED
  BY <1>2, <1>9, <1>11, TcpSeqSmall

(* A segment is thrown away. *)
LEMMA DropWindow ==
    ASSUME StreamInv, StreamInv', ConnectionInv, WindowInv, NEW f \in Endpoint,
           ClosingRecv(f) \/ ChecksumAbort(f) \/ AckOverrun(f)
    PROVE  WindowInv'
<1>1. TypeOK /\ TypeOK' /\ HandshakeInv
  BY DEF StreamInv, TypeInv
<1>2. /\ Peer(f) \in Endpoint /\ Peer(f) # f
  BY PeerFacts
<1>3. Own(Peer(f))
  BY <1>1, <1>2, OtherOwn DEF Transport
<1>4. NetworkRecv(f) /\ wire' = wire
  BY DEF ClosingRecv, ChecksumAbort, AckOverrun, network
<1>5. /\ SWND' = SWND /\ CWND' = CWND /\ rem' = rem
      /\ SendBase' = SendBase /\ next_seqnum' = next_seqnum /\ bytes_written' = bytes_written
  BY DEF ClosingRecv, ChecksumAbort, AckOverrun, context, application
<1>6. /\ network_recv_queue[f] # << >> /\ Received(f) \in InFlight(f) /\ Received(f) \in Packet
      /\ Received(f) = network_recv_queue[f][1]
  BY <1>1, <1>4, QueueTail, ComingType DEF Received
<1>7. ~Handshaking(f)
  <2>1. CASE ClosingRecv(f) \/ AckOverrun(f)
    BY <2>1 DEF ClosingRecv, AckOverrun, HandlesPacket, Handshaking
  <2>2. CASE ChecksumAbort(f)
    <3>1. Received(f).len > 0 /\ Received(f).len \in Nat /\ pc[f] # "start"
      BY <1>6, <2>2, SizeType DEF ChecksumAbort, HeaderOnlyRecv
    <3>2. ~Handshaking("client")
      <4>1. pc["client"] # "start"
        BY <1>1, <1>6 DEF HandshakeInv
      <4>2. pc["client"] = "handshake" => \A p \in InFlight(f) : p.len = 0
        BY <1>1 DEF HandshakeInv
      <4>3. Received(f).len # 0
        BY <3>1
      <4>4. QED
        BY <1>6, <4>1, <4>2, <4>3 DEF Handshaking
    <3>3. CASE f = "client"
      BY <3>2, <3>3
    <3>4. CASE f = "server"
      <4>1. Size(Received(f)) # 0
        BY <3>1 DEF Size
      <4>2. ~Fresh /\ ~Waiting
        BY <1>1, <1>6, <3>2, <3>4, <4>1 DEF HandshakeInv, FirstEmpty
      <4>3. QED
        BY <1>1, <3>4, <4>2 DEF HandshakeInv
    <3>5. QED
      BY <3>3, <3>4, PeerFacts
  <2>3. QED
    BY <2>1, <2>2
<1>8. ~Handshaking(f)' /\ (FinOut(f) => FinOut(f)')
  <2>1. pc \in [Endpoint -> {"start", "handshake", "wait", "app", "net",
                             "close", "done", "exited", "aborted", "faulted"}]
        /\ connection_state \in [Endpoint -> CSTATE]
    BY <1>1 DEF TypeOK
  <2>2. CASE ClosingRecv(f)
    <3>1. PICK state : state = StateAfterClosingRecv(f, Received(f))
      OBVIOUS
    <3>2. /\ pc'[f] = LoopEnd(state) /\ connection_state'[f] = state /\ AwaitsFinAck(f)
      BY <2>1, <2>2, <3>1 DEF ClosingRecv
    <3>3. state \in {"FIN_WAIT_1", "FIN_WAIT_2", "LAST_ACK", "CLOSED"}
      BY <3>1, <3>2 DEF StateAfterClosingRecv, AwaitsFinAck
    <3>4. QED
      BY <3>2, <3>3, PhaseType DEF Handshaking, FinOut
  <2>3. CASE ChecksumAbort(f) \/ AckOverrun(f)
    <3>1. connection_state' = connection_state /\ pc'[f] \in {"aborted", "faulted"}
      BY <2>1, <2>3 DEF ChecksumAbort, AckOverrun, context
    <3>2. QED
      BY <3>1 DEF Handshaking, FinOut
  <2>4. QED
    BY <2>2, <2>3
<1>9. Room(f)' /\ Bounded(f)'
  <2>1. Room(f) /\ Bounded(f)
    BY <1>7 DEF WindowInv
  <2>2. Room(f)'
    BY <1>1, <1>5, <1>8, <2>1, RoomKeeps
  <2>3. QED
    BY <1>5, <2>1, <2>2 DEF Bounded
<1>10. Exchanges(f)
  <2>1. Coming(f) # << >> /\ Coming(f)' = Tail(Coming(f))
    BY <1>1, <1>4, ComingTake
  <2>2. Coming(Peer(f))' = Coming(Peer(f))
    BY <1>3, <1>4 DEF Own, Coming
  <2>3. QED
    BY <1>5, <2>1, <2>2 DEF Exchanges, Takes
<1>11. QED
  BY <1>1, <1>3, <1>7, <1>8, <1>9, <1>10, Exchange

(* An ACK opens the window: it starts at the number acknowledged, which    *)
(* was sent and not acknowledged before, and it never shrinks.             *)
LEMMA AckWindow ==
    ASSUME NoWrap, StreamInv, StreamInv', WindowInv, NEW f \in Endpoint, RecvAck(f)
    PROVE  WindowInv'
<1>1. TypeOK /\ TypeOK' /\ HandshakeInv
  BY DEF StreamInv, TypeInv
<1>2. /\ Peer(f) \in Endpoint /\ Peer(f) # f
  BY PeerFacts
<1>3. Own(Peer(f))
  BY <1>1, <1>2, OtherOwn DEF Transport
<1>4. /\ NetworkRecv(f) /\ wire' = wire /\ Received(f).flags = "ACK"
      /\ next_seqnum' = next_seqnum /\ bytes_written' = bytes_written
      /\ connection_state' = connection_state /\ pc[f] = "net"
  BY DEF RecvAck, network, application, HandlesPacket
<1>5. /\ Coming(f) # << >> /\ Coming(f)' = Tail(Coming(f))
      /\ Received(f) = Coming(f)[1] /\ Received(f) \in Packet
  BY <1>1, <1>4, ComingTake
<1>6. /\ SendBase'[f] = Received(f).th_ack /\ CWND'[f] = GrownCWND(f)
      /\ SWND'[f] = GrownSWND(f) /\ rem'[f] = RemAfterAck(f, Received(f))
      /\ pc'[f] = AfterNet(event[f], connection_state[f])
  BY <1>1 DEF RecvAck, NextPhase, TypeOK
<1>7. ~Handshaking(f) /\ ~Handshaking(f)' /\ (FinOut(f)' <=> FinOut(f))
  BY <1>4, <1>6, PhaseType DEF Handshaking, FinOut
<1>8. PICK a \in Nat : a = Received(f).th_ack
  BY <1>5 DEF Packet
<1>9. PICK lo \in Nat, hi \in Nat, w \in Nat, c \in Nat :
         lo = SendBase[f] /\ hi = next_seqnum[f] /\ w = SWND[f] /\ c = CWND[f]
  BY <1>1, WindowType
<1>10. lo <= a /\ a <= hi
  <2>1. PICK s \in Seq(Packet), t \in Seq(Packet) : s = Coming(f) /\ t = Coming(Peer(f))
    BY <1>1, <1>2, ComingType
  <2>2. Answers(s, t, lo, hi)
    BY <1>7, <1>9, <2>1 DEF WindowInv, RoundTrip
  <2>3. QED
    BY <1>4, <1>5, <1>8, <2>1, <2>2, AnswersTaken
<1>11. PICK cc \in Nat, ww \in Nat : cc = GrownCWND(f) /\ ww = GrownSWND(f)
  BY <1>1, GrownType
<1>12. /\ w = MIN(c, RECV_WIN) /\ c >= MSS
       /\ hi - lo <= w + IF FinOut(f) THEN 1 ELSE 0
  BY <1>7, <1>9 DEF WindowInv, Room
<1>13. MSS \in Nat \ {0} /\ RECV_WIN \in Nat /\ SIZE_MOD \in Nat /\ RECV_WIN < SIZE_MOD
  BY ConstantsAssumption DEF NoWrap
<1>14. c <= cc
  <2>1. ASSUME NEW x \in Nat, NEW y \in Nat, y > 0 PROVE x \div y \in Nat
    BY <2>1
  <2>2. MSS * MSS \in Nat
    BY <1>13
  <2>3. (MSS * MSS) \div c \in Nat
    BY <1>12, <1>13, <2>1, <2>2
  <2>4. QED
    BY <1>9, <1>11, <1>13, <2>3 DEF GrownCWND
<1>15. ww = MIN(cc, RECV_WIN) /\ ww <= RECV_WIN /\ w <= ww
  BY <1>11, <1>12, <1>13, <1>14 DEF GrownSWND, MIN
<1>16. hi - a <= ww + IF FinOut(f) THEN 1 ELSE 0
  <2>1. CASE FinOut(f)
    BY <1>10, <1>12, <1>15, <2>1
  <2>2. CASE ~FinOut(f)
    BY <1>10, <1>12, <1>15, <2>2
  <2>3. QED
    BY <2>1, <2>2
<1>17. ASSUME ~FinOut(f) PROVE rem'[f] = ww - (hi - a)
  <2>1. PICK d \in Nat : d = hi - a
    BY <1>10
  <2>2. d <= ww /\ d < SIZE_MOD /\ ww - d < SIZE_MOD
    BY <1>13, <1>15, <1>16, <1>17, <2>1
  <2>3. SizeSub(hi, a) = d
    BY <1>10, <2>1, <2>2, SizeSubSmall
  <2>4. SizeSub(ww, d) = ww - d
    BY <2>2, SizeSubSmall
  <2>5. rem'[f] = SizeSub(ww, SizeSub(hi, a))
    BY <1>6, <1>8, <1>9, <1>11 DEF RemAfterAck
  <2>6. QED
    BY <2>1, <2>3, <2>4, <2>5
<1>18. Room(f)' /\ Bounded(f)'
  <2>1. /\ SWND'[f] = ww /\ CWND'[f] = cc /\ SendBase'[f] = a /\ next_seqnum'[f] = hi
    BY <1>4, <1>6, <1>8, <1>9, <1>11
  <2>2. cc >= MSS
    BY <1>12, <1>13, <1>14
  <2>3. Room(f)'
    BY <1>7, <1>10, <1>15, <1>16, <1>17, <2>1, <2>2 DEF Room
  <2>4. QED
    BY <1>4, <2>3 DEF WindowInv, Bounded
<1>19. Exchanges(f)
  <2>1. Coming(Peer(f))' = Coming(Peer(f))
    BY <1>3, <1>4 DEF Own, Coming
  <2>2. QED
    BY <1>4, <1>5, <1>6, <2>1 DEF Exchanges, Takes
<1>20. QED
  BY <1>1, <1>3, <1>7, <1>18, <1>19, Exchange

(* Data and FINs are answered with the number after them. *)
LEMMA AnswerWindow ==
    ASSUME NoWrap, StreamInv, StreamInv', ConnectionInv, WindowInv, NEW f \in Endpoint,
           RecvFin(f) \/ RecvData(f)
    PROVE  WindowInv'
<1>1. TypeOK /\ TypeOK' /\ HandshakeInv
  BY DEF StreamInv, TypeInv
<1>2. /\ Peer(f) \in Endpoint /\ Peer(f) # f
  BY PeerFacts
<1>3. Own(Peer(f))
  BY <1>1, <1>2, OtherOwn DEF Transport
<1>4. /\ NetworkRecv(f) /\ HandlesPacket(f)
      /\ SWND' = SWND /\ CWND' = CWND /\ rem' = rem
      /\ SendBase' = SendBase /\ next_seqnum' = next_seqnum /\ bytes_written' = bytes_written
  BY DEF RecvFin, RecvData, application
<1>5. ~Handshaking(f) /\ pc[f] = "net"
  BY <1>4 DEF HandlesPacket, Handshaking
<1>6. PICK p \in Packet : p = Received(f)
  BY <1>1, <1>4, RecvType
<1>7. /\ p.th_seq \in Nat /\ p.len \in Nat /\ p.pos \in Nat
      /\ RecvBase[f] \in Nat /\ next_seqnum[f] \in Nat
  BY <1>1, <1>6 DEF Packet, TypeOK
<1>8. /\ network_recv_queue[f] # << >> /\ network_recv_queue'[f] = Tail(network_recv_queue[f])
  BY <1>1, <1>4, QueueTail
<1>9. PICK n \in Nat : n = IF RecvFin(f) THEN p.th_seq + 1 ELSE p.th_seq + p.len
  BY <1>7
<1>10. PICK x \in Packet : x.flags = "ACK" /\ x.th_ack = TcpSeq(n) /\ NetworkSend(f, x)
  <2>1. CASE RecvFin(f)
    <3>1. TcpSeq(RecvBase[f] + 1) \in Nat /\ TcpSeq(n) \in Nat /\ RecvBase[f] + 1 \in Nat
      BY <1>7, TcpSeqType
    <3>2. PICK k \in Nat, m \in Nat : k = TcpSeq(RecvBase[f] + 1) /\ m = TcpSeq(n)
      BY <3>1
    <3>3. NetworkSend(f, [flags |-> "ACK", th_seq |-> k, th_ack |-> m, len |-> 0,
                          pos |-> next_seqnum[f]])
      BY <1>6, <1>9, <2>1, <3>2 DEF RecvFin
    <3>4. [flags |-> "ACK", th_seq |-> k, th_ack |-> m, len |-> 0, pos |-> next_seqnum[f]] \in Packet
      BY <1>7 DEF Packet
    <3>5. QED
      BY <3>2, <3>3, <3>4
  <2>2. CASE ~RecvFin(f)
    <3>1. TcpSeq(RecvBase[f] + p.len) \in Nat /\ TcpSeq(n) \in Nat /\ RecvBase[f] + p.len \in Nat
      BY <1>7, TcpSeqType
    <3>2. PICK k \in Nat, m \in Nat : k = TcpSeq(RecvBase[f] + p.len) /\ m = TcpSeq(n)
      BY <3>1
    <3>3. NetworkSend(f, [flags |-> "ACK", th_seq |-> k, th_ack |-> m, len |-> 0,
                          pos |-> next_seqnum[f]])
      BY <1>6, <1>9, <2>2, <3>2 DEF RecvData, AckNumber
    <3>4. [flags |-> "ACK", th_seq |-> k, th_ack |-> m, len |-> 0, pos |-> next_seqnum[f]] \in Packet
      BY <1>7 DEF Packet
    <3>5. QED
      BY <3>2, <3>3, <3>4
  <2>3. QED
    BY <2>1, <2>2
<1>11. wire'[Peer(f)] = Append(wire[Peer(f)], x) /\ wire'[f] = wire[f]
  BY <1>1, <1>10, ReliableSend DEF NoWrap
<1>12. /\ Coming(f) # << >> /\ Coming(f)' = Tail(Coming(f)) /\ p = Coming(f)[1]
  BY <1>1, <1>4, <1>6, <1>11, ComingTake
<1>13. Coming(Peer(f))' = Append(Coming(Peer(f)), x)
  BY <1>1, <1>2, <1>3, <1>11, ComingPut DEF Own
<1>14. p.flags \in Payloads /\ Mark(p) = n
  <2>1. p.flags # "SYN"
    <3>1. NoSyn(Coming(f))
      BY <1>5 DEF WindowInv, SynInv
    <3>2. Coming(f) \in Seq(Packet)
      BY <1>1, ComingType
    <3>3. 1 \in 1 .. Len(Coming(f))
      BY <1>12, <3>2, EmptySeq
    <3>4. QED
      BY <1>12, <3>1, <3>3 DEF NoSyn
  <2>2. CASE RecvFin(f)
    BY <1>6, <1>7, <1>9, <2>2 DEF RecvFin, Payloads, Mark, Size
  <2>3. CASE ~RecvFin(f)
    <3>1. p.flags = "DATA"
      BY <1>6, <2>1, <2>3 DEF RecvData
    <3>2. QED
      BY <1>7, <1>9, <2>3, <3>1 DEF Payloads, Mark, Size
  <2>4. QED
    BY <2>2, <2>3
<1>15. x.th_ack = Mark(p)
  BY <1>1, <1>10, <1>12, <1>14, PayloadSmall
<1>16. ~Handshaking(f)' /\ (FinOut(f) => FinOut(f)')
  <2>1. pc \in [Endpoint -> {"start", "handshake", "wait", "app", "net",
                             "close", "done", "exited", "aborted", "faulted"}]
        /\ connection_state \in [Endpoint -> CSTATE]
    BY <1>1 DEF TypeOK
  <2>2. CASE RecvData(f)
    BY <2>1, <2>2, PhaseType DEF RecvData, NextPhase, Handshaking, FinOut
  <2>3. CASE RecvFin(f)
    <3>1. /\ connection_state'[f] = StateAfterFin(f)
          /\ pc'[f] = AfterNet(event[f], StateAfterFin(f))
      BY <2>1, <2>3 DEF RecvFin, NextPhase
    <3>2. ~Handshaking(f)'
      BY <3>1, PhaseType DEF Handshaking
    <3>3. f # "client" => ~FinOut(f)
      <4>1. /\ connection_state[f] # "CLOSED" /\ connection_state[f] \in OpenStates(f)
            /\ connection_state[f] # "LAST_ACK"
        BY <1>4, <1>5 DEF ConnectionInv, PhaseInv, StreamInv, StateInv, HandlesPacket, AwaitsFinAck
      <4>2. QED
        BY <4>1 DEF OpenStates, FinOut
    <3>4. f = "client" => FinOut(f)'
      BY <3>1, <3>2 DEF StateAfterFin, FinOut
    <3>5. QED
      BY <3>2, <3>3, <3>4
  <2>4. QED
    BY <2>2, <2>3
<1>17. Room(f)' /\ Bounded(f)'
  <2>1. Room(f) /\ Bounded(f)
    BY <1>5 DEF WindowInv
  <2>2. Room(f)'
    BY <1>1, <1>4, <1>16, <2>1, RoomKeeps
  <2>3. QED
    BY <1>4, <2>1, <2>2 DEF Bounded
<1>18. Exchanges(f)
  <2>1. Sends(f, x)
    BY <1>4, <1>10, <1>12, <1>13, <1>14, <1>15 DEF Sends
  <2>2. Takes(f)
    BY <1>4, <1>12 DEF Takes
  <2>3. QED
    BY <2>1, <2>2 DEF Exchanges
<1>19. QED
  BY <1>1, <1>3, <1>5, <1>16, <1>17, <1>18, Exchange

(* Data is sent only as far as the window has room. *)
LEMMA DataWindow ==
    ASSUME NoWrap, StreamInv, StreamInv', ConnectionInv, WindowInv, NEW f \in Endpoint,
           SendData(f)
    PROVE  WindowInv'
<1>1. TypeOK /\ TypeOK' /\ HandshakeInv /\ AppPhase
  BY DEF StreamInv, TypeInv
<1>2. /\ Peer(f) \in Endpoint /\ Peer(f) # f
  BY PeerFacts
<1>3. Own(Peer(f))
  BY <1>1, <1>2, OtherOwn DEF Transport
<1>4. /\ pc[f] = "app" /\ SWND' = SWND /\ CWND' = CWND /\ SendBase' = SendBase
      /\ bytes_written' = bytes_written /\ connection_state' = connection_state
      /\ network_recv_queue' = network_recv_queue
  BY DEF SendData, application
<1>5. ~Handshaking(f) /\ TransportAlive(f)
  BY <1>4 DEF Handshaking, TransportAlive
<1>6. /\ app_recv_queue[f] \in Seq(Chunk) /\ app_recv_queue[f] # << >>
  BY <1>1, <1>4 DEF AppPhase, TypeOK
<1>7. PICK c \in Chunk : c = Head(app_recv_queue[f]) /\ c = app_recv_queue[f][1]
  BY <1>6
<1>8. c.len \in Nat /\ c.from \in Nat /\ c \in Elements(app_recv_queue[f])
  <2>1. 1 \in 1 .. Len(app_recv_queue[f])
    BY <1>6
  <2>2. QED
    BY <1>7, <2>1 DEF Chunk, Elements
<1>9. ~FinOut(f)
  BY <1>6 DEF ConnectionInv, SendInv
<1>10. c.from = next_seqnum[f] /\ WrittenBy(f, c.from, c.len)
  <2>1. Stream(app_recv_queue[f], next_seqnum[f]) /\ WrittenBy(f, c.from, c.len)
    BY <1>5, <1>8, <1>9 DEF ConnectionInv, SendInv
  <2>2. QED
    BY <1>6, <1>7, <2>1 DEF Stream
<1>11. PICK lo \in Nat, hi \in Nat, w \in Nat, r \in Nat, b \in Nat :
          /\ lo = SendBase[f] /\ hi = next_seqnum[f] /\ w = SWND[f] /\ r = rem[f]
          /\ b = bytes_written[f]
  BY <1>1, WindowType
<1>12. MSS \in Nat \ {0} /\ RECV_WIN \in Nat /\ SIZE_MOD \in Nat /\ RECV_WIN < SIZE_MOD
  BY ConstantsAssumption DEF NoWrap
<1>13. PICK n \in Nat : n = data_size(f) /\ n <= r /\ n <= c.len
  BY <1>7, <1>8, <1>11, <1>12 DEF data_size, max_size, MIN
<1>14. /\ Room(f) /\ w = MIN(CWND[f], RECV_WIN) /\ lo <= hi /\ hi - lo <= w
       /\ r = w - (hi - lo) /\ CWND[f] \in Nat /\ CWND[f] >= MSS
  BY <1>1, <1>5, <1>9, <1>11, WindowType DEF WindowInv, Room
<1>15. w <= RECV_WIN
  BY <1>12, <1>14 DEF MIN
<1>16. PICK h \in Nat : h = hi + n
  OBVIOUS
<1>17. lo <= h /\ h - lo <= w /\ hi <= h
  BY <1>13, <1>14, <1>16
<1>18. /\ next_seqnum'[f] = h /\ rem'[f] = SizeSub(w, SizeSub(h, lo))
       /\ pc'[f] = AfterApp(event[f], connection_state[f])
  BY <1>1, <1>11, <1>13, <1>16 DEF SendData, TypeOK
<1>19. ~Handshaking(f)' /\ ~FinOut(f)'
  BY <1>4, <1>9, <1>18, PhaseType DEF Handshaking, FinOut
<1>20. Room(f)'
  <2>1. PICK d \in Nat : d = h - lo
    BY <1>17
  <2>2. d <= w /\ d < SIZE_MOD /\ w - d < SIZE_MOD
    BY <1>12, <1>15, <1>17, <2>1
  <2>3. SizeSub(h, lo) = d
    BY <1>17, <2>1, <2>2, SizeSubSmall
  <2>4. SizeSub(w, d) = w - d
    BY <2>2, SizeSubSmall
  <2>5. rem'[f] = w - (h - lo)
    BY <1>18, <2>1, <2>3, <2>4
  <2>6. /\ SWND'[f] = w /\ CWND'[f] = CWND[f] /\ SendBase'[f] = lo
    BY <1>4, <1>11
  <2>7. h - lo <= w + 0
    BY <1>17
  <2>8. QED
    BY <1>14, <1>17, <1>18, <1>19, <2>5, <2>6, <2>7 DEF Room
<1>21. Bounded(f)'
  <2>1. h <= b + 2
    <3>1. CASE n = 0
      BY <1>11, <1>16, <3>1 DEF WindowInv, Bounded
    <3>2. CASE n > 0
      BY <1>8, <1>10, <1>11, <1>13, <1>16, <3>2 DEF WrittenBy
    <3>3. QED
      BY <3>1, <3>2
  <2>2. QED
    BY <1>4, <1>11, <1>18, <2>1 DEF WindowInv, Bounded
<1>22. PICK x \in Packet : /\ x.flags = "DATA" /\ x.th_seq = hi /\ x.len = n
                           /\ NetworkSend(f, x)
  <2>1. TcpSeq(hi) = hi
    BY <1>1, <1>11, NextSmall
  <2>2. NetworkSend(f, [flags |-> "DATA", th_seq |-> hi, th_ack |-> 0, len |-> n, pos |-> c.from])
    BY <1>7, <1>11, <1>13, <2>1 DEF SendData
  <2>3. [flags |-> "DATA", th_seq |-> hi, th_ack |-> 0, len |-> n, pos |-> c.from] \in Packet
    BY <1>8 DEF Packet
  <2>4. QED
    BY <2>2, <2>3
<1>23. wire'[Peer(f)] = Append(wire[Peer(f)], x) /\ wire'[f] = wire[f]
  BY <1>1, <1>22, ReliableSend DEF NoWrap
<1>24. Exchanges(f)
  <2>1. Coming(Peer(f))' = Append(Coming(Peer(f)), x)
    BY <1>1, <1>2, <1>3, <1>23, ComingPut DEF Own
  <2>2. x.flags \in Payloads /\ Mark(x) = h
    BY <1>16, <1>22 DEF Payloads, Mark, Size
  <2>3. Sends(f, x)
    BY <1>11, <1>17, <1>18, <2>1, <2>2 DEF Sends
  <2>4. Coming(f)' = Coming(f)
    BY <1>4, <1>23 DEF Coming
  <2>5. Takes(f)
    BY <1>4, <2>4 DEF Takes
  <2>6. QED
    BY <2>3, <2>5 DEF Exchanges
<1>25. QED
  BY <1>1, <1>3, <1>5, <1>19, <1>20, <1>21, <1>24, Exchange

(* A FIN takes one number more than the window has. *)
LEMMA FinWindow ==
    ASSUME NoWrap, StreamInv, StreamInv', ConnectionInv', WindowInv, NEW f \in Endpoint,
           SendFin(f)
    PROVE  WindowInv'
<1>1. TypeOK /\ TypeOK' /\ HandshakeInv
  BY DEF StreamInv, TypeInv
<1>2. /\ Peer(f) \in Endpoint /\ Peer(f) # f
  BY PeerFacts
<1>3. Own(Peer(f))
  BY <1>1, <1>2, OtherOwn DEF Transport
<1>4. /\ pc[f] = "close" /\ SWND' = SWND /\ CWND' = CWND /\ SendBase' = SendBase
      /\ bytes_written' = bytes_written /\ network_recv_queue' = network_recv_queue
  BY DEF SendFin, application, queues
<1>5. ~Handshaking(f) /\ ~FinOut(f)
  BY <1>4 DEF SendFin, MaySendFin, Handshaking, FinOut
<1>6. PICK lo \in Nat, hi \in Nat, w \in Nat :
          lo = SendBase[f] /\ hi = next_seqnum[f] /\ w = SWND[f]
  BY <1>1, WindowType
<1>7. /\ next_seqnum'[f] = hi + 1 /\ pc'[f] = "wait"
      /\ connection_state'[f] \in {"FIN_WAIT_1", "LAST_ACK"}
  BY <1>1, <1>6 DEF SendFin, TypeOK
<1>8. ~Handshaking(f)' /\ FinOut(f)'
  BY <1>7 DEF Handshaking, FinOut
<1>9. Room(f)'
  <2>1. /\ w = MIN(CWND[f], RECV_WIN) /\ CWND[f] >= MSS /\ lo <= hi /\ hi - lo <= w
    BY <1>5, <1>6 DEF WindowInv, Room
  <2>2. lo <= hi + 1 /\ hi + 1 - lo <= w + 1
    BY <2>1
  <2>3. QED
    BY <1>4, <1>6, <1>7, <1>8, <2>1, <2>2 DEF Room
<1>10. Bounded(f)'
  <2>1. next_seqnum'[f] = bytes_written'[f] + 2
    BY <1>8 DEF ConnectionInv, SendInv
  <2>2. QED
    BY <1>1, <1>4, <2>1, WindowType DEF WindowInv, Bounded
<1>11. PICK x \in Packet : x.flags = "FIN" /\ x.th_seq = hi /\ NetworkSend(f, x)
  <2>1. TcpSeq(hi) = hi
    BY <1>1, <1>6, NextSmall
  <2>2. NetworkSend(f, [flags |-> "FIN", th_seq |-> hi, th_ack |-> 0, len |-> 0, pos |-> hi])
    BY <1>6, <2>1 DEF SendFin
  <2>3. [flags |-> "FIN", th_seq |-> hi, th_ack |-> 0, len |-> 0, pos |-> hi] \in Packet
    BY DEF Packet
  <2>4. QED
    BY <2>2, <2>3
<1>12. wire'[Peer(f)] = Append(wire[Peer(f)], x) /\ wire'[f] = wire[f]
  BY <1>1, <1>11, ReliableSend DEF NoWrap
<1>13. Exchanges(f)
  <2>1. Coming(Peer(f))' = Append(Coming(Peer(f)), x)
    BY <1>1, <1>2, <1>3, <1>12, ComingPut DEF Own
  <2>2. x.flags \in Payloads /\ Mark(x) = hi + 1
    BY <1>11 DEF Payloads, Mark, Size
  <2>3. Sends(f, x)
    BY <1>6, <1>7, <2>1, <2>2 DEF Sends
  <2>4. Coming(f)' = Coming(f)
    BY <1>4, <1>12 DEF Coming
  <2>5. Takes(f)
    BY <1>4, <2>4 DEF Takes
  <2>6. QED
    BY <2>3, <2>5 DEF Exchanges
<1>14. QED
  BY <1>1, <1>3, <1>5, <1>8, <1>9, <1>10, <1>13, Exchange

-----------------------------------------------------------------------------
(* The handshake *)

(* Nothing in the queue and nothing on the wire *)
LEMMA NothingComing ==
    ASSUME TypeOK, NEW e \in Endpoint
    PROVE  /\ Coming(e) = << >> <=> network_recv_queue[e] = << >> /\ wire[e] = << >>
           /\ Len(Coming(e)) = Len(network_recv_queue[e]) + Len(wire[e])
<1>1. network_recv_queue[e] \in Seq(Packet) /\ wire[e] \in Seq(Packet)
  BY ComingType
<1>2. QED
  BY <1>1, ConcatEqualIffEmpty, ConcatProperties DEF Coming

(* One segment alone *)
LEMMA OneComing ==
    ASSUME NEW x
    PROVE  /\ Append(<< >>, x) # << >> /\ Len(Append(<< >>, x)) = 1 /\ Append(<< >>, x)[1] = x
           /\ Len(Tail(Append(<< >>, x))) = 0
<1>1. /\ << >> \in Seq({x}) /\ x \in {x} /\ Len(<< >>) = 0
  OBVIOUS
<1>2. /\ Append(<< >>, x) \in Seq({x}) /\ Append(<< >>, x) # << >>
      /\ Len(Append(<< >>, x)) = 1 /\ Append(<< >>, x)[1] = x
  BY <1>1, AppendLast
<1>3. QED
  BY <1>2, TailRest

(* An endpoint that has just been established has sent nothing yet. *)
LEMMA EstablishedWindow ==
    ASSUME TypeOK, TypeOK', NEW f \in Endpoint, Establish(f), Handshaking(f), Bounded(f),
           bytes_written' = bytes_written, Silent(f)'
    PROVE  ~Handshaking(f)' /\ RoundTrip(f)' /\ Room(f)' /\ Bounded(f)'
<1>1. /\ pc'[f] = "wait" /\ connection_state'[f] = "ESTABLISHED"
      /\ SWND'[f] = MSS /\ CWND'[f] = MSS /\ SendBase'[f] = 1 /\ next_seqnum'[f] = 1 /\ rem'[f] = MSS
  BY DEF Establish, TypeOK, initial_sequence_num
<1>2. ~Handshaking(f)' /\ ~FinOut(f)'
  BY <1>1 DEF Handshaking, FinOut
<1>3. MSS \in Nat /\ RECV_WIN \in Nat /\ MSS = MIN(MSS, RECV_WIN)
  BY ConstantsAssumption DEF MIN
<1>4. Room(f)'
  BY <1>1, <1>2, <1>3 DEF Room
<1>5. RoundTrip(f)'
  <2>1. 1 \in Nat
    OBVIOUS
  <2>2. Answers(Coming(f)', Coming(Peer(f))', 1, 1)
    BY <2>1, AnswersNone DEF Silent
  <2>3. QED
    BY <1>1, <2>2 DEF RoundTrip
<1>6. Bounded(f)'
  <2>1. bytes_written[f] \in Nat
    BY WindowType
  <2>2. QED
    BY <1>1, <2>1 DEF Bounded
<1>7. QED
  BY <1>2, <1>4, <1>5, <1>6

(* The server waits for its first segment, and the client sends its SYN. *)
LEMMA InitWindow ==
    ASSUME NoWrap, StreamInv, StreamInv', WindowInv, NEW f \in Endpoint, TransportInit(f)
    PROVE  WindowInv'
<1>1. TypeOK /\ TypeOK' /\ HandshakeInv
  BY DEF StreamInv, TypeInv
<1>2. "client" \in Endpoint /\ "server" \in Endpoint /\ \A e \in Endpoint : e = "client" \/ e = "server"
  BY DEF Endpoint
<1>3. /\ SWND' = SWND /\ CWND' = CWND /\ rem' = rem /\ network_recv_queue' = network_recv_queue
      /\ SendBase' = SendBase /\ next_seqnum' = next_seqnum /\ bytes_written' = bytes_written
  BY DEF TransportInit, application, queues
<1>4. /\ pc[f] = "start" /\ pc'[f] = "handshake"
      /\ \A e \in Endpoint : e # f => pc'[e] = pc[e] /\ connection_state'[e] = connection_state[e]
      /\ connection_state'[f] = IF f = "client" THEN "SYN_SENT" ELSE "LISTEN"
  BY <1>1 DEF TransportInit, TypeOK
<1>5. \A e \in Endpoint : Handshaking(e)' <=> Handshaking(e)
  BY <1>4 DEF Handshaking
<1>6. CASE f = "server"
  <2>1. wire' = wire
    BY <1>6 DEF TransportInit, network
  <2>2. \A e \in Endpoint : Coming(e)' = Coming(e)
    BY <1>3, <2>1 DEF Coming
  <2>3. ~Waiting' /\ pc'["client"] = pc["client"]
    BY <1>2, <1>4, <1>6 DEF Waiting
  <2>4. \A e \in Endpoint : FinOut(e) => FinOut(e)'
    BY <1>4, <1>5 DEF FinOut, Handshaking
  <2>5. QED
    BY <1>1, <1>3, <1>5, <2>2, <2>3, <2>4, WindowFrame
<1>7. CASE f = "client"
  <2>1. PICK x \in Packet : x.flags = "SYN" /\ NetworkSend(f, x)
    <3>1. NetworkSend(f, [flags |-> "SYN", th_seq |-> 1, th_ack |-> 0, len |-> 0, pos |-> 1])
      BY <1>7 DEF TransportInit, initial_sequence_num
    <3>2. [flags |-> "SYN", th_seq |-> 1, th_ack |-> 0, len |-> 0, pos |-> 1] \in Packet
      BY DEF Packet
    <3>3. QED
      BY <3>1, <3>2
  <2>2. Peer(f) = "server"
    BY <1>7 DEF Peer
  <2>3. /\ wire'["server"] = Append(wire["server"], x) /\ wire'["client"] = wire["client"]
    BY <1>1, <1>7, <2>1, <2>2, ReliableSend DEF NoWrap
  <2>4. Fresh /\ Coming("client") = << >> /\ Coming("server") = << >>
    BY <1>1, <1>2, <1>4, <1>7, NothingComing DEF HandshakeInv
  <2>5. Coming("client")' = << >>
    BY <1>3, <2>3, <2>4 DEF Coming
  <2>6. Coming("server")' = Append(<< >>, x)
    BY <1>1, <1>2, <1>3, <2>3, <2>4, ComingPut
  <2>7. PICK v : v = Coming("server")' /\ Len(v) = 1 /\ v[1] = x
    BY <2>6, OneComing
  <2>8. Handshaking("client")' /\ Handshaking("server")'
    BY <1>2, <1>4, <1>5, <1>7, <2>4 DEF Fresh, Handshaking
  <2>9. ASSUME NEW e \in Endpoint PROVE Silent(e)' /\ Bounded(e)' /\ Handshaking(e)'
    <3>1. Len(<< >>) = 0 /\ \A i \in 1 .. 1 : i = 1
      OBVIOUS
    <3>2. \A i \in 1 .. Len(v) : v[i].flags \notin Acks /\ v[i].flags \notin Payloads
      BY <2>1, <2>7, <3>1 DEF Acks, Payloads
    <3>3. /\ \A i \in 1 .. Len(Coming("client")') : FALSE
      BY <2>5, <3>1
    <3>4. Silent(e)'
      BY <1>2, <2>7, <3>2, <3>3 DEF Silent, Peer
    <3>5. QED
      BY <1>2, <1>3, <2>8, <3>4 DEF WindowInv, Bounded
  <2>10. SynInv'
    <3>1. Len(<< >>) <= 1
      OBVIOUS
    <3>2. QED
      BY <1>2, <2>5, <2>8, <3>1 DEF SynInv
  <2>11. QED
    BY <2>9, <2>10 DEF WindowInv
<1>8. QED
  BY <1>2, <1>6, <1>7

(* The client takes the server's SYN and is established. *)
LEMMA SynSentWindow ==
    ASSUME NoWrap, StreamInv, StreamInv', ConnectionInv, WindowInv, NEW f \in Endpoint, SynSent(f)
    PROVE  WindowInv'
<1>1. TypeOK /\ TypeOK' /\ HandshakeInv
  BY DEF StreamInv, TypeInv
<1>2. "client" \in Endpoint /\ "server" \in Endpoint /\ \A e \in Endpoint : e = "client" \/ e = "server"
  BY DEF Endpoint
<1>3. f = "client" /\ Peer(f) = "server"
  BY <1>2 DEF SynSent, ConnectionInv, PhaseInv, HandshakeStates, Peer
<1>4. /\ pc[f] = "handshake" /\ NetworkRecv(f) /\ Establish(f) /\ bytes_written' = bytes_written
  BY DEF SynSent, application
<1>5. Own("server")
  BY <1>1, <1>2, <1>3, OtherOwn DEF Transport
<1>6. /\ network_recv_queue["client"] # << >> /\ Received(f) \in InFlight("client")
      /\ Received(f) \in Packet
  BY <1>1, <1>3, <1>4, QueueTail
<1>7. Waiting /\ Coming("server") = << >> /\ Received(f).flags = "SYN" /\ Handshaking("client")
  BY <1>1, <1>2, <1>3, <1>4, <1>6, NothingComing DEF HandshakeInv, Handshaking
<1>8. PICK x \in Packet : x.flags = "SYN" /\ NetworkSend(f, x)
  <2>1. Received(f).th_ack \in Nat /\ Received(f).th_seq \in Nat
    BY <1>6 DEF Packet
  <2>2. PICK k \in Nat, m \in Nat : k = Received(f).th_ack /\ m = TcpSeq(Received(f).th_seq + 1)
    <3>1. Received(f).th_seq + 1 \in Nat
      BY <2>1
    <3>2. QED
      BY <2>1, <3>1, TcpSeqType
  <2>3. NetworkSend(f, [flags |-> "SYN", th_seq |-> k, th_ack |-> m, len |-> 0, pos |-> 1])
    BY <1>7, <2>2 DEF SynSent, initial_sequence_num
  <2>4. [flags |-> "SYN", th_seq |-> k, th_ack |-> m, len |-> 0, pos |-> 1] \in Packet
    BY DEF Packet
  <2>5. QED
    BY <2>3, <2>4
<1>9. /\ wire'["server"] = Append(wire["server"], x) /\ wire'["client"] = wire["client"]
  BY <1>1, <1>3, <1>8, ReliableSend DEF NoWrap
<1>10. Len(Coming("client")') = 0
  <2>1. Coming("client") # << >> /\ Coming("client")' = Tail(Coming("client"))
    BY <1>1, <1>2, <1>3, <1>4, <1>9, ComingTake
  <2>2. Coming("client") \in Seq(Packet)
    BY <1>1, <1>2, ComingType
  <2>3. /\ Len(Coming("client")) \in Nat \ {0}
        /\ Len(Tail(Coming("client"))) = Len(Coming("client")) - 1
    BY <2>1, <2>2, TailRest
  <2>4. Len(Coming("client")) <= 1
    BY <1>3, <1>4 DEF WindowInv, SynInv
  <2>5. QED
    BY <2>1, <2>3, <2>4
<1>11. Coming("server")' = Append(<< >>, x)
  <2>1. network_recv_queue'["server"] = network_recv_queue["server"]
    BY <1>5 DEF Own
  <2>2. QED
    BY <1>1, <1>2, <1>7, <1>9, <2>1, ComingPut
<1>12. PICK v : v = Coming("server")' /\ v # << >> /\ Len(v) = 1 /\ v[1] = x /\ Len(Tail(v)) = 0
  BY <1>11, OneComing
<1>13. \A e \in Endpoint : Silent(e)'
  <2>1. \A i \in 1 .. 1 : i = 1
    OBVIOUS
  <2>2. \A i \in 1 .. Len(v) : v[i].flags \notin Acks /\ v[i].flags \notin Payloads
    BY <1>8, <1>12, <2>1 DEF Acks, Payloads
  <2>3. \A i \in 1 .. Len(Coming("client")') : FALSE
    BY <1>10
  <2>4. QED
    BY <1>2, <1>12, <2>2, <2>3 DEF Silent, Peer
<1>14. ~Handshaking("client")' /\ RoundTrip("client")' /\ Room("client")' /\ Bounded("client")'
  <2>1. Bounded("client")
    BY <1>2 DEF WindowInv
  <2>2. QED
    BY <1>1, <1>2, <1>3, <1>4, <1>7, <1>13, <2>1, EstablishedWindow
<1>15. Handshaking("server")' /\ Bounded("server")'
  <2>1. Bounded("server") /\ Handshaking("server")
    BY <1>2, <1>7 DEF WindowInv, Waiting, Handshaking
  <2>2. QED
    BY <1>1, <1>2, <1>5, <2>1, OwnWindow
<1>16. SynInv'
  <2>1. NoSyn(Coming("client"))'
    BY <1>10 DEF NoSyn
  <2>2. Coming("server")' # << >> /\ NoSyn(Tail(Coming("server")))'
    BY <1>12 DEF NoSyn
  <2>3. pc'["client"] # "handshake"
    BY <1>14 DEF Handshaking
  <2>4. QED
    BY <1>2, <1>15, <2>1, <2>2, <2>3 DEF SynInv
<1>17. QED
  BY <1>2, <1>13, <1>14, <1>15, <1>16 DEF WindowInv

(* The server turns the client's SYN around. *)
LEMMA ListenWindow ==
    ASSUME NoWrap, StreamInv, StreamInv', ConnectionInv, WindowInv, NEW f \in Endpoint, Listen(f)
    PROVE  WindowInv'
<1>1. TypeOK /\ TypeOK' /\ HandshakeInv
  BY DEF StreamInv, TypeInv
<1>2. "client" \in Endpoint /\ "server" \in Endpoint /\ \A e \in Endpoint : e = "client" \/ e = "server"
  BY DEF Endpoint
<1>3. f = "server" /\ Peer(f) = "client"
  BY <1>2 DEF Listen, ConnectionInv, PhaseInv, HandshakeStates, Peer
<1>4. /\ pc[f] = "handshake" /\ connection_state[f] = "LISTEN" /\ NetworkRecv(f)
      /\ bytes_written' = bytes_written /\ pc' = pc /\ next_seqnum' = next_seqnum
  BY DEF Listen, application, thread
<1>5. Own("client")
  BY <1>1, <1>2, <1>3, OtherOwn DEF Transport
<1>6. /\ network_recv_queue["server"] # << >> /\ Received(f) \in InFlight("server")
      /\ Received(f) \in Packet
  BY <1>1, <1>3, <1>4, QueueTail
<1>7. Fresh /\ ~Waiting /\ pc["client"] = "handshake"
  BY <1>1, <1>2, <1>3, <1>4, <1>6 DEF HandshakeInv, Fresh, Waiting, Handshaking
<1>8. /\ Coming("client") = << >> /\ Len(Coming("server")) = 1
      /\ Received(f).flags = "SYN"
  BY <1>1, <1>2, <1>6, <1>7, NothingComing DEF HandshakeInv
<1>9. PICK x \in Packet : x.flags = "SYN" /\ NetworkSend(f, x)
  <2>1. Received(f).th_seq \in Nat
    BY <1>6 DEF Packet
  <2>2. PICK m \in Nat : m = TcpSeq(Received(f).th_seq + 1)
    <3>1. Received(f).th_seq + 1 \in Nat
      BY <2>1
    <3>2. QED
      BY <3>1, TcpSeqType
  <2>3. NetworkSend(f, [flags |-> "SYN", th_seq |-> 1, th_ack |-> m, len |-> 0, pos |-> 1])
    BY <1>8, <2>2 DEF Listen, initial_sequence_num
  <2>4. [flags |-> "SYN", th_seq |-> 1, th_ack |-> m, len |-> 0, pos |-> 1] \in Packet
    BY DEF Packet
  <2>5. QED
    BY <2>3, <2>4
<1>10. /\ wire'["client"] = Append(wire["client"], x) /\ wire'["server"] = wire["server"]
  BY <1>1, <1>3, <1>9, ReliableSend DEF NoWrap
<1>11. Len(Coming("server")') = 0
  <2>1. Coming("server") # << >> /\ Coming("server")' = Tail(Coming("server"))
    BY <1>1, <1>2, <1>3, <1>4, <1>10, ComingTake
  <2>2. Coming("server") \in Seq(Packet)
    BY <1>1, <1>2, ComingType
  <2>3. Len(Tail(Coming("server"))) = Len(Coming("server")) - 1
    BY <2>1, <2>2, TailRest
  <2>4. Len(Tail(Coming("server"))) = 0
    BY <1>8, <2>3
  <2>5. QED
    BY <2>1, <2>4
<1>12. Coming("client")' = Append(<< >>, x)
  <2>1. network_recv_queue'["client"] = network_recv_queue["client"]
    BY <1>5 DEF Own
  <2>2. QED
    BY <1>1, <1>2, <1>8, <1>10, <2>1, ComingPut
<1>13. PICK v : v = Coming("client")' /\ v # << >> /\ Len(v) = 1 /\ v[1] = x
  BY <1>12, OneComing
<1>14. \A e \in Endpoint : Silent(e)'
  <2>1. \A i \in 1 .. 1 : i = 1
    OBVIOUS
  <2>2. \A i \in 1 .. Len(v) : v[i].flags \notin Acks /\ v[i].flags \notin Payloads
    BY <1>9, <1>13, <2>1 DEF Acks, Payloads
  <2>3. \A i \in 1 .. Len(Coming("server")') : FALSE
    BY <1>11
  <2>4. QED
    BY <1>2, <1>13, <2>2, <2>3 DEF Silent, Peer
<1>15. \A e \in Endpoint : Handshaking(e)' /\ Bounded(e)'
  <2>1. \A e \in Endpoint : Handshaking(e)'
    BY <1>2, <1>3, <1>4, <1>7 DEF Handshaking
  <2>2. \A e \in Endpoint : Bounded(e)'
    BY <1>4 DEF WindowInv, Bounded
  <2>3. QED
    BY <2>1, <2>2
<1>16. SynInv'
  <2>1. Len(Coming("client")') <= 1
    BY <1>13
  <2>2. QED
    BY <1>2, <1>15, <2>1 DEF SynInv
<1>17. QED
  BY <1>14, <1>15, <1>16 DEF WindowInv

(* The server takes the segment after it for the ACK of its handshake. *)
LEMMA SynRcvdWindow ==
    ASSUME StreamInv, StreamInv', ConnectionInv, WindowInv, NEW f \in Endpoint, SynRcvd(f)
    PROVE  WindowInv'
<1>1. TypeOK /\ TypeOK' /\ HandshakeInv
  BY DEF StreamInv, TypeInv
<1>2. "client" \in Endpoint /\ "server" \in Endpoint /\ \A e \in Endpoint : e = "client" \/ e = "server"
  BY DEF Endpoint
<1>3. f = "server" /\ Peer("server") = "client" /\ Peer("client") = "server"
  BY <1>2 DEF SynRcvd, ConnectionInv, PhaseInv, HandshakeStates, Peer
<1>4. /\ pc[f] = "handshake" /\ connection_state[f] = "SYN_RCVD" /\ NetworkRecv(f)
      /\ Establish(f) /\ bytes_written' = bytes_written /\ wire' = wire
  BY DEF SynRcvd, application, network
<1>5. Own("client")
  BY <1>1, <1>2, <1>3, OtherOwn DEF Transport
<1>6. network_recv_queue["server"] # << >>
  BY <1>1, <1>3, <1>4, QueueTail
<1>7. Waiting /\ ~Fresh /\ Handshaking("server")
  BY <1>3, <1>4 DEF Waiting, Fresh, Handshaking
<1>8. ~Handshaking("client")
  BY <1>1, <1>2, <1>6, <1>7 DEF HandshakeInv, Handshaking
<1>9. PICK s \in Seq(Packet), t \in Seq(Packet) : s = Coming("client") /\ t = Coming("server")
  BY <1>1, <1>2, ComingType
<1>10. /\ t # << >> /\ NoSyn(Tail(t)) /\ NoSyn(s)
  BY <1>2, <1>7, <1>8, <1>9 DEF WindowInv, SynInv
<1>11. Coming("server")' = Tail(t) /\ Coming("client")' = s
  <2>1. Coming("server")' = Tail(Coming("server"))
    BY <1>1, <1>2, <1>3, <1>4, ComingTake
  <2>2. Coming("client")' = Coming("client")
    BY <1>4, <1>5 DEF Own, Coming
  <2>3. QED
    BY <1>9, <2>1, <2>2
<1>12. Silent("server")'
  <2>1. /\ \A i \in 1 .. Len(t) : t[i].flags \notin Acks
        /\ \A i \in 1 .. Len(s) : s[i].flags \notin Payloads
    BY <1>2, <1>3, <1>7, <1>9 DEF WindowInv, Silent
  <2>2. /\ Len(Tail(t)) = Len(t) - 1 /\ Len(t) \in Nat \ {0}
        /\ \A i \in 1 .. Len(t) - 1 : Tail(t)[i] = t[i + 1]
    BY <1>10, TailRest
  <2>3. \A i \in 1 .. Len(t) - 1 : i + 1 \in 1 .. Len(t)
    BY <2>2
  <2>4. \A i \in 1 .. Len(Tail(t)) : Tail(t)[i].flags \notin Acks
    BY <2>1, <2>2, <2>3
  <2>5. QED
    BY <1>3, <1>11, <2>1, <2>4 DEF Silent
<1>13. ~Handshaking("server")' /\ RoundTrip("server")' /\ Room("server")' /\ Bounded("server")'
  <2>1. Bounded("server")
    BY <1>2 DEF WindowInv
  <2>2. QED
    BY <1>1, <1>2, <1>3, <1>4, <1>7, <1>12, <2>1, EstablishedWindow
<1>14. ~Handshaking("client")' /\ Bounded("client")' /\ Room("client")'
  <2>1. Bounded("client") /\ Room("client")
    BY <1>2, <1>8 DEF WindowInv
  <2>2. QED
    BY <1>1, <1>2, <1>5, <1>8, <2>1, OwnWindow
<1>15. RoundTrip("client")'
  <2>1. PICK lo \in Nat, hi \in Nat : lo = SendBase["client"] /\ hi = next_seqnum["client"]
    BY <1>1, <1>2, WindowType
  <2>2. Answers(s, t, lo, hi)
    BY <1>2, <1>3, <1>8, <1>9, <2>1 DEF WindowInv, RoundTrip
  <2>3. Answers(s, Tail(t), lo, hi)
    BY <1>10, <2>2, AnswersGiven
  <2>4. lo = SendBase'["client"] /\ hi = next_seqnum'["client"]
    BY <1>5, <2>1 DEF Own
  <2>5. QED
    BY <1>3, <1>11, <2>3, <2>4 DEF RoundTrip
<1>16. SynInv'
  <2>1. NoSyn(Coming("server"))' /\ NoSyn(Coming("client"))'
    BY <1>10, <1>11 DEF NoSyn
  <2>2. pc'["client"] # "handshake" /\ ~Waiting'
    BY <1>13, <1>14 DEF Handshaking, Waiting
  <2>3. QED
    BY <1>2, <2>1, <2>2 DEF SynInv
<1>17. QED
  BY <1>2, <1>13, <1>14, <1>15, <1>16 DEF WindowInv

-----------------------------------------------------------------------------
LEMMA WindowInit == Init => WindowInv
<1> SUFFICES ASSUME Init PROVE WindowInv
  OBVIOUS
<1>1. "client" \in Endpoint /\ "server" \in Endpoint
  BY DEF Endpoint
<1>2. ASSUME NEW e \in Endpoint
      PROVE  /\ network_recv_queue[e] = << >> /\ wire[e] = << >> /\ pc[e] = "start"
             /\ bytes_written[e] = 0 /\ next_seqnum[e] = 0 /\ MaxBytes[e] \in Nat
  BY ConstantsAssumption DEF Init
<1>3. \A e \in Endpoint : Len(Coming(e)) = 0
  <2>1. << >> \in Seq(Packet) /\ << >> \o << >> = << >> /\ Len(<< >>) = 0
    OBVIOUS
  <2>2. QED
    BY <1>2, <2>1 DEF Coming
<1>4. \A e \in Endpoint : Handshaking(e)
  BY <1>2 DEF Handshaking
<1>5. SynInv
  BY <1>1, <1>2, <1>3, <1>4 DEF SynInv
<1>6. \A e \in Endpoint : Silent(e)
  <2>1. \A e \in Endpoint : Peer(e) \in Endpoint
    BY PeerFacts
  <2>2. QED
    BY <1>3, <2>1 DEF Silent
<1>7. \A e \in Endpoint : Bounded(e)
  BY <1>2 DEF Bounded
<1>8. QED
  BY <1>4, <1>5, <1>6, <1>7 DEF WindowInv

LEMMA WindowStep ==
    ASSUME NoWrap, StreamInv, StreamInv', ConnectionInv, ConnectionInv', WindowInv, [Next]_vars
    PROVE  WindowInv'
<1>1. TypeOK
  BY DEF StreamInv, TypeInv
<1>2. CASE UNCHANGED observed
  BY <1>1, <1>2, RecvPacketWindow
<1>3. ASSUME NEW f \in Endpoint, Transport(f) PROVE WindowInv'
  <2>1. CASE TransportInit(f)
    BY <2>1, InitWindow
  <2>2. CASE SynSent(f)
    BY <2>2, SynSentWindow
  <2>3. CASE Listen(f)
    BY <2>3, ListenWindow
  <2>4. CASE SynRcvd(f)
    BY <2>4, SynRcvdWindow
  <2>5. CASE \/ WaitForEvent(f) \/ WindowFull(f) \/ CloseIgnored(f) \/ TransportReturn(f)
             \/ SendOverrun(f)
    BY <2>5, QuietSteps
  <2>6. CASE SendData(f)
    BY <2>6, DataWindow
  <2>7. CASE RecvAck(f)
    BY <2>7, AckWindow
  <2>8. CASE RecvFin(f) \/ RecvData(f)
    BY <2>8, AnswerWindow
  <2>9. CASE SendFin(f)
    BY <2>9, FinWindow
  <2>10. CASE ClosingRecv(f) \/ ChecksumAbort(f) \/ AckOverrun(f)
    BY <2>10, DropWindow
  <2>11. QED
    BY <1>3, <2>1, <2>2, <2>3, <2>4, <2>5, <2>6, <2>7, <2>8, <2>9, <2>10 DEF Transport
<1>4. ASSUME NEW f \in Endpoint, Application(f) PROVE WindowInv'
  BY <1>4, CallWindow
<1>5. ASSUME NEW f \in Endpoint, RecvPacket(f) PROVE WindowInv'
  BY <1>1, <1>5, RecvPacketWindow
<1>6. QED
  BY <1>2, <1>3, <1>4, <1>5, StepCases

(* Over a reliable link, as long as no stream is long enough for tcp_seq   *)
(* to wrap and the receiver window is a size_t, what an endpoint has sent  *)
(* and not seen acknowledged fits in SWND, a FIN apart, and SendBase never *)
(* passes next_seqnum.  Each ACK that control_loop() takes must be for     *)
(* something sent and at or after SendBase, which nothing there looks at.  *)
THEOREM WindowCorrect ==
    ASSUME NoWrap PROVE Spec => []WindowRespected
<1>1. StreamInv /\ WindowInv => WindowRespected
  <2> SUFFICES ASSUME StreamInv, WindowInv, NEW e \in Endpoint, ~Handshaking(e)
               PROVE  /\ SendBase[e] <= next_seqnum[e]
                      /\ next_seqnum[e] - SendBase[e] <= SWND[e] +
                            IF AwaitsFinAck(e) \/ connection_state[e] \in {"FIN_WAIT_2", "CLOSED"}
                            THEN 1 ELSE 0
    BY DEF WindowRespected
  <2>1. FinOut(e) <=> AwaitsFinAck(e) \/ connection_state[e] \in {"FIN_WAIT_2", "CLOSED"}
    BY DEF FinOut, AwaitsFinAck
  <2>2. Room(e)
    BY DEF WindowInv
  <2>3. QED
    BY <2>1, <2>2 DEF Room
<1>2. Spec => []StreamInv
  BY StreamInvariance DEF NoWrap
<1>3. StreamInv /\ StreamInv' /\ ConnectionInv /\ ConnectionInv' /\ WindowInv /\ [Next]_vars
         => WindowInv'
  BY WindowStep
<1>4. QED
  BY <1>1, <1>2, <1>3, WindowInit, ConnectionInvariance, PTL DEF Spec
=============================================================================
