-------------------------------- MODULE Stcp --------------------------------
(***************************************************************************)
(* One STCP connection: the two transport threads (transport.c), the event *)
(* loop and packet queues they share with the application and with the     *)
(* network receive thread (stcp_api.c, mysock.c, network_io_socket.c), the *)
(* socket calls of the two applications (mysock_api.c) and the simulated   *)
(* unreliability of _network_send (network.c).                             *)
(*                                                                         *)
(* Bytes are abstracted to their position in the sender's stream: a chunk  *)
(* [from, len] stands for the bytes from .. from + len - 1, position 1     *)
(* being the first byte the application writes.                            *)
(***************************************************************************)
EXTENDS Integers, Sequences

CONSTANTS
    MSS,          \* bytes of payload in a segment (536 in transport.c)
    RECV_WIN,     \* the receiver window (3072 in transport.c)
    SIZE_MOD,     \* size_t arithmetic is modulo this value (2^64)
    SEQ_MOD,      \* tcp_seq arithmetic is modulo this value (2^32)
    Unreliable,   \* the endpoints created with mysocket(is_reliable = FALSE)
    WriteSizes,   \* bound: the buffer lengths passed to mywrite()
    ReadSizes,    \* bound: the buffer lengths passed to myread()
    MaxBytes,     \* bound: bytes the application of each endpoint writes
    MaxMishaps    \* bound: sends an unreliable endpoint treats specially

Endpoint == {"client", "server"}

ASSUME ConstantsAssumption ==
    /\ MSS \in Nat \ {0}
    /\ RECV_WIN \in Nat /\ RECV_WIN >= MSS
    /\ SIZE_MOD \in Nat \ {0}
    /\ SEQ_MOD \in Nat \ {0}
    /\ Unreliable \subseteq Endpoint
    /\ WriteSizes \subseteq Nat \ {0}
    /\ ReadSizes \subseteq Nat \ {0}
    /\ MaxBytes \in [Endpoint -> Nat]
    /\ MaxMishaps \in Nat

Peer(e) == IF e = "client" THEN "server" ELSE "client"

VARIABLES
    \* context_t of the transport thread of each endpoint
    connection_state, SWND, CWND, SendBase, RecvBase, next_seqnum, rem,
    \* where the transport thread is, and the event bits it is handling
    pc, event,
    \* mysock_context_t: the three packet queues and the two flags
    app_recv_queue, app_send_queue, network_recv_queue, close_requested, eof,
    \* network_context_t: the packet _network_send put aside, and what the
    \* kernel's TCP connection carries towards each endpoint
    copied, wire, mishaps,
    \* how the network receive thread stands
    receiver,
    \* the application: its socket, the bytes it has written and read
    app, bytes_written, bytes_read

context == <<connection_state, SWND, CWND, SendBase, RecvBase, next_seqnum, rem>>
thread == <<pc, event>>
queues == <<app_recv_queue, app_send_queue, network_recv_queue>>
network == <<copied, wire, mishaps>>
application == <<app, bytes_written, bytes_read, eof, receiver>>

vars == <<context, thread, queues, close_requested, network, application>>

-----------------------------------------------------------------------------
(* Data *)

CSTATE == {"CLOSED", "LISTEN", "SYN_SENT", "SYN_RCVD", "ESTABLISHED",
           "FIN_WAIT_1", "FIN_WAIT_2", "CLOSE_WAIT", "LAST_ACK"}

EventBits == {"APP_DATA", "NETWORK_DATA", "APP_CLOSE_REQUESTED"}

(* A segment: th_flags ("DATA" stands for no flag set), the two sequence   *)
(* fields and the length of its payload.  pos stands for the payload of a  *)
(* data segment: where its bytes are in the stream.  In any other segment  *)
(* it is a history value, where the sender's stream stood.                 *)
Packet == [flags : {"SYN", "ACK", "FIN", "DATA"}, th_seq : Nat, th_ack : Nat,
           len : Nat, pos : Nat]

Chunk == [from : Nat, len : Nat]

NoPacket == [flags |-> "none"]

MIN(a, b) == IF a < b THEN a ELSE b

(* size_t and tcp_seq arithmetic *)
SizeSub(a, b) == (a - b) % SIZE_MOD

TcpSeq(n) == n % SEQ_MOD

(* The buffer of the sliding window is allocated with SWND bytes, so an    *)
(* access to n bytes at offset off is defined iff off + n <= SWND.         *)
InBuffer(e, off, n) == off + n <= SWND[e]

(* myconnect() and myaccept() wait until this is over. *)
Handshaking(e) == pc[e] \in {"start", "handshake"}

(* An endpoint's process runs its threads until one of them kills it. *)
TransportAlive(e) == pc[e] \notin {"aborted", "faulted"}

Alive(e) == TransportAlive(e) /\ receiver[e] # "aborted"

TypeOK ==
    /\ connection_state \in [Endpoint -> CSTATE]
    /\ SWND \in [Endpoint -> Nat]
    /\ CWND \in [Endpoint -> Nat]
    /\ SendBase \in [Endpoint -> Nat]
    /\ RecvBase \in [Endpoint -> Nat]
    /\ next_seqnum \in [Endpoint -> Nat]
    /\ rem \in [Endpoint -> Nat]
    /\ pc \in [Endpoint -> {"start", "handshake", "wait", "app", "net",
                            "close", "done", "exited", "aborted", "faulted"}]
    /\ event \in [Endpoint -> SUBSET EventBits]
    /\ app_recv_queue \in [Endpoint -> Seq(Chunk)]
    /\ app_send_queue \in [Endpoint -> Seq(Chunk)]
    /\ network_recv_queue \in [Endpoint -> Seq(Packet)]
    /\ close_requested \in [Endpoint -> BOOLEAN]
    /\ eof \in [Endpoint -> BOOLEAN]
    /\ copied \in [Endpoint -> Packet \cup {NoPacket}]
    /\ wire \in [Endpoint -> Seq(Packet)]
    /\ mishaps \in [Endpoint -> Nat]
    /\ receiver \in [Endpoint -> {"running", "ended", "aborted"}]
    /\ app \in [Endpoint -> {"open", "closing", "closed"}]
    /\ bytes_written \in [Endpoint -> Nat]
    /\ bytes_read \in [Endpoint -> Nat]

(* calloc() of context_t and of mysock_context_t: everything is zero. *)
Init ==
    /\ connection_state = [e \in Endpoint |-> "CLOSED"]
    /\ SWND = [e \in Endpoint |-> 0]
    /\ CWND = [e \in Endpoint |-> 0]
    /\ SendBase = [e \in Endpoint |-> 0]
    /\ RecvBase = [e \in Endpoint |-> 0]
    /\ next_seqnum = [e \in Endpoint |-> 0]
    /\ rem = [e \in Endpoint |-> 0]
    /\ pc = [e \in Endpoint |-> "start"]
    /\ event = [e \in Endpoint |-> {}]
    /\ app_recv_queue = [e \in Endpoint |-> << >>]
    /\ app_send_queue = [e \in Endpoint |-> << >>]
    /\ network_recv_queue = [e \in Endpoint |-> << >>]
    /\ close_requested = [e \in Endpoint |-> FALSE]
    /\ eof = [e \in Endpoint |-> FALSE]
    /\ copied = [e \in Endpoint |-> NoPacket]
    /\ wire = [e \in Endpoint |-> << >>]
    /\ mishaps = [e \in Endpoint |-> 0]
    /\ receiver = [e \in Endpoint |-> "running"]
    /\ app = [e \in Endpoint |-> "open"]
    /\ bytes_written = [e \in Endpoint |-> 0]
    /\ bytes_read = [e \in Endpoint |-> 0]

initial_sequence_num == 1

-----------------------------------------------------------------------------
(* Queues of packets, and sending and receiving segments *)

(* _mysock_enqueue_buffer(): a node at the tail, under data_ready_lock. *)
Enqueued(q, node) == Append(q, node)

(* stcp_fin_received(): the node without data that myread() takes for end  *)
(* of file.                                                                *)
EofNode(pos) == [from |-> pos, len |-> 0]

(* _network_send_packet(): packets ps go to the kernel's connection, which *)
(* neither loses nor reorders them.                                        *)
SendPackets(e, ps) == wire' = [wire EXCEPT ![Peer(e)] = @ \o ps]

(* What one call of _network_send() may make of packet p on an unreliable  *)
(* socket, as pairs <<what goes to the peer, packet kept afterwards>>: it  *)
(* is dropped, sent twice, kept aside, or replaced by the one kept before. *)
Mishaps(e, p) ==
    {<< << >>, copied[e]>>, << <<p, p>>, copied[e]>>, << << >>, p>>} \cup
    IF copied[e] = NoPacket THEN {} ELSE {<< <<copied[e]>>, copied[e]>>}

NetworkSend(e, p) ==
    \/ /\ SendPackets(e, <<p>>)
       /\ UNCHANGED <<copied, mishaps>>
    \/ /\ e \in Unreliable /\ mishaps[e] < MaxMishaps
       /\ mishaps' = [mishaps EXCEPT ![e] = @ + 1]
       /\ \E m \in Mishaps(e, p) :
             /\ SendPackets(e, m[1])
             /\ copied' = [copied EXCEPT ![e] = m[2]]

(* stcp_network_recv(): the packet at the head of the queue. *)
Received(e) == Head(network_recv_queue[e])

NetworkRecv(e) ==
    /\ network_recv_queue[e] # << >>
    /\ network_recv_queue' = [network_recv_queue EXCEPT ![e] = Tail(@)]

(* network_recv_thread_func runs until myclose() stops it or its loop ends. *)
Receiving(e) == receiver[e] = "running" /\ app[e] # "closed"

(* One packet from the kernel's socket. *)
RecvPacket(e) ==
    /\ Receiving(e)
    /\ wire[e] # << >>
    /\ wire' = [wire EXCEPT ![e] = Tail(@)]
    /\ network_recv_queue' =
           [network_recv_queue EXCEPT ![e] = Enqueued(@, Head(wire[e]))]
    /\ UNCHANGED <<context, thread, app_recv_queue, app_send_queue,
                   close_requested, copied, mishaps, application>>

(* The peer's end of the kernel's connection is closed: by myclose(), or   *)
(* with its process.                                                       *)
PeerGone(e) == ~Alive(Peer(e)) \/ app[Peer(e)] = "closed"

(* If that leaves packets unread there, or more are sent to it afterwards, *)
(* the kernel resets the connection.                                       *)
PeerReset(e) == PeerGone(e) /\ wire[Peer(e)] # << >>

(* A read that returns 0, or fails because of the reset, ends the loop;    *)
(* nobody is told, and what is still on the wire is never read.            *)
RecvEnd(e) ==
    /\ Receiving(e)
    /\ \/ PeerGone(e) /\ wire[e] = << >>
       \/ PeerReset(e)
    /\ receiver' = [receiver EXCEPT ![e] = "ended"]
    /\ UNCHANGED <<context, thread, queues, close_requested, network, app,
                   bytes_written, bytes_read, eof>>

(* If poll() reports the reset first, as POLLERR, an assertion fails. *)
PollError(e) ==
    /\ Receiving(e)
    /\ PeerReset(e)
    /\ receiver' = [receiver EXCEPT ![e] = "aborted"]
    /\ UNCHANGED <<context, thread, queues, close_requested, network, app,
                   bytes_written, bytes_read, eof>>

RecvThread(e) == RecvPacket(e) \/ RecvEnd(e) \/ PollError(e)

-----------------------------------------------------------------------------
(* transport_init(): the three-way handshake *)

TransportInit(e) ==
    /\ pc[e] = "start"
    /\ pc' = [pc EXCEPT ![e] = "handshake"]
    /\ connection_state' =
           [connection_state EXCEPT ![e] = IF e = "client" THEN "SYN_SENT"
                                                           ELSE "LISTEN"]
    /\ IF e = "client"
       THEN NetworkSend(e, [flags |-> "SYN", th_seq |-> initial_sequence_num,
                            th_ack |-> 0, len |-> 0, pos |-> initial_sequence_num])
       ELSE UNCHANGED network
    /\ UNCHANGED <<SWND, CWND, SendBase, RecvBase, next_seqnum, rem, event,
                   queues, close_requested, application>>

(* The windows, set when the handshake loop ends; stcp_unblock_application *)
(* then lets myconnect() or myaccept() return.                             *)
Establish(e) ==
    /\ connection_state' = [connection_state EXCEPT ![e] = "ESTABLISHED"]
    /\ pc' = [pc EXCEPT ![e] = "wait"]
    /\ SWND' = [SWND EXCEPT ![e] = MSS]
    /\ CWND' = [CWND EXCEPT ![e] = MSS]
    /\ SendBase' = [SendBase EXCEPT ![e] = initial_sequence_num]
    /\ RecvBase' = [RecvBase EXCEPT ![e] = initial_sequence_num]
    /\ next_seqnum' = [next_seqnum EXCEPT ![e] = initial_sequence_num]
    /\ rem' = [rem EXCEPT ![e] = MSS]

(* SYN_SENT: the header just received is turned around, flags included. *)
SynSent(e) ==
    /\ pc[e] = "handshake" /\ connection_state[e] = "SYN_SENT"
    /\ NetworkRecv(e)
    /\ NetworkSend(e, [flags |-> Received(e).flags,
                       th_seq |-> Received(e).th_ack,
                       th_ack |-> TcpSeq(Received(e).th_seq + 1),
                       len |-> 0, pos |-> initial_sequence_num])
    /\ Establish(e)
    /\ UNCHANGED <<event, app_recv_queue, app_send_queue, close_requested,
                   application>>

(* LISTEN: any segment is answered; its flags are kept in the answer. *)
Listen(e) ==
    /\ pc[e] = "handshake" /\ connection_state[e] = "LISTEN"
    /\ NetworkRecv(e)
    /\ NetworkSend(e, [flags |-> Received(e).flags,
                       th_seq |-> initial_sequence_num,
                       th_ack |-> TcpSeq(Received(e).th_seq + 1),
                       len |-> 0, pos |-> initial_sequence_num])
    /\ connection_state' = [connection_state EXCEPT ![e] = "SYN_RCVD"]
    /\ UNCHANGED <<SWND, CWND, SendBase, RecvBase, next_seqnum, rem, thread,
                   app_recv_queue, app_send_queue, close_requested, application>>

(* SYN_RCVD: whatever arrives next is taken for the client's ACK. *)
SynRcvd(e) ==
    /\ pc[e] = "handshake" /\ connection_state[e] = "SYN_RCVD"
    /\ NetworkRecv(e)
    /\ Establish(e)
    /\ UNCHANGED <<event, app_recv_queue, app_send_queue, close_requested,
                   network, application>>

-----------------------------------------------------------------------------
(* control_loop(): stcp_wait_for_event() *)

(* Mutant: the close request overtakes the application's data. *)
EagerClosePendingEvents(e) ==
    {b \in EventBits :
        \/ b = "APP_DATA" /\ app_recv_queue[e] # << >>
        \/ b = "NETWORK_DATA" /\ network_recv_queue[e] # << >>
        \/ b = "APP_CLOSE_REQUESTED" /\ close_requested[e]}

(* The bits stcp_wait_for_event() returns.  The close request is passed on *)
(* only when the application's data has all been taken.                    *)
PendingEvents(e) ==
    {b \in EventBits :
        \/ b = "APP_DATA" /\ app_recv_queue[e] # << >>
        \/ b = "NETWORK_DATA" /\ network_recv_queue[e] # << >>
        \/ b = "APP_CLOSE_REQUESTED" /\ close_requested[e]
                                    /\ app_recv_queue[e] = << >>}

(* Where the loop body goes after a section, given the bits of this turn;  *)
(* done is set exactly when the state becomes CLOSED.                      *)
LoopEnd(state) == IF state = "CLOSED" THEN "done" ELSE "wait"

AfterNet(bits, state) ==
    IF "APP_CLOSE_REQUESTED" \in bits THEN "close" ELSE LoopEnd(state)

AfterApp(bits, state) ==
    IF "NETWORK_DATA" \in bits THEN "net" ELSE AfterNet(bits, state)

AfterWait(bits, state) ==
    IF "APP_DATA" \in bits THEN "app" ELSE AfterApp(bits, state)

WaitForEvent(e) ==
    /\ pc[e] = "wait"
    /\ PendingEvents(e) # {}
    /\ event' = [event EXCEPT ![e] = PendingEvents(e)]
    /\ close_requested' = [close_requested EXCEPT
                              ![e] = @ /\ "APP_CLOSE_REQUESTED" \notin PendingEvents(e)]
    /\ pc' = [pc EXCEPT ![e] = AfterWait(PendingEvents(e), connection_state[e])]
    /\ UNCHANGED <<context, queues, network, application>>

-----------------------------------------------------------------------------
(* control_loop(): APP_DATA *)

(* The window is full: goto next. *)
WindowFull(e) ==
    /\ pc[e] = "app" /\ rem[e] = 0
    /\ pc' = [pc EXCEPT ![e] = AfterApp(event[e], connection_state[e])]
    /\ UNCHANGED <<context, event, queues, close_requested, network, application>>

(* Mutants: the rest of a partly taken buffer is not moved to its front;   *)
(* an exhausted buffer stays queued.                                       *)
UnmovedBufferAfter(q, n) ==
    IF Head(q).len > n
    THEN <<[from |-> Head(q).from, len |-> Head(q).len - n]>> \o Tail(q)
    ELSE Tail(q)

KeptBufferAfter(q, n) ==
    <<[from |-> Head(q).from + n, len |-> Head(q).len - n]>> \o Tail(q)

(* What _mysock_dequeue_buffer(remove_partial) leaves of a queue of chunks *)
(* when its caller has room for n bytes.                                   *)
BufferAfter(q, n) ==
    IF Head(q).len > n
    THEN <<[from |-> Head(q).from + n, len |-> Head(q).len - n]>> \o Tail(q)
    ELSE Tail(q)

(* Mutant: the room left in the window is not looked at. *)
UnboundedMaxSize(e) == MSS

(* stcp_app_recv() takes at most one buffer of the application, and at     *)
(* most max_size bytes of it.                                              *)
max_size(e) == MIN(rem[e], MSS)

(* Mutant: the length asked for is taken for the length received. *)
RequestedDataSize(e) == max_size(e)

data_size(e) == MIN(Head(app_recv_queue[e]).len, max_size(e))

SendData(e) ==
    LET n == data_size(e)
        next == next_seqnum[e] + n
    IN
    /\ pc[e] = "app" /\ rem[e] # 0
    /\ app_recv_queue' = [app_recv_queue EXCEPT ![e] = BufferAfter(@, max_size(e))]
    /\ NetworkSend(e, [flags |-> "DATA", th_seq |-> TcpSeq(next_seqnum[e]),
                       th_ack |-> 0, len |-> n, pos |-> Head(app_recv_queue[e]).from])
    /\ next_seqnum' = [next_seqnum EXCEPT ![e] = next]
    /\ rem' = [rem EXCEPT ![e] = SizeSub(SWND[e], SizeSub(next, SendBase[e]))]
    /\ pc' = [pc EXCEPT ![e] = AfterApp(event[e], connection_state[e])]
    /\ UNCHANGED <<connection_state, SWND, CWND, SendBase, RecvBase, event,
                   app_send_queue, network_recv_queue, close_requested,
                   application>>

-----------------------------------------------------------------------------
(* control_loop(): NETWORK_DATA *)

(* In these two states a packet is taken by the close section instead. *)
AwaitsFinAck(e) == connection_state[e] \in {"FIN_WAIT_1", "LAST_ACK"}

HandlesPacket(e) == pc[e] = "net" /\ ~AwaitsFinAck(e)

NextPhase(e, state) == pc' = [pc EXCEPT ![e] = AfterNet(event[e], state)]

(* An ACK: slow start up to 4 MSS, then congestion avoidance. *)
GrownCWND(e) ==
    IF CWND[e] < 4 * MSS THEN CWND[e] + MSS
                         ELSE CWND[e] + (MSS * MSS) \div CWND[e]

GrownSWND(e) == MIN(GrownCWND(e), RECV_WIN)

(* The window's contents move to a new buffer of GrownSWND bytes:          *)
(* memcpy(new_buffer, buffer + ACK_size, SWND_prev - ACK_size), in size_t. *)
ACK_size(e, p) == SizeSub(p.th_ack, SendBase[e])

MovedSize(e, p) == SizeSub(SWND[e], ACK_size(e, p))

(* A length in the upper half of size_t certainly leaves the address space. *)
CertainFault(n) == n >= SIZE_MOD \div 2

(* Mutant: rem is not recomputed when an ACK slides the window. *)
StaleRem(e, p) == rem[e]

RemAfterAck(e, p) == SizeSub(GrownSWND(e), SizeSub(next_seqnum[e], p.th_ack))

RecvAck(e) ==
    LET p == Received(e) IN
    /\ HandlesPacket(e)
    /\ NetworkRecv(e)
    /\ p.flags = "ACK"
    /\ ~CertainFault(MovedSize(e, p))
    /\ SendBase' = [SendBase EXCEPT ![e] = p.th_ack]
    /\ CWND' = [CWND EXCEPT ![e] = GrownCWND(e)]
    /\ SWND' = [SWND EXCEPT ![e] = GrownSWND(e)]
    /\ rem' = [rem EXCEPT ![e] = RemAfterAck(e, p)]
    /\ NextPhase(e, connection_state[e])
    /\ UNCHANGED <<connection_state, RecvBase, next_seqnum, event, app_recv_queue,
                   app_send_queue, close_requested, network, application>>

(* A FIN is acknowledged and the application gets an end-of-file node. *)
StateAfterFin(e) == IF e = "client" THEN "CLOSED" ELSE "CLOSE_WAIT"

RecvFin(e) ==
    LET p == Received(e) IN
    /\ HandlesPacket(e)
    /\ NetworkRecv(e)
    /\ p.flags = "FIN"
    /\ RecvBase' = [RecvBase EXCEPT ![e] = @ + 1]
    /\ NetworkSend(e, [flags |-> "ACK", th_seq |-> TcpSeq(RecvBase[e] + 1),
                       th_ack |-> TcpSeq(p.th_seq + 1), len |-> 0,
                       pos |-> next_seqnum[e]])
    /\ connection_state' = [connection_state EXCEPT ![e] = StateAfterFin(e)]
    /\ app_send_queue' = [app_send_queue EXCEPT
                             ![e] = Enqueued(@, EofNode(p.pos))]
    /\ NextPhase(e, StateAfterFin(e))
    /\ UNCHANGED <<SWND, CWND, SendBase, next_seqnum, rem, event, app_recv_queue,
                   close_requested, application>>

(* Anything else is data: acknowledged and passed up without a look at its *)
(* sequence number.  stcp_app_send() ignores an empty payload.             *)
AckNumber(p) == TcpSeq(p.th_seq + p.len)

(* Mutant: the payload goes in front of what the application has not read. *)
PassedUpInFront(e, p) ==
    IF p.len = 0 THEN app_send_queue[e]
                 ELSE <<[from |-> p.pos, len |-> p.len]>> \o app_send_queue[e]

PassedUp(e, p) ==
    IF p.len = 0 THEN app_send_queue[e]
                 ELSE Enqueued(app_send_queue[e], [from |-> p.pos, len |-> p.len])

RecvData(e) ==
    LET p == Received(e) IN
    /\ HandlesPacket(e)
    /\ NetworkRecv(e)
    /\ p.flags \in {"DATA", "SYN"}
    /\ RecvBase' = [RecvBase EXCEPT ![e] = @ + p.len]
    /\ NetworkSend(e, [flags |-> "ACK", th_seq |-> TcpSeq(RecvBase[e] + p.len),
                       th_ack |-> AckNumber(p), len |-> 0,
                       pos |-> next_seqnum[e]])
    /\ app_send_queue' = [app_send_queue EXCEPT ![e] = PassedUp(e, p)]
    /\ NextPhase(e, connection_state[e])
    /\ UNCHANGED <<connection_state, SWND, CWND, SendBase, next_seqnum, rem, event,
                   app_recv_queue, close_requested, application>>

-----------------------------------------------------------------------------
(* control_loop(): APP_CLOSE_REQUESTED, and the close label *)

(* Mutant: either endpoint closes only after the other has. *)
MaySendFinSecond(e) == connection_state[e] = "CLOSE_WAIT"

(* The client closes from ESTABLISHED, the server from CLOSE_WAIT. *)
MaySendFin(e) ==
    connection_state[e] = IF e = "client" THEN "ESTABLISHED" ELSE "CLOSE_WAIT"

SendFin(e) ==
    LET next == next_seqnum[e] + 1 IN
    /\ pc[e] = "close" /\ MaySendFin(e)
    /\ NetworkSend(e, [flags |-> "FIN", th_seq |-> TcpSeq(next_seqnum[e]),
                       th_ack |-> 0, len |-> 0, pos |-> next_seqnum[e]])
    /\ next_seqnum' = [next_seqnum EXCEPT ![e] = next]
    /\ rem' = [rem EXCEPT ![e] = SizeSub(SWND[e], SizeSub(next, SendBase[e]))]
    /\ connection_state' =
           [connection_state EXCEPT ![e] = IF e = "client" THEN "FIN_WAIT_1"
                                                           ELSE "LAST_ACK"]
    /\ pc' = [pc EXCEPT ![e] = "wait"]
    /\ UNCHANGED <<SWND, CWND, SendBase, RecvBase, event, queues,
                   close_requested, application>>

(* In any other state the close request is consumed without effect. *)
CloseIgnored(e) ==
    /\ pc[e] = "close" /\ ~MaySendFin(e) /\ ~AwaitsFinAck(e)
    /\ pc' = [pc EXCEPT ![e] = LoopEnd(connection_state[e])]
    /\ UNCHANGED <<context, event, queues, close_requested, network, application>>

(* FIN_WAIT_1 and LAST_ACK: one segment is read.  Any ACK is taken for the *)
(* ACK of the FIN, and any other segment is thrown away.                   *)
StateAfterClosingRecv(e, p) ==
    IF p.flags # "ACK" THEN connection_state[e]
    ELSE IF e = "client" THEN "FIN_WAIT_2" ELSE "CLOSED"

ClosingRecv(e) ==
    LET state == StateAfterClosingRecv(e, Received(e)) IN
    /\ pc[e] \in {"net", "close"} /\ AwaitsFinAck(e)
    /\ NetworkRecv(e)
    /\ connection_state' = [connection_state EXCEPT ![e] = state]
    /\ pc' = [pc EXCEPT ![e] = LoopEnd(state)]
    /\ UNCHANGED <<SWND, CWND, SendBase, RecvBase, next_seqnum, rem, event,
                   app_recv_queue, app_send_queue, close_requested, network,
                   application>>

(* transport_thread_func: when transport_init() has returned, the final    *)
(* end-of-file node.                                                       *)
TransportReturn(e) ==
    /\ pc[e] = "done"
    /\ app_send_queue' = [app_send_queue EXCEPT
                             ![e] = Enqueued(@, EofNode(RecvBase[e]))]
    /\ pc' = [pc EXCEPT ![e] = "exited"]
    /\ UNCHANGED <<context, event, app_recv_queue, network_recv_queue,
                   close_requested, network, application>>

-----------------------------------------------------------------------------
(* How the process of an endpoint dies *)

(* stcp_network_recv() into a buffer of sizeof(struct tcphdr) bytes: only  *)
(* the header is copied, but the checksum assertion runs over the length   *)
(* of the whole packet.  With a payload it sums heap memory behind the     *)
(* buffer, so the assertion may abort the process instead of letting the   *)
(* receiving action happen.                                                *)
HeaderOnlyRecv(e) ==
    \/ pc[e] = "handshake"
    \/ pc[e] \in {"net", "close"} /\ AwaitsFinAck(e)

ChecksumAbort(e) ==
    /\ HeaderOnlyRecv(e)
    /\ NetworkRecv(e)
    /\ Received(e).len > 0
    /\ pc' = [pc EXCEPT ![e] = "aborted"]
    /\ UNCHANGED <<context, event, app_recv_queue, app_send_queue,
                   close_requested, network, application>>

(* The application's data is written at buffer + next_seqnum - SendBase;   *)
(* beyond the end of the buffer that may kill the process.                 *)
SendOverrun(e) ==
    /\ pc[e] = "app" /\ rem[e] # 0
    /\ ~InBuffer(e, SizeSub(next_seqnum[e], SendBase[e]), data_size(e))
    /\ pc' = [pc EXCEPT ![e] = "faulted"]
    /\ UNCHANGED <<context, event, queues, close_requested, network, application>>

(* So may the move of the window, if it reads or writes outside a buffer. *)
MoveDefined(e, p) == /\ InBuffer(e, ACK_size(e, p), MovedSize(e, p))
                     /\ MovedSize(e, p) <= GrownSWND(e)

AckOverrun(e) ==
    /\ HandlesPacket(e)
    /\ NetworkRecv(e)
    /\ Received(e).flags = "ACK"
    /\ ~MoveDefined(e, Received(e))
    /\ pc' = [pc EXCEPT ![e] = "faulted"]
    /\ UNCHANGED <<context, event, app_recv_queue, app_send_queue,
                   close_requested, network, application>>

-----------------------------------------------------------------------------
(* The socket calls, made by one application thread per endpoint *)

(* The application runs once stcp_unblock_application() was called. *)
Running(e) == Alive(e) /\ ~Handshaking(e) /\ app[e] = "open"

mywrite(e, n) ==
    /\ Running(e)
    /\ bytes_written[e] + n <= MaxBytes[e]
    /\ app_recv_queue' =
           [app_recv_queue EXCEPT
              ![e] = Enqueued(@, [from |-> bytes_written[e] + 1, len |-> n])]
    /\ bytes_written' = [bytes_written EXCEPT ![e] = @ + n]
    /\ UNCHANGED <<context, thread, app_send_queue, network_recv_queue,
                   close_requested, network, app, bytes_read, eof, receiver>>

(* myread() returning data, or 0 for an end-of-file node (sticky). *)
myread(e, n) ==
    LET got == MIN(n, Head(app_send_queue[e]).len) IN
    /\ Running(e) /\ ~eof[e]
    /\ app_send_queue[e] # << >>
    /\ app_send_queue' = [app_send_queue EXCEPT ![e] = BufferAfter(@, n)]
    /\ bytes_read' = [bytes_read EXCEPT ![e] = @ + got]
    /\ eof' = [eof EXCEPT ![e] = (got = 0)]
    /\ UNCHANGED <<context, thread, app_recv_queue, network_recv_queue,
                   close_requested, network, app, bytes_written, receiver>>

myclose(e) ==
    /\ Running(e)
    /\ close_requested' = [close_requested EXCEPT ![e] = TRUE]
    /\ app' = [app EXCEPT ![e] = "closing"]
    /\ UNCHANGED <<context, thread, queues, network, bytes_written, bytes_read, eof,
                   receiver>>

(* _mysock_free_queue() *)
FreedQueue == << >>

(* myclose() joins the transport thread, stops the receive thread and      *)
(* frees the context with its queues.                                      *)
mycloseReturn(e) ==
    /\ app[e] = "closing" /\ pc[e] = "exited"
    /\ app' = [app EXCEPT ![e] = "closed"]
    /\ app_recv_queue' = [app_recv_queue EXCEPT ![e] = FreedQueue]
    /\ app_send_queue' = [app_send_queue EXCEPT ![e] = FreedQueue]
    /\ network_recv_queue' = [network_recv_queue EXCEPT ![e] = FreedQueue]
    /\ UNCHANGED <<context, thread, close_requested, network, bytes_written,
                   bytes_read, eof, receiver>>

-----------------------------------------------------------------------------
(* One thread each: transport, network receive, application *)

Transport(e) ==
    \/ TransportInit(e)
    \/ SynSent(e)
    \/ Listen(e)
    \/ SynRcvd(e)
    \/ WaitForEvent(e)
    \/ WindowFull(e)
    \/ SendData(e)
    \/ RecvAck(e)
    \/ RecvFin(e)
    \/ RecvData(e)
    \/ SendFin(e)
    \/ CloseIgnored(e)
    \/ ClosingRecv(e)
    \/ TransportReturn(e)
    \/ ChecksumAbort(e)
    \/ SendOverrun(e)
    \/ AckOverrun(e)

Application(e) ==
    \/ \E n \in WriteSizes : mywrite(e, n)
    \/ \E n \in ReadSizes : myread(e, n)
    \/ myclose(e)
    \/ mycloseReturn(e)

Next == \E e \in Endpoint :
            Alive(e) /\ (Transport(e) \/ RecvThread(e) \/ Application(e))

Spec == Init /\ [][Next]_vars

(* The scheduler runs every thread that can run; a blocked myclose()       *)
(* returns once the transport thread is gone.  What the applications ask   *)
(* for is their own choice.                                                *)
Fairness ==
    \A e \in Endpoint : /\ WF_vars(Alive(e) /\ Transport(e))
                        /\ WF_vars(Alive(e) /\ RecvThread(e))
                        /\ WF_vars(Alive(e) /\ mycloseReturn(e))

FairSpec == Spec /\ Fairness

-----------------------------------------------------------------------------
(* Properties *)

(* The bytes waiting for an application are the ones it expects next: the  *)
(* chunks in app_send_queue continue its stream without gap or repetition, *)
(* although control_loop() never looks at a sequence number.               *)
InOrder(e) ==
    LET q == app_send_queue[e] IN
    app[e] # "closed" =>
        /\ q # << >> /\ Head(q).len > 0 => Head(q).from = 1 + bytes_read[e]
        /\ \A i \in 1 .. Len(q) - 1 :
              q[i + 1].len > 0 => q[i + 1].from = q[i].from + q[i].len

ServerStreamInOrder == InOrder("server")

(* When myread() reports end of file to the server, the server has read    *)
(* every byte the client ever wrote, and the client has called myclose().  *)
ServerEofComplete ==
    eof["server"] => /\ bytes_read["server"] = bytes_written["client"]
                     /\ app["client"] # "open"

(* The sliding window: what was sent and not acknowledged fits in SWND (a  *)
(* FIN takes one sequence number more), and nothing unsent is acknowledged. *)
WindowRespected ==
    \A e \in Endpoint : ~Handshaking(e) =>
        /\ SendBase[e] <= next_seqnum[e]
        /\ next_seqnum[e] - SendBase[e] <= SWND[e] + IF AwaitsFinAck(e) \/ connection_state[e] \in {"FIN_WAIT_2", "CLOSED"}
                                                     THEN 1 ELSE 0

(* A transport thread that returns has sent every byte its application     *)
(* wrote, and the FIN after them.                                          *)
AllSentAtExit ==
    \A e \in Endpoint : pc[e] \in {"done", "exited"} =>
                            next_seqnum[e] = 1 + bytes_written[e] + 1

(* Whatever the network does, an application is only given bytes that the  *)
(* other one wrote, and sees end of file only if the other one closed.     *)
GenuineBytes ==
    \A e \in Endpoint :
        /\ \A i \in DOMAIN app_send_queue[e] :
              LET c == app_send_queue[e][i] IN
              c.len > 0 => c.from >= 1 /\ c.from + c.len - 1 <= bytes_written[Peer(e)]
        /\ eof[e] => app[Peer(e)] # "open"

(* Every byte the client writes reaches the server's application queue,    *)
(* whatever either application does next, unless a process dies: an end of *)
(* the receive thread, which nobody is told of, never leaves data behind.  *)
ClientDataArrives ==
    \A k \in 1 .. MaxBytes["client"] :
        (bytes_written["client"] >= k) ~> \/ RecvBase["server"] > k
                                          \/ \E e \in Endpoint : ~Alive(e)

(* Neither transport thread kills its process: the window's copies stay    *)
(* inside its buffer, and the checksum assertion of stcp_network_recv()    *)
(* holds.                                                                  *)
NoneDies == \A e \in Endpoint : TransportAlive(e)

(* When both applications have called myclose(), both calls return. *)
BothCloseReturn ==
    (\A e \in Endpoint : app[e] # "open") ~> (\A e \in Endpoint : app[e] = "closed")
=============================================================================
