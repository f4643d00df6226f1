--------------------------- MODULE ConnectionDemux ---------------------------
(***************************************************************************)
(* The passive side of mysock: one process with one listening mysocket,    *)
(* descriptor 0.  Its network receive thread accepts kernel connections    *)
(* and dispatches the SYN that arrives on each (network_io_socket.c,       *)
(* network_io_tcp.c, connection_demux.c), a transport thread per new       *)
(* mysocket completes the handshake, and one application thread takes      *)
(* completed connections with myaccept() and serves them one at a time     *)
(* (mysock_api.c, server.c).                                               *)
(*                                                                         *)
(* A client stands for its process, its address and its kernel connection: *)
(* the kernel never holds two connections with the same peer address, so   *)
(* the "retransmission of queued request" branch of                        *)
(* _mysock_enqueue_connection() is never taken over the TCP network layer. *)
(***************************************************************************)
EXTENDS Integers, Sequences, FiniteSets

CONSTANTS
    Client,             \* the processes that connect
    NoClient,           \* stands for an unset address and for new_socket = -1
    UintMod,            \* unsigned int arithmetic is modulo this value (2^32)
    MaxLen,             \* max_len of the listen queue: backlog + 1
    MaxNumConnections,  \* MAX_NUM_CONNECTIONS, size of the descriptor table
    Unreliable,         \* clients created with -U: their SYN may be lost
    SplitCounter,       \* whether the updates of cur_len may interleave
    MayCloseListener,   \* whether the application may close the listener
    MaxCrashes          \* bound: clients that die

ASSUME ConstantsAssumption ==
    /\ NoClient \notin Client
    /\ UintMod \in Nat \ {0}
    /\ MaxLen \in Nat \ {0}
    /\ MaxNumConnections \in Nat \ {0}
    /\ Unreliable \subseteq Client
    /\ SplitCounter \in BOOLEAN /\ MayCloseListener \in BOOLEAN
    /\ MaxCrashes \in Nat

Slot == 1 .. MaxLen

Descriptor == 0 .. MaxNumConnections - 1

VARIABLES
    client,             \* what each client's process has done
    syn_in_kernel,      \* clients whose SYN waits in the kernel, unread
    kernel_queue,       \* connections the kernel holds for accept()
    new_socket,         \* network_context_socket_tcp_t of the listener
    recv_pc,            \* where the listener's receive thread is
    recv_slot, recv_len,    \* its queue_entry, and cur_len as it read it
    connection_queue, completed_queue, cur_len,  \* listen_queue_t
    global_ctx,         \* the descriptor table, with each transport thread
    app_pc,             \* where the application thread is
    app_sd, app_len,    \* the mysocket it serves, and cur_len as it read it
    close_k,            \* its k in _mysock_close_passive_socket(), plus one
    aborted             \* the assertion that ended the process, if any

clients == <<client, syn_in_kernel, kernel_queue>>
recv_thread == <<new_socket, recv_pc, recv_slot, recv_len>>
listen_queue == <<connection_queue, completed_queue, cur_len>>
app_thread == <<app_pc, app_sd, app_len, close_k>>

vars == <<clients, recv_thread, listen_queue, global_ctx, app_thread, aborted>>

FreeContext == [state |-> "free", peer_addr |-> NoClient, socket |-> NoClient]

INVALIDATE_CONNECT_REQUEST == [sd |-> -1, peer_addr |-> NoClient]

(* mylisten() *)
ListeningContext == [FreeContext EXCEPT !.state = "listening"]

Context == [state : {"free", "listening", "handshake", "acked", "complete",
                     "deaf"},
            peer_addr : Client \cup {NoClient}, socket : Client \cup {NoClient}]

TypeOK ==
    /\ client \in [Client -> {"idle", "connected", "mute", "syn", "acked",
                              "finished", "dead"}]
    /\ syn_in_kernel \subseteq Client
    /\ kernel_queue \in Seq(Client)
    /\ new_socket \in Client \cup {NoClient}
    /\ recv_pc \in {"poll", "read", "enqueue", "count", "establish", "uncount",
                   "exited"}
    /\ recv_slot \in Slot /\ recv_len \in Nat
    /\ connection_queue \in [Slot -> [sd : Descriptor \cup {-1},
                                      peer_addr : Client \cup {NoClient}]]
    /\ completed_queue \in Seq(Slot)
    /\ cur_len \in Nat
    /\ global_ctx \in [Descriptor -> Context]
    /\ app_pc \in {"accept", "dequeued", "count", "serve", "stop", "close", "exited"}
    /\ app_sd \in Descriptor \cup {-1} /\ app_len \in Nat
    /\ close_k \in 1 .. MaxLen + 1
    /\ aborted \in {"no", "new_socket", "queue_entry", "cur_len"}

(* After mysocket(), mybind() and mylisten(): descriptor 0 is listening,   *)
(* its queue has max_len free entries and its receive thread runs.         *)
Init ==
    /\ client = [c \in Client |-> "idle"]
    /\ syn_in_kernel = {}
    /\ kernel_queue = << >>
    /\ new_socket = NoClient
    /\ recv_pc = "poll" /\ recv_slot = 1 /\ recv_len = 0
    /\ connection_queue = [k \in Slot |-> INVALIDATE_CONNECT_REQUEST]
    /\ completed_queue = << >>
    /\ cur_len = 0
    /\ global_ctx = [sd \in Descriptor |->
                        IF sd = 0 THEN ListeningContext ELSE FreeContext]
    /\ app_pc = "accept" /\ app_sd = -1 /\ app_len = 0 /\ close_k = 1
    /\ aborted = "no"

Lowest(S) == CHOOSE x \in S : \A y \in S : x <= y

Fails(assertion) == aborted' = assertion

-----------------------------------------------------------------------------
(* The clients *)

(* _tcp_connect(): the kernel completes the connection on its own. *)
Connect(c) ==
    /\ client[c] = "idle"
    /\ client' = [client EXCEPT ![c] = "connected"]
    /\ kernel_queue' = Append(kernel_queue, c)
    /\ UNCHANGED <<syn_in_kernel, recv_thread, listen_queue, global_ctx,
                   app_thread, aborted>>

SendSyn(c) ==
    /\ client[c] = "connected"
    /\ client' = [client EXCEPT ![c] = "syn"]
    /\ syn_in_kernel' = syn_in_kernel \cup {c}
    /\ UNCHANGED <<kernel_queue, recv_thread, listen_queue, global_ctx,
                   app_thread, aborted>>

(* The receive thread connects and _network_send() drops the SYN, which is *)
(* never sent again.                                                       *)
LoseSyn(c) ==
    /\ client[c] = "connected" /\ c \in Unreliable
    /\ client' = [client EXCEPT ![c] = "mute"]
    /\ UNCHANGED <<syn_in_kernel, kernel_queue, recv_thread, listen_queue,
                   global_ctx, app_thread, aborted>>

(* The client answers the SYN-ACK of its context's transport thread. *)
SendAck(c) ==
    /\ client[c] = "syn"
    /\ \E sd \in Descriptor :
          /\ global_ctx[sd].socket = c /\ global_ctx[sd].state = "handshake"
          /\ global_ctx' = [global_ctx EXCEPT ![sd].state = "acked"]
    /\ client' = [client EXCEPT ![c] = "acked"]
    /\ UNCHANGED <<syn_in_kernel, kernel_queue, recv_thread, listen_queue,
                   app_thread, aborted>>

(* The client's application calls myclose(): its FIN reaches the server. *)
Finish(c) ==
    /\ client[c] = "acked"
    /\ client' = [client EXCEPT ![c] = "finished"]
    /\ UNCHANGED <<syn_in_kernel, kernel_queue, recv_thread, listen_queue,
                   global_ctx, app_thread, aborted>>

Crash(c) ==
    /\ client[c] \notin {"idle", "finished", "dead"}
    /\ Cardinality({d \in Client : client[d] = "dead"}) < MaxCrashes
    /\ client' = [client EXCEPT ![c] = "dead"]
    /\ UNCHANGED <<syn_in_kernel, kernel_queue, recv_thread, listen_queue,
                   global_ctx, app_thread, aborted>>

-----------------------------------------------------------------------------
(* The listener's receive thread *)

(* network_recv_thread_func(), _network_recv_packet(): accept() has its    *)
(* result put in new_socket, which must have been handed on by now.        *)
Accept ==
    /\ recv_pc = "poll" /\ kernel_queue # << >>
    /\ kernel_queue' = Tail(kernel_queue)
    /\ IF new_socket = NoClient
       THEN /\ new_socket' = Head(kernel_queue)
            /\ recv_pc' = "read"
            /\ UNCHANGED aborted
       ELSE /\ Fails("new_socket")
            /\ UNCHANGED <<new_socket, recv_pc>>
    /\ UNCHANGED <<client, syn_in_kernel, recv_slot, recv_len, listen_queue,
                   global_ctx, app_thread>>

(* The blocking read of the packet: the SYN, or end of file, which ends    *)
(* the thread.                                                             *)
ReadSyn ==
    /\ recv_pc = "read" /\ new_socket \in syn_in_kernel
    /\ syn_in_kernel' = syn_in_kernel \ {new_socket}
    /\ recv_pc' = "enqueue"
    /\ UNCHANGED <<client, kernel_queue, new_socket, recv_slot, recv_len,
                   listen_queue, global_ctx, app_thread, aborted>>

ReadEof ==
    /\ recv_pc = "read" /\ new_socket \notin syn_in_kernel
    /\ new_socket \in Client /\ client[new_socket] = "dead"
    /\ recv_pc' = "exited"
    /\ UNCHANGED <<clients, new_socket, recv_slot, recv_len, listen_queue,
                   global_ctx, app_thread, aborted>>

FreeSlots == {k \in Slot : connection_queue[k].sd < 0}

(* _mysock_enqueue_connection(): the SYN is dropped when cur_len says the  *)
(* queue is full; otherwise an entry is found and ++cur_len begins.        *)
DropSyn ==
    /\ recv_pc = "enqueue" /\ cur_len >= MaxLen
    /\ recv_pc' = "poll"
    /\ UNCHANGED <<clients, new_socket, recv_slot, recv_len, listen_queue,
                   global_ctx, app_thread, aborted>>

FindSlot ==
    /\ recv_pc = "enqueue" /\ cur_len < MaxLen
    /\ IF FreeSlots # {}
       THEN /\ recv_slot' = Lowest(FreeSlots)
            /\ recv_len' = cur_len
            /\ recv_pc' = "count"
            /\ UNCHANGED aborted
       ELSE /\ Fails("queue_entry")
            /\ UNCHANGED <<recv_slot, recv_len, recv_pc>>
    /\ UNCHANGED <<clients, new_socket, listen_queue, global_ctx, app_thread>>

(* The store of ++cur_len.  It is not synchronised with --cur_len of the   *)
(* application thread, so the value loaded may be stale.                   *)
CountRequest ==
    /\ recv_pc = "count"
    /\ cur_len' = ((IF SplitCounter THEN recv_len ELSE cur_len) + 1) % UintMod
    /\ recv_pc' = "establish"
    /\ UNCHANGED <<clients, new_socket, recv_slot, recv_len, connection_queue,
                   completed_queue, global_ctx, app_thread, aborted>>

FreeDescriptors == {sd \in Descriptor : global_ctx[sd].state = "free"}

(* Mutant: the first entry of the table is taken, used or not. *)
UncheckedDescriptor == 1

NewMysocket == Lowest(FreeDescriptors)

(* Mutant: the accepted connection stays in new_socket as well. *)
KeptNewSocket == new_socket

(* _network_update_passive_state() hands the accepted socket on. *)
NewSocketAfterUpdate == NoClient

(* A new mysocket takes over the accepted connection, and its transport    *)
(* thread starts with the SYN in its queue.                                *)
EstablishConnection ==
    /\ recv_pc = "establish" /\ FreeDescriptors # {}
    /\ connection_queue' = [connection_queue EXCEPT
                               ![recv_slot] = [sd |-> NewMysocket,
                                               peer_addr |-> new_socket]]
    /\ global_ctx' = [global_ctx EXCEPT
                         ![NewMysocket] = [state |-> "handshake",
                                                    peer_addr |-> new_socket,
                                                    socket |-> new_socket]]
    /\ new_socket' = NewSocketAfterUpdate
    /\ recv_pc' = "poll"
    /\ UNCHANGED <<clients, recv_slot, recv_len, completed_queue, cur_len,
                   app_thread, aborted>>

(* Mutant: the count is signed. *)
SignedDecrement(count) == count - 1

Decremented(count) == (count - 1) % UintMod

(* The descriptor table is full: the entry is given back.  --cur_len is    *)
(* again a load and a store.                                               *)
NoDescriptor ==
    /\ recv_pc = "establish" /\ FreeDescriptors = {}
    /\ recv_len' = cur_len
    /\ recv_pc' = "uncount"
    /\ UNCHANGED <<clients, new_socket, recv_slot, listen_queue, global_ctx,
                   app_thread, aborted>>

UncountRequest ==
    /\ recv_pc = "uncount"
    /\ cur_len' = Decremented(IF SplitCounter THEN recv_len ELSE cur_len)
    /\ recv_pc' = "poll"
    /\ UNCHANGED <<clients, new_socket, recv_slot, recv_len, connection_queue,
                   completed_queue, global_ctx, app_thread, aborted>>

-----------------------------------------------------------------------------
(* The transport threads of the new mysockets *)

RequestOf(sd) == {k \in Slot : connection_queue[k].sd = sd}

(* _mysock_passive_connection_complete(): it needs the listen lock, which  *)
(* closing the listener holds for writing.                                 *)
PassiveConnectionComplete(sd) ==
    /\ global_ctx[sd].state = "acked"
    /\ app_pc # "close"
    /\ global_ctx' = [global_ctx EXCEPT ![sd].state = "complete"]
    /\ completed_queue' = Append(completed_queue, Lowest(RequestOf(sd)))
    /\ UNCHANGED <<clients, recv_thread, connection_queue, cur_len, app_thread,
                   aborted>>

-----------------------------------------------------------------------------
(* The application thread *)

(* Mutant: the entry handed out stays at the head of the queue. *)
UnmovedCompletedQueue == completed_queue

CompletedAfterDequeue == Tail(completed_queue)

(* What myaccept() returns: the mysocket of the first completed connection. *)
AcceptedDescriptor == connection_queue[Head(completed_queue)].sd

(* _mysock_dequeue_connection() *)
DequeueConnection ==
    /\ app_pc = "accept" /\ completed_queue # << >>
    /\ app_sd' = AcceptedDescriptor
    /\ connection_queue' = [connection_queue EXCEPT
                               ![Head(completed_queue)] = INVALIDATE_CONNECT_REQUEST]
    /\ completed_queue' = CompletedAfterDequeue
    /\ app_pc' = "dequeued"
    /\ UNCHANGED <<clients, recv_thread, cur_len, global_ctx, app_len, close_k,
                   aborted>>

(* assert(q->cur_len > 0), and the load of --cur_len *)
LoadCount ==
    /\ app_pc = "dequeued"
    /\ IF cur_len > 0
       THEN app_len' = cur_len /\ app_pc' = "count" /\ UNCHANGED aborted
       ELSE Fails("cur_len") /\ UNCHANGED <<app_len, app_pc>>
    /\ UNCHANGED <<clients, recv_thread, listen_queue, global_ctx, app_sd, close_k>>

(* The store of --cur_len *)
CountAfterAccept == Decremented(IF SplitCounter THEN app_len ELSE cur_len)

StoreCount ==
    /\ app_pc = "count"
    /\ cur_len' = CountAfterAccept
    /\ app_pc' = "serve"
    /\ UNCHANGED <<clients, recv_thread, connection_queue, completed_queue,
                   global_ctx, app_sd, app_len, close_k, aborted>>

(* The peer's FIN has been received; only then can myclose() return. *)
Closable(sd) == /\ global_ctx[sd].state = "complete"
                /\ client[global_ctx[sd].socket] = "finished"

(* do_connection() reads until end of file, then calls myclose(). *)
ServeAndClose ==
    /\ app_pc = "serve" /\ Closable(app_sd)
    /\ global_ctx' = [global_ctx EXCEPT ![app_sd] = FreeContext]
    /\ app_pc' = "accept"
    /\ app_sd' = -1
    /\ UNCHANGED <<clients, recv_thread, listen_queue, app_len, close_k, aborted>>

(* myclose() of the listener: the receive thread is stopped (it notices    *)
(* only between packets), then, with the listen lock held, the queued      *)
(* connections are closed one by one.                                      *)
CloseListener ==
    /\ app_pc = "accept" /\ MayCloseListener
    /\ app_pc' = "stop"
    /\ UNCHANGED <<clients, recv_thread, listen_queue, global_ctx, app_sd,
                   app_len, close_k, aborted>>

StopRecvThread ==
    /\ app_pc = "stop" /\ recv_pc \in {"poll", "exited"}
    /\ recv_pc' = "exited"
    /\ app_pc' = "close"
    /\ close_k' = 1
    /\ UNCHANGED <<clients, new_socket, recv_slot, recv_len, listen_queue,
                   global_ctx, app_sd, app_len, aborted>>

(* Mutant: the loop moves on only after it has closed a connection. *)
NextEntryIfUsed(k) == IF connection_queue[k].sd = -1 THEN k ELSE k + 1

NextEntry(k) == k + 1

(* The loop of _mysock_close_passive_socket() is at an entry.  It clears   *)
(* none: the queue is freed as a whole when the loop is over.              *)
AtEntry == app_pc = "close" /\ close_k <= MaxLen

EntryDescriptor == connection_queue[close_k].sd

SkipEntry ==
    /\ AtEntry /\ EntryDescriptor = -1
    /\ close_k' = NextEntry(close_k)
    /\ UNCHANGED <<clients, recv_thread, listen_queue, global_ctx, app_pc, app_sd,
                   app_len, aborted>>

CloseQueued ==
    /\ AtEntry /\ EntryDescriptor # -1 /\ Closable(EntryDescriptor)
    /\ global_ctx' = [global_ctx EXCEPT ![EntryDescriptor] = FreeContext]
    /\ close_k' = NextEntry(close_k)
    /\ UNCHANGED <<clients, recv_thread, listen_queue, app_pc, app_sd, app_len,
                   aborted>>

(* myclose() of a queued connection whose client is not done: its close    *)
(* request is consumed in ESTABLISHED, and the transport thread stays.     *)
CloseIgnored ==
    /\ AtEntry /\ EntryDescriptor # -1
    /\ global_ctx[EntryDescriptor].state = "complete" /\ ~Closable(EntryDescriptor)
    /\ global_ctx' = [global_ctx EXCEPT ![EntryDescriptor].state = "deaf"]
    /\ UNCHANGED <<clients, recv_thread, listen_queue, app_thread, aborted>>

ClosePassiveSocket ==
    /\ app_pc = "close" /\ close_k > MaxLen
    /\ global_ctx' = [global_ctx EXCEPT ![0] = FreeContext]
    /\ completed_queue' = << >> /\ cur_len' = 0
    /\ new_socket' = NoClient
    /\ app_pc' = "exited"
    /\ UNCHANGED <<clients, recv_pc, recv_slot, recv_len, connection_queue,
                   app_sd, app_len, close_k, aborted>>

-----------------------------------------------------------------------------
Clients ==
    \E c \in Client : \/ Connect(c)
                      \/ SendSyn(c)
                      \/ LoseSyn(c)
                      \/ SendAck(c)
                      \/ Finish(c)
                      \/ Crash(c)

RecvThread ==
    \/ Accept
    \/ ReadSyn
    \/ ReadEof
    \/ DropSyn
    \/ FindSlot
    \/ CountRequest
    \/ EstablishConnection
    \/ NoDescriptor
    \/ UncountRequest

Transport(sd) == PassiveConnectionComplete(sd)

Application ==
    \/ DequeueConnection
    \/ LoadCount
    \/ StoreCount
    \/ ServeAndClose
    \/ StopRecvThread
    \/ SkipEntry
    \/ CloseQueued
    \/ CloseIgnored
    \/ ClosePassiveSocket

(* An assertion that fails ends the server's process. *)
Next ==
    /\ aborted = "no"
    /\ \/ Clients
       \/ RecvThread
       \/ \E sd \in Descriptor : Transport(sd)
       \/ Application
       \/ CloseListener

Spec == Init /\ [][Next]_vars

Running(A) == aborted = "no" /\ A

(* Every thread of the server runs when it can.  A client's transport      *)
(* thread sends its SYN and its ACK, and a client program closes in the    *)
(* end; connecting, dying and closing the listener are free choices.       *)
Fairness ==
    /\ WF_vars(Running(RecvThread))
    /\ WF_vars(Running(Application))
    /\ \A sd \in Descriptor : WF_vars(Running(Transport(sd)))
    /\ \A c \in Client : /\ WF_vars(Running(SendSyn(c) \/ LoseSyn(c)))
                         /\ WF_vars(Running(SendAck(c)))
                         /\ WF_vars(Running(Finish(c)))

FairSpec == Spec /\ Fairness

-----------------------------------------------------------------------------
(* Properties *)

Live == {sd \in Descriptor : global_ctx[sd].state \notin {"free", "listening"}}

(* Each accepted connection has one owner: a mysocket's kernel connection  *)
(* is the one of the peer it was created for, no two mysockets share one,  *)
(* and none of them is still in new_socket (_network_update_passive_state).*)
OneOwner ==
    /\ \A sd \in Live : /\ global_ctx[sd].socket = global_ctx[sd].peer_addr
                        /\ global_ctx[sd].socket # new_socket
    /\ \A s, t \in Live : global_ctx[s].socket = global_ctx[t].socket => s = t

(* The assertion of _mysock_passive_connection_complete(): a mysocket that *)
(* has not completed its handshake has exactly one entry in the listen     *)
(* queue, made for its own peer.                                           *)
PendingRegistered ==
    \A sd \in Live : global_ctx[sd].state \in {"handshake", "acked"} =>
        \E k \in Slot : /\ RequestOf(sd) = {k}
                        /\ connection_queue[k].peer_addr = global_ctx[sd].peer_addr

(* myaccept() returns each completed connection once: an entry of the      *)
(* completed queue still holds its completed mysocket, is queued once, and *)
(* is not the connection being served.                                     *)
AcceptedOnce ==
    app_pc # "close" => \A i \in DOMAIN completed_queue :
        LET sd == connection_queue[completed_queue[i]].sd IN
        /\ sd \in Live /\ global_ctx[sd].state = "complete" /\ sd # app_sd
        /\ \A j \in DOMAIN completed_queue : completed_queue[i] = completed_queue[j] => i = j

Served(c) == app_sd # -1 /\ global_ctx[app_sd].socket = c

Closing == app_pc \in {"stop", "close", "exited"}

(* A client whose SYN is on its way is served in the end, unless it dies   *)
(* or the server's application closes the listener.                        *)
EveryClientServed ==
    \A c \in Client :
        (client[c] = "syn") ~> (Served(c) \/ client[c] = "dead" \/ Closing)

(* Every connection the close loop has yet to come to is ready for it. *)
RestClosable ==
    \A k \in close_k .. MaxLen :
        connection_queue[k].sd # -1 => Closable(connection_queue[k].sd)

(* Closing the listener: its receive thread stops, and the loop of         *)
(* _mysock_close_passive_socket() passes every free entry, joins every     *)
(* completed connection whose client has finished, and returns.  (It holds *)
(* the listen lock meanwhile, so one connection that is not as far blocks  *)
(* it for ever: nothing is promised then.)                                 *)
CloseReturns ==
    /\ (app_pc = "stop") ~> (app_pc = "close")
    /\ (app_pc = "close" /\ RestClosable) ~> (app_pc = "exited")
=============================================================================
