----------------------- MODULE ConnectionDemux_proofs -----------------------
(***************************************************************************)
(* The passive side of mysock, for any number of clients, any backlog, any *)
(* descriptor table and any width of the counter, whether or not its       *)
(* updates interleave: types, one owner for each connection, an entry for  *)
(* each pending one, and none accepted twice.                              *)
(***************************************************************************)
EXTENDS ConnectionDemux, WellFoundedInduction, TLAPS

(* A connection is in one place: held by the kernel, in new_socket, or in  *)
(* the context of a mysocket.  A client that has none is idle.             *)
PlaceInv ==
    /\ \A i \in 1 .. Len(kernel_queue) :
          /\ client[kernel_queue[i]] # "idle"
          /\ kernel_queue[i] # new_socket
          /\ \A sd \in Live : global_ctx[sd].socket # kernel_queue[i]
    /\ \A i, j \in 1 .. Len(kernel_queue) : kernel_queue[i] = kernel_queue[j] => i = j
    /\ new_socket # NoClient => client[new_socket] # "idle"
    /\ \A sd \in Live : /\ global_ctx[sd].socket # NoClient
                        /\ client[global_ctx[sd].socket] # "idle"

(* The receive thread works on the connection in new_socket, and the entry *)
(* it has found stays free until it fills it.                              *)
RecvInv ==
    /\ recv_pc \in {"read", "enqueue", "count", "establish"} => new_socket # NoClient
    /\ recv_pc \in {"count", "establish"} => connection_queue[recv_slot].sd = -1

(* The entries that the loop closing the listener has not passed.  It      *)
(* clears none, so those behind it name mysockets that are gone.           *)
Unclosed == {k \in Slot : app_pc \in {"close", "exited"} => close_k <= k}

(* Such an entry in use names a mysocket that lives, is no other entry's, has   *)
(* not been handed to the application, and has the entry's peer; and each  *)
(* mysocket that has not completed its handshake has one.                  *)
EntryInv ==
    /\ \A k \in Unclosed : connection_queue[k].sd # -1 =>
          /\ connection_queue[k].sd \in Live
          /\ connection_queue[k].sd # app_sd
          /\ connection_queue[k].peer_addr = global_ctx[connection_queue[k].sd].peer_addr
    /\ \A k, l \in Slot :
          connection_queue[k].sd = connection_queue[l].sd /\ connection_queue[k].sd # -1 => k = l
    /\ \A sd \in Live : global_ctx[sd].state \in {"handshake", "acked"} =>
          \E k \in Unclosed : connection_queue[k].sd = sd

(* The application has a mysocket while it serves one, and closes the      *)
(* listener when it has none and the receive thread has stopped.           *)
AppInv ==
    /\ app_pc \in {"dequeued", "count", "serve"} <=> app_sd # -1
    /\ app_sd # -1 => app_sd \in Live /\ global_ctx[app_sd].state = "complete"
    /\ app_pc \in {"close", "exited"} => recv_pc = "exited"
    /\ app_pc = "exited" => completed_queue = << >> /\ Unclosed = {}

DemuxInv ==
    /\ TypeOK
    /\ PlaceInv
    /\ OneOwner
    /\ RecvInv
    /\ EntryInv
    /\ AppInv
    /\ AcceptedOnce

-----------------------------------------------------------------------------
(* A set of natural numbers has a least element. *)
LEMMA LeastNatural ==
    ASSUME NEW S, S \subseteq Nat, S # {}
    PROVE  Lowest(S) \in S
<1>1. PICK x \in S : \A y \in S : ~ (<<y, x>> \in OpToRel(<, Nat))
  BY NatLessThanWellFounded, WFMin
<1>2. \A y \in S : y \in Nat /\ x \in Nat /\ ~(y < x)
  BY <1>1 DEF OpToRel
<1>3. \E z \in S : \A y \in S : z <= y
  BY <1>2
<1> QED BY <1>3 DEF Lowest

(* Facts about sequences in the form in which they are needed. *)
LEMMA AppendFacts ==
    ASSUME NEW S, NEW s \in Seq(S), NEW e \in S
    PROVE  /\ Append(s, e) \in Seq(S)
           /\ Len(Append(s, e)) = Len(s) + 1
           /\ \A i \in 1 .. Len(s) + 1 : Append(s, e)[i] = IF i <= Len(s) THEN s[i] ELSE e
  OBVIOUS

LEMMA TailFacts ==
    ASSUME NEW S, NEW s \in Seq(S), s # << >>
    PROVE  /\ Head(s) = s[1] /\ Head(s) \in S /\ Len(s) >= 1
           /\ Tail(s) \in Seq(S)
           /\ Len(Tail(s)) = Len(s) - 1
           /\ \A i \in 1 .. Len(s) - 1 : Tail(s)[i] = s[i + 1]
  OBVIOUS

LEMMA DomainFacts ==
    ASSUME NEW S, NEW s \in Seq(S)
    PROVE  DOMAIN s = 1 .. Len(s) /\ Len(s) \in Nat /\ \A i \in 1 .. Len(s) : s[i] \in S
  OBVIOUS

(* The counter keeps the range of its type. *)
LEMMA CounterType ==
    ASSUME NEW n \in Nat
    PROVE  (n + 1) % UintMod \in Nat /\ Decremented(n) \in Nat
  BY ConstantsAssumption DEF Decremented

-----------------------------------------------------------------------------
(* The descriptor table *)

LEMMA DescriptorFacts == Descriptor \subseteq Nat /\ Slot \subseteq Nat /\ -1 \notin Descriptor
  BY ConstantsAssumption DEF Descriptor, Slot

(* Storing a context, or changing the state in one. *)
LEMMA StoreContext ==
    ASSUME TypeOK, NEW d \in Descriptor, NEW x \in Context,
           global_ctx' = [global_ctx EXCEPT ![d] = x]
    PROVE  /\ global_ctx' \in [Descriptor -> Context]
           /\ \A e \in Descriptor : global_ctx'[e] = IF e = d THEN x ELSE global_ctx[e]
  BY DEF TypeOK

LEMMA FreeContextType == FreeContext \in Context /\ FreeContext.state = "free"
  BY DEF FreeContext, Context

LEMMA SetState ==
    ASSUME TypeOK, NEW d \in Descriptor, NEW s,
           s \in {"acked", "complete", "deaf"}, d \in Live,
           global_ctx' = [global_ctx EXCEPT ![d].state = s]
    PROVE  /\ global_ctx' \in [Descriptor -> Context]
           /\ Live' = Live
           /\ global_ctx'[d].state = s
           /\ \A e \in Descriptor : /\ global_ctx'[e].peer_addr = global_ctx[e].peer_addr
                                    /\ global_ctx'[e].socket = global_ctx[e].socket
                                    /\ e # d => global_ctx'[e].state = global_ctx[e].state
<1>1. [global_ctx[d] EXCEPT !.state = s] \in Context
  BY ZenonT(60) DEF TypeOK, Context
<1>2. /\ global_ctx' \in [Descriptor -> Context]
      /\ \A e \in Descriptor :
            global_ctx'[e] = IF e = d THEN [global_ctx[d] EXCEPT !.state = s] ELSE global_ctx[e]
  BY <1>1 DEF TypeOK
<1>3. /\ global_ctx'[d].state = s
      /\ global_ctx'[d].peer_addr = global_ctx[d].peer_addr
      /\ global_ctx'[d].socket = global_ctx[d].socket
  BY <1>2 DEF TypeOK, Context
<1>4. \A e \in Descriptor : e # d => global_ctx'[e] = global_ctx[e]
  BY <1>2
<1>5. Live' = Live
  BY <1>3, <1>4 DEF Live
<1> QED BY <1>2, <1>3, <1>4, <1>5

(* myclose() of a mysocket: its context is free again. *)
LEMMA FreeOne ==
    ASSUME TypeOK, NEW d \in Descriptor,
           global_ctx' = [global_ctx EXCEPT ![d] = FreeContext]
    PROVE  /\ global_ctx' \in [Descriptor -> Context]
           /\ Live' = Live \ {d}
           /\ \A e \in Descriptor : e # d => global_ctx'[e] = global_ctx[e]
<1>1. /\ global_ctx' \in [Descriptor -> Context]
      /\ \A e \in Descriptor : global_ctx'[e] = IF e = d THEN FreeContext ELSE global_ctx[e]
  BY FreeContextType, StoreContext
<1>2. Live' = Live \ {d}
  BY <1>1, FreeContextType DEF Live
<1> QED BY <1>1, <1>2

(* The loop over the entries *)
LEMMA UnclosedFacts ==
    /\ Unclosed \subseteq Slot
    /\ app_pc \notin {"close", "exited"} => Unclosed = Slot
    /\ app_pc' \notin {"close", "exited"} => Unclosed' = Slot
    /\ app_pc' = app_pc /\ close_k' = close_k => Unclosed' = Unclosed
  BY DEF Unclosed

-----------------------------------------------------------------------------
(* The clients *)

(* A client's step on a connection it has, which leaves the server alone. *)
LEMMA ClientPreserves ==
    ASSUME DemuxInv, NEW c \in Client,
           NEW s \in {"connected", "mute", "syn", "acked", "finished", "dead"},
           client' = [client EXCEPT ![c] = s],
           syn_in_kernel' \subseteq Client,
           UNCHANGED <<kernel_queue, recv_thread, listen_queue, global_ctx, app_thread, aborted>>
    PROVE  DemuxInv'
<1> USE DEF DemuxInv, recv_thread, listen_queue, app_thread
<1>1. TypeOK'
  BY DEF TypeOK
<1>2. \A d \in Client : client[d] # "idle" => client'[d] # "idle"
  BY DEF TypeOK
<1>3. Live' = Live /\ Live \subseteq Descriptor
  BY DEF Live
<1>4. \A i \in 1 .. Len(kernel_queue) : kernel_queue[i] \in Client
  BY DomainFacts DEF TypeOK
<1>5. \A sd \in Live : global_ctx[sd].socket \in Client
  BY DEF TypeOK, Live, PlaceInv, Context
<1>6. PlaceInv'
  BY <1>2, <1>3, <1>4, <1>5 DEF PlaceInv, TypeOK
<1>7. OneOwner' /\ RecvInv' /\ EntryInv' /\ AppInv' /\ AcceptedOnce'
  BY <1>3, UnclosedFacts DEF OneOwner, RecvInv, EntryInv, AppInv, AcceptedOnce
<1> QED BY <1>1, <1>6, <1>7

LEMMA ConnectPreserves ==
    ASSUME DemuxInv, NEW c \in Client, Connect(c)
    PROVE  DemuxInv'
<1> USE DEF DemuxInv, recv_thread, listen_queue, app_thread
<1>1. /\ client[c] = "idle" /\ client' = [client EXCEPT ![c] = "connected"]
      /\ kernel_queue' = Append(kernel_queue, c)
      /\ UNCHANGED <<syn_in_kernel, recv_thread, listen_queue, global_ctx, app_thread, aborted>>
  BY DEF Connect
<1>2. /\ kernel_queue' \in Seq(Client) /\ Len(kernel_queue) \in Nat
      /\ Len(kernel_queue') = Len(kernel_queue) + 1
      /\ \A i \in 1 .. Len(kernel_queue) : kernel_queue'[i] = kernel_queue[i]
                                           /\ kernel_queue[i] \in Client
      /\ kernel_queue'[Len(kernel_queue) + 1] = c
  BY <1>1, AppendFacts, DomainFacts DEF TypeOK
<1>3. TypeOK'
  BY <1>1, <1>2 DEF TypeOK
<1>4. Live' = Live /\ Live \subseteq Descriptor
  BY <1>1 DEF Live
<1>5. \A d \in Client : client'[d] # "idle" <=> (d = c \/ client[d] # "idle")
  BY <1>1 DEF TypeOK
<1>6. \A sd \in Live : global_ctx[sd].socket \in Client /\ global_ctx[sd].socket # c
  BY <1>1 DEF TypeOK, Live, PlaceInv, Context
<1>7. c # new_socket /\ c # NoClient /\ \A i \in 1 .. Len(kernel_queue) : kernel_queue[i] # c
  BY <1>1, ConstantsAssumption DEF PlaceInv
<1>8. PlaceInv'
  <2>1. \A i \in 1 .. Len(kernel_queue') :
            \/ i \in 1 .. Len(kernel_queue) /\ kernel_queue'[i] = kernel_queue[i]
            \/ i = Len(kernel_queue) + 1 /\ kernel_queue'[i] = c
    BY <1>2
  <2>2. \A i \in 1 .. Len(kernel_queue') :
            /\ client'[kernel_queue'[i]] # "idle"
            /\ kernel_queue'[i] # new_socket'
            /\ \A sd \in Live' : global_ctx'[sd].socket # kernel_queue'[i]
    BY <1>1, <1>2, <1>4, <1>5, <1>6, <1>7, <2>1 DEF PlaceInv
  <2>3. \A i, j \in 1 .. Len(kernel_queue') : kernel_queue'[i] = kernel_queue'[j] => i = j
    BY <1>7, <2>1 DEF PlaceInv
  <2>4. new_socket' # NoClient => client'[new_socket'] # "idle"
    BY <1>1, <1>5 DEF PlaceInv, TypeOK
  <2>5. \A sd \in Live' : global_ctx'[sd].socket # NoClient /\ client'[global_ctx'[sd].socket] # "idle"
    BY <1>1, <1>4, <1>5, <1>6 DEF PlaceInv
  <2> QED BY <2>2, <2>3, <2>4, <2>5 DEF PlaceInv
<1>9. OneOwner' /\ RecvInv' /\ EntryInv' /\ AppInv' /\ AcceptedOnce'
  BY <1>1, <1>4, UnclosedFacts DEF OneOwner, RecvInv, EntryInv, AppInv, AcceptedOnce
<1> QED BY <1>3, <1>8, <1>9

(* A transport thread's step from one state to the next: its entry and its *)
(* connection stay as they are.                                            *)
LEMMA StatePreserves ==
    ASSUME DemuxInv, NEW d \in Descriptor, d \in Live,
           NEW s, s \in {"acked", "complete", "deaf"},
           global_ctx' = [global_ctx EXCEPT ![d].state = s],
           UNCHANGED <<recv_thread, connection_queue, app_thread, kernel_queue>>,
           \A c \in Client : client[c] # "idle" => client'[c] # "idle",
           d # app_sd, s = "acked" => global_ctx[d].state = "handshake"
    PROVE  /\ PlaceInv' /\ OneOwner' /\ RecvInv' /\ EntryInv'
           /\ app_sd' # -1 => app_sd' \in Live' /\ global_ctx'[app_sd'].state = "complete"
<1> USE DEF DemuxInv, recv_thread, app_thread
<1>1. /\ Live' = Live /\ Live \subseteq Descriptor
      /\ global_ctx'[d].state = s
      /\ \A e \in Descriptor : /\ global_ctx'[e].peer_addr = global_ctx[e].peer_addr
                               /\ global_ctx'[e].socket = global_ctx[e].socket
                               /\ e # d => global_ctx'[e].state = global_ctx[e].state
  BY SetState DEF Live
<1>2. \A sd \in Live : global_ctx[sd].socket \in Client
  BY DEF TypeOK, Live, PlaceInv, Context
<1>3. \A i \in 1 .. Len(kernel_queue) : kernel_queue[i] \in Client
  BY DomainFacts DEF TypeOK
<1>4. PlaceInv'
  BY <1>1, <1>2, <1>3 DEF PlaceInv, TypeOK
<1>5. OneOwner' /\ RecvInv'
  BY <1>1 DEF OneOwner, RecvInv
<1>6. EntryInv'
  BY <1>1, UnclosedFacts DEF EntryInv
<1>7. app_sd' # -1 => app_sd' \in Live' /\ global_ctx'[app_sd'].state = "complete"
  BY <1>1 DEF AppInv
<1> QED BY <1>4, <1>5, <1>6, <1>7

LEMMA SendAckPreserves ==
    ASSUME DemuxInv, NEW c \in Client, SendAck(c)
    PROVE  DemuxInv'
<1> USE DEF DemuxInv, recv_thread, listen_queue, app_thread
<1>1. PICK d \in Descriptor : /\ global_ctx[d].state = "handshake"
                              /\ global_ctx' = [global_ctx EXCEPT ![d].state = "acked"]
  BY DEF SendAck
<1>2. /\ client' = [client EXCEPT ![c] = "acked"]
      /\ UNCHANGED <<syn_in_kernel, kernel_queue, recv_thread, listen_queue, app_thread, aborted>>
  BY DEF SendAck
<1>3. d \in Live /\ d # app_sd
  BY <1>1, DescriptorFacts DEF Live, AppInv
<1>4. \A e \in Client : client[e] # "idle" => client'[e] # "idle"
  BY <1>2 DEF TypeOK
<1>5. /\ PlaceInv' /\ OneOwner' /\ RecvInv' /\ EntryInv'
      /\ app_sd' # -1 => app_sd' \in Live' /\ global_ctx'[app_sd'].state = "complete"
  BY <1>1, <1>2, <1>3, <1>4, StatePreserves
<1>6. /\ global_ctx' \in [Descriptor -> Context] /\ Live' = Live
      /\ \A e \in Descriptor : e # d => global_ctx'[e].state = global_ctx[e].state
  BY <1>1, <1>3, SetState
<1>7. TypeOK'
  BY <1>2, <1>6 DEF TypeOK
<1>8. AppInv'
  BY <1>2, <1>5, UnclosedFacts DEF AppInv
<1>9. AcceptedOnce'
  BY <1>1, <1>2, <1>6 DEF AcceptedOnce, Live
<1> QED BY <1>5, <1>7, <1>8, <1>9

LEMMA ClientsPreserve == ASSUME DemuxInv, Clients PROVE DemuxInv'
<1>1. PICK c \in Client : \/ Connect(c) \/ SendSyn(c) \/ LoseSyn(c) \/ SendAck(c)
                          \/ Finish(c) \/ Crash(c)
  BY DEF Clients
<1>2. syn_in_kernel \subseteq Client
  BY DEF DemuxInv, TypeOK
<1>3. CASE Connect(c)
  BY <1>3, ConnectPreserves
<1>4. CASE SendSyn(c)
  BY <1>2, <1>4, ClientPreserves DEF SendSyn
<1>5. CASE LoseSyn(c)
  BY <1>2, <1>5, ClientPreserves DEF LoseSyn
<1>6. CASE SendAck(c)
  BY <1>6, SendAckPreserves
<1>7. CASE Finish(c)
  BY <1>2, <1>7, ClientPreserves DEF Finish
<1>8. CASE Crash(c)
  BY <1>2, <1>8, ClientPreserves DEF Crash
<1> QED BY <1>1, <1>3, <1>4, <1>5, <1>6, <1>7, <1>8

-----------------------------------------------------------------------------
(* The receive thread *)

(* A step that leaves the queue, the contexts and the clients' states      *)
(* alone.                                                                  *)
LEMMA QuietPreserves ==
    ASSUME DemuxInv, TypeOK',
           UNCHANGED <<client, connection_queue, completed_queue, global_ctx, app_sd, close_k>>,
           kernel_queue' = kernel_queue, new_socket' = new_socket,
           RecvInv',
           app_pc' = app_pc \/ {app_pc, app_pc'} \subseteq {"dequeued", "count", "serve"},
           app_pc \in {"close", "exited"} => recv_pc' = "exited"
    PROVE  DemuxInv'
<1> USE DEF DemuxInv
<1>1. Live' = Live
  BY DEF Live
<1>2. PlaceInv' /\ OneOwner'
  BY <1>1 DEF PlaceInv, OneOwner
<1>3. EntryInv'
  BY <1>1, UnclosedFacts DEF EntryInv
<1>4. AppInv'
  BY <1>1, UnclosedFacts DEF AppInv
<1>5. AcceptedOnce'
  BY <1>1 DEF AcceptedOnce
<1> QED BY <1>2, <1>3, <1>4, <1>5

LEMMA AcceptPreserves ==
    ASSUME DemuxInv, Accept
    PROVE  DemuxInv'
<1> USE DEF DemuxInv, listen_queue, app_thread
<1>1. /\ recv_pc = "poll" /\ kernel_queue # << >> /\ kernel_queue' = Tail(kernel_queue)
      /\ UNCHANGED <<client, syn_in_kernel, recv_slot, recv_len, listen_queue, global_ctx,
                     app_thread>>
      /\ \/ /\ new_socket = NoClient /\ new_socket' = Head(kernel_queue)
            /\ recv_pc' = "read" /\ aborted' = aborted
         \/ new_socket' = new_socket /\ recv_pc' = recv_pc /\ aborted' = "new_socket"
  BY DEF Accept, Fails
<1>2. /\ Head(kernel_queue) = kernel_queue[1] /\ Head(kernel_queue) \in Client
      /\ Len(kernel_queue) \in Nat /\ Len(kernel_queue) >= 1
      /\ kernel_queue' \in Seq(Client)
      /\ Len(kernel_queue') = Len(kernel_queue) - 1
      /\ \A i \in 1 .. Len(kernel_queue) - 1 : kernel_queue'[i] = kernel_queue[i + 1]
  BY <1>1, TailFacts, DomainFacts DEF TypeOK
<1>3. TypeOK'
  BY <1>1, <1>2 DEF TypeOK
<1>4. Live' = Live
  BY <1>1 DEF Live
<1>5. \A i \in 1 .. Len(kernel_queue') : /\ i + 1 \in 1 .. Len(kernel_queue)
                                         /\ kernel_queue'[i] = kernel_queue[i + 1]
                                         /\ kernel_queue'[i] # Head(kernel_queue)
  BY <1>2 DEF PlaceInv
<1>6. Head(kernel_queue) # NoClient
  BY <1>2, ConstantsAssumption
<1>7. PlaceInv'
  <2>1. \A i \in 1 .. Len(kernel_queue') :
            /\ client'[kernel_queue'[i]] # "idle"
            /\ kernel_queue'[i] # new_socket'
            /\ \A sd \in Live' : global_ctx'[sd].socket # kernel_queue'[i]
    BY <1>1, <1>4, <1>5 DEF PlaceInv
  <2>2. \A i, j \in 1 .. Len(kernel_queue') : kernel_queue'[i] = kernel_queue'[j] => i = j
    <3> SUFFICES ASSUME NEW i \in 1 .. Len(kernel_queue'), NEW j \in 1 .. Len(kernel_queue'),
                        kernel_queue'[i] = kernel_queue'[j]
                 PROVE  i = j
      OBVIOUS
    <3>1. i + 1 = j + 1
      BY <1>5 DEF PlaceInv
    <3> QED BY <3>1
  <2>3. new_socket' # NoClient => client'[new_socket'] # "idle"
    BY <1>1, <1>2 DEF PlaceInv
  <2> QED BY <1>1, <1>4, <2>1, <2>2, <2>3 DEF PlaceInv
<1>8. OneOwner'
  BY <1>1, <1>2, <1>4 DEF OneOwner, PlaceInv
<1>9. RecvInv'
  BY <1>1, <1>6 DEF RecvInv
<1>10. EntryInv' /\ AppInv' /\ AcceptedOnce'
  BY <1>1, <1>4, UnclosedFacts DEF EntryInv, AppInv, AcceptedOnce
<1> QED BY <1>3, <1>7, <1>8, <1>9, <1>10

LEMMA FreeSlotFound ==
    ASSUME TypeOK, FreeSlots # {}
    PROVE  Lowest(FreeSlots) \in Slot /\ connection_queue[Lowest(FreeSlots)].sd = -1
<1>1. Lowest(FreeSlots) \in FreeSlots
  BY LeastNatural, DescriptorFacts DEF FreeSlots
<1>2. \A k \in FreeSlots : k \in Slot /\ connection_queue[k].sd = -1
  <2>1. \A k \in Slot : connection_queue[k].sd \in Nat \cup {-1}
    BY DescriptorFacts DEF TypeOK
  <2> QED BY <2>1 DEF FreeSlots
<1> QED BY <1>1, <1>2

LEMMA FindSlotPreserves ==
    ASSUME DemuxInv, FindSlot
    PROVE  DemuxInv'
<1> USE DEF DemuxInv, clients, listen_queue, app_thread
<1>1. /\ recv_pc = "enqueue"
      /\ UNCHANGED <<clients, new_socket, listen_queue, global_ctx, app_thread>>
      /\ \/ /\ recv_slot' \in Slot /\ connection_queue[recv_slot'].sd = -1
            /\ recv_len' = cur_len /\ recv_pc' = "count" /\ aborted' = aborted
         \/ UNCHANGED <<recv_slot, recv_len, recv_pc>> /\ aborted' = "queue_entry"
  BY FreeSlotFound DEF FindSlot, Fails
<1>2. TypeOK'
  BY <1>1 DEF TypeOK
<1>3. RecvInv'
  BY <1>1 DEF RecvInv
<1>4. app_pc \notin {"close", "exited"}
  BY <1>1 DEF AppInv
<1> QED BY <1>1, <1>2, <1>3, <1>4, QuietPreserves

LEMMA CountPreserves ==
    ASSUME DemuxInv, CountRequest \/ NoDescriptor \/ UncountRequest
    PROVE  DemuxInv'
<1> USE DEF DemuxInv, clients, listen_queue, app_thread
<1>1. /\ recv_pc \in {"count", "establish", "uncount"}
      /\ recv_pc' \in {"establish", "uncount", "poll"}
      /\ recv_pc' = "establish" => recv_pc = "count"
      /\ recv_len' \in {recv_len, cur_len}
      /\ UNCHANGED <<clients, new_socket, recv_slot, connection_queue,
                     completed_queue, global_ctx, app_thread, aborted>>
      /\ \/ cur_len' = cur_len
         \/ \E n \in Nat : cur_len' = (n + 1) % UintMod \/ cur_len' = Decremented(n)
  BY DEF CountRequest, NoDescriptor, UncountRequest, TypeOK
<1>2. TypeOK'
  <2>1. cur_len' \in Nat
    BY <1>1, CounterType DEF TypeOK
  <2>2. recv_len' \in Nat
    BY <1>1 DEF TypeOK
  <2>3. QED
    BY <1>1, <2>1, <2>2 DEF TypeOK
<1>3. RecvInv'
  BY <1>1 DEF RecvInv
<1>4. app_pc \notin {"close", "exited"}
  BY <1>1 DEF AppInv
<1> QED BY <1>1, <1>2, <1>3, <1>4, QuietPreserves

LEMMA ReadPreserves ==
    ASSUME DemuxInv, ReadSyn \/ ReadEof \/ DropSyn
    PROVE  DemuxInv'
<1> USE DEF DemuxInv, clients, listen_queue, app_thread
<1>1. /\ recv_pc \in {"read", "enqueue"} /\ recv_pc' \in {"enqueue", "exited", "poll"}
      /\ syn_in_kernel' \subseteq syn_in_kernel
      /\ UNCHANGED <<client, kernel_queue, new_socket, recv_slot, recv_len, listen_queue,
                     global_ctx, app_thread, aborted>>
  BY DEF ReadSyn, ReadEof, DropSyn
<1>2. TypeOK'
  BY <1>1 DEF TypeOK
<1>3. RecvInv'
  BY <1>1 DEF RecvInv
<1>4. app_pc \notin {"close", "exited"}
  BY <1>1 DEF AppInv
<1> QED BY <1>1, <1>2, <1>3, <1>4, QuietPreserves

(* A new mysocket: it takes the connection over from new_socket, and its   *)
(* entry was free.                                                         *)
LEMMA EstablishPreserves ==
    ASSUME DemuxInv, EstablishConnection
    PROVE  DemuxInv'
<1> USE DEF DemuxInv, clients, app_thread
<1> DEFINE n == NewMysocket
           x == [state |-> "handshake", peer_addr |-> new_socket, socket |-> new_socket]
           e == [sd |-> n, peer_addr |-> new_socket]
<1>1. /\ recv_pc = "establish" /\ FreeDescriptors # {}
      /\ connection_queue' = [connection_queue EXCEPT ![recv_slot] = e]
      /\ global_ctx' = [global_ctx EXCEPT ![n] = x]
      /\ new_socket' = NoClient /\ recv_pc' = "poll"
      /\ UNCHANGED <<clients, recv_slot, recv_len, completed_queue, cur_len, app_thread, aborted>>
  BY DEF EstablishConnection, NewSocketAfterUpdate
<1>2. n \in Descriptor /\ global_ctx[n].state = "free" /\ n # -1
  <2>1. n \in FreeDescriptors
    BY <1>1, LeastNatural, DescriptorFacts DEF FreeDescriptors, NewMysocket
  <2> QED BY <2>1, DescriptorFacts DEF FreeDescriptors
<1>3. new_socket \in Client
  BY <1>1 DEF RecvInv, TypeOK
<1> HIDE DEF n
<1>4. /\ global_ctx' \in [Descriptor -> Context]
      /\ \A d \in Descriptor : global_ctx'[d] = IF d = n THEN x ELSE global_ctx[d]
  <2>1. x \in Context
    BY <1>3 DEF Context
  <2> QED BY <1>1, <1>2, <2>1, StoreContext
<1>5. n \notin Live /\ Live' = Live \cup {n} /\ Live \subseteq Descriptor
  BY <1>2, <1>4 DEF Live
<1>6. /\ recv_slot \in Slot /\ connection_queue[recv_slot].sd = -1
      /\ \A k \in Slot : connection_queue'[k] = IF k = recv_slot THEN e ELSE connection_queue[k]
  BY <1>1 DEF TypeOK, RecvInv
<1>7. /\ global_ctx'[n].state = "handshake"
      /\ global_ctx'[n].peer_addr = new_socket /\ global_ctx'[n].socket = new_socket
      /\ connection_queue'[recv_slot].sd = n
      /\ connection_queue'[recv_slot].peer_addr = new_socket
  BY <1>2, <1>4, <1>6
<1>8. /\ \A d \in Live : global_ctx'[d] = global_ctx[d]
      /\ \A k \in Slot : k # recv_slot => connection_queue'[k] = connection_queue[k]
  BY <1>4, <1>5, <1>6
<1>9. TypeOK'
  BY <1>1, <1>2, <1>3, <1>4 DEF TypeOK
<1> HIDE DEF e, x
<1>10. new_socket # NoClient
  BY <1>3, ConstantsAssumption
<1>11. \A i \in 1 .. Len(kernel_queue) : kernel_queue[i] \in Client /\ kernel_queue[i] # NoClient
  BY DomainFacts, ConstantsAssumption DEF TypeOK
<1>12. PlaceInv'
  BY <1>1, <1>5, <1>7, <1>8, <1>10, <1>11 DEF PlaceInv
<1>13. OneOwner'
  BY <1>1, <1>5, <1>7, <1>8, <1>10 DEF OneOwner, PlaceInv
<1>14. RecvInv'
  BY <1>1 DEF RecvInv
<1>15. n # app_sd /\ Unclosed = Slot /\ Unclosed' = Slot
  BY <1>1, <1>2, <1>5, UnclosedFacts DEF AppInv
<1>16. EntryInv'
  <2>1. \A k \in Unclosed' : connection_queue'[k].sd # -1 =>
            /\ connection_queue'[k].sd \in Live'
            /\ connection_queue'[k].sd # app_sd'
            /\ connection_queue'[k].peer_addr = global_ctx'[connection_queue'[k].sd].peer_addr
    BY <1>1, <1>5, <1>6, <1>7, <1>8, <1>15 DEF EntryInv
  <2>2. \A k \in Slot : k # recv_slot => connection_queue'[k].sd # n
    BY <1>2, <1>5, <1>8, <1>15 DEF EntryInv
  <2>3. \A k, l \in Slot : connection_queue'[k].sd = connection_queue'[l].sd
                            /\ connection_queue'[k].sd # -1 => k = l
    BY <1>7, <1>8, <2>2 DEF EntryInv
  <2>4. \A sd \in Live' : global_ctx'[sd].state \in {"handshake", "acked"} =>
            \E k \in Unclosed' : connection_queue'[k].sd = sd
    <3> SUFFICES ASSUME NEW sd \in Live', global_ctx'[sd].state \in {"handshake", "acked"}
                 PROVE  \E k \in Unclosed' : connection_queue'[k].sd = sd
      OBVIOUS
    <3>1. CASE sd = n
      BY <1>6, <1>7, <1>15, <3>1
    <3>2. CASE sd \in Live
      <4>1. PICK k \in Slot : connection_queue[k].sd = sd
        BY <1>8, <1>15, <3>2 DEF EntryInv
      <4>2. k # recv_slot
        BY <1>5, <1>6, <3>2, <4>1, DescriptorFacts
      <4> QED BY <1>8, <1>15, <4>1, <4>2
    <3> QED BY <1>5, <3>1, <3>2
  <2> QED BY <2>1, <2>3, <2>4 DEF EntryInv
<1>17. AppInv'
  BY <1>1, <1>5, <1>8 DEF AppInv
<1>18. AcceptedOnce'
  <2>1. \A i \in DOMAIN completed_queue : completed_queue[i] \in Slot
    BY DomainFacts DEF TypeOK
  <2>2. app_pc # "close" => \A i \in DOMAIN completed_queue : completed_queue[i] # recv_slot
    BY <1>6, DescriptorFacts DEF AcceptedOnce, Live
  <2> QED BY <1>1, <1>5, <1>8, <2>1, <2>2 DEF AcceptedOnce
<1> QED BY <1>9, <1>12, <1>13, <1>14, <1>16, <1>17, <1>18

LEMMA RecvThreadPreserves == ASSUME DemuxInv, RecvThread PROVE DemuxInv'
  BY AcceptPreserves, FindSlotPreserves, CountPreserves, ReadPreserves, EstablishPreserves
     DEF RecvThread

-----------------------------------------------------------------------------
(* The transport threads and the application thread *)

(* The entry that a transport thread looks for when its handshake is       *)
(* complete is there, and there is one.                                    *)
LEMMA RegisteredOnce ==
    ASSUME DemuxInv, NEW sd \in Live, global_ctx[sd].state \in {"handshake", "acked"}
    PROVE  \E k \in Unclosed : /\ RequestOf(sd) = {k} /\ connection_queue[k].sd = sd
                               /\ connection_queue[k].peer_addr = global_ctx[sd].peer_addr
<1>1. PICK k \in Unclosed : connection_queue[k].sd = sd
  BY DEF DemuxInv, EntryInv
<1>2. sd # -1
  BY DescriptorFacts DEF Live
<1>3. RequestOf(sd) = {k}
  BY <1>1, <1>2, UnclosedFacts DEF DemuxInv, EntryInv, RequestOf
<1>4. connection_queue[k].peer_addr = global_ctx[sd].peer_addr
  BY <1>1, <1>2 DEF DemuxInv, EntryInv
<1> QED BY <1>1, <1>3, <1>4

LEMMA CompletePreserves ==
    ASSUME DemuxInv, NEW d \in Descriptor, PassiveConnectionComplete(d)
    PROVE  DemuxInv'
<1> USE DEF DemuxInv, clients, recv_thread, app_thread
<1>1. /\ global_ctx[d].state = "acked" /\ app_pc # "close"
      /\ global_ctx' = [global_ctx EXCEPT ![d].state = "complete"]
      /\ completed_queue' = Append(completed_queue, Lowest(RequestOf(d)))
      /\ UNCHANGED <<clients, recv_thread, connection_queue, cur_len, app_thread, aborted>>
  BY DEF PassiveConnectionComplete
<1>2. d \in Live /\ d # app_sd
  BY <1>1, DescriptorFacts DEF Live, AppInv
<1>3. PICK k \in Unclosed : RequestOf(d) = {k} /\ connection_queue[k].sd = d
  BY <1>1, <1>2, RegisteredOnce
<1>4. Lowest(RequestOf(d)) = k
  BY <1>3, LeastNatural, DescriptorFacts, UnclosedFacts
<1>5. /\ global_ctx' \in [Descriptor -> Context] /\ Live' = Live
      /\ global_ctx'[d].state = "complete"
      /\ \A e \in Descriptor : e # d => global_ctx'[e].state = global_ctx[e].state
  BY <1>1, <1>2, SetState
<1>6. /\ completed_queue' \in Seq(Slot) /\ Len(completed_queue) \in Nat
      /\ DOMAIN completed_queue = 1 .. Len(completed_queue)
      /\ DOMAIN completed_queue' = 1 .. Len(completed_queue) + 1
      /\ \A i \in DOMAIN completed_queue : completed_queue'[i] = completed_queue[i]
      /\ completed_queue'[Len(completed_queue) + 1] = k
  BY <1>1, <1>3, <1>4, AppendFacts, DomainFacts, UnclosedFacts DEF TypeOK
<1>7. /\ PlaceInv' /\ OneOwner' /\ RecvInv' /\ EntryInv'
      /\ app_sd' # -1 => app_sd' \in Live' /\ global_ctx'[app_sd'].state = "complete"
  BY <1>1, <1>2, StatePreserves
<1>8. TypeOK'
  BY <1>1, <1>5, <1>6 DEF TypeOK
<1>9. AppInv'
  <2>1. app_pc # "exited"
    BY <1>3 DEF AppInv
  <2> QED BY <1>1, <1>7, <2>1 DEF AppInv
<1>10. \A i \in DOMAIN completed_queue : completed_queue[i] # k
  BY <1>1, <1>3 DEF AcceptedOnce
<1>11. AcceptedOnce'
  <2>1. \A i \in DOMAIN completed_queue' :
            \/ i \in DOMAIN completed_queue /\ completed_queue'[i] = completed_queue[i]
            \/ i = Len(completed_queue) + 1 /\ completed_queue'[i] = k
    BY <1>6
  <2>2. \A i \in DOMAIN completed_queue' :
            LET sd == connection_queue'[completed_queue'[i]].sd IN
            sd \in Live' /\ global_ctx'[sd].state = "complete" /\ sd # app_sd'
    <3> SUFFICES ASSUME NEW i \in DOMAIN completed_queue'
                 PROVE  LET sd == connection_queue'[completed_queue'[i]].sd IN
                        sd \in Live' /\ global_ctx'[sd].state = "complete" /\ sd # app_sd'
      OBVIOUS
    <3>1. CASE completed_queue'[i] = k
      BY <1>1, <1>2, <1>3, <1>5, <3>1
    <3>2. CASE i \in DOMAIN completed_queue /\ completed_queue'[i] = completed_queue[i]
      <4> DEFINE sd == connection_queue[completed_queue[i]].sd
      <4>1. sd \in Live /\ global_ctx[sd].state = "complete" /\ sd # app_sd
        BY <1>1, <3>2 DEF AcceptedOnce
      <4>2. global_ctx'[sd].state = "complete"
        BY <1>1, <1>5, <4>1 DEF Live
      <4> QED BY <1>1, <1>5, <3>2, <4>1, <4>2
    <3> QED BY <2>1, <3>1, <3>2
  <2>3. \A i, j \in DOMAIN completed_queue' : completed_queue'[i] = completed_queue'[j] => i = j
    BY <1>1, <1>10, <2>1 DEF AcceptedOnce
  <2> QED BY <2>2, <2>3 DEF AcceptedOnce
<1> QED BY <1>7, <1>8, <1>9, <1>11

(* myaccept(): the mysocket passes from its entry to the application. *)
LEMMA DequeuePreserves ==
    ASSUME DemuxInv, DequeueConnection
    PROVE  DemuxInv'
<1> USE DEF DemuxInv, clients, recv_thread
<1> DEFINE h == Head(completed_queue)
<1>1. /\ app_pc = "accept" /\ completed_queue # << >>
      /\ app_sd' = connection_queue[h].sd
      /\ connection_queue' = [connection_queue EXCEPT ![h] = INVALIDATE_CONNECT_REQUEST]
      /\ completed_queue' = Tail(completed_queue)
      /\ app_pc' = "dequeued"
      /\ UNCHANGED <<clients, recv_thread, cur_len, global_ctx, app_len, close_k, aborted>>
  BY DEF DequeueConnection, AcceptedDescriptor, CompletedAfterDequeue
<1>2. /\ h = completed_queue[1] /\ h \in Slot
      /\ Len(completed_queue) \in Nat /\ Len(completed_queue) >= 1
      /\ completed_queue' \in Seq(Slot)
      /\ DOMAIN completed_queue = 1 .. Len(completed_queue)
      /\ DOMAIN completed_queue' = 1 .. Len(completed_queue) - 1
      /\ \A i \in 1 .. Len(completed_queue) - 1 : completed_queue'[i] = completed_queue[i + 1]
      /\ \A i \in 1 .. Len(completed_queue) : completed_queue[i] \in Slot
  BY <1>1, TailFacts, DomainFacts DEF TypeOK
<1> HIDE DEF h
<1>3. Live' = Live
  BY <1>1 DEF Live
<1>4. /\ connection_queue[h].sd \in Live
      /\ global_ctx[connection_queue[h].sd].state = "complete"
  BY <1>1, <1>2 DEF AcceptedOnce
<1>5. /\ INVALIDATE_CONNECT_REQUEST \in [sd : Descriptor \cup {-1},
                                         peer_addr : Client \cup {NoClient}]
      /\ INVALIDATE_CONNECT_REQUEST.sd = -1
  BY DEF INVALIDATE_CONNECT_REQUEST
<1>6. /\ connection_queue'[h].sd = -1
      /\ \A k \in Slot : k # h => connection_queue'[k] = connection_queue[k]
  BY <1>1, <1>2, <1>5 DEF TypeOK
<1>7. TypeOK'
  BY <1>1, <1>2, <1>4, <1>5 DEF TypeOK, Live
<1>8. PlaceInv' /\ OneOwner'
  BY <1>1, <1>3 DEF PlaceInv, OneOwner
<1>9. RecvInv'
  BY <1>1, <1>2, <1>6 DEF RecvInv, TypeOK
<1>10. connection_queue[h].sd # -1
  BY <1>4, DescriptorFacts DEF Live
<1>11. \A k \in Slot : k # h => connection_queue[k].sd # connection_queue[h].sd
  BY <1>2, <1>10 DEF EntryInv
<1>15. Unclosed = Slot /\ Unclosed' = Slot
  BY <1>1, UnclosedFacts
<1>12. EntryInv'
  <2>1. \A k \in Unclosed' : connection_queue'[k].sd # -1 =>
            /\ connection_queue'[k].sd \in Live'
            /\ connection_queue'[k].sd # app_sd'
            /\ connection_queue'[k].peer_addr = global_ctx'[connection_queue'[k].sd].peer_addr
    BY <1>1, <1>3, <1>6, <1>11, <1>15 DEF EntryInv
  <2>2. \A k, l \in Slot : connection_queue'[k].sd = connection_queue'[l].sd
                            /\ connection_queue'[k].sd # -1 => k = l
    BY <1>6 DEF EntryInv
  <2>3. \A sd \in Live' : global_ctx'[sd].state \in {"handshake", "acked"} =>
            \E k \in Unclosed' : connection_queue'[k].sd = sd
    BY <1>1, <1>3, <1>4, <1>6, <1>15 DEF EntryInv
  <2> QED BY <2>1, <2>2, <2>3 DEF EntryInv
<1>13. AppInv'
  BY <1>1, <1>3, <1>4, <1>10 DEF AppInv
<1>14. AcceptedOnce'
  <2>1. \A i \in DOMAIN completed_queue' :
            /\ i + 1 \in DOMAIN completed_queue
            /\ completed_queue'[i] = completed_queue[i + 1]
            /\ completed_queue'[i] # h /\ completed_queue'[i] \in Slot
    BY <1>1, <1>2 DEF AcceptedOnce
  <2>2. \A i \in DOMAIN completed_queue' :
            LET sd == connection_queue'[completed_queue'[i]].sd IN
            sd \in Live' /\ global_ctx'[sd].state = "complete" /\ sd # app_sd'
    BY <1>1, <1>3, <1>6, <1>11, <2>1 DEF AcceptedOnce
  <2>3. \A i, j \in DOMAIN completed_queue' : completed_queue'[i] = completed_queue'[j] => i = j
    <3> SUFFICES ASSUME NEW i \in DOMAIN completed_queue', NEW j \in DOMAIN completed_queue',
                        completed_queue'[i] = completed_queue'[j]
                 PROVE  i = j
      OBVIOUS
    <3>1. i + 1 = j + 1
      BY <1>1, <2>1 DEF AcceptedOnce
    <3> QED BY <1>2, <3>1
  <2> QED BY <2>2, <2>3 DEF AcceptedOnce
<1> QED BY <1>7, <1>8, <1>9, <1>12, <1>13, <1>14

LEMMA CountAcceptedPreserves ==
    ASSUME DemuxInv, LoadCount \/ StoreCount
    PROVE  DemuxInv'
<1> USE DEF DemuxInv, clients, recv_thread, listen_queue
<1>1. /\ app_pc \in {"dequeued", "count"} /\ app_pc' \in {"dequeued", "count", "serve"}
      /\ UNCHANGED <<clients, recv_thread, connection_queue, completed_queue, global_ctx, app_sd,
                     close_k>>
      /\ app_len' \in Nat /\ aborted' \in {aborted, "cur_len"}
      /\ cur_len' = cur_len \/ \E n \in Nat : cur_len' = Decremented(n)
  BY DEF LoadCount, StoreCount, CountAfterAccept, Fails, TypeOK
<1>2. TypeOK'
  BY <1>1, CounterType DEF TypeOK
<1>3. RecvInv'
  BY <1>1 DEF RecvInv
<1> QED BY <1>1, <1>2, <1>3, QuietPreserves

(* A mysocket is closed whose entry, if it has one, is being passed. *)
LEMMA ClosePreserves ==
    ASSUME DemuxInv, NEW d \in Descriptor,
           global_ctx' = [global_ctx EXCEPT ![d] = FreeContext],
           connection_queue' = connection_queue,
           Unclosed' = {k \in Unclosed : connection_queue[k].sd # d},
           UNCHANGED <<client, kernel_queue, recv_pc, recv_slot>>,
           new_socket' \in {new_socket, NoClient},
           new_socket' # new_socket => recv_pc = "exited",
           app_sd' = -1
    PROVE  PlaceInv' /\ OneOwner' /\ RecvInv' /\ EntryInv'
<1> USE DEF DemuxInv
<1>1. /\ Live' = Live \ {d} /\ Live \subseteq Descriptor
      /\ \A e \in Descriptor : e # d => global_ctx'[e] = global_ctx[e]
  BY FreeOne DEF Live
<1>2. \A i \in 1 .. Len(kernel_queue) : kernel_queue[i] \in Client /\ kernel_queue[i] # NoClient
  BY DomainFacts, ConstantsAssumption DEF TypeOK
<1>3. PlaceInv'
  BY <1>1, <1>2 DEF PlaceInv
<1>4. OneOwner'
  BY <1>1 DEF OneOwner, PlaceInv
<1>5. RecvInv'
  BY DEF RecvInv, TypeOK
<1>6. EntryInv'
  <2>1. \A k \in Unclosed' : connection_queue'[k].sd # -1 =>
            /\ connection_queue'[k].sd \in Live'
            /\ connection_queue'[k].sd # app_sd'
            /\ connection_queue'[k].peer_addr = global_ctx'[connection_queue'[k].sd].peer_addr
    BY <1>1 DEF EntryInv
  <2>2. \A k, l \in Slot : connection_queue'[k].sd = connection_queue'[l].sd
                            /\ connection_queue'[k].sd # -1 => k = l
    BY DEF EntryInv
  <2>3. \A sd \in Live' : global_ctx'[sd].state \in {"handshake", "acked"} =>
            \E k \in Unclosed' : connection_queue'[k].sd = sd
    <3> SUFFICES ASSUME NEW sd \in Live', global_ctx'[sd].state \in {"handshake", "acked"}
                 PROVE  \E k \in Unclosed' : connection_queue'[k].sd = sd
      OBVIOUS
    <3>1. sd \in Live /\ sd # d /\ global_ctx'[sd] = global_ctx[sd]
      BY <1>1
    <3>2. PICK k \in Unclosed : connection_queue[k].sd = sd
      BY <3>1 DEF EntryInv
    <3> QED BY <3>1, <3>2
  <2> QED BY <2>1, <2>2, <2>3 DEF EntryInv
<1> QED BY <1>3, <1>4, <1>5, <1>6

LEMMA ServePreserves ==
    ASSUME DemuxInv, ServeAndClose
    PROVE  DemuxInv'
<1> USE DEF DemuxInv, clients, recv_thread, listen_queue
<1>1. /\ app_pc = "serve" /\ app_pc' = "accept" /\ app_sd' = -1
      /\ global_ctx' = [global_ctx EXCEPT ![app_sd] = FreeContext]
      /\ UNCHANGED <<clients, recv_thread, listen_queue, app_len, close_k, aborted>>
  BY DEF ServeAndClose
<1>2. app_sd # -1 /\ app_sd \in Live /\ app_sd \in Descriptor
  BY <1>1 DEF AppInv, Live
<1>3. /\ global_ctx' \in [Descriptor -> Context] /\ Live' = Live \ {app_sd}
      /\ \A e \in Descriptor : e # app_sd => global_ctx'[e] = global_ctx[e]
  BY <1>1, <1>2, FreeOne
<1>4. TypeOK'
  BY <1>1, <1>3 DEF TypeOK
<1>5. PlaceInv' /\ OneOwner' /\ RecvInv' /\ EntryInv'
  <2>1. Unclosed = Slot /\ Unclosed' = Slot
    BY <1>1, UnclosedFacts
  <2>2. \A k \in Slot : connection_queue[k].sd # app_sd
    BY <1>2, <2>1 DEF EntryInv
  <2> QED BY <1>1, <1>2, <2>1, <2>2, ClosePreserves
<1>6. AppInv'
  BY <1>1 DEF AppInv
<1>7. AcceptedOnce'
  BY <1>1, <1>2, <1>3, DescriptorFacts DEF AcceptedOnce, Live
<1> QED BY <1>4, <1>5, <1>6, <1>7

LEMMA StopPreserves ==
    ASSUME DemuxInv, CloseListener \/ StopRecvThread
    PROVE  DemuxInv'
<1> USE DEF DemuxInv, clients, recv_thread, listen_queue
<1>1. /\ app_pc \in {"accept", "stop"} /\ app_pc' \in {"stop", "close"}
      /\ recv_pc' \in {recv_pc, "exited"}
      /\ app_pc' = "close" => recv_pc' = "exited" /\ close_k' = 1
      /\ app_pc' # "close" => close_k' = close_k
      /\ UNCHANGED <<clients, new_socket, recv_slot, recv_len, listen_queue, global_ctx,
                     app_sd, app_len, aborted>>
  BY DEF CloseListener, StopRecvThread
<1>2. Live' = Live
  BY <1>1 DEF Live
<1>3. TypeOK'
  BY <1>1, ConstantsAssumption DEF TypeOK
<1>6. Unclosed = Slot /\ Unclosed' = Slot
  BY <1>1, ConstantsAssumption DEF Unclosed, Slot
<1>4. PlaceInv' /\ OneOwner' /\ EntryInv' /\ RecvInv'
  BY <1>1, <1>2, <1>6 DEF PlaceInv, OneOwner, EntryInv, RecvInv
<1>5. AppInv' /\ AcceptedOnce'
  BY <1>1, <1>2 DEF AppInv, AcceptedOnce
<1> QED BY <1>3, <1>4, <1>5

(* The entry the loop closing the listener is at. *)
LEMMA AtEntryFacts ==
    ASSUME DemuxInv, AtEntry
    PROVE  /\ app_pc = "close" /\ app_sd = -1
           /\ close_k \in Slot /\ close_k \in Unclosed
           /\ EntryDescriptor # -1 => EntryDescriptor \in Live /\ EntryDescriptor \in Descriptor
           /\ NextEntry(close_k) \in 1 .. MaxLen + 1
           /\ app_pc' = "close" /\ close_k' = NextEntry(close_k)
                 => Unclosed' = Unclosed \ {close_k}
<1> USE DEF DemuxInv
<1>1. /\ app_pc = "close" /\ app_sd = -1 /\ close_k \in Slot /\ close_k \in Unclosed
      /\ NextEntry(close_k) \in 1 .. MaxLen + 1
  BY ConstantsAssumption DEF AtEntry, AppInv, TypeOK, Slot, Unclosed, NextEntry
<1>2. EntryDescriptor # -1 => EntryDescriptor \in Live /\ EntryDescriptor \in Descriptor
  BY <1>1 DEF EntryInv, EntryDescriptor, Live
<1>3. app_pc' = "close" /\ close_k' = NextEntry(close_k) => Unclosed' = Unclosed \ {close_k}
  BY <1>1, ConstantsAssumption DEF Unclosed, Slot, NextEntry
<1> QED BY <1>1, <1>2, <1>3

LEMMA SkipEntryPreserves ==
    ASSUME DemuxInv, SkipEntry
    PROVE  DemuxInv'
<1> USE DEF DemuxInv, clients, recv_thread, listen_queue
<1>1. /\ AtEntry /\ connection_queue[close_k].sd = -1
      /\ close_k' = NextEntry(close_k)
      /\ UNCHANGED <<clients, recv_thread, listen_queue, global_ctx, app_pc, app_sd, app_len,
                     aborted>>
  BY DEF SkipEntry, EntryDescriptor
<1>2. /\ app_pc = "close" /\ Unclosed' = Unclosed \ {close_k}
      /\ close_k' \in 1 .. MaxLen + 1
  BY <1>1, AtEntryFacts
<1>3. Live' = Live
  BY <1>1 DEF Live
<1>4. TypeOK'
  BY <1>1, <1>2 DEF TypeOK
<1>5. PlaceInv' /\ OneOwner' /\ RecvInv'
  BY <1>1, <1>3 DEF PlaceInv, OneOwner, RecvInv
<1>6. EntryInv'
  BY <1>1, <1>2, <1>3, DescriptorFacts DEF EntryInv, Live
<1>7. AppInv' /\ AcceptedOnce'
  BY <1>1, <1>2 DEF AppInv, AcceptedOnce
<1> QED BY <1>4, <1>5, <1>6, <1>7

LEMMA CloseQueuedPreserves ==
    ASSUME DemuxInv, CloseQueued
    PROVE  DemuxInv'
<1> USE DEF DemuxInv, clients, recv_thread, listen_queue
<1> DEFINE d == EntryDescriptor
<1>1. /\ AtEntry /\ d # -1
      /\ global_ctx' = [global_ctx EXCEPT ![d] = FreeContext]
      /\ close_k' = NextEntry(close_k)
      /\ UNCHANGED <<clients, recv_thread, listen_queue, app_pc, app_sd, app_len, aborted>>
  BY DEF CloseQueued
<1>2. /\ app_pc = "close" /\ app_sd = -1 /\ close_k \in Slot
      /\ d \in Live /\ d \in Descriptor
      /\ Unclosed' = Unclosed \ {close_k} /\ close_k' \in 1 .. MaxLen + 1
  BY <1>1, AtEntryFacts
<1>3. global_ctx' \in [Descriptor -> Context]
  BY <1>1, <1>2, FreeOne
<1>4. TypeOK'
  BY <1>1, <1>2, <1>3 DEF TypeOK
<1>5. Unclosed' = {l \in Unclosed : connection_queue[l].sd # d}
  <2>1. d = connection_queue[close_k].sd
    BY DEF EntryDescriptor
  <2>2. \A l \in Slot : connection_queue[l].sd = d <=> l = close_k
    BY <1>1, <1>2, <2>1 DEF EntryInv
  <2> QED BY <1>2, <2>2, UnclosedFacts
<1> HIDE DEF d
<1>6. PlaceInv' /\ OneOwner' /\ RecvInv' /\ EntryInv'
  BY <1>1, <1>2, <1>5, ClosePreserves
<1>7. AppInv' /\ AcceptedOnce'
  BY <1>1, <1>2 DEF AppInv, AcceptedOnce
<1> QED BY <1>4, <1>6, <1>7

LEMMA CloseIgnoredPreserves ==
    ASSUME DemuxInv, CloseIgnored
    PROVE  DemuxInv'
<1> USE DEF DemuxInv, clients, recv_thread, listen_queue, app_thread
<1> DEFINE d == EntryDescriptor
<1>1. /\ AtEntry /\ d # -1
      /\ global_ctx' = [global_ctx EXCEPT ![d].state = "deaf"]
      /\ UNCHANGED <<clients, recv_thread, listen_queue, app_thread, aborted>>
  BY DEF CloseIgnored
<1>2. app_pc = "close" /\ app_sd = -1 /\ d \in Live /\ d \in Descriptor
  BY <1>1, AtEntryFacts
<1> HIDE DEF d
<1>4. global_ctx' \in [Descriptor -> Context]
  BY <1>1, <1>2, SetState
<1>5. TypeOK'
  BY <1>1, <1>4 DEF TypeOK
<1>6. PlaceInv' /\ OneOwner' /\ RecvInv' /\ EntryInv'
  BY <1>1, <1>2, StatePreserves
<1>7. AppInv' /\ AcceptedOnce'
  BY <1>1, <1>2 DEF AppInv, AcceptedOnce
<1> QED BY <1>5, <1>6, <1>7

LEMMA ClosePassivePreserves ==
    ASSUME DemuxInv, ClosePassiveSocket
    PROVE  DemuxInv'
<1> USE DEF DemuxInv, clients
<1>1. /\ app_pc = "close" /\ close_k > MaxLen
      /\ global_ctx' = [global_ctx EXCEPT ![0] = FreeContext]
      /\ completed_queue' = << >> /\ cur_len' = 0 /\ new_socket' = NoClient
      /\ app_pc' = "exited"
      /\ UNCHANGED <<clients, recv_pc, recv_slot, recv_len, connection_queue, app_sd,
                     app_len, close_k, aborted>>
  BY DEF ClosePassiveSocket
<1>2. 0 \in Descriptor
  BY ConstantsAssumption DEF Descriptor
<1>3. Unclosed = {} /\ Unclosed' = {}
  BY <1>1, ConstantsAssumption DEF Unclosed, Slot, TypeOK
<1>4. app_sd = -1 /\ recv_pc = "exited"
  BY <1>1 DEF AppInv
<1>5. TypeOK'
  <2>1. global_ctx' \in [Descriptor -> Context]
    BY <1>1, <1>2, FreeOne
  <2>2. completed_queue' \in Seq(Slot)
    BY <1>1
  <2> QED BY <1>1, <2>1, <2>2 DEF TypeOK
<1>6. PlaceInv' /\ OneOwner' /\ RecvInv' /\ EntryInv'
  <2>1. Unclosed' = {k \in Unclosed : connection_queue[k].sd # 0}
    BY <1>3
  <2> QED BY <1>1, <1>2, <1>4, <2>1, ClosePreserves
<1>7. AppInv'
  BY <1>1, <1>3, <1>4 DEF AppInv
<1>8. AcceptedOnce'
  BY <1>1 DEF AcceptedOnce
<1> QED BY <1>5, <1>6, <1>7, <1>8

-----------------------------------------------------------------------------
LEMMA DemuxStarts == ASSUME Init PROVE DemuxInv
<1> USE DEF Init
<1>1. TypeOK
  <2>1. global_ctx \in [Descriptor -> Context]
    BY DEF FreeContext, ListeningContext, Context
  <2>2. connection_queue \in [Slot -> [sd : Descriptor \cup {-1}, peer_addr : Client \cup {NoClient}]]
    BY DEF INVALIDATE_CONNECT_REQUEST
  <2>3. recv_slot \in Slot
    BY ConstantsAssumption DEF Slot
  <2>4. kernel_queue \in Seq(Client) /\ completed_queue \in Seq(Slot)
    OBVIOUS
  <2>5. close_k \in 1 .. MaxLen + 1
    BY ConstantsAssumption
  <2> QED BY <2>1, <2>2, <2>3, <2>4, <2>5 DEF TypeOK
<1>2. Live = {}
  BY DEF Live, FreeContext, ListeningContext
<1>3. Len(kernel_queue) = 0 /\ DOMAIN completed_queue = {}
  OBVIOUS
<1>4. PlaceInv /\ OneOwner /\ RecvInv
  BY <1>2, <1>3 DEF PlaceInv, OneOwner, RecvInv
<1>5. EntryInv
  BY <1>2, UnclosedFacts DEF EntryInv, INVALIDATE_CONNECT_REQUEST
<1>6. AppInv /\ AcceptedOnce
  BY <1>3 DEF AppInv, AcceptedOnce
<1> QED BY <1>1, <1>4, <1>5, <1>6 DEF DemuxInv

LEMMA DemuxStutters == ASSUME DemuxInv, UNCHANGED vars PROVE DemuxInv'
  BY DEF vars, clients, recv_thread, listen_queue, app_thread, DemuxInv, TypeOK, PlaceInv,
     OneOwner, RecvInv, EntryInv, AppInv, AcceptedOnce, Live, Unclosed

(* The inductive invariant holds in every reachable state. *)
LEMMA DemuxInvariant == Spec => []DemuxInv
<1>1. Init => DemuxInv
  BY DemuxStarts
<1>2. DemuxInv /\ [Next]_vars => DemuxInv'
  <2> SUFFICES ASSUME DemuxInv, [Next]_vars PROVE DemuxInv'
    OBVIOUS
  <2>1. CASE Clients
    BY <2>1, ClientsPreserve
  <2>2. CASE RecvThread
    BY <2>2, RecvThreadPreserves
  <2>3. CASE \E sd \in Descriptor : Transport(sd)
    BY <2>3, CompletePreserves DEF Transport
  <2>4. CASE Application
    BY <2>4, DequeuePreserves, CountAcceptedPreserves, ServePreserves, StopPreserves,
       SkipEntryPreserves, CloseQueuedPreserves, CloseIgnoredPreserves, ClosePassivePreserves DEF Application
  <2>5. CASE CloseListener
    BY <2>5, StopPreserves
  <2>6. CASE UNCHANGED vars
    BY <2>6, DemuxStutters
  <2> QED BY <2>1, <2>2, <2>3, <2>4, <2>5, <2>6 DEF Next
<1> QED BY <1>1, <1>2, PTL DEF Spec

(* The server's state is well typed whatever the threads' interleaving, in *)
(* particular the counter that two of them update without a lock.          *)
THEOREM TypeCorrect == Spec => []TypeOK
<1>1. DemuxInv => TypeOK
  BY DEF DemuxInv
<1> QED BY <1>1, DemuxInvariant, PTL

(* Every accepted connection has one owner: _network_update_passive_state()*)
(* hands it from new_socket to the new mysocket's context.                 *)
THEOREM OwnerUnique == Spec => []OneOwner
<1>1. DemuxInv => OneOwner
  BY DEF DemuxInv
<1> QED BY <1>1, DemuxInvariant, PTL

(* The assertion of _mysock_passive_connection_complete() holds: the       *)
(* transport thread that completes a handshake finds its entry.            *)
THEOREM PendingFound == Spec => []PendingRegistered
<1>1. DemuxInv => PendingRegistered
  BY RegisteredOnce, UnclosedFacts DEF PendingRegistered
<1> QED BY <1>1, DemuxInvariant, PTL

(* myaccept() returns each completed connection once. *)
THEOREM NoneAcceptedTwice == Spec => []AcceptedOnce
<1>1. DemuxInv => AcceptedOnce
  BY DEF DemuxInv
<1> QED BY <1>1, DemuxInvariant, PTL
=============================================================================
