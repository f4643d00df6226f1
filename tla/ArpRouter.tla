------------------------------ MODULE ArpRouter ------------------------------
(***************************************************************************)
(* The software router: sr_handlepacket() (sr_router.c), run by the main   *)
(* thread for each frame, and the ARP cache with its request queue         *)
(* (sr_arpcache.c), which a second thread sweeps every second.             *)
(*                                                                         *)
(* The sweeper holds the cache's recursive lock during a whole sweep.  The *)
(* main thread holds it only inside sr_arpcache_lookup(), queuereq(),      *)
(* insert() and sr_arpreq_destroy(), and calls sr_arpcache_handle_arpreq() *)
(* with no lock at all.  handle_arpreq() may call itself: each thread has  *)
(* a stack of calls in progress.                                           *)
(*                                                                         *)
(* Packets are well formed.  One that fails a validation of length,        *)
(* version or checksum is dropped before any state changes.  Routing is a  *)
(* function of the address, which sr_findLPMentry() computes from a table  *)
(* that never changes.                                                     *)
(***************************************************************************)
EXTENDS Integers, Sequences, FiniteSets

CONSTANTS
    Address,         \* IP addresses
    NoAddress,       \* stands for NULL and for an invalid cache entry
    RouterAddress,   \* the addresses of the router's interfaces
    Blacklisted,     \* the addresses in 10.0.2.0/24
    gateway,         \* the gateway of the route to an address, or NoAddress
    interface_ip,    \* the router's address on the interface of that route
    Answering,       \* the addresses that answer ARP requests
    Traffic,         \* the packets that may arrive
    INIT_TTL,        \* the TTL of the router's own packets (255)
    SR_ARPCACHE_SZ,  \* entries in the cache (100)
    SR_ARPCACHE_TO,  \* seconds an entry stays valid (15)
    MaxSent,         \* ARP requests sent before giving up (5)
    MaxPackets,      \* bound: packets that arrive
    MaxDepth         \* bound: nested calls the stack has room for

Protocol == {"echo", "icmp", "udp", "other"}

TTL == 0 .. INIT_TTL

Datagram == [src : Address, dst : Address, ttl : TTL, ip_p : Protocol]

ASSUME ConstantsAssumption ==
    /\ NoAddress \notin Address
    /\ RouterAddress \subseteq Address /\ Blacklisted \subseteq Address
    /\ gateway \in [Address -> Address \cup {NoAddress}]
    /\ interface_ip \in [Address -> RouterAddress]
    /\ Answering \subseteq Address
    /\ INIT_TTL \in Nat \ {0}
    /\ Traffic \subseteq Datagram
    /\ SR_ARPCACHE_SZ \in Nat /\ SR_ARPCACHE_TO \in Nat
    /\ MaxSent \in Nat /\ MaxPackets \in Nat /\ MaxDepth \in Nat \ {0}

VARIABLES
    entries,     \* the cache's table of resolved addresses
    requests,    \* the request queue, newest first
    stack,       \* the calls of handle_arpreq() in progress, per thread
    lock,        \* whether the sweeper holds the cache's lock
    next_req,    \* the request the sweep goes on with: its saved pointer
    woken,       \* whether the sweeper's sleep(1) is over
    asked,       \* addresses the router has broadcast ARP requests for
    arrived,     \* packets that have arrived, numbered from 1
    transit,     \* numbers of the packets accepted for forwarding
    forwarded,   \* what became of their TTL, for those sent on
    refused,     \* those whose source was told "host unreachable"
    fault        \* the undefined behaviour that ended the process, if any

cache == <<entries, requests>>
sweep == <<lock, next_req, woken>>
history == <<arrived, transit, forwarded, refused>>

vars == <<entries, requests, stack, sweep, asked, history, fault>>

Thread == {"main", "sweeper"}

(* A packet the router made itself has number 0. *)
Packet == [id : Nat, src : Address, dst : Address, ttl : TTL]

DueAge == 2    \* difftime(curtime, sent) > 1.0, in whole seconds

(* broadcasts is history: how often the request really went out. *)
Request == [ip : Address, age : 0 .. DueAge, times_sent : Nat, packets : Seq(Packet),
            broadcasts : Nat]

(* A pointer to a request; live is false once the request has been freed. *)
Pointer == [ip : Address \cup {NoAddress}, live : BOOLEAN]

NULL == [ip |-> NoAddress, live |-> TRUE]

(* A call's pc and local values: the packets still to be answered, and the *)
(* times_sent it has loaded and not yet stored.                            *)
Frame == [req : Pointer, pc : {"check", "ask", "count", "walk"}, walk : Seq(Packet),
          loaded : Nat]

TypeOK ==
    /\ entries \in [1 .. SR_ARPCACHE_SZ ->
                       [ip : Address \cup {NoAddress}, age : 0 .. SR_ARPCACHE_TO + 1]]
    /\ requests \in Seq(Request)
    /\ stack \in [Thread -> Seq(Frame)]
    /\ lock \in BOOLEAN /\ next_req \in Pointer /\ woken \in BOOLEAN
    /\ asked \subseteq Address
    /\ arrived \in Nat
    /\ transit \subseteq Nat /\ refused \subseteq Nat
    /\ forwarded \subseteq (Nat \X TTL \X TTL)
    /\ fault \in {"no", "null", "freed_request", "freed_next", "stack"}

Init ==
    /\ entries = [i \in 1 .. SR_ARPCACHE_SZ |-> [ip |-> NoAddress, age |-> 0]]
    /\ requests = << >>
    /\ stack = [t \in Thread |-> << >>]
    /\ lock = FALSE /\ next_req = NULL /\ woken = FALSE
    /\ asked = {}
    /\ arrived = 0 /\ transit = {} /\ forwarded = {} /\ refused = {}
    /\ fault = "no"

-----------------------------------------------------------------------------
(* The cache's operations *)

(* sr_arpcache_lookup() *)
Cached(ip) == \E i \in DOMAIN entries : entries[i].ip = ip

Indexes(ip) == {i \in DOMAIN requests : requests[i].ip = ip}

Index(ip) == CHOOSE i \in Indexes(ip) : TRUE

Lowest(S) == CHOOSE i \in S : \A j \in S : i <= j

(* A request that was never sent has sent = 0, so it is due at once. *)
NewRequest(ip, p) == [ip |-> ip, age |-> DueAge, times_sent |-> 0, packets |-> <<p>>,
                      broadcasts |-> 0]

(* Mutant: a packet always gets a request of its own. *)
UnsharedQueueReq(ip, p) == <<NewRequest(ip, p)>> \o requests

(* sr_arpcache_queuereq() *)
QueueReq(ip, p) ==
    IF Indexes(ip) = {}
    THEN <<NewRequest(ip, p)>> \o requests
    ELSE [requests EXCEPT ![Index(ip)].packets = <<p>> \o @]

(* The request queue with request i unlinked *)
Without(i) == SubSeq(requests, 1, i - 1) \o SubSeq(requests, i + 1, Len(requests))

FreeEntries == {i \in DOMAIN entries : entries[i].ip = NoAddress}

(* The table after sr_arpcache_insert(): the first free entry is used, and *)
(* if there is none the mapping is not kept.                               *)
Inserted(ip) ==
    IF FreeEntries = {} THEN entries
    ELSE [entries EXCEPT ![Lowest(FreeEntries)] = [ip |-> ip, age |-> 0]]

Call(ip) == [req |-> [ip |-> ip, live |-> TRUE], pc |-> "check", walk |-> << >>,
             loaded |-> 0]

Faults(kind) == /\ fault' = kind
                /\ UNCHANGED <<cache, stack, sweep, asked>>

(* A packet goes out if its gateway's address is known; otherwise it is    *)
(* queued and handle_arpreq() is called on the request.  calls is the rest *)
(* of the thread's stack.                                                  *)
SendOrQueue(t, p, calls) ==
    LET ip == gateway[p.dst] IN
    IF Cached(ip)
    THEN stack' = [stack EXCEPT ![t] = calls] /\ UNCHANGED <<requests, fault>>
    ELSE IF Len(calls) >= MaxDepth
    THEN fault' = "stack" /\ UNCHANGED <<requests, stack>>
    ELSE /\ requests' = QueueReq(ip, p)
         /\ stack' = [stack EXCEPT ![t] = Append(calls, Call(ip))]
         /\ UNCHANGED fault

-----------------------------------------------------------------------------
(* The main thread: sr_handlepacket() *)

(* It takes a frame when it is done with the one before, and each path     *)
(* that changes state begins with a lookup, which needs the lock.          *)
MainReady == stack["main"] = << >> /\ ~lock

(* The router's own packet, from src to dst *)
Own(src, dst) == [id |-> 0, src |-> src, dst |-> dst, ttl |-> INIT_TTL]

ReceiveCount == arrived < MaxPackets /\ arrived' = arrived + 1

(* An ICMP error for d's source.  The route to it is used before it is     *)
(* compared with NULL.                                                     *)
IcmpError(d) ==
    IF gateway[d.src] = NoAddress
    THEN Faults("null")
    ELSE /\ SendOrQueue("main", Own(interface_ip[d.src], d.src), << >>)
         /\ UNCHANGED <<entries, sweep, asked>>

(* The router is the destination. *)
EchoReply(d) ==
    /\ MainReady /\ ReceiveCount
    /\ d.src \notin Blacklisted /\ d.dst \in RouterAddress /\ d.ip_p = "echo"
    /\ IF gateway[d.src] = NoAddress
       THEN UNCHANGED <<requests, stack, fault>>
       ELSE SendOrQueue("main", Own(d.dst, d.src), << >>)
    /\ UNCHANGED <<entries, sweep, asked, transit, forwarded, refused>>

PortUnreachable(d) ==
    /\ MainReady /\ ReceiveCount
    /\ d.src \notin Blacklisted /\ d.dst \in RouterAddress /\ d.ip_p = "udp"
    /\ IcmpError(d)
    /\ UNCHANGED <<transit, forwarded, refused>>

(* A blacklisted source, or a protocol the router does not speak *)
Ignore(d) ==
    /\ stack["main"] = << >> /\ ReceiveCount
    /\ \/ d.src \in Blacklisted
       \/ d.dst \in RouterAddress /\ d.ip_p \in {"icmp", "other"}
    /\ UNCHANGED <<cache, stack, sweep, asked, transit, forwarded, refused, fault>>

InTransit(d) == d.src \notin Blacklisted /\ d.dst \notin RouterAddress

TimeExceeded(d) ==
    /\ MainReady /\ ReceiveCount
    /\ InTransit(d) /\ gateway[d.dst] # NoAddress /\ d.ttl = 1
    /\ IcmpError(d)
    /\ UNCHANGED <<transit, forwarded, refused>>

(* Mutant: the decrement does not wrap. *)
SignedLessOne(ttl) == ttl - 1

(* ip_ttl is a uint8_t. *)
LessOne(ttl) == (ttl - 1) % (INIT_TTL + 1)

Forward(d) ==
    /\ MainReady /\ ReceiveCount
    /\ InTransit(d) /\ gateway[d.dst] # NoAddress /\ d.ttl # 1
    /\ transit' = transit \cup {arrived'}
    /\ forwarded' = IF Cached(gateway[d.dst])
                    THEN forwarded \cup {<<arrived', d.ttl, LessOne(d.ttl)>>}
                    ELSE forwarded
    /\ SendOrQueue("main", [id |-> arrived', src |-> d.src, dst |-> d.dst, ttl |-> d.ttl],
                   << >>)
    /\ UNCHANGED <<entries, sweep, asked, refused>>

(* No route: the payload is checked as if it were ICMP, whatever the       *)
(* protocol; another payload passes only by chance.                        *)
NetUnreachable(d) ==
    /\ MainReady /\ ReceiveCount
    /\ InTransit(d) /\ gateway[d.dst] = NoAddress
    /\ \/ IcmpError(d)
       \/ d.ip_p \notin {"echo", "icmp"} /\ UNCHANGED <<cache, stack, sweep, asked, fault>>
    /\ UNCHANGED <<transit, forwarded, refused>>

(* A queued packet is sent with its TTL one less, unless it is INIT_TTL. *)
TtlWhenSent(p) == IF p.ttl # INIT_TTL THEN LessOne(p.ttl) ELSE p.ttl

Elements(s) == {s[i] : i \in DOMAIN s}

(* Mutant: the request stays in the queue when its packets are sent. *)
RequestsKept(ip) == requests

RequestsAfterReply(ip) == IF Indexes(ip) = {} THEN requests ELSE Without(Index(ip))

(* An ARP reply from ip, which may be late or duplicated: the address is   *)
(* kept and the packets that wait for it are sent.  A reply for an         *)
(* interface that its own route does not lead back to is ignored.          *)
ArpReply(ip) ==
    LET ar_tip == interface_ip[ip]
        waiting == UNION {Elements(requests[i].packets) : i \in Indexes(ip)}
    IN
    /\ MainReady /\ ip \in asked /\ ip \in Answering
    /\ asked' \in {asked, asked \ {ip}}
    /\ IF gateway[ar_tip] = NoAddress
       THEN fault' = "null" /\ UNCHANGED <<cache, forwarded>>
       ELSE IF interface_ip[ar_tip] # ar_tip
       THEN UNCHANGED <<cache, forwarded, fault>>
       ELSE /\ entries' = Inserted(ip)
            /\ requests' = RequestsAfterReply(ip)
            /\ forwarded' = forwarded \cup
                  {<<p.id, p.ttl, TtlWhenSent(p)>> : p \in {q \in waiting : q.id # 0}}
            /\ UNCHANGED fault
    /\ UNCHANGED <<stack, sweep, arrived, transit, refused>>

-----------------------------------------------------------------------------
(* sr_arpcache_handle_arpreq(), in either thread *)

Top(t) == stack[t][Len(stack[t])]

Below(t) == SubSeq(stack[t], 1, Len(stack[t]) - 1)

Running(t, pc) == stack[t] # << >> /\ Top(t).pc = pc

(* The lock, for a call that takes it *)
MayLock(t) == t = "sweeper" \/ ~lock

(* Mutant: the request is given up one attempt too early. *)
GivesUpSooner(req) == req.times_sent + 1 >= MaxSent

GivesUp(req) == req.times_sent >= MaxSent

(* Mutant: the newest packet is skipped. *)
WalkFromSecond(req) == Tail(req.packets)

WalkStart(req) == req.packets

(* The first lines: is the request due, and has it been sent often enough? *)
HandleArpreq(t) ==
    /\ Running(t, "check")
    /\ IF ~Top(t).req.live
       THEN Faults("freed_request")
       ELSE LET req == requests[Index(Top(t).req.ip)] IN
            /\ stack' = [stack EXCEPT ![t] =
                  IF req.age < DueAge THEN Below(t)
                  ELSE Append(Below(t),
                              IF GivesUp(req)
                              THEN [Top(t) EXCEPT !.pc = "walk", !.walk = WalkStart(req)]
                              ELSE [Top(t) EXCEPT !.pc = "ask"])]
            /\ UNCHANGED <<cache, sweep, asked, fault>>
    /\ UNCHANGED history

(* The ARP request asks for the destination of the newest packet.  The     *)
(* attempt is counted by a load and a store of times_sent that no lock     *)
(* protects: the other thread may run between them.                        *)
SendArpRequest(t) ==
    /\ Running(t, "ask")
    /\ IF ~Top(t).req.live
       THEN Faults("freed_request")
       ELSE LET i == Index(Top(t).req.ip) IN
            /\ asked' = asked \cup {Head(requests[i].packets).dst}
            /\ requests' = [requests EXCEPT ![i].age = 0, ![i].broadcasts = @ + 1]
            /\ stack' = [stack EXCEPT ![t] = Append(Below(t),
                  [Top(t) EXCEPT !.pc = "count", !.loaded = requests[i].times_sent])]
            /\ UNCHANGED <<entries, sweep, fault>>
    /\ UNCHANGED history

Counted(loaded) == loaded + 1

CountAttempt(t) ==
    /\ Running(t, "count")
    /\ IF ~Top(t).req.live
       THEN Faults("freed_request")
       ELSE /\ requests' = [requests EXCEPT
                                ![Index(Top(t).req.ip)].times_sent = Counted(Top(t).loaded)]
            /\ stack' = [stack EXCEPT ![t] = Below(t)]
            /\ UNCHANGED <<entries, sweep, asked, fault>>
    /\ UNCHANGED history

(* One step of the walk over the packets of a request that is given up:    *)
(* the source is told, from the interface that leads to the request's      *)
(* address.                                                                *)
HostUnreachable(t) ==
    LET p == Head(Top(t).walk)
        ip == Top(t).req.ip
        calls == Append(Below(t), [Top(t) EXCEPT !.walk = Tail(@)])
    IN
    /\ Running(t, "walk") /\ Top(t).walk # << >> /\ MayLock(t)
    /\ IF ~Top(t).req.live
       THEN Faults("freed_request") /\ UNCHANGED refused
       ELSE IF gateway[ip] = NoAddress \/ gateway[p.src] = NoAddress
       THEN Faults("null") /\ UNCHANGED refused
       ELSE /\ SendOrQueue(t, Own(interface_ip[ip], p.src), calls)
            /\ refused' = refused \cup ({p.id} \ {0})
            /\ UNCHANGED <<entries, sweep, asked>>
    /\ UNCHANGED <<arrived, transit, forwarded>>

(* The pointers to a freed request dangle. *)
Dangling(ptr, ip) == [ptr EXCEPT !.live = @ /\ ptr.ip # ip]

DanglingCalls(calls, ip) ==
    [k \in DOMAIN calls |-> [calls[k] EXCEPT !.req = Dangling(@, ip)]]

(* sr_arpreq_destroy() at the end of the walk *)
DestroyRequest(t) ==
    LET ip == Top(t).req.ip IN
    /\ Running(t, "walk") /\ Top(t).walk = << >> /\ MayLock(t)
    /\ IF ~Top(t).req.live
       THEN Faults("freed_request")
       ELSE /\ requests' = Without(Index(ip))
            /\ stack' = [u \in Thread |->
                            DanglingCalls(IF u = t THEN Below(t) ELSE stack[u], ip)]
            /\ next_req' = Dangling(next_req, ip)
            /\ UNCHANGED <<entries, lock, woken, asked, fault>>
    /\ UNCHANGED history

-----------------------------------------------------------------------------
(* The sweeper: sr_arpcache_timeout() and sr_arpcache_sweepreqs() *)

(* Mutant: the sweep does not take the lock. *)
UnlockedSweep == FALSE

LockDuringSweep == TRUE

(* Mutant: the sweep begins behind the head of the list. *)
HeadSkipped(i) ==
    IF i + 1 \in DOMAIN requests THEN [ip |-> requests[i + 1].ip, live |-> TRUE] ELSE NULL

RequestAt(i) == IF i \in DOMAIN requests THEN [ip |-> requests[i].ip, live |-> TRUE]
                                         ELSE NULL

SweepBegin ==
    /\ woken /\ next_req = NULL /\ ~lock /\ stack["sweeper"] = << >>
    /\ lock' = LockDuringSweep
    /\ woken' = FALSE
    /\ entries' = [i \in DOMAIN entries |->
                      IF entries[i].age > SR_ARPCACHE_TO
                      THEN [ip |-> NoAddress, age |-> 0] ELSE entries[i]]
    /\ next_req' = RequestAt(1)
    /\ UNCHANGED <<requests, stack, asked, history, fault>>

(* The next pointer is saved before the request is handled. *)
SweepNext ==
    /\ lock = LockDuringSweep /\ stack["sweeper"] = << >> /\ next_req.ip # NoAddress
    /\ IF ~next_req.live
       THEN Faults("freed_next")
       ELSE /\ stack' = [stack EXCEPT !["sweeper"] = <<Call(next_req.ip)>>]
            /\ next_req' = RequestAt(Index(next_req.ip) + 1)
            /\ UNCHANGED <<cache, lock, woken, asked, fault>>
    /\ UNCHANGED history

SweepEnd ==
    /\ lock /\ stack["sweeper"] = << >> /\ next_req.ip = NoAddress
    /\ lock' = FALSE
    /\ UNCHANGED <<cache, stack, next_req, woken, asked, history, fault>>

Older(age, limit) == IF age < limit THEN age + 1 ELSE age

(* A second passes. *)
Tick ==
    /\ entries' = [i \in DOMAIN entries |->
                      IF entries[i].ip = NoAddress THEN entries[i]
                      ELSE [entries[i] EXCEPT !.age = Older(@, SR_ARPCACHE_TO + 1)]]
    /\ requests' = [i \in DOMAIN requests |->
                       [requests[i] EXCEPT !.age = Older(@, DueAge)]]
    /\ woken' = TRUE
    /\ UNCHANGED <<stack, lock, next_req, asked, history, fault>>

-----------------------------------------------------------------------------
Receive ==
    \/ \E d \in Traffic : \/ EchoReply(d)
                          \/ PortUnreachable(d)
                          \/ Ignore(d)
                          \/ TimeExceeded(d)
                          \/ Forward(d)
                          \/ NetUnreachable(d)
    \/ \E ip \in asked : ArpReply(ip)

Handle(t) ==
    \/ HandleArpreq(t)
    \/ SendArpRequest(t)
    \/ CountAttempt(t)
    \/ HostUnreachable(t)
    \/ DestroyRequest(t)

Sweep ==
    \/ SweepBegin
    \/ SweepNext
    \/ SweepEnd

(* Undefined behaviour ends the process. *)
Next ==
    /\ fault = "no"
    /\ \/ Receive
       \/ \E t \in Thread : Handle(t)
       \/ Sweep
       \/ Tick

Spec == Init /\ [][Next]_vars

Alive(A) == fault = "no" /\ A

(* Both threads run and time passes.  Nothing is assumed of the network:   *)
(* packets and ARP replies may never come.                                 *)
Fairness ==
    /\ \A t \in Thread : WF_vars(Alive(Handle(t)))
    /\ WF_vars(Alive(Sweep))
    /\ WF_vars(Alive(Tick))

FairSpec == Spec /\ Fairness

-----------------------------------------------------------------------------
(* Properties *)

QueuedPackets == UNION {Elements(requests[i].packets) : i \in DOMAIN requests}

Queued(id) == \E p \in QueuedPackets : p.id = id

Sent(id) == \E f \in forwarded : f[1] = id

(* The request queue: one request per address, holding only packets whose  *)
(* next hop is that address, at least one of them.                         *)
QueueByNextHop ==
    /\ \A i, j \in DOMAIN requests : requests[i].ip = requests[j].ip => i = j
    /\ \A i \in DOMAIN requests :
          /\ requests[i].packets # << >>
          /\ \A p \in Elements(requests[i].packets) : gateway[p.dst] = requests[i].ip

(* A packet taken for forwarding is never lost silently: it waits in the   *)
(* queue, was sent on, or its source was told.                             *)
NoneLost == \A id \in transit : Queued(id) \/ Sent(id) \/ id \in refused

(* A packet that was sent on is never also reported as undeliverable, and  *)
(* it is sent only once: the reply and the sweep exclude each other.       *)
SentOrRefused ==
    \A id \in transit :
        /\ ~(Sent(id) /\ id \in refused)
        /\ Sent(id) => ~Queued(id)
        /\ Cardinality({f \in forwarded : f[1] = id}) <= 1

(* No ARP reply takes away a request that a call in progress or the sweep  *)
(* still points to: unless it was freed, such a request is in the queue.   *)
PointersValid ==
    /\ \A t \in Thread : \A k \in DOMAIN stack[t] :
          stack[t][k].req.live => Indexes(stack[t][k].req.ip) # {}
    /\ next_req.live /\ next_req # NULL => Indexes(next_req.ip) # {}

(* A request is given up only after it went out as often as the limit      *)
(* says: the threads may overwrite each other's count, so that it went out *)
(* more often, but they never count an attempt that was not made.          *)
GivenUpAfterAttempts ==
    \A t \in Thread : \A k \in DOMAIN stack[t] :
        stack[t][k].pc = "walk" /\ stack[t][k].req.live =>
            \A i \in Indexes(stack[t][k].req.ip) : requests[i].broadcasts >= MaxSent

(* Every packet that waits is sent on or reported in the end, although the *)
(* network may lose every ARP message, unless the process dies.            *)
EveryPacketSettled ==
    \A id \in 1 .. MaxPackets :
        (id \in transit) ~> (Sent(id) \/ id \in refused \/ fault # "no")

(* handle_arpreq() returns: the stack does not overflow. *)
BoundedRecursion == fault # "stack"

=============================================================================
