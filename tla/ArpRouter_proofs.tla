--------------------------- MODULE ArpRouter_proofs ---------------------------
(***************************************************************************)
(* Proofs about ArpRouter, for every set of addresses, routing, size of    *)
(* the cache, number of attempts and depth of the stack.                   *)
(*                                                                         *)
(* The queue and the stacks are sequences, but no property depends on      *)
(* where in them a request or a call is: the invariant speaks of the sets  *)
(* Reqs and Frames(t), and the first lemmas say what each update of a      *)
(* sequence does to its set of elements.                                   *)
(***************************************************************************)
EXTENDS ArpRouter, FiniteSetTheorems, SequenceTheorems, TLAPS

Reqs == Elements(requests)

Frames(t) == Elements(stack[t])

UniqueIp(q) == \A i, j \in DOMAIN q : q[i].ip = q[j].ip => i = j

(* What a request holds waits for the request's address. *)
HopInv ==
    \A r \in Reqs : /\ r.packets # << >>
                    /\ \A p \in Elements(r.packets) : gateway[p.dst] = r.ip

(* A call's pointer is to a request that is in the queue, or dangles. *)
FrameInv ==
    \A t \in Thread : \A f \in Frames(t) :
        /\ f.req.ip \in Address
        /\ f.req.live => \E r \in Reqs : r.ip = f.req.ip

(* The sweep has a call in progress or a saved pointer only while it holds *)
(* the lock.                                                               *)
SweepInv ==
    /\ ~lock => next_req = NULL /\ stack["sweeper"] = << >>
    /\ next_req.ip = NoAddress => next_req.live
    /\ next_req.ip # NoAddress /\ next_req.live => \E r \in Reqs : r.ip = next_req.ip

(* A call that waits for a nested one is in the middle of its walk. *)
BelowInv ==
    \A t \in Thread : stack[t] # << >> => \A f \in Elements(Below(t)) : f.pc = "walk"

(* Numbers are those of packets that have arrived, and a number in the     *)
(* queue stands for one packet.                                            *)
IdInv ==
    /\ refused \subseteq 1 .. arrived /\ transit \subseteq 1 .. arrived
    /\ \A f \in forwarded : f[1] \in 1 .. arrived
    /\ \A r \in Reqs : \A p \in Elements(r.packets) :
          /\ p.id \in 0 .. arrived
          /\ \A s \in Reqs : \A q \in Elements(s.packets) :
                p.id = q.id /\ p.id # 0 => p = q

(* A packet that was sent on was sent once, is not refused and is not      *)
(* waiting.                                                                *)
SentInv ==
    \A f \in forwarded :
        /\ f[1] \notin refused
        /\ \A g \in forwarded : g[1] = f[1] => g = f
        /\ \A r \in Reqs : \A p \in Elements(r.packets) : p.id # f[1]

Walking(f, ip) == f.pc = "walk" /\ f.req.live /\ f.req.ip = ip

(* What is left of a walk is still in the queue, and what is in the queue  *)
(* is left to the walk, was refused, or is the router's own.               *)
WalkInv ==
    \A t \in Thread : \A f \in Frames(t) : \A r \in Reqs :
        Walking(f, r.ip) =>
            /\ Elements(f.walk) \subseteq Elements(r.packets)
            /\ \A p \in Elements(r.packets) :
                  p.id = 0 \/ p.id \in refused \/ p \in Elements(f.walk)

(* A refused packet is in the queue only while its request is walked. *)
RefusedInv ==
    \A r \in Reqs : \A p \in Elements(r.packets) :
        p.id \in refused => \E t \in Thread : \E f \in Frames(t) : Walking(f, r.ip)

(* What a call that is to store its count, or that gives up, says of the   *)
(* request it points to                                                    *)
CallCounts(f, r) ==
    /\ f.pc = "count" => f.loaded < r.broadcasts
    /\ f.pc = "walk" => MaxSent <= r.broadcasts

(* No attempt is counted that was not made: what a call has loaded, and is *)
(* to store with one added, does not count its own broadcast.              *)
CountInv ==
    \A r \in Reqs :
        /\ r.times_sent <= r.broadcasts
        /\ \A t \in Thread : \A f \in Frames(t) :
              f.req.live /\ f.req.ip = r.ip => CallCounts(f, r)

RouterInv ==
    /\ TypeOK /\ UniqueIp(requests)
    /\ HopInv /\ FrameInv /\ SweepInv /\ BelowInv
    /\ IdInv /\ SentInv /\ WalkInv /\ RefusedInv /\ NoneLost /\ CountInv

-----------------------------------------------------------------------------
(* Elements of sequences *)

LEMMA AppendElements ==
    ASSUME NEW S, NEW b \in Seq(S), NEW x \in S
    PROVE  /\ Append(b, x) \in Seq(S) /\ Append(b, x) # << >>
           /\ Append(b, x)[Len(Append(b, x))] = x
           /\ SubSeq(Append(b, x), 1, Len(Append(b, x)) - 1) = b
           /\ Elements(Append(b, x)) = Elements(b) \cup {x}
<1> DEFINE s == Append(b, x)
<1>1. /\ s \in Seq(S) /\ Len(s) = Len(b) + 1 /\ s[Len(s)] = x
      /\ \A k \in 1 .. Len(b) : s[k] = b[k]
  OBVIOUS
<1>2. s # << >>
  BY <1>1
<1>3. SubSeq(s, 1, Len(s) - 1) = b
  <2>1. Len(b) \in Nat /\ Len(s) - 1 = Len(b)
    BY <1>1
  <2>2. SubSeq(s, 1, Len(b)) \in Seq(S) /\ Len(SubSeq(s, 1, Len(b))) = Len(b)
    BY <1>1, <2>1
  <2>3. \A k \in 1 .. Len(b) : SubSeq(s, 1, Len(b))[k] = b[k]
    BY <1>1, <2>1, <2>2
  <2> QED  BY <2>1, <2>2, <2>3, SeqEqual
<1>4. Elements(s) = Elements(b) \cup {x}
  <2>1. ASSUME NEW e \in Elements(s) PROVE e \in Elements(b) \cup {x}
    BY <1>1 DEF Elements
  <2>2. ASSUME NEW e \in Elements(b) PROVE e \in Elements(s)
    <3>1. PICK k \in 1 .. Len(b) : e = b[k]
      BY DEF Elements
    <3> QED  BY <1>1, <3>1 DEF Elements
  <2>3. x \in Elements(s)
    BY <1>1 DEF Elements
  <2> QED  BY <2>1, <2>2, <2>3
<1> QED  BY <1>1, <1>2, <1>3, <1>4

LEMMA TopElements ==
    ASSUME NEW S, NEW s \in Seq(S), s # << >>
    PROVE  /\ SubSeq(s, 1, Len(s) - 1) \in Seq(S)
           /\ s[Len(s)] \in S
           /\ Elements(s) = Elements(SubSeq(s, 1, Len(s) - 1)) \cup {s[Len(s)]}
<1>1. PICK b \in Seq(S), x \in S : s = Append(b, x)
  BY SequenceEmptyOrAppend
<1>2. /\ s[Len(s)] = x /\ SubSeq(s, 1, Len(s) - 1) = b
      /\ Elements(s) = Elements(b) \cup {x}
  BY <1>1, AppendElements, ZenonT(60)
<1> QED  BY <1>2, Zenon

LEMMA ConsElements ==
    ASSUME NEW S, NEW s \in Seq(S), NEW x \in S
    PROVE  /\ <<x>> \o s \in Seq(S) /\ <<x>> \o s # << >>
           /\ Len(<<x>> \o s) = Len(s) + 1
           /\ (<<x>> \o s)[1] = x
           /\ \A k \in 2 .. Len(s) + 1 : (<<x>> \o s)[k] = s[k - 1]
           /\ Elements(<<x>> \o s) = Elements(s) \cup {x}
<1> DEFINE c == <<x>> \o s
<1>1. /\ c \in Seq(S) /\ Len(c) = Len(s) + 1 /\ c[1] = x
      /\ \A k \in 2 .. Len(s) + 1 : c[k] = s[k - 1]
  OBVIOUS
<1>2. c # << >>
  BY <1>1
<1>3. ASSUME NEW e \in Elements(c) PROVE e \in Elements(s) \cup {x}
  <2>1. PICK k \in 1 .. Len(c) : e = c[k]
    BY <1>1 DEF Elements
  <2>2. CASE k = 1
    BY <1>1, <2>1, <2>2
  <2>3. CASE k # 1
    <3>1. k - 1 \in 1 .. Len(s) /\ e = s[k - 1]
      BY <1>1, <2>1, <2>3
    <3> QED  BY <3>1 DEF Elements
  <2> QED  BY <2>2, <2>3
<1>4. ASSUME NEW e \in Elements(s) PROVE e \in Elements(c)
  <2>1. PICK k \in 1 .. Len(s) : e = s[k]
    BY DEF Elements
  <2>2. k + 1 \in 1 .. Len(c) /\ c[k + 1] = e
    BY <1>1, <2>1
  <2> QED  BY <1>1, <2>2 DEF Elements
<1>5. x \in Elements(c)
  BY <1>1 DEF Elements
<1> QED  BY <1>1, <1>2, <1>3, <1>4, <1>5

LEMMA TailElements ==
    ASSUME NEW S, NEW s \in Seq(S), s # << >>
    PROVE  /\ Tail(s) \in Seq(S) /\ Head(s) \in S
           /\ Elements(s) = Elements(Tail(s)) \cup {Head(s)}
<1>1. /\ Len(s) \in Nat /\ Len(s) > 0
      /\ Tail(s) \in Seq(S) /\ Len(Tail(s)) = Len(s) - 1
      /\ \A k \in 1 .. Len(s) - 1 : Tail(s)[k] = s[k + 1]
      /\ Head(s) = s[1] /\ Head(s) \in S
  OBVIOUS
<1>2. ASSUME NEW e \in Elements(s) PROVE e \in Elements(Tail(s)) \cup {Head(s)}
  <2>1. PICK k \in 1 .. Len(s) : e = s[k]
    BY DEF Elements
  <2>2. CASE k = 1
    BY <1>1, <2>1, <2>2
  <2>3. CASE k # 1
    <3>1. /\ k - 1 \in 1 .. Len(Tail(s)) /\ e = Tail(s)[k - 1]
          /\ DOMAIN Tail(s) = 1 .. Len(Tail(s))
      BY <1>1, <2>1, <2>3
    <3> QED  BY <3>1 DEF Elements
  <2> QED  BY <2>2, <2>3
<1>3. ASSUME NEW e \in Elements(Tail(s)) PROVE e \in Elements(s)
  <2>1. PICK k \in 1 .. Len(Tail(s)) : e = Tail(s)[k]
    BY <1>1 DEF Elements
  <2>2. k + 1 \in 1 .. Len(s) /\ s[k + 1] = e
    BY <1>1, <2>1
  <2> QED  BY <1>1, <2>2 DEF Elements
<1>4. Head(s) \in Elements(s)
  BY <1>1 DEF Elements
<1> QED  BY <1>1, <1>2, <1>3, <1>4

LEMMA EmptyElements == Elements(<< >>) = {}
  BY DEF Elements

(* Every element of a sequence over S is in S. *)
LEMMA ElementType ==
    ASSUME NEW S, NEW s \in Seq(S)
    PROVE  Elements(s) \subseteq S
  BY DEF Elements

(* A sequence rewritten element by element *)
LEMMA MappedElements ==
    ASSUME NEW S, NEW s \in Seq(S), NEW g,
           g = [i \in DOMAIN s |-> g[i]],
           \A i \in DOMAIN s : g[i] \in S
    PROVE  g \in Seq(S) /\ DOMAIN g = DOMAIN s /\ Len(g) = Len(s)
<1>1. DOMAIN s = 1 .. Len(s) /\ Len(s) \in Nat
  OBVIOUS
<1>2. g \in [1 .. Len(s) -> S]
  BY <1>1
<1>3. g \in Seq(S)
  BY <1>1, <1>2
<1> QED  BY <1>1, <1>2, <1>3

-----------------------------------------------------------------------------
(* Operations of the request queue *)

LEMMA TheIndex ==
    ASSUME UniqueIp(requests), NEW ip, NEW i \in DOMAIN requests, requests[i].ip = ip
    PROVE  /\ Index(ip) = i /\ Indexes(ip) = {i}
           /\ \A j \in DOMAIN requests : requests[j].ip = ip => j = i
           /\ \A r \in Reqs : r.ip = ip => r = requests[i]
<1>1. \A j \in DOMAIN requests : requests[j].ip = ip => j = i
  BY DEF UniqueIp
<1>2. Indexes(ip) = {i}
  BY <1>1 DEF Indexes
<1>3. Index(ip) = i
  BY <1>2 DEF Index
<1>4. \A r \in Reqs : r.ip = ip => r = requests[i]
  BY <1>1 DEF Reqs, Elements
<1> QED  BY <1>1, <1>2, <1>3, <1>4

LEMMA IndexExists ==
    ASSUME NEW ip, NEW r \in Reqs, r.ip = ip
    PROVE  \E i \in DOMAIN requests : requests[i] = r
  BY DEF Reqs, Elements

(* One request replaced by another for the same address *)
LEMMA ReplacedRequest ==
    ASSUME requests \in Seq(Request), UniqueIp(requests),
           NEW i \in DOMAIN requests, NEW n \in Request, n.ip = requests[i].ip
    PROVE  LET q == [requests EXCEPT ![i] = n] IN
           /\ q \in Seq(Request) /\ UniqueIp(q)
           /\ Elements(q) = {r \in Reqs : r.ip # n.ip} \cup {n}
<1> DEFINE q == [requests EXCEPT ![i] = n]
<1>1. /\ q \in Seq(Request) /\ DOMAIN q = DOMAIN requests
      /\ q[i] = n /\ \A j \in DOMAIN requests : j # i => q[j] = requests[j]
  OBVIOUS
<1>2. UniqueIp(q)
  BY <1>1 DEF UniqueIp
<1>3. ASSUME NEW e \in Elements(q) PROVE e \in {r \in Reqs : r.ip # n.ip} \cup {n}
  <2>1. PICK j \in DOMAIN requests : e = q[j]
    BY <1>1 DEF Elements
  <2>2. CASE j = i
    BY <1>1, <2>1, <2>2
  <2>3. CASE j # i
    <3>1. e = requests[j] /\ e.ip # n.ip
      BY <1>1, <2>1, <2>3 DEF UniqueIp
    <3> QED  BY <3>1 DEF Reqs, Elements
  <2> QED  BY <2>2, <2>3
<1>4. ASSUME NEW r \in Reqs, r.ip # n.ip PROVE r \in Elements(q)
  <2>1. PICK j \in DOMAIN requests : r = requests[j]
    BY DEF Reqs, Elements
  <2>2. j # i
    BY <1>4, <2>1
  <2> QED  BY <1>1, <2>1, <2>2 DEF Elements
<1>5. n \in Elements(q)
  BY <1>1 DEF Elements
<1> QED  BY <1>1, <1>2, <1>3, <1>4, <1>5

(* sr_arpreq_destroy() and the reply: the request for the address is gone. *)
LEMMA WithoutRequest ==
    ASSUME requests \in Seq(Request), UniqueIp(requests),
           NEW i \in DOMAIN requests
    PROVE  /\ Without(i) \in Seq(Request) /\ UniqueIp(Without(i))
           /\ Elements(Without(i)) = {r \in Reqs : r.ip # requests[i].ip}
<1> DEFINE n == Len(requests)
           w == Without(i)
<1>1. n \in Nat /\ i \in 1 .. n /\ DOMAIN requests = 1 .. n
  OBVIOUS
<1>2. /\ SubSeq(requests, 1, i - 1) \in Seq(Request)
      /\ Len(SubSeq(requests, 1, i - 1)) = i - 1
      /\ \A j \in 1 .. i - 1 : SubSeq(requests, 1, i - 1)[j] = requests[j]
  BY <1>1
<1>3. /\ SubSeq(requests, i + 1, n) \in Seq(Request)
      /\ Len(SubSeq(requests, i + 1, n)) = n - i
      /\ \A j \in 1 .. n - i : SubSeq(requests, i + 1, n)[j] = requests[j + i]
  BY <1>1
<1> DEFINE a == SubSeq(requests, 1, i - 1)
           b == SubSeq(requests, i + 1, n)
<1>a. w = a \o b
  BY DEF Without
<1> HIDE DEF a, b, w
<1>b. /\ a \in Seq(Request) /\ Len(a) = i - 1 /\ \A j \in 1 .. i - 1 : a[j] = requests[j]
      /\ b \in Seq(Request) /\ Len(b) = n - i /\ \A j \in 1 .. n - i : b[j] = requests[j + i]
  BY <1>2, <1>3 DEF a, b
<1>c. /\ w \in Seq(Request) /\ Len(w) = Len(a) + Len(b)
      /\ \A j \in 1 .. Len(a) + Len(b) : w[j] = IF j <= Len(a) THEN a[j] ELSE b[j - Len(a)]
  BY <1>a, <1>b, ConcatProperties
<1>4. w \in Seq(Request) /\ Len(w) = n - 1
  BY <1>1, <1>b, <1>c
<1>5. ASSUME NEW j \in 1 .. n - 1
      PROVE  w[j] = IF j < i THEN requests[j] ELSE requests[j + 1]
  <2>1. CASE j < i
    BY <1>1, <1>b, <1>c, <2>1
  <2>2. CASE ~(j < i)
    <3>1. w[j] = b[j - (i - 1)] /\ j - (i - 1) \in 1 .. n - i
      BY <1>1, <1>b, <1>c, <2>2, SMTT(30)
    <3>2. b[j - (i - 1)] = requests[j - (i - 1) + i]
      BY <1>b, <3>1
    <3>3. j - (i - 1) + i = j + 1
      BY <1>1
    <3> QED  BY <2>2, <3>1, <3>2, <3>3
  <2> QED  BY <2>1, <2>2
<1>6. DOMAIN w = 1 .. n - 1
  BY <1>1, <1>4
<1>7. UniqueIp(w)
  <2>1. SUFFICES ASSUME NEW j \in 1 .. n - 1, NEW k \in 1 .. n - 1, w[j].ip = w[k].ip
                 PROVE  j = k
    BY <1>6 DEF UniqueIp
  <2>2. PICK c \in 1 .. n : w[j] = requests[c] /\ c = IF j < i THEN j ELSE j + 1
    BY <1>1, <1>5
  <2>3. PICK d \in 1 .. n : w[k] = requests[d] /\ d = IF k < i THEN k ELSE k + 1
    BY <1>1, <1>5
  <2>4. c = d
    BY <1>1, <2>1, <2>2, <2>3 DEF UniqueIp
  <2> QED  BY <1>1, <2>2, <2>3, <2>4
<1>8. ASSUME NEW e \in Elements(w) PROVE e \in Reqs /\ e.ip # requests[i].ip
  <2>1. PICK j \in 1 .. n - 1 : e = w[j]
    BY <1>6 DEF Elements
  <2>2. PICK c \in 1 .. n : w[j] = requests[c] /\ c # i
    BY <1>1, <1>5, <2>1
  <2> QED  BY <1>1, <2>1, <2>2 DEF UniqueIp, Reqs, Elements
<1>9. ASSUME NEW r \in Reqs, r.ip # requests[i].ip PROVE r \in Elements(w)
  <2>1. PICK c \in 1 .. n : r = requests[c]
    BY <1>1 DEF Reqs, Elements
  <2>2. c # i
    BY <1>9, <2>1
  <2>3. PICK j \in 1 .. n - 1 : w[j] = requests[c]
    <3>1. CASE c < i
      BY <1>1, <1>5, <3>1
    <3>2. CASE c > i
      <4>1. c - 1 \in 1 .. n - 1 /\ w[c - 1] = requests[c]
        BY <1>1, <1>5, <3>2
      <4> QED  BY <4>1
    <3> QED  BY <1>1, <2>2, <3>1, <3>2
  <2> QED  BY <1>6, <2>1, <2>3 DEF Elements
<1> QED  BY <1>4, <1>7, <1>8, <1>9 DEF w

SameCount(r, s) == r.times_sent = s.times_sent /\ r.broadcasts = s.broadcasts

(* sr_arpcache_queuereq(): the request for ip holds the packet as well as  *)
(* what it held, and the others are as they were.                          *)
LEMMA QueuedRequest ==
    ASSUME requests \in Seq(Request), UniqueIp(requests),
           NEW ip \in Address, NEW p \in Packet
    PROVE  /\ QueueReq(ip, p) \in Seq(Request) /\ UniqueIp(QueueReq(ip, p))
           /\ \E n \in Request :
                /\ n.ip = ip /\ n.packets # << >>
                /\ Elements(QueueReq(ip, p)) = {r \in Reqs : r.ip # ip} \cup {n}
                /\ Elements(n.packets) =
                      {p} \cup UNION {Elements(r.packets) : r \in {s \in Reqs : s.ip = ip}}
                /\ \A r \in Reqs : r.ip = ip => SameCount(r, n)
                /\ (\A r \in Reqs : r.ip # ip) => n.times_sent = 0 /\ n.broadcasts = 0
<1>1. CASE Indexes(ip) = {}
  <2>1. \A r \in Reqs : r.ip # ip
    BY <1>1 DEF Indexes, Reqs, Elements
  <2> DEFINE n == NewRequest(ip, p)
             q == <<n>> \o requests
  <2>2. QueueReq(ip, p) = q
    BY <1>1 DEF QueueReq
  <2>3. /\ n \in Request /\ n.ip = ip /\ n.packets = <<p>>
        /\ n.times_sent = 0 /\ n.broadcasts = 0
    BY DEF NewRequest, Request, DueAge
  <2>4. Elements(n.packets) = {p} /\ n.packets # << >>
    BY <2>3 DEF Elements
  <2> HIDE DEF n
  <2>5. /\ q \in Seq(Request) /\ Elements(q) = Reqs \cup {n}
        /\ Len(q) = Len(requests) + 1 /\ q[1] = n
        /\ \A k \in 2 .. Len(requests) + 1 : q[k] = requests[k - 1]
    BY <2>3, ConsElements DEF Reqs
  <2>6. UniqueIp(q)
    <3> HIDE DEF q
    <3>1. Len(requests) \in Nat /\ DOMAIN requests = 1 .. Len(requests)
          /\ DOMAIN q = 1 .. Len(requests) + 1
      BY <2>5
    <3>2. \A k \in DOMAIN q : k # 1 => q[k].ip # ip /\ k - 1 \in DOMAIN requests
                                       /\ q[k] = requests[k - 1]
      <4>1. \A k \in DOMAIN requests : requests[k].ip # ip
        BY <1>1 DEF Indexes
      <4> QED  BY <2>5, <3>1, <4>1
    <3>3. SUFFICES ASSUME NEW j \in DOMAIN q, NEW k \in DOMAIN q, q[j].ip = q[k].ip
                   PROVE  j = k
      BY DEF UniqueIp
    <3>4. CASE j = 1 \/ k = 1
      BY <2>3, <2>5, <3>2, <3>3, <3>4
    <3>5. CASE j # 1 /\ k # 1
      <4>1. j - 1 = k - 1
        BY <3>2, <3>3, <3>5 DEF UniqueIp
      <4> QED  BY <3>1, <4>1
    <3> QED  BY <3>4, <3>5
  <2> HIDE DEF q
  <2>7. {r \in Reqs : r.ip # ip} = Reqs /\ {s \in Reqs : s.ip = ip} = {}
    BY <2>1
  <2>8. UNION {Elements(r.packets) : r \in {s \in Reqs : s.ip = ip}} = {}
    BY <2>7
  <2> QED  BY <2>1, <2>2, <2>3, <2>4, <2>5, <2>6, <2>7, <2>8
<1>2. CASE Indexes(ip) # {}
  <2>1. PICK i \in DOMAIN requests : requests[i].ip = ip
    BY <1>2 DEF Indexes
  <2>2. /\ Index(ip) = i
        /\ \A r \in Reqs : r.ip = ip => r = requests[i]
    BY <2>1, TheIndex
  <2>3. requests[i] \in Request /\ requests[i] \in Reqs
    BY DEF Reqs, Elements
  <2> DEFINE c == <<p>> \o requests[i].packets
             n == [requests[i] EXCEPT !.packets = c]
  <2>4. requests[i].packets \in Seq(Packet)
    BY <2>3 DEF Request
  <2>5. /\ c \in Seq(Packet) /\ c # << >>
        /\ Elements(c) = Elements(requests[i].packets) \cup {p}
    BY <2>4, ConsElements
  <2>6. QueueReq(ip, p) = [requests EXCEPT ![i] = n]
    BY <1>2, <2>2 DEF QueueReq
  <2> HIDE DEF c
  <2>7. /\ n \in Request /\ n.ip = ip /\ n.packets = c
        /\ SameCount(requests[i], n)
    BY <2>1, <2>3, <2>5 DEF Request, SameCount
  <2> HIDE DEF n
  <2>8. /\ QueueReq(ip, p) \in Seq(Request) /\ UniqueIp(QueueReq(ip, p))
        /\ Elements(QueueReq(ip, p)) = {r \in Reqs : r.ip # ip} \cup {n}
    BY <2>1, <2>6, <2>7, ReplacedRequest, ZenonT(60)
  <2>9. {s \in Reqs : s.ip = ip} = {requests[i]}
    BY <2>1, <2>2, <2>3
  <2>10. UNION {Elements(r.packets) : r \in {s \in Reqs : s.ip = ip}}
            = Elements(requests[i].packets)
    BY <2>9
  <2> QED  BY <2>1, <2>2, <2>3, <2>5, <2>7, <2>8, <2>10
<1> QED  BY <1>1, <1>2

-----------------------------------------------------------------------------
(* Steps that keep what waits: nothing is queued, sent on or refused. *)

LEMMA QueuedIff ==
    /\ \A id : Queued(id) <=> \E r \in Reqs : \E p \in Elements(r.packets) : p.id = id
    /\ \A id : Queued(id)' <=> \E r \in Reqs' : \E p \in Elements(r.packets) : p.id = id
<1>1. \A id : Queued(id) <=> \E r \in Reqs : \E p \in Elements(r.packets) : p.id = id
  BY DEF Queued, QueuedPackets, Reqs, Elements
<1>2. \A id : Queued(id)' <=> \E r \in Reqs' : \E p \in Elements(r.packets) : p.id = id
  BY DEF Queued, QueuedPackets, Reqs, Elements
<1> QED  BY <1>1, <1>2

(* The parts of the invariant about packets and the calls that walk them *)
PacketInv ==
    HopInv /\ FrameInv /\ IdInv /\ SentInv /\ WalkInv /\ RefusedInv /\ NoneLost

(* Every request keeps its address and its packets. *)
SameQueue ==
    /\ \A r \in Reqs' : \E s \in Reqs : s.ip = r.ip /\ s.packets = r.packets
    /\ \A s \in Reqs : \E r \in Reqs' : s.ip = r.ip /\ s.packets = r.packets

(* A walk in progress stays, and a walk that begins has all the packets. *)
SameWalks ==
    \A t \in Thread :
        /\ \A f \in Frames(t) : f.pc = "walk" => f \in Frames(t)'
        /\ \A f \in Frames(t)' :
              /\ f.req.ip \in Address
              /\ f.req.live => \E r \in Reqs : r.ip = f.req.ip
              /\ f.pc = "walk" => \/ f \in Frames(t)
                                  \/ \A r \in Reqs : r.ip = f.req.ip => f.walk = r.packets

LEMMA PacketsKept ==
    ASSUME PacketInv, SameQueue, SameWalks, arrived \in Nat, arrived' \in Nat,
           arrived <= arrived', UNCHANGED <<transit, forwarded, refused>>
    PROVE  PacketInv'
<1>1. HopInv'
  BY DEF PacketInv, SameQueue, HopInv
<1>2. FrameInv'
  BY DEF SameQueue, SameWalks, FrameInv
<1>3. IdInv'
  <2>1. ASSUME NEW x \in 1 .. arrived PROVE x \in 1 .. arrived'
    OBVIOUS
  <2>2. ASSUME NEW x \in 0 .. arrived PROVE x \in 0 .. arrived'
    OBVIOUS
  <2>3. /\ refused' \subseteq 1 .. arrived' /\ transit' \subseteq 1 .. arrived'
        /\ \A f \in forwarded' : f[1] \in 1 .. arrived'
    BY <2>1 DEF PacketInv, IdInv
  <2>4. ASSUME NEW r \in Reqs', NEW p \in Elements(r.packets)
        PROVE  /\ p.id \in 0 .. arrived'
               /\ \A s \in Reqs' : \A q \in Elements(s.packets) :
                     p.id = q.id /\ p.id # 0 => p = q
    <3>1. PICK r0 \in Reqs : r0.packets = r.packets
      BY DEF SameQueue
    <3>2. p.id \in 0 .. arrived'
      BY <2>2, <3>1 DEF PacketInv, IdInv
    <3>3. ASSUME NEW s \in Reqs', NEW q \in Elements(s.packets), p.id = q.id, p.id # 0
          PROVE  p = q
      <4>1. PICK s0 \in Reqs : s0.packets = s.packets
        BY DEF SameQueue
      <4> QED  BY <3>1, <3>3, <4>1 DEF PacketInv, IdInv
    <3> QED  BY <3>2, <3>3
  <2> QED  BY <2>3, <2>4 DEF IdInv
<1>4. SentInv'
  BY DEF PacketInv, SentInv, SameQueue
<1>5. WalkInv'
  <2>1. SUFFICES ASSUME NEW t \in Thread, NEW f \in Frames(t)', NEW r \in Reqs',
                        Walking(f, r.ip)
                 PROVE  /\ Elements(f.walk) \subseteq Elements(r.packets)
                        /\ \A p \in Elements(r.packets) :
                              p.id = 0 \/ p.id \in refused \/ p \in Elements(f.walk)
    BY DEF WalkInv
  <2>2. PICK s \in Reqs : s.ip = r.ip /\ s.packets = r.packets
    BY DEF SameQueue
  <2>3. CASE f \in Frames(t)
    BY <2>1, <2>2, <2>3 DEF PacketInv, WalkInv
  <2>4. CASE f \notin Frames(t)
    <3>1. f.walk = r.packets
      BY <2>1, <2>2, <2>4 DEF SameWalks, Walking
    <3> QED  BY <3>1
  <2> QED  BY <2>3, <2>4
<1>6. RefusedInv'
  <2>1. SUFFICES ASSUME NEW r \in Reqs', NEW p \in Elements(r.packets), p.id \in refused
                 PROVE  \E t \in Thread : \E f \in Frames(t)' : Walking(f, r.ip)
    BY DEF RefusedInv
  <2>2. PICK s \in Reqs : s.ip = r.ip /\ s.packets = r.packets
    BY DEF SameQueue
  <2>3. PICK t \in Thread : \E f \in Frames(t) : Walking(f, r.ip)
    BY <2>1, <2>2 DEF PacketInv, RefusedInv
  <2>4. PICK f \in Frames(t) : Walking(f, r.ip)
    BY <2>3
  <2>5. f \in Frames(t)'
    BY <2>4 DEF SameWalks, Walking
  <2> QED  BY <2>4, <2>5
<1>7. NoneLost'
  <2>1. SUFFICES ASSUME NEW id \in transit PROVE Queued(id)' \/ Sent(id)' \/ id \in refused'
    BY DEF NoneLost
  <2>2. Sent(id)' = Sent(id)
    BY DEF Sent
  <2>3. Queued(id) => Queued(id)'
    BY QueuedIff DEF SameQueue
  <2> QED  BY <2>2, <2>3 DEF PacketInv, NoneLost
<1> QED  BY <1>1, <1>2, <1>3, <1>4, <1>5, <1>6, <1>7 DEF PacketInv

SameCall(g, f) ==
    g.pc = f.pc /\ g.loaded = f.loaded /\ g.req.live /\ g.req.ip = f.req.ip

(* Every call that counts or gives up has been there before. *)
SameCalls ==
    \A t \in Thread : \A f \in Frames(t)' :
        f.pc \in {"count", "walk"} /\ f.req.live => \E g \in Frames(t) : SameCall(g, f)

LEMMA QueueUnchanged ==
    ASSUME UNCHANGED requests
    PROVE  SameQueue /\ Reqs' = Reqs
  BY DEF SameQueue, Reqs

LEMMA StackUnchanged ==
    ASSUME FrameInv, UNCHANGED stack
    PROVE  /\ SameWalks /\ BelowInv' = BelowInv
           /\ \A t \in Thread : Frames(t)' = Frames(t)
           /\ SameCalls
<1>1. \A t \in Thread : Frames(t)' = Frames(t)
  BY DEF Frames
<1>2. SameWalks
  BY <1>1 DEF SameWalks, FrameInv
<1>3. BelowInv' = BelowInv
  BY DEF BelowInv, Below
<1>4. SameCalls
  BY <1>1 DEF SameCalls, SameCall
<1> QED  BY <1>1, <1>2, <1>3, <1>4

(* No call begins to give up or to count, and no attempt is made. *)
LEMMA CountsKept ==
    ASSUME CountInv, SameCalls,
           \A r \in Reqs' : \E s \in Reqs : s.ip = r.ip /\ SameCount(s, r)
    PROVE  CountInv'
<1>1. SUFFICES ASSUME NEW r \in Reqs'
               PROVE  /\ r.times_sent <= r.broadcasts
                      /\ \A t \in Thread : \A f \in Frames(t)' :
                            f.req.live /\ f.req.ip = r.ip => CallCounts(f, r)
  BY DEF CountInv, CallCounts
<1>2. PICK s \in Reqs : s.ip = r.ip /\ SameCount(s, r)
  OBVIOUS
<1>3. s.times_sent <= s.broadcasts
  BY DEF CountInv
<1>4. ASSUME NEW t \in Thread, NEW f \in Frames(t)', f.req.live, f.req.ip = r.ip
      PROVE  CallCounts(f, r)
  <2>1. CASE f.pc \in {"count", "walk"}
    <3>1. PICK g \in Frames(t) : SameCall(g, f)
      BY <1>4, <2>1 DEF SameCalls
    <3>2. CallCounts(g, s)
      BY <1>2, <1>4, <3>1 DEF CountInv, SameCall
    <3> QED  BY <1>2, <3>1, <3>2 DEF CallCounts, SameCall, SameCount
  <2>2. CASE f.pc \notin {"count", "walk"}
    BY <2>2 DEF CallCounts
  <2> QED  BY <2>1, <2>2
<1> QED  BY <1>2, <1>3, <1>4 DEF SameCount

(* Nothing but entries, asked, woken, fault and the counter changes. *)
LEMMA QuietStep ==
    ASSUME RouterInv, TypeOK', arrived <= arrived',
           UNCHANGED <<requests, stack, lock, next_req, transit, forwarded, refused>>
    PROVE  RouterInv'
<1> USE DEF RouterInv
<1>1. PacketInv
  BY DEF PacketInv
<1>2. SameQueue /\ SameWalks /\ Reqs' = Reqs /\ BelowInv'
  BY QueueUnchanged, StackUnchanged
<1>3. PacketInv'
  BY <1>1, <1>2, PacketsKept DEF TypeOK
<1>4. SweepInv'
  BY <1>2 DEF SweepInv
<1>5. CountInv'
  BY <1>2, StackUnchanged, CountsKept DEF SameCount
<1>6. UniqueIp(requests)'
  BY DEF UniqueIp
<1> QED  BY <1>2, <1>3, <1>4, <1>5, <1>6 DEF PacketInv

-----------------------------------------------------------------------------
(* Calls *)

LEMMA TopOfStack ==
    ASSUME stack \in [Thread -> Seq(Frame)], NEW t \in Thread, stack[t] # << >>
    PROVE  /\ Below(t) \in Seq(Frame) /\ Top(t) \in Frame /\ Top(t) \in Frames(t)
           /\ Frames(t) = Elements(Below(t)) \cup {Top(t)}
<1>1. stack[t] \in Seq(Frame)
  OBVIOUS
<1>2. /\ SubSeq(stack[t], 1, Len(stack[t]) - 1) \in Seq(Frame)
      /\ stack[t][Len(stack[t])] \in Frame
      /\ Elements(stack[t]) = Elements(SubSeq(stack[t], 1, Len(stack[t]) - 1))
                                 \cup {stack[t][Len(stack[t])]}
  BY <1>1, TopElements
<1> QED  BY <1>2 DEF Below, Top, Frames

(* The call in progress returns. *)
LEMMA Popped ==
    ASSUME RouterInv, NEW t \in Thread, stack[t] # << >>,
           stack' = [stack EXCEPT ![t] = Below(t)]
    PROVE  /\ stack' \in [Thread -> Seq(Frame)] /\ BelowInv'
           /\ Frames(t)' = Elements(Below(t))
           /\ \A u \in Thread : u # t => Frames(u)' = Frames(u)
<1>1. stack \in [Thread -> Seq(Frame)] /\ BelowInv
  BY DEF RouterInv, TypeOK
<1>2. Below(t) \in Seq(Frame)
  BY <1>1, TopOfStack
<1>3. /\ stack' \in [Thread -> Seq(Frame)] /\ stack'[t] = Below(t)
      /\ \A u \in Thread : u # t => stack'[u] = stack[u]
  BY <1>1, <1>2
<1>4. Frames(t)' = Elements(Below(t)) /\ \A u \in Thread : u # t => Frames(u)' = Frames(u)
  BY <1>3 DEF Frames
<1>5. ASSUME Below(t) # << >>
      PROVE  Top(t)' \in Elements(Below(t)) /\ Elements(Below(t)') \subseteq Elements(Below(t))
  <2>1. Elements(Below(t)) = Elements(SubSeq(Below(t), 1, Len(Below(t)) - 1))
                                \cup {Below(t)[Len(Below(t))]}
    BY <1>2, <1>5, TopElements
  <2>2. Below(t)' = SubSeq(Below(t), 1, Len(Below(t)) - 1) /\ Top(t)' = Below(t)[Len(Below(t))]
    BY <1>3 DEF Below, Top
  <2> QED  BY <2>1, <2>2
<1>6. \A f \in Elements(Below(t)) : f.pc = "walk"
  BY <1>1 DEF BelowInv
<1>7. BelowInv'
  <2>1. SUFFICES ASSUME NEW u \in Thread, stack'[u] # << >>, NEW f \in Elements(Below(u)')
                 PROVE  f.pc = "walk"
    BY DEF BelowInv
  <2>2. CASE u = t
    BY <1>3, <1>5, <1>6, <2>1, <2>2
  <2>3. CASE u # t
    BY <1>1, <1>3, <2>1, <2>3 DEF BelowInv, Below
  <2> QED  BY <2>2, <2>3
<1> QED  BY <1>3, <1>4, <1>7

(* The call in progress goes on at another place. *)
LEMMA Replaced ==
    ASSUME RouterInv, NEW t \in Thread, stack[t] # << >>, NEW f \in Frame,
           stack' = [stack EXCEPT ![t] = Append(Below(t), f)]
    PROVE  /\ stack' \in [Thread -> Seq(Frame)] /\ BelowInv'
           /\ Frames(t)' = Elements(Below(t)) \cup {f}
           /\ stack'[t] # << >> /\ Top(t)' = f
           /\ \A u \in Thread : u # t => Frames(u)' = Frames(u)
<1>1. stack \in [Thread -> Seq(Frame)] /\ BelowInv
  BY DEF RouterInv, TypeOK
<1>2. Below(t) \in Seq(Frame)
  BY <1>1, TopOfStack
<1> DEFINE s == Append(Below(t), f)
<1>3. /\ s \in Seq(Frame) /\ s # << >> /\ s[Len(s)] = f
      /\ SubSeq(s, 1, Len(s) - 1) = Below(t)
      /\ Elements(s) = Elements(Below(t)) \cup {f}
  BY <1>2, AppendElements
<1> HIDE DEF s
<1>4. /\ stack' \in [Thread -> Seq(Frame)] /\ stack'[t] = s
      /\ \A u \in Thread : u # t => stack'[u] = stack[u]
  BY <1>1, <1>3 DEF s
<1>5. Below(t)' = Below(t) /\ Top(t)' = f
  BY <1>3, <1>4 DEF Below, Top
<1>6. /\ Frames(t)' = Elements(Below(t)) \cup {f}
      /\ \A u \in Thread : u # t => Frames(u)' = Frames(u)
  BY <1>3, <1>4 DEF Frames
<1>7. BelowInv'
  <2>1. SUFFICES ASSUME NEW u \in Thread, stack'[u] # << >>, NEW e \in Elements(Below(u)')
                 PROVE  e.pc = "walk"
    BY DEF BelowInv
  <2>2. CASE u = t
    BY <1>1, <1>5, <2>2 DEF BelowInv
  <2>3. CASE u # t
    BY <1>1, <1>4, <2>1, <2>3 DEF BelowInv, Below
  <2> QED  BY <2>2, <2>3
<1> QED  BY <1>3, <1>4, <1>5, <1>6, <1>7

(* A call is made by a call that walks, or by none. *)
LEMMA Pushed ==
    ASSUME RouterInv, NEW t \in Thread, NEW calls \in Seq(Frame), NEW f \in Frame,
           \A e \in Elements(calls) : e.pc = "walk",
           f.pc = "check",
           stack' = [stack EXCEPT ![t] = Append(calls, f)]
    PROVE  /\ stack' \in [Thread -> Seq(Frame)] /\ BelowInv'
           /\ Frames(t)' = Elements(calls) \cup {f}
           /\ \A u \in Thread : u # t => Frames(u)' = Frames(u)
<1>1. stack \in [Thread -> Seq(Frame)] /\ BelowInv
  BY DEF RouterInv, TypeOK
<1> DEFINE s == Append(calls, f)
<1>3. /\ s \in Seq(Frame) /\ s # << >> /\ s[Len(s)] = f
      /\ SubSeq(s, 1, Len(s) - 1) = calls
      /\ Elements(s) = Elements(calls) \cup {f}
  BY AppendElements
<1> HIDE DEF s
<1>4. /\ stack' \in [Thread -> Seq(Frame)] /\ stack'[t] = s
      /\ \A u \in Thread : u # t => stack'[u] = stack[u]
  BY <1>1, <1>3 DEF s
<1>5. Below(t)' = calls /\ Top(t)' = f
  BY <1>3, <1>4 DEF Below, Top
<1>6. /\ Frames(t)' = Elements(calls) \cup {f}
      /\ \A u \in Thread : u # t => Frames(u)' = Frames(u)
  BY <1>3, <1>4 DEF Frames
<1>7. BelowInv'
  <2>1. SUFFICES ASSUME NEW u \in Thread, stack'[u] # << >>, NEW e \in Elements(Below(u)')
                 PROVE  e.pc = "walk"
    BY DEF BelowInv
  <2>2. CASE u = t
    BY <1>5, <2>2
  <2>3. CASE u # t
    BY <1>1, <1>4, <2>1, <2>3 DEF BelowInv, Below
  <2> QED  BY <2>2, <2>3
<1> QED  BY <1>3, <1>4, <1>5, <1>6, <1>7

LEMMA CallType ==
    ASSUME NEW ip \in Address
    PROVE  /\ Call(ip) \in Frame /\ Call(ip).pc = "check"
           /\ Call(ip).req.ip = ip /\ Call(ip).req.live
  BY DEF Call, Frame, Pointer

(* A live pointer leads to the one request for its address. *)
LEMMA LiveRequest ==
    ASSUME RouterInv, NEW ip, \E r \in Reqs : r.ip = ip
    PROVE  /\ Index(ip) \in DOMAIN requests /\ requests[Index(ip)].ip = ip
           /\ requests[Index(ip)] \in Request /\ requests[Index(ip)] \in Reqs
           /\ \A r \in Reqs : r.ip = ip => r = requests[Index(ip)]
<1>1. PICK i \in DOMAIN requests : requests[i].ip = ip
  BY IndexExists
<1>2. /\ Index(ip) = i
      /\ \A r \in Reqs : r.ip = ip => r = requests[i]
  BY <1>1, TheIndex DEF RouterInv
<1>3. requests[i] \in Request /\ requests[i] \in Reqs
  BY DEF RouterInv, TypeOK, Reqs, Elements
<1> QED  BY <1>1, <1>2, <1>3

(* The sweeper's stack is empty unless it has the lock. *)
LEMMA RunningLocked ==
    ASSUME RouterInv, NEW t \in Thread, stack[t] # << >>
    PROVE  /\ Top(t) \in Frame /\ Top(t) \in Frames(t) /\ Top(t).req.ip \in Address
           /\ Top(t).req.live => \E r \in Reqs : r.ip = Top(t).req.ip
           /\ ~lock => t = "main"
<1>1. Top(t) \in Frame /\ Top(t) \in Frames(t)
  BY TopOfStack DEF RouterInv, TypeOK
<1>2. ~lock => t = "main"
  BY DEF RouterInv, SweepInv, Thread
<1> QED  BY <1>1, <1>2 DEF RouterInv, FrameInv

LEMMA FaultsStep ==
    ASSUME RouterInv, NEW kind \in {"null", "freed_request", "freed_next"},
           Faults(kind), UNCHANGED <<transit, forwarded, refused>>,
           arrived' = arrived \/ ReceiveCount
    PROVE  RouterInv'
<1>1. TypeOK' /\ arrived <= arrived'
  BY DEF RouterInv, TypeOK, Faults, cache, sweep, ReceiveCount
<1> QED  BY <1>1, QuietStep DEF Faults, cache, sweep

-----------------------------------------------------------------------------
(* The steps of handle_arpreq() before the walk, and the sweep *)

LEMMA HandleArpreqStep ==
    ASSUME RouterInv, NEW t \in Thread, HandleArpreq(t)
    PROVE  RouterInv'
<1>1. CASE ~Top(t).req.live
  BY <1>1, FaultsStep DEF HandleArpreq, history
<1>2. CASE Top(t).req.live
  <2> DEFINE top == Top(t)
             req == requests[Index(top.req.ip)]
             asks == [top EXCEPT !.pc = "ask"]
             walks == [top EXCEPT !.pc = "walk", !.walk = req.packets]
  <2>1. /\ stack[t] # << >> /\ top.pc = "check"
        /\ stack' = [stack EXCEPT ![t] =
               IF req.age < DueAge THEN Below(t)
               ELSE Append(Below(t), IF GivesUp(req) THEN walks ELSE asks)]
        /\ UNCHANGED <<cache, sweep, asked, fault, history>>
    BY <1>2 DEF HandleArpreq, Running, WalkStart
  <2>2. /\ top \in Frame /\ top \in Frames(t) /\ top.req.ip \in Address
        /\ \E r \in Reqs : r.ip = top.req.ip
    BY <1>2, <2>1, RunningLocked
  <2>3. /\ req \in Request /\ req \in Reqs /\ req.ip = top.req.ip
        /\ \A r \in Reqs : r.ip = top.req.ip => r = req
    BY <2>2, LiveRequest
  <2>4. Frames(t) = Elements(Below(t)) \cup {top}
    BY <2>1, TopOfStack DEF RouterInv, TypeOK
  <2> HIDE DEF top, req
  <2>5. /\ walks \in Frame /\ walks.req = top.req /\ walks.pc = "walk"
        /\ walks.walk = req.packets
        /\ asks \in Frame /\ asks.req = top.req /\ asks.pc = "ask"
    BY <2>2, <2>3 DEF Frame, Request
  <2> HIDE DEF walks, asks
  <2>6. SameQueue /\ Reqs' = Reqs /\ PacketInv /\ UniqueIp(requests)'
    BY <2>1, QueueUnchanged DEF cache, RouterInv, PacketInv, UniqueIp
  <2>7. ASSUME SameWalks, stack' \in [Thread -> Seq(Frame)], BelowInv', CountInv',
               stack'["sweeper"] # << >> => stack["sweeper"] # << >>
        PROVE  RouterInv'
    <3>1. TypeOK'
      BY <2>1, <2>7 DEF RouterInv, TypeOK, cache, sweep, history
    <3>2. PacketInv'
      BY <2>1, <2>6, <2>7, PacketsKept DEF RouterInv, TypeOK, history
    <3>3. SweepInv'
      BY <2>1, <2>6, <2>7 DEF RouterInv, SweepInv, sweep
    <3> QED  BY <2>6, <2>7, <3>1, <3>2, <3>3 DEF RouterInv, PacketInv
  <2>8. ASSUME NEW f \in Elements(Below(t)) PROVE f \in Frames(t)
    BY <2>4
  <2>9. CASE req.age < DueAge
    <3>1. stack' = [stack EXCEPT ![t] = Below(t)]
      BY <2>1, <2>9
    <3>2. /\ stack' \in [Thread -> Seq(Frame)] /\ BelowInv'
          /\ Frames(t)' = Elements(Below(t))
          /\ \A u \in Thread : u # t => Frames(u)' = Frames(u)
      BY <2>1, <3>1, Popped
    <3>3. SameWalks
      BY <2>1, <2>4, <3>2 DEF SameWalks, RouterInv, FrameInv
    <3>4. CountInv'
      <4>1. SameCalls
        BY <2>4, <3>2 DEF SameCalls, SameCall
      <4> QED  BY <2>6, <4>1, CountsKept DEF RouterInv, SameCount
    <3>5. stack'["sweeper"] # << >> => stack["sweeper"] # << >>
      BY <2>1, <3>1 DEF RouterInv, TypeOK
    <3> QED  BY <2>7, <3>2, <3>3, <3>4, <3>5
  <2>10. CASE ~(req.age < DueAge) /\ GivesUp(req)
    <3>1. stack' = [stack EXCEPT ![t] = Append(Below(t), walks)]
      BY <2>1, <2>10
    <3>2. /\ stack' \in [Thread -> Seq(Frame)] /\ BelowInv'
          /\ Frames(t)' = Elements(Below(t)) \cup {walks}
          /\ \A u \in Thread : u # t => Frames(u)' = Frames(u)
      BY <2>1, <2>5, <3>1, Replaced
    <3>3. SameWalks
      BY <2>1, <2>2, <2>3, <2>4, <2>5, <3>2 DEF SameWalks, RouterInv, FrameInv
    <3>4. CountInv'
      <4>1. MaxSent <= req.broadcasts
        <5>1. MaxSent <= req.times_sent /\ req.times_sent <= req.broadcasts
          BY <2>3, <2>10 DEF GivesUp, RouterInv, CountInv
        <5>2. MaxSent \in Nat /\ req.times_sent \in Nat /\ req.broadcasts \in Nat
          BY <2>3, ConstantsAssumption DEF Request
        <5> QED  BY <5>1, <5>2
      <4>2. ASSUME NEW r \in Reqs, walks.req.ip = r.ip PROVE CallCounts(walks, r)
        BY <2>3, <2>5, <4>1, <4>2 DEF CallCounts
      <4>3. \A r \in Reqs :
               /\ r.times_sent <= r.broadcasts
               /\ \A u \in Thread : \A f \in Frames(u) :
                     f.req.live /\ f.req.ip = r.ip => CallCounts(f, r)
        BY DEF RouterInv, CountInv
      <4>4. \A u \in Thread : \A f \in Frames(u)' : f \in Frames(u) \/ f = walks
        BY <2>4, <3>2
      <4> QED  BY <2>6, <4>2, <4>3, <4>4 DEF CountInv, CallCounts
    <3>5. stack'["sweeper"] # << >> => stack["sweeper"] # << >>
      BY <2>1, <3>1 DEF RouterInv, TypeOK
    <3> QED  BY <2>7, <3>2, <3>3, <3>4, <3>5
  <2>11. CASE ~(req.age < DueAge) /\ ~GivesUp(req)
    <3>1. stack' = [stack EXCEPT ![t] = Append(Below(t), asks)]
      BY <2>1, <2>11
    <3>2. /\ stack' \in [Thread -> Seq(Frame)] /\ BelowInv'
          /\ Frames(t)' = Elements(Below(t)) \cup {asks}
          /\ \A u \in Thread : u # t => Frames(u)' = Frames(u)
      BY <2>1, <2>5, <3>1, Replaced
    <3>3. SameWalks
      BY <2>1, <2>2, <2>3, <2>4, <2>5, <3>2 DEF SameWalks, RouterInv, FrameInv
    <3>4. CountInv'
      <4>1. SameCalls
        BY <2>4, <2>5, <3>2 DEF SameCalls, SameCall
      <4> QED  BY <2>6, <4>1, CountsKept DEF RouterInv, SameCount
    <3>5. stack'["sweeper"] # << >> => stack["sweeper"] # << >>
      BY <2>1, <3>1 DEF RouterInv, TypeOK
    <3> QED  BY <2>7, <3>2, <3>3, <3>4, <3>5
  <2> QED  BY <2>9, <2>10, <2>11
<1> QED  BY <1>1, <1>2

(* One request replaced, in a step that keeps what waits *)
LEMMA RequestUpdated ==
    ASSUME RouterInv, NEW ip, NEW i \in DOMAIN requests, requests[i].ip = ip,
           NEW n \in Request, n.ip = ip, n.packets = requests[i].packets,
           requests' = [requests EXCEPT ![i] = n]
    PROVE  /\ requests' \in Seq(Request) /\ UniqueIp(requests)' /\ SameQueue
           /\ Reqs' = {r \in Reqs : r.ip # ip} \cup {n}
<1>1. /\ [requests EXCEPT ![i] = n] \in Seq(Request)
      /\ UniqueIp([requests EXCEPT ![i] = n])
      /\ Elements([requests EXCEPT ![i] = n]) = {r \in Reqs : r.ip # n.ip} \cup {n}
  BY ReplacedRequest DEF RouterInv, TypeOK
<1>2. UniqueIp(requests)' = UniqueIp(requests')
  BY DEF UniqueIp
<1>3. /\ requests' \in Seq(Request) /\ UniqueIp(requests)'
      /\ Reqs' = {r \in Reqs : r.ip # ip} \cup {n}
  BY <1>1, <1>2 DEF Reqs
<1>4. requests[i] \in Reqs /\ \A r \in Reqs : r.ip = ip => r = requests[i]
  BY TheIndex DEF RouterInv, Reqs, Elements
<1>5. SameQueue
  BY <1>3, <1>4 DEF SameQueue
<1> QED  BY <1>3, <1>5

LEMMA SendArpRequestStep ==
    ASSUME RouterInv, NEW t \in Thread, SendArpRequest(t)
    PROVE  RouterInv'
<1>1. CASE ~Top(t).req.live
  BY <1>1, FaultsStep DEF SendArpRequest, history
<1>2. CASE Top(t).req.live
  <2>a. PICK ip : ip = Top(t).req.ip
    OBVIOUS
  <2> DEFINE i == Index(ip)
             req == requests[i]
             n == [req EXCEPT !.age = 0, !.broadcasts = @ + 1]
             f == [Top(t) EXCEPT !.pc = "count", !.loaded = req.times_sent]
  <2>2. /\ stack[t] # << >> /\ Top(t).pc = "ask"
        /\ ip \in Address /\ \E r \in Reqs : r.ip = ip
    BY <1>2, <2>a, RunningLocked DEF SendArpRequest, Running
  <2>3. /\ i \in DOMAIN requests /\ req \in Request /\ req \in Reqs /\ req.ip = ip
        /\ \A r \in Reqs : r.ip = ip => r = req
    BY <2>2, LiveRequest
  <2>1. /\ asked' = asked \cup {Head(req.packets).dst}
        /\ requests' = [requests EXCEPT ![i] = n]
        /\ stack' = [stack EXCEPT ![t] = Append(Below(t), f)]
        /\ UNCHANGED <<entries, sweep, fault, history>>
    <3>1. requests' = [requests EXCEPT ![i].age = 0, ![i].broadcasts = @ + 1]
      BY <1>2, <2>a DEF SendArpRequest
    <3>2. requests' = [requests EXCEPT ![i] = n]
      BY <2>3, <3>1 DEF RouterInv, TypeOK, Request
    <3> QED  BY <1>2, <2>a, <3>2 DEF SendArpRequest
  <2>5. /\ Frames(t) = Elements(Below(t)) \cup {Top(t)} /\ Top(t) \in Frame
    BY <2>2, TopOfStack DEF RouterInv, TypeOK
  <2>6. Head(req.packets).dst \in Address
    <3>1. req.packets \in Seq(Packet) /\ req.packets # << >>
      BY <2>3 DEF Request, RouterInv, HopInv
    <3>2. Head(req.packets) \in Packet
      BY <3>1, TailElements
    <3> QED  BY <3>2 DEF Packet
  <2> HIDE DEF i, req
  <2>7. /\ n \in Request /\ n.ip = ip /\ n.packets = req.packets
        /\ n.times_sent = req.times_sent /\ n.broadcasts = req.broadcasts + 1
    <3> DEFINE aged == [req EXCEPT !.age = 0]
    <3>1. /\ aged \in Request /\ aged.ip = req.ip /\ aged.packets = req.packets
          /\ aged.times_sent = req.times_sent /\ aged.broadcasts = req.broadcasts
          /\ req.broadcasts + 1 \in Nat
      BY <2>3 DEF Request, DueAge
    <3>2. n = [aged EXCEPT !.broadcasts = req.broadcasts + 1]
      BY <2>3 DEF Request
    <3> HIDE DEF aged, n
    <3> QED  BY <2>3, <3>1, <3>2 DEF Request
  <2>b. /\ f \in Frame /\ f.pc = "count" /\ f.loaded = req.times_sent /\ f.req = Top(t).req
    BY <2>3, <2>5 DEF Frame, Request
  <2> HIDE DEF n, f
  <2>8. /\ requests' \in Seq(Request) /\ UniqueIp(requests)' /\ SameQueue
        /\ Reqs' = {r \in Reqs : r.ip # ip} \cup {n}
    BY <2>1, <2>3, <2>7, RequestUpdated DEF req
  <2>9. /\ stack' \in [Thread -> Seq(Frame)] /\ BelowInv'
        /\ Frames(t)' = Elements(Below(t)) \cup {f}
        /\ \A u \in Thread : u # t => Frames(u)' = Frames(u)
    BY <2>1, <2>2, <2>b, Replaced
  <2>11. SameWalks
    BY <2>a, <2>2, <2>5, <2>9, <2>b DEF SameWalks, RouterInv, FrameInv
  <2>12. TypeOK'
    BY <2>1, <2>6, <2>8, <2>9 DEF RouterInv, TypeOK, sweep, history
  <2>13. PacketInv'
    BY <2>1, <2>8, <2>11, PacketsKept DEF RouterInv, TypeOK, history, PacketInv
  <2>14. SweepInv'
    <3>1. stack'["sweeper"] # << >> => stack["sweeper"] # << >>
      BY <2>1, <2>2 DEF RouterInv, TypeOK
    <3>2. \A a : (\E r \in Reqs : r.ip = a) => \E r \in Reqs' : r.ip = a
      BY <2>8 DEF SameQueue
    <3> QED  BY <2>1, <3>1, <3>2 DEF RouterInv, SweepInv, sweep
  <2>15. CountInv'
    <3>1. SUFFICES ASSUME NEW r \in Reqs'
                   PROVE  /\ r.times_sent <= r.broadcasts
                          /\ \A u \in Thread : \A e \in Frames(u)' :
                                e.req.live /\ e.req.ip = r.ip => CallCounts(e, r)
      BY DEF CountInv, CallCounts
    <3>2. \A u \in Thread : \A e \in Frames(u)' : e \in Frames(u) \/ e = f
      BY <2>5, <2>9
    <3>3. CASE r = n
      <4>1. /\ req.times_sent \in Nat /\ req.broadcasts \in Nat /\ MaxSent \in Nat
            /\ req.times_sent <= req.broadcasts
        BY <2>3, ConstantsAssumption DEF Request, RouterInv, CountInv
      <4>2. ASSUME NEW u \in Thread, NEW e \in Frames(u)', e.req.live, e.req.ip = r.ip
            PROVE  CallCounts(e, r)
        <5>1. CASE e = f
          BY <2>7, <2>b, <3>3, <4>1, <5>1 DEF CallCounts
        <5>2. CASE e \in Frames(u)
          <6>1. CallCounts(e, req)
            BY <2>3, <2>7, <3>3, <4>2, <5>2 DEF RouterInv, CountInv
          <6>2. e.loaded \in Nat
            <7>1. stack[u] \in Seq(Frame)
              BY DEF RouterInv, TypeOK
            <7>2. e \in Frame
              BY <5>2, <7>1, ElementType DEF Frames
            <7> QED  BY <7>2 DEF Frame
          <6> QED  BY <2>7, <3>3, <4>1, <6>1, <6>2 DEF CallCounts
        <5> QED  BY <3>2, <4>2, <5>1, <5>2
      <4> QED  BY <2>7, <3>3, <4>1, <4>2
    <3>4. CASE r # n
      <4>1. r \in Reqs /\ r.ip # ip
        BY <2>8, <3>4
      <4> QED  BY <2>a, <2>b, <3>2, <4>1 DEF RouterInv, CountInv
    <3> QED  BY <3>3, <3>4
  <2> QED  BY <2>8, <2>9, <2>12, <2>13, <2>14, <2>15 DEF RouterInv, PacketInv
<1> QED  BY <1>1, <1>2

LEMMA CountAttemptStep ==
    ASSUME RouterInv, NEW t \in Thread, CountAttempt(t)
    PROVE  RouterInv'
<1>1. CASE ~Top(t).req.live
  BY <1>1, FaultsStep DEF CountAttempt, history
<1>2. CASE Top(t).req.live
  <2>a. PICK ip : ip = Top(t).req.ip
    OBVIOUS
  <2> DEFINE i == Index(ip)
             req == requests[i]
             n == [req EXCEPT !.times_sent = Top(t).loaded + 1]
  <2>2. /\ stack[t] # << >> /\ Top(t).pc = "count"
        /\ ip \in Address /\ \E r \in Reqs : r.ip = ip
    BY <1>2, <2>a, RunningLocked DEF CountAttempt, Running
  <2>3. /\ i \in DOMAIN requests /\ req \in Request /\ req \in Reqs /\ req.ip = ip
        /\ \A r \in Reqs : r.ip = ip => r = req
    BY <2>2, LiveRequest
  <2>1. /\ requests' = [requests EXCEPT ![i] = n]
        /\ stack' = [stack EXCEPT ![t] = Below(t)]
        /\ UNCHANGED <<entries, sweep, asked, fault, history>>
    BY <1>2, <2>a DEF CountAttempt, Counted
  <2>5. /\ Frames(t) = Elements(Below(t)) \cup {Top(t)} /\ Top(t) \in Frame
    BY <2>2, TopOfStack DEF RouterInv, TypeOK
  <2>6. Top(t).loaded \in Nat
    BY <2>5 DEF Frame
  <2> HIDE DEF i, req
  <2>7. /\ n \in Request /\ n.ip = ip /\ n.packets = req.packets
        /\ n.times_sent = Top(t).loaded + 1 /\ n.broadcasts = req.broadcasts
    BY <2>3, <2>6 DEF Request
  <2> HIDE DEF n
  <2>8. /\ requests' \in Seq(Request) /\ UniqueIp(requests)' /\ SameQueue
        /\ Reqs' = {r \in Reqs : r.ip # ip} \cup {n}
    BY <2>1, <2>3, <2>7, RequestUpdated DEF req
  <2>9. /\ stack' \in [Thread -> Seq(Frame)] /\ BelowInv'
        /\ Frames(t)' = Elements(Below(t))
        /\ \A u \in Thread : u # t => Frames(u)' = Frames(u)
    BY <2>1, <2>2, Popped
  <2>11. SameWalks
    BY <2>2, <2>5, <2>9 DEF SameWalks, RouterInv, FrameInv
  <2>12. TypeOK'
    BY <2>1, <2>8, <2>9 DEF RouterInv, TypeOK, sweep, history
  <2>13. PacketInv'
    BY <2>1, <2>8, <2>11, PacketsKept DEF RouterInv, TypeOK, history, PacketInv
  <2>14. SweepInv'
    <3>1. stack'["sweeper"] # << >> => stack["sweeper"] # << >>
      BY <2>1, <2>2 DEF RouterInv, TypeOK
    <3>2. \A a : (\E r \in Reqs : r.ip = a) => \E r \in Reqs' : r.ip = a
      BY <2>8 DEF SameQueue
    <3> QED  BY <2>1, <3>1, <3>2 DEF RouterInv, SweepInv, sweep
  <2>15. CountInv'
    <3>1. SUFFICES ASSUME NEW r \in Reqs'
                   PROVE  /\ r.times_sent <= r.broadcasts
                          /\ \A u \in Thread : \A e \in Frames(u)' :
                                e.req.live /\ e.req.ip = r.ip => CallCounts(e, r)
      BY DEF CountInv, CallCounts
    <3>2. \A u \in Thread : \A e \in Frames(u)' : e \in Frames(u)
      BY <2>5, <2>9
    <3>3. CASE r = n
      <4>1. Top(t).loaded < req.broadcasts
        <5>1. Top(t) \in Frames(t)
          BY <2>5
        <5>2. CallCounts(Top(t), req)
          BY <1>2, <2>a, <2>3, <5>1 DEF RouterInv, CountInv
        <5> QED  BY <2>2, <5>2 DEF CallCounts
      <4>2. req.broadcasts \in Nat
        BY <2>3 DEF Request
      <4>3. ASSUME NEW u \in Thread, NEW e \in Frames(u)', e.req.live, e.req.ip = r.ip
            PROVE  CallCounts(e, r)
        <5>1. CallCounts(e, req)
          BY <2>3, <2>7, <3>2, <3>3, <4>3 DEF RouterInv, CountInv
        <5> QED  BY <2>7, <3>3, <5>1 DEF CallCounts
      <4> QED  BY <2>6, <2>7, <3>3, <4>1, <4>2, <4>3
    <3>4. CASE r # n
      BY <2>8, <3>2, <3>4 DEF RouterInv, CountInv
    <3> QED  BY <3>3, <3>4
  <2> QED  BY <2>8, <2>9, <2>12, <2>13, <2>14, <2>15 DEF RouterInv, PacketInv
<1> QED  BY <1>1, <1>2

LEMMA RequestAtType ==
    ASSUME RouterInv, NEW i
    PROVE  /\ RequestAt(i) \in Pointer
           /\ RequestAt(i).ip = NoAddress => RequestAt(i) = NULL
           /\ RequestAt(i).ip # NoAddress => \E r \in Reqs : r.ip = RequestAt(i).ip
           /\ RequestAt(i).live
<1>1. CASE i \in DOMAIN requests
  <2>1. requests[i] \in Request /\ requests[i] \in Reqs
    BY <1>1 DEF RouterInv, TypeOK, Reqs, Elements
  <2>2. RequestAt(i) = [ip |-> requests[i].ip, live |-> TRUE]
    BY <1>1 DEF RequestAt
  <2>3. requests[i].ip \in Address /\ requests[i].ip # NoAddress
    BY <2>1, ConstantsAssumption DEF Request
  <2> QED  BY <2>1, <2>2, <2>3 DEF Pointer
<1>2. CASE i \notin DOMAIN requests
  <2>1. RequestAt(i) = NULL
    BY <1>2 DEF RequestAt
  <2> QED  BY <2>1 DEF Pointer, NULL
<1> QED  BY <1>1, <1>2

LEMMA SweepBeginStep ==
    ASSUME RouterInv, SweepBegin
    PROVE  RouterInv'
<1> USE DEF RouterInv
<1>1. /\ next_req = NULL /\ lock' = TRUE /\ woken' = FALSE
      /\ next_req' = RequestAt(1)
      /\ UNCHANGED <<requests, stack, asked, history, fault>>
  BY DEF SweepBegin, LockDuringSweep
<1>2. /\ RequestAt(1) \in Pointer
      /\ RequestAt(1).ip # NoAddress => \E r \in Reqs : r.ip = RequestAt(1).ip
      /\ RequestAt(1).live
  BY RequestAtType
<1>3. entries' \in [1 .. SR_ARPCACHE_SZ ->
                       [ip : Address \cup {NoAddress}, age : 0 .. SR_ARPCACHE_TO + 1]]
  BY ConstantsAssumption DEF SweepBegin, TypeOK
<1>4. TypeOK'
  BY <1>1, <1>2, <1>3 DEF TypeOK, history
<1>5. SameQueue /\ SameWalks /\ Reqs' = Reqs /\ BelowInv' /\ PacketInv
  BY <1>1, QueueUnchanged, StackUnchanged DEF PacketInv
<1>6. PacketInv'
  BY <1>1, <1>5, PacketsKept DEF TypeOK, history
<1>7. SweepInv'
  BY <1>1, <1>2, <1>5 DEF SweepInv
<1>8. CountInv'
  BY <1>1, <1>5, StackUnchanged, CountsKept DEF SameCount
<1>9. UniqueIp(requests)'
  BY <1>1 DEF UniqueIp
<1> QED  BY <1>4, <1>5, <1>6, <1>7, <1>8, <1>9 DEF PacketInv

LEMMA SweepNextStep ==
    ASSUME RouterInv, SweepNext
    PROVE  RouterInv'
<1>1. CASE ~next_req.live
  BY <1>1, FaultsStep DEF SweepNext, history
<1>2. CASE next_req.live
  <2> DEFINE ip == next_req.ip
             nx == RequestAt(Index(ip) + 1)
  <2>1. /\ lock /\ stack["sweeper"] = << >> /\ ip # NoAddress
        /\ stack' = [stack EXCEPT !["sweeper"] = <<Call(ip)>>]
        /\ next_req' = nx
        /\ UNCHANGED <<cache, lock, woken, asked, fault, history>>
    BY <1>2 DEF SweepNext, LockDuringSweep
  <2>2. ip \in Address /\ \E r \in Reqs : r.ip = ip
    BY <1>2, <2>1 DEF RouterInv, TypeOK, SweepInv, Pointer
  <2>3. /\ nx \in Pointer /\ nx.live
        /\ nx.ip # NoAddress => \E r \in Reqs : r.ip = nx.ip
    BY RequestAtType
  <2> HIDE DEF ip, nx
  <2>4. /\ Call(ip) \in Frame /\ Call(ip).pc = "check" /\ Call(ip).req.ip = ip
    BY <2>2, CallType
  <2>5. "sweeper" \in Thread /\ << >> \in Seq(Frame)
    BY DEF Thread
  <2>6. stack' = [stack EXCEPT !["sweeper"] = Append(<< >>, Call(ip))]
    BY <2>1
  <2>7. /\ stack' \in [Thread -> Seq(Frame)] /\ BelowInv'
        /\ Frames("sweeper")' = {Call(ip)}
        /\ \A u \in Thread : u # "sweeper" => Frames(u)' = Frames(u)
    BY <2>4, <2>5, <2>6, EmptyElements, Pushed, ZenonT(60)
  <2>8. Frames("sweeper") = {}
    BY <2>1, EmptyElements DEF Frames
  <2>9. SameQueue /\ Reqs' = Reqs /\ PacketInv /\ UniqueIp(requests)'
    BY <2>1, QueueUnchanged DEF cache, RouterInv, PacketInv, UniqueIp
  <2>10. SameWalks
    BY <2>2, <2>4, <2>7, <2>8 DEF SameWalks, RouterInv, FrameInv
  <2>11. TypeOK'
    BY <2>1, <2>3, <2>7 DEF RouterInv, TypeOK, cache, history
  <2>12. PacketInv'
    BY <2>1, <2>9, <2>10, PacketsKept DEF RouterInv, TypeOK, history
  <2>13. SweepInv'
    BY <2>1, <2>3, <2>9 DEF SweepInv
  <2>14. CountInv'
    <3>1. SameCalls
      BY <2>4, <2>7 DEF SameCalls, SameCall
    <3> QED  BY <2>9, <3>1, CountsKept DEF RouterInv, SameCount
  <2> QED  BY <2>7, <2>9, <2>11, <2>12, <2>13, <2>14 DEF RouterInv, PacketInv
<1> QED  BY <1>1, <1>2

LEMMA SweepEndStep ==
    ASSUME RouterInv, SweepEnd
    PROVE  RouterInv'
<1> USE DEF RouterInv
<1>1. /\ stack["sweeper"] = << >> /\ next_req.ip = NoAddress /\ lock' = FALSE
      /\ UNCHANGED <<requests, entries, stack, next_req, woken, asked, history, fault>>
  BY DEF SweepEnd, cache
<1>2. next_req = NULL
  <2>1. next_req \in Pointer /\ next_req.live
    BY <1>1 DEF TypeOK, SweepInv
  <2> QED  BY <1>1, <2>1 DEF Pointer, NULL
<1>3. TypeOK'
  BY <1>1 DEF TypeOK, history
<1>4. SameQueue /\ SameWalks /\ Reqs' = Reqs /\ BelowInv' /\ PacketInv
  BY <1>1, QueueUnchanged, StackUnchanged DEF PacketInv
<1>5. PacketInv'
  BY <1>1, <1>4, PacketsKept DEF TypeOK, history
<1>6. SweepInv'
  BY <1>1, <1>2, <1>4 DEF SweepInv
<1>7. CountInv'
  BY <1>1, <1>4, StackUnchanged, CountsKept DEF SameCount
<1>8. UniqueIp(requests)'
  BY <1>1 DEF UniqueIp
<1> QED  BY <1>3, <1>4, <1>5, <1>6, <1>7, <1>8 DEF PacketInv

LEMMA TickStep ==
    ASSUME RouterInv, Tick
    PROVE  RouterInv'
<1> USE DEF RouterInv
<1>1. UNCHANGED <<stack, lock, next_req, asked, history, fault>> /\ woken' = TRUE
  BY DEF Tick
<1>2. entries' \in [1 .. SR_ARPCACHE_SZ ->
                       [ip : Address \cup {NoAddress}, age : 0 .. SR_ARPCACHE_TO + 1]]
  <2> DEFINE Entry == [ip : Address \cup {NoAddress}, age : 0 .. SR_ARPCACHE_TO + 1]
  <2>1. entries \in [1 .. SR_ARPCACHE_SZ -> Entry]
    BY DEF TypeOK
  <2>2. ASSUME NEW e \in Entry
        PROVE  [e EXCEPT !.age = Older(@, SR_ARPCACHE_TO + 1)] \in Entry
    <3>1. e.age \in 0 .. SR_ARPCACHE_TO + 1
      OBVIOUS
    <3>2. Older(e.age, SR_ARPCACHE_TO + 1) \in 0 .. SR_ARPCACHE_TO + 1
      BY <3>1, ConstantsAssumption DEF Older
    <3> QED  BY <3>2
  <2> HIDE DEF Entry
  <2>3. entries' \in [1 .. SR_ARPCACHE_SZ -> Entry]
    BY <2>1, <2>2 DEF Tick
  <2> QED  BY <2>3 DEF Entry
<1>3. ASSUME NEW i \in DOMAIN requests
      PROVE  /\ requests'[i] \in Request /\ requests'[i].ip = requests[i].ip
             /\ requests'[i].packets = requests[i].packets
             /\ SameCount(requests[i], requests'[i])
  <2>1. requests[i] \in Request
    BY DEF TypeOK
  <2>2. requests'[i] = [requests[i] EXCEPT !.age = Older(@, DueAge)]
    BY DEF Tick
  <2> QED  BY <2>1, <2>2 DEF Request, Older, DueAge, SameCount
<1>4. requests' \in Seq(Request) /\ DOMAIN requests' = DOMAIN requests
  <2>1. requests' = [i \in DOMAIN requests |-> requests'[i]]
    BY DEF Tick
  <2>2. requests \in Seq(Request) /\ \A i \in DOMAIN requests : requests'[i] \in Request
    BY <1>3 DEF TypeOK
  <2> QED  BY <2>1, <2>2, MappedElements
<1>5. UniqueIp(requests)'
  BY <1>3, <1>4 DEF UniqueIp
<1>6. ASSUME NEW r \in Reqs'
      PROVE  \E s \in Reqs : s.ip = r.ip /\ s.packets = r.packets /\ SameCount(s, r)
  <2>1. PICK i \in DOMAIN requests : r = requests'[i]
    BY <1>4 DEF Reqs, Elements
  <2>2. requests[i] \in Reqs
    BY DEF Reqs, Elements
  <2> QED  BY <1>3, <2>1, <2>2
<1>7. ASSUME NEW s \in Reqs
      PROVE  \E r \in Reqs' : s.ip = r.ip /\ s.packets = r.packets
  <2>1. PICK i \in DOMAIN requests : s = requests[i]
    BY DEF Reqs, Elements
  <2>2. requests'[i] \in Reqs'
    BY <1>4 DEF Reqs, Elements
  <2> QED  BY <1>3, <2>1, <2>2
<1>8. SameQueue /\ SameWalks /\ BelowInv' /\ PacketInv
  BY <1>1, <1>6, <1>7, StackUnchanged DEF PacketInv, SameQueue
<1>9. TypeOK'
  BY <1>1, <1>2, <1>4 DEF TypeOK, history
<1>10. PacketInv'
  BY <1>1, <1>8, PacketsKept DEF TypeOK, history
<1>11. SweepInv'
  BY <1>1, <1>8 DEF SweepInv, SameQueue
<1>12. CountInv'
  BY <1>1, <1>6, StackUnchanged, CountsKept DEF SameCount
<1> QED  BY <1>5, <1>8, <1>9, <1>10, <1>11, <1>12 DEF PacketInv

-----------------------------------------------------------------------------
(* Steps that queue a packet *)

LEMMA UniqueReqs ==
    ASSUME NEW q, UniqueIp(q)
    PROVE  \A r, s \in Elements(q) : r.ip = s.ip => r = s
  BY DEF UniqueIp, Elements

(* The packet pk has been added to what waits. *)
Grown(pk) ==
    /\ \A r, s \in Reqs' : r.ip = s.ip => r = s
    /\ \A s \in Reqs : \E r \in Reqs' :
          s.ip = r.ip /\ Elements(s.packets) \subseteq Elements(r.packets)
    /\ \A r \in Reqs' : \A q \in Elements(r.packets) :
          q = pk \/ \E s \in Reqs : s.ip = r.ip /\ q \in Elements(s.packets)

(* A request keeps the count of its attempts, and a new one has none. *)
CountsGrown ==
    \A r \in Reqs' : \/ \E s \in Reqs : s.ip = r.ip /\ SameCount(s, r)
                     \/ /\ r.times_sent = 0 /\ r.broadcasts = 0
                        /\ \A s \in Reqs : s.ip # r.ip

LEMMA QueueGrows ==
    ASSUME RouterInv, NEW ip \in Address, NEW pk \in Packet, gateway[pk.dst] = ip,
           requests' = QueueReq(ip, pk)
    PROVE  /\ requests' \in Seq(Request) /\ UniqueIp(requests)' /\ HopInv'
           /\ Grown(pk) /\ CountsGrown
           /\ \E r \in Reqs' : r.ip = ip /\ pk \in Elements(r.packets)
<1>1. PICK n \in Request :
        /\ n.ip = ip /\ n.packets # << >>
        /\ Elements(QueueReq(ip, pk)) = {r \in Reqs : r.ip # ip} \cup {n}
        /\ Elements(n.packets) =
              {pk} \cup UNION {Elements(r.packets) : r \in {s \in Reqs : s.ip = ip}}
        /\ \A r \in Reqs : r.ip = ip => SameCount(r, n)
        /\ (\A r \in Reqs : r.ip # ip) => n.times_sent = 0 /\ n.broadcasts = 0
  BY QueuedRequest, ZenonT(60) DEF RouterInv, TypeOK
<1>2. requests' \in Seq(Request) /\ UniqueIp(requests)' /\ UniqueIp(requests')
  <2>1. UniqueIp(requests)' = UniqueIp(requests')
    BY DEF UniqueIp
  <2> QED  BY <2>1, QueuedRequest DEF RouterInv, TypeOK
<1>3. Reqs' = {r \in Reqs : r.ip # ip} \cup {n}
  BY <1>1 DEF Reqs
<1>4. pk \in Elements(n.packets) /\ n \in Reqs'
  BY <1>1, <1>3
<1>5. ASSUME NEW q \in Elements(n.packets)
      PROVE  q = pk \/ \E s \in Reqs : s.ip = ip /\ q \in Elements(s.packets)
  BY <1>1
<1>6. ASSUME NEW s \in Reqs, s.ip = ip PROVE Elements(s.packets) \subseteq Elements(n.packets)
  BY <1>1, <1>6
<1>7. HopInv'
  <2>1. SUFFICES ASSUME NEW r \in Reqs'
                 PROVE  /\ r.packets # << >>
                        /\ \A p \in Elements(r.packets) : gateway[p.dst] = r.ip
    BY DEF HopInv
  <2>2. CASE r = n
    BY <1>1, <1>5, <2>2 DEF RouterInv, HopInv
  <2>3. CASE r # n
    BY <1>3, <2>3 DEF RouterInv, HopInv
  <2> QED  BY <2>2, <2>3
<1>8. Grown(pk)
  <2>1. \A r, s \in Reqs' : r.ip = s.ip => r = s
    BY <1>2, UniqueReqs DEF Reqs
  <2>2. ASSUME NEW s \in Reqs
        PROVE  \E r \in Reqs' : s.ip = r.ip /\ Elements(s.packets) \subseteq Elements(r.packets)
    <3>1. CASE s.ip = ip
      BY <1>1, <1>4, <1>6, <3>1
    <3>2. CASE s.ip # ip
      BY <1>3, <3>2
    <3> QED  BY <3>1, <3>2
  <2>3. ASSUME NEW r \in Reqs', NEW q \in Elements(r.packets)
        PROVE  q = pk \/ \E s \in Reqs : s.ip = r.ip /\ q \in Elements(s.packets)
    <3>1. CASE r = n
      BY <1>1, <1>5, <3>1
    <3>2. CASE r # n
      BY <1>3, <3>2
    <3> QED  BY <3>1, <3>2
  <2> QED  BY <2>1, <2>2, <2>3 DEF Grown
<1>9. CountsGrown
  <2>1. SUFFICES ASSUME NEW r \in Reqs'
                 PROVE  \/ \E s \in Reqs : s.ip = r.ip /\ SameCount(s, r)
                        \/ /\ r.times_sent = 0 /\ r.broadcasts = 0
                           /\ \A s \in Reqs : s.ip # r.ip
    BY DEF CountsGrown
  <2>2. CASE r = n
    BY <1>1, <2>2
  <2>3. CASE r # n
    BY <1>3, <2>3 DEF SameCount
  <2> QED  BY <2>2, <2>3
<1> QED  BY <1>1, <1>2, <1>4, <1>7, <1>8, <1>9

LEMMA CountsGrownKept ==
    ASSUME RouterInv, CountsGrown, SameCalls
    PROVE  CountInv'
<1>1. SUFFICES ASSUME NEW r \in Reqs'
               PROVE  /\ r.times_sent <= r.broadcasts
                      /\ \A t \in Thread : \A f \in Frames(t)' :
                            f.req.live /\ f.req.ip = r.ip => CallCounts(f, r)
  BY DEF CountInv, CallCounts
<1>2. ASSUME NEW t \in Thread, NEW f \in Frames(t)', f.req.live, f.req.ip = r.ip,
             f.pc \in {"count", "walk"}
      PROVE  \E g \in Frames(t) : SameCall(g, f) /\ \E s \in Reqs : s.ip = r.ip
  <2>1. PICK g \in Frames(t) : SameCall(g, f)
    BY <1>2 DEF SameCalls
  <2> QED  BY <1>2, <2>1 DEF SameCall, RouterInv, FrameInv
<1>3. CASE \E s \in Reqs : s.ip = r.ip /\ SameCount(s, r)
  <2>1. PICK s \in Reqs : s.ip = r.ip /\ SameCount(s, r)
    BY <1>3
  <2>2. s.times_sent <= s.broadcasts
    BY DEF RouterInv, CountInv
  <2>3. ASSUME NEW t \in Thread, NEW f \in Frames(t)', f.req.live, f.req.ip = r.ip
        PROVE  CallCounts(f, r)
    <3>1. CASE f.pc \in {"count", "walk"}
      <4>1. PICK g \in Frames(t) : SameCall(g, f)
        BY <1>2, <2>3, <3>1
      <4>2. CallCounts(g, s)
        BY <2>1, <2>3, <4>1 DEF RouterInv, CountInv, SameCall
      <4> QED  BY <2>1, <4>1, <4>2 DEF CallCounts, SameCall, SameCount
    <3>2. CASE f.pc \notin {"count", "walk"}
      BY <3>2 DEF CallCounts
    <3> QED  BY <3>1, <3>2
  <2> QED  BY <2>1, <2>2, <2>3 DEF SameCount
<1>4. CASE r.times_sent = 0 /\ r.broadcasts = 0 /\ \A s \in Reqs : s.ip # r.ip
  <2>1. ASSUME NEW t \in Thread, NEW f \in Frames(t)', f.req.live, f.req.ip = r.ip
        PROVE  CallCounts(f, r)
    BY <1>2, <1>4, <2>1 DEF CallCounts
  <2> QED  BY <1>4, <2>1
<1> QED  BY <1>3, <1>4 DEF CountsGrown

LEMMA NoFrames ==
    ASSUME RouterInv, MainReady
    PROVE  /\ \A t \in Thread : stack[t] = << >> /\ Frames(t) = {}
           /\ next_req = NULL /\ ~lock
           /\ \A r \in Reqs : \A p \in Elements(r.packets) : p.id \notin refused
<1>1. \A t \in Thread : stack[t] = << >>
  BY DEF MainReady, RouterInv, SweepInv, Thread
<1>2. \A t \in Thread : Frames(t) = {}
  BY <1>1, EmptyElements DEF Frames
<1>3. next_req = NULL /\ ~lock
  BY DEF MainReady, RouterInv, SweepInv
<1> QED  BY <1>1, <1>2, <1>3 DEF RouterInv, RefusedInv

(* The main thread queues a packet, of its own or to be forwarded. *)
LEMMA MainQueue ==
    ASSUME RouterInv, MainReady, NEW ip \in Address, NEW pk \in Packet,
           gateway[pk.dst] = ip, pk.id \in {0, arrived + 1}, arrived' = arrived + 1,
           requests' = QueueReq(ip, pk),
           stack' = [stack EXCEPT !["main"] = Append(<< >>, Call(ip))],
           transit' = transit \cup ({pk.id} \ {0}),
           UNCHANGED <<entries, sweep, asked, forwarded, refused, fault>>
    PROVE  RouterInv'
<1>1. /\ requests' \in Seq(Request) /\ UniqueIp(requests)' /\ HopInv'
      /\ Grown(pk) /\ CountsGrown
      /\ \E r \in Reqs' : r.ip = ip /\ pk \in Elements(r.packets)
  BY QueueGrows
<1>2. /\ Call(ip) \in Frame /\ Call(ip).pc = "check" /\ Call(ip).req.ip = ip
      /\ "main" \in Thread /\ << >> \in Seq(Frame)
      /\ \A e \in Elements(<< >>) : e.pc = "walk"
  BY CallType, EmptyElements DEF Thread
<1>3. /\ stack' \in [Thread -> Seq(Frame)] /\ BelowInv'
      /\ Frames("main")' = {Call(ip)}
      /\ \A u \in Thread : u # "main" => Frames(u)' = Frames(u)
  <2>1. /\ stack' \in [Thread -> Seq(Frame)] /\ BelowInv'
        /\ Frames("main")' = Elements(<< >>) \cup {Call(ip)}
        /\ \A u \in Thread : u # "main" => Frames(u)' = Frames(u)
    BY <1>2, Pushed
  <2> QED  BY <2>1, EmptyElements
<1>4. /\ \A t \in Thread : stack[t] = << >> /\ Frames(t) = {}
      /\ next_req = NULL /\ ~lock
      /\ \A r \in Reqs : \A p \in Elements(r.packets) : p.id \notin refused
  BY NoFrames
<1>5. \A t \in Thread : \A f \in Frames(t)' : f = Call(ip)
  BY <1>3, <1>4
<1>6. arrived \in Nat /\ IdInv
  BY DEF RouterInv, TypeOK
<1>7. TypeOK'
  <2>1. transit' \subseteq Nat /\ arrived' \in Nat
    <3>1. transit \subseteq Nat /\ pk.id \in Nat
      BY DEF RouterInv, TypeOK, Packet
    <3>2. ASSUME NEW id \in transit' PROVE id \in Nat
      BY <3>1
    <3>3. arrived' \in Nat
      BY <1>6
    <3> QED  BY <3>2, <3>3
  <2> QED  BY <1>1, <1>3, <2>1 DEF RouterInv, TypeOK, sweep
<1>8. FrameInv'
  BY <1>1, <1>2, <1>5 DEF FrameInv
<1>9. SweepInv'
  <2>1. stack'["sweeper"] = << >>
    BY <1>4 DEF RouterInv, TypeOK, Thread
  <2>2. next_req' = NULL /\ NULL.ip = NoAddress /\ NULL.live
    BY <1>4 DEF sweep, NULL
  <2> QED  BY <2>1, <2>2 DEF SweepInv
<1>10. IdInv'
  <2>1. ASSUME NEW x \in 1 .. arrived PROVE x \in 1 .. arrived'
    BY <1>6
  <2>2. transit' \subseteq 1 .. arrived'
    <3>1. pk.id # 0 => pk.id \in 1 .. arrived'
      BY <1>6
    <3> QED  BY <1>6, <2>1, <3>1 DEF IdInv
  <2>3. refused' \subseteq 1 .. arrived' /\ \A f \in forwarded' : f[1] \in 1 .. arrived'
    BY <1>6, <2>1 DEF IdInv
  <2>4. ASSUME NEW r \in Reqs', NEW p \in Elements(r.packets)
        PROVE  p = pk \/ \E s \in Reqs : p \in Elements(s.packets) /\ p.id \in 0 .. arrived
    BY <1>1, <1>6 DEF Grown, IdInv
  <2>5. ASSUME NEW r \in Reqs', NEW p \in Elements(r.packets) PROVE p.id \in 0 .. arrived'
    BY <1>6, <2>4
  <2>6. ASSUME NEW r \in Reqs', NEW p \in Elements(r.packets),
               NEW s \in Reqs', NEW q \in Elements(s.packets), p.id = q.id, p.id # 0
        PROVE  p = q
    <3>1. CASE p = pk \/ q = pk
      BY <1>6, <2>4, <2>6, <3>1
    <3>2. CASE p # pk /\ q # pk
      BY <1>6, <2>4, <2>6, <3>2 DEF IdInv
    <3> QED  BY <3>1, <3>2
  <2> QED  BY <2>2, <2>3, <2>5, <2>6 DEF IdInv
<1>11. SentInv'
  <2>1. SUFFICES ASSUME NEW f \in forwarded, NEW r \in Reqs', NEW p \in Elements(r.packets)
                 PROVE  p.id # f[1]
    BY DEF RouterInv, SentInv
  <2>2. CASE p = pk
    BY <1>6, <2>2 DEF IdInv
  <2>3. CASE p # pk
    BY <1>1, <2>3 DEF Grown, RouterInv, SentInv
  <2> QED  BY <2>2, <2>3
<1>12. WalkInv'
  BY <1>2, <1>5 DEF WalkInv, Walking
<1>13. RefusedInv'
  <2>1. SUFFICES ASSUME NEW r \in Reqs', NEW p \in Elements(r.packets) PROVE p.id \notin refused
    BY DEF RefusedInv
  <2>2. CASE p = pk
    BY <1>6, <2>2 DEF IdInv
  <2>3. CASE p # pk
    BY <1>1, <1>4, <2>3 DEF Grown
  <2> QED  BY <2>2, <2>3
<1>14. NoneLost'
  <2>1. SUFFICES ASSUME NEW id \in transit' PROVE Queued(id)' \/ Sent(id)' \/ id \in refused'
    BY DEF NoneLost
  <2>2. CASE id \in transit
    <3>1. Sent(id)' = Sent(id)
      BY DEF Sent
    <3>2. Queued(id) => Queued(id)'
      BY <1>1, QueuedIff DEF Grown
    <3> QED  BY <2>2, <3>1, <3>2 DEF RouterInv, NoneLost
  <2>3. CASE id = pk.id
    BY <1>1, <2>3, QueuedIff
  <2> QED  BY <2>2, <2>3
<1>15. CountInv'
  <2>1. SameCalls
    BY <1>2, <1>5 DEF SameCalls
  <2> QED  BY <1>1, <2>1, CountsGrownKept
<1> QED  BY <1>1, <1>3, <1>7, <1>8, <1>9, <1>10, <1>11, <1>12, <1>13, <1>14, <1>15 DEF RouterInv

(* The main thread sends a packet of its own, at once or later. *)
LEMMA MainOwn ==
    ASSUME RouterInv, MainReady, ReceiveCount, NEW pk \in Packet, pk.id = 0,
           gateway[pk.dst] # NoAddress, SendOrQueue("main", pk, << >>),
           UNCHANGED <<entries, sweep, asked, transit, forwarded, refused>>
    PROVE  RouterInv'
<1> DEFINE ip == gateway[pk.dst]
<1>1. ip \in Address /\ arrived' = arrived + 1 /\ arrived \in Nat
  BY ConstantsAssumption DEF Packet, ReceiveCount, RouterInv, TypeOK
<1>2. stack["main"] = << >> /\ "main" \in Thread /\ stack \in [Thread -> Seq(Frame)]
  BY NoFrames DEF Thread, RouterInv, TypeOK
<1>3. Len(<< >>) = 0 /\ ~(Len(<< >>) >= MaxDepth)
  BY ConstantsAssumption
<1>4. CASE Cached(ip)
  <2>1. stack' = stack /\ UNCHANGED <<requests, fault>>
    BY <1>2, <1>4 DEF SendOrQueue
  <2>2. TypeOK' /\ arrived <= arrived'
    BY <1>1, <2>1 DEF RouterInv, TypeOK, sweep
  <2> QED  BY <2>1, <2>2, QuietStep DEF sweep
<1>5. CASE ~Cached(ip)
  <2>1. /\ requests' = QueueReq(ip, pk)
        /\ stack' = [stack EXCEPT !["main"] = Append(<< >>, Call(ip))]
        /\ UNCHANGED fault
    BY <1>3, <1>5 DEF SendOrQueue
  <2>2. transit' = transit \cup ({pk.id} \ {0})
    OBVIOUS
  <2> QED  BY <1>1, <2>1, <2>2, MainQueue
<1> QED  BY <1>4, <1>5

LEMMA OwnType ==
    ASSUME NEW src \in Address, NEW dst \in Address
    PROVE  Own(src, dst) \in Packet /\ Own(src, dst).id = 0 /\ Own(src, dst).dst = dst
  BY ConstantsAssumption DEF Own, Packet, TTL

LEMMA DatagramType ==
    ASSUME NEW d \in Traffic
    PROVE  /\ d.src \in Address /\ d.dst \in Address /\ d.ttl \in TTL
           /\ interface_ip[d.src] \in Address
  BY ConstantsAssumption DEF Datagram

LEMMA IcmpErrorStep ==
    ASSUME RouterInv, MainReady, ReceiveCount, NEW d \in Traffic, IcmpError(d),
           UNCHANGED <<transit, forwarded, refused>>
    PROVE  RouterInv'
<1>1. CASE gateway[d.src] = NoAddress
  BY <1>1, FaultsStep DEF IcmpError
<1>2. CASE gateway[d.src] # NoAddress
  <2> DEFINE pk == Own(interface_ip[d.src], d.src)
  <2>1. pk \in Packet /\ pk.id = 0 /\ pk.dst = d.src
    BY DatagramType, OwnType
  <2>2. SendOrQueue("main", pk, << >>) /\ UNCHANGED <<entries, sweep, asked>>
    BY <1>2 DEF IcmpError
  <2> QED  BY <1>2, <2>1, <2>2, MainOwn
<1> QED  BY <1>1, <1>2

LEMMA EchoReplyStep ==
    ASSUME RouterInv, NEW d \in Traffic, EchoReply(d)
    PROVE  RouterInv'
<1>1. /\ MainReady /\ ReceiveCount
      /\ UNCHANGED <<entries, sweep, asked, transit, forwarded, refused>>
  BY DEF EchoReply
<1>2. CASE gateway[d.src] = NoAddress
  <2>1. UNCHANGED <<requests, stack, fault>>
    BY <1>2 DEF EchoReply
  <2>2. TypeOK' /\ arrived <= arrived'
    BY <1>1, <2>1 DEF RouterInv, TypeOK, sweep, ReceiveCount
  <2> QED  BY <1>1, <2>1, <2>2, QuietStep DEF sweep
<1>3. CASE gateway[d.src] # NoAddress
  <2> DEFINE pk == Own(d.dst, d.src)
  <2>1. pk \in Packet /\ pk.id = 0 /\ pk.dst = d.src
    BY DatagramType, OwnType
  <2>2. SendOrQueue("main", pk, << >>)
    BY <1>3 DEF EchoReply
  <2> QED  BY <1>1, <1>3, <2>1, <2>2, MainOwn
<1> QED  BY <1>2, <1>3

LEMMA IgnoredStep ==
    ASSUME RouterInv, ReceiveCount,
           UNCHANGED <<cache, stack, sweep, asked, transit, forwarded, refused, fault>>
    PROVE  RouterInv'
<1>1. TypeOK' /\ arrived <= arrived'
  BY DEF RouterInv, TypeOK, cache, sweep, ReceiveCount
<1> QED  BY <1>1, QuietStep DEF cache, sweep

LEMMA LessOneType ==
    ASSUME NEW ttl \in TTL
    PROVE  LessOne(ttl) \in TTL
<1>1. INIT_TTL + 1 \in Nat /\ INIT_TTL + 1 > 0 /\ ttl - 1 \in Int
  BY ConstantsAssumption DEF TTL
<1>2. (ttl - 1) % (INIT_TTL + 1) \in 0 .. (INIT_TTL + 1) - 1
  BY <1>1
<1>3. (INIT_TTL + 1) - 1 = INIT_TTL
  BY ConstantsAssumption
<1> QED  BY <1>2, <1>3 DEF LessOne, TTL

LEMMA ForwardStep ==
    ASSUME RouterInv, NEW d \in Traffic, Forward(d)
    PROVE  RouterInv'
<1> DEFINE ip == gateway[d.dst]
           pk == [id |-> arrived + 1, src |-> d.src, dst |-> d.dst, ttl |-> d.ttl]
           sent == <<arrived + 1, d.ttl, LessOne(d.ttl)>>
<1>1. /\ MainReady /\ arrived' = arrived + 1 /\ arrived \in Nat
      /\ transit' = transit \cup {arrived + 1}
      /\ UNCHANGED <<entries, sweep, asked, refused>>
      /\ SendOrQueue("main", pk, << >>)
      /\ gateway[d.dst] # NoAddress
  BY DEF Forward, ReceiveCount, RouterInv, TypeOK
<1>2. forwarded' = IF Cached(ip) THEN forwarded \cup {sent} ELSE forwarded
  BY <1>1 DEF Forward
<1>3. /\ d.src \in Address /\ d.dst \in Address /\ d.ttl \in TTL /\ ip \in Address
      /\ sent \in Nat \X TTL \X TTL
  BY <1>1, DatagramType, LessOneType, ConstantsAssumption
<1>4. pk \in Packet /\ pk.id = arrived + 1 /\ pk.dst = d.dst
  BY <1>1, <1>3 DEF Packet
<1>5. stack["main"] = << >> /\ "main" \in Thread /\ stack \in [Thread -> Seq(Frame)]
  BY <1>1, NoFrames DEF Thread, RouterInv, TypeOK
<1>6. Len(<< >>) = 0 /\ ~(Len(<< >>) >= MaxDepth)
  BY ConstantsAssumption
<1>7. CASE Cached(ip)
  <2>1. UNCHANGED <<stack, requests, fault>> /\ forwarded' = forwarded \cup {sent}
    BY <1>1, <1>2, <1>4, <1>5, <1>7 DEF SendOrQueue
  <2>2. sent[1] = arrived + 1
    OBVIOUS
  <2> HIDE DEF sent, ip, pk
  <2>3. TypeOK'
    <3>1. forwarded' \subseteq Nat \X TTL \X TTL
      BY <1>3, <2>1 DEF RouterInv, TypeOK
    <3>2. transit' \subseteq Nat /\ arrived' \in Nat
      <4>1. transit \subseteq Nat /\ arrived + 1 \in Nat
        BY <1>1 DEF RouterInv, TypeOK
      <4> QED  BY <1>1, <4>1
    <3> QED  BY <1>1, <2>1, <3>1, <3>2 DEF RouterInv, TypeOK, sweep
  <2>4. SameQueue /\ Reqs' = Reqs /\ SameWalks /\ BelowInv' /\ UniqueIp(requests)' /\ CountInv'
    BY <2>1, QueueUnchanged, StackUnchanged, CountsKept DEF RouterInv, UniqueIp, SameCount
  <2>5. \A t \in Thread : Frames(t)' = Frames(t)
    BY <2>1 DEF Frames
  <2>6. HopInv' /\ FrameInv' /\ WalkInv' /\ RefusedInv'
    <3>1. HopInv' /\ FrameInv'
      BY <2>4, <2>5 DEF RouterInv, HopInv, FrameInv
    <3>2. WalkInv'
      BY <1>1, <2>4, <2>5 DEF RouterInv, WalkInv
    <3>3. RefusedInv'
      BY <1>1, <2>4, <2>5 DEF RouterInv, RefusedInv
    <3> QED  BY <3>1, <3>2, <3>3
  <2>7. SweepInv'
    BY <1>1, <2>1, <2>4 DEF RouterInv, SweepInv, sweep
  <2>8. IdInv'
    <3>1. ASSUME NEW x \in 1 .. arrived PROVE x \in 1 .. arrived'
      BY <1>1
    <3>2. ASSUME NEW x \in 0 .. arrived PROVE x \in 0 .. arrived'
      BY <1>1
    <3>3. arrived + 1 \in 1 .. arrived'
      BY <1>1
    <3> QED  BY <1>1, <2>1, <2>2, <2>4, <3>1, <3>2, <3>3 DEF RouterInv, IdInv
  <2>9. SentInv'
    <3>1. ASSUME NEW f \in forwarded PROVE f[1] # arrived + 1
      BY <1>1 DEF RouterInv, IdInv
    <3>2. arrived + 1 \notin refused
      BY <1>1 DEF RouterInv, IdInv
    <3>3. ASSUME NEW r \in Reqs, NEW p \in Elements(r.packets) PROVE p.id # arrived + 1
      BY <1>1 DEF RouterInv, IdInv
    <3> QED  BY <1>1, <2>1, <2>2, <2>4, <3>1, <3>2, <3>3 DEF RouterInv, SentInv
  <2>10. NoneLost'
    <3>1. ASSUME NEW id PROVE Queued(id) => Queued(id)'
      BY <2>4, QueuedIff
    <3>2. ASSUME NEW id PROVE Sent(id) => Sent(id)'
      BY <2>1 DEF Sent
    <3>3. ASSUME NEW id, id = arrived + 1 PROVE Sent(id)'
      BY <2>1, <2>2, <3>3 DEF Sent
    <3> QED  BY <1>1, <3>1, <3>2, <3>3 DEF RouterInv, NoneLost
  <2> QED  BY <2>3, <2>4, <2>6, <2>7, <2>8, <2>9, <2>10 DEF RouterInv
<1>8. CASE ~Cached(ip)
  <2>1. /\ requests' = QueueReq(ip, pk)
        /\ stack' = [stack EXCEPT !["main"] = Append(<< >>, Call(ip))]
        /\ UNCHANGED <<fault, forwarded>>
    BY <1>1, <1>2, <1>4, <1>6, <1>8 DEF SendOrQueue
  <2> HIDE DEF pk
  <2>2. transit' = transit \cup ({pk.id} \ {0}) /\ pk.id \in {0, arrived + 1}
    BY <1>1, <1>4
  <2> QED  BY <1>1, <1>3, <1>4, <2>1, <2>2, MainQueue
<1> QED  BY <1>7, <1>8

-----------------------------------------------------------------------------
(* Steps that take packets out of the queue *)

(* The reply sends what waits for its address, when no call is in progress. *)
LEMMA ArpReplyStep ==
    ASSUME RouterInv, NEW ip \in asked, ArpReply(ip)
    PROVE  RouterInv'
<1> DEFINE ar_tip == interface_ip[ip]
           waiting == UNION {Elements(requests[i].packets) : i \in Indexes(ip)}
           sent == {<<p.id, p.ttl, TtlWhenSent(p)>> : p \in {q \in waiting : q.id # 0}}
<1>1. /\ MainReady /\ ip \in Address /\ asked' \subseteq Address
      /\ UNCHANGED <<stack, sweep, arrived, transit, refused>>
  BY DEF ArpReply, RouterInv, TypeOK
<1>2. CASE gateway[ar_tip] = NoAddress \/ interface_ip[ar_tip] # ar_tip
  <2>1. UNCHANGED <<cache, forwarded>> /\ fault' \in {fault, "null"}
    BY <1>2 DEF ArpReply
  <2>2. TypeOK' /\ arrived <= arrived'
    BY <1>1, <2>1 DEF RouterInv, TypeOK, cache, sweep
  <2> QED  BY <1>1, <2>1, <2>2, QuietStep DEF cache, sweep
<1>3. CASE ~(gateway[ar_tip] = NoAddress \/ interface_ip[ar_tip] # ar_tip)
  <2>1. /\ entries' = Inserted(ip) /\ requests' = RequestsAfterReply(ip)
        /\ forwarded' = forwarded \cup sent /\ fault' = fault
    BY <1>3 DEF ArpReply
  <2>2. /\ requests' \in Seq(Request) /\ UniqueIp(requests)'
        /\ Reqs' = {r \in Reqs : r.ip # ip}
    <3>1. UniqueIp(requests)' = UniqueIp(requests')
      BY DEF UniqueIp
    <3>2. CASE Indexes(ip) = {}
      <4>1. requests' = requests /\ \A r \in Reqs : r.ip # ip
        BY <2>1, <3>2 DEF RequestsAfterReply, Indexes, Reqs, Elements
      <4> QED  BY <3>1, <4>1 DEF RouterInv, TypeOK, Reqs
    <3>3. CASE Indexes(ip) # {}
      <4>1. PICK i \in DOMAIN requests : requests[i].ip = ip
        BY <3>3 DEF Indexes
      <4>2. requests' = Without(i)
        BY <2>1, <3>3, <4>1, TheIndex DEF RequestsAfterReply, RouterInv
      <4>3. /\ Without(i) \in Seq(Request) /\ UniqueIp(Without(i))
            /\ Elements(Without(i)) = {r \in Reqs : r.ip # ip}
        BY <4>1, WithoutRequest DEF RouterInv, TypeOK
      <4> QED  BY <3>1, <4>2, <4>3 DEF Reqs
    <3> QED  BY <3>2, <3>3
  <2>3. ASSUME NEW p
        PROVE  p \in waiting <=> \E r \in Reqs : r.ip = ip /\ p \in Elements(r.packets)
    BY DEF Indexes, Reqs, Elements
  <2> HIDE DEF waiting
  <2>4. ASSUME NEW p \in waiting PROVE p \in Packet
    <3>1. PICK r \in Reqs : r.ip = ip /\ p \in Elements(r.packets)
      BY <2>3
    <3>2. r \in Request
      BY ElementType DEF RouterInv, TypeOK, Reqs
    <3>3. r.packets \in Seq(Packet)
      BY <3>2 DEF Request
    <3> QED  BY <3>1, <3>3, ElementType
  <2>5. ASSUME NEW f \in sent
        PROVE  \E p \in waiting : p.id # 0 /\ f = <<p.id, p.ttl, TtlWhenSent(p)>>
    OBVIOUS
  <2>6. ASSUME NEW p \in waiting, p.id # 0
        PROVE  <<p.id, p.ttl, TtlWhenSent(p)>> \in sent
    BY <2>6
  <2> HIDE DEF sent
  <2>7. ASSUME NEW f \in sent
        PROVE  f \in Nat \X TTL \X TTL
    <3>1. PICK p \in waiting : f = <<p.id, p.ttl, TtlWhenSent(p)>>
      BY <2>5
    <3>2. p.id \in Nat /\ p.ttl \in TTL
      BY <2>4 DEF Packet
    <3>3. TtlWhenSent(p) \in TTL
      BY <3>2, LessOneType DEF TtlWhenSent
    <3> QED  BY <3>1, <3>2, <3>3
  <2>8. ASSUME NEW f \in sent
        PROVE  \E p \in waiting : p.id # 0 /\ f[1] = p.id
    <3>1. PICK p \in waiting : p.id # 0 /\ f = <<p.id, p.ttl, TtlWhenSent(p)>>
      BY <2>5
    <3> QED  BY <3>1
  <2>9. /\ \A t \in Thread : stack[t] = << >> /\ Frames(t) = {}
        /\ next_req = NULL
        /\ \A r \in Reqs : \A p \in Elements(r.packets) : p.id \notin refused
    BY <1>1, NoFrames
  <2>10. \A t \in Thread : Frames(t)' = {}
    BY <1>1, <2>9 DEF Frames
  <2>11. TypeOK'
    <3>1. entries' \in [1 .. SR_ARPCACHE_SZ ->
                          [ip : Address \cup {NoAddress}, age : 0 .. SR_ARPCACHE_TO + 1]]
      <4>1. [ip |-> ip, age |-> 0]
               \in [ip : Address \cup {NoAddress}, age : 0 .. SR_ARPCACHE_TO + 1]
        BY <1>1, ConstantsAssumption
      <4> QED  BY <2>1, <4>1 DEF Inserted, RouterInv, TypeOK
    <3>2. forwarded' \subseteq Nat \X TTL \X TTL
      BY <2>1, <2>7 DEF RouterInv, TypeOK
    <3> QED  BY <1>1, <2>1, <2>2, <3>1, <3>2 DEF RouterInv, TypeOK, sweep
  <2>12. HopInv' /\ FrameInv' /\ WalkInv' /\ RefusedInv'
    BY <1>1, <2>2, <2>9, <2>10 DEF RouterInv, HopInv, FrameInv, WalkInv, RefusedInv
  <2>13. SweepInv'
    BY <1>1, <2>9 DEF RouterInv, SweepInv, sweep, NULL
  <2>14. BelowInv'
    BY <1>1, <2>9 DEF BelowInv
  <2>15. IdInv'
    <3>1. ASSUME NEW f \in sent PROVE f[1] \in 1 .. arrived
      <4>1. PICK p \in waiting : p.id # 0 /\ f[1] = p.id
        BY <2>8
      <4>2. p.id \in 0 .. arrived
        BY <2>3 DEF RouterInv, IdInv
      <4> QED  BY <4>1, <4>2
    <3> QED  BY <1>1, <2>1, <2>2, <3>1 DEF RouterInv, IdInv
  <2>16. SentInv'
    <3>1. ASSUME NEW f \in sent
          PROVE  /\ f[1] \notin refused
                 /\ \A g \in forwarded : g[1] # f[1]
                 /\ \A g \in sent : g[1] = f[1] => g = f
                 /\ \A r \in Reqs' : \A q \in Elements(r.packets) : q.id # f[1]
      <4>1. PICK p \in waiting : p.id # 0 /\ f = <<p.id, p.ttl, TtlWhenSent(p)>>
        BY <2>5
      <4>2. f[1] = p.id
        BY <4>1
      <4>3. PICK s \in Reqs : s.ip = ip /\ p \in Elements(s.packets)
        BY <2>3
      <4>4. f[1] \notin refused /\ \A g \in forwarded : g[1] # f[1]
        BY <2>9, <4>2, <4>3 DEF RouterInv, SentInv
      <4>5. ASSUME NEW g \in sent, g[1] = f[1] PROVE g = f
        <5>1. PICK q \in waiting : q.id # 0 /\ g = <<q.id, q.ttl, TtlWhenSent(q)>>
          BY <2>5
        <5>2. q.id = p.id
          BY <4>2, <4>5, <5>1
        <5>3. q = p
          BY <2>3, <4>1, <4>3, <5>2 DEF RouterInv, IdInv
        <5> QED  BY <4>1, <5>1, <5>3
      <4>6. ASSUME NEW r \in Reqs', NEW q \in Elements(r.packets), q.id = f[1] PROVE FALSE
        <5>1. r \in Reqs /\ r.ip # ip
          BY <2>2
        <5>2. q = p
          BY <4>1, <4>2, <4>3, <4>6, <5>1 DEF RouterInv, IdInv
        <5> QED  BY <4>3, <5>1, <5>2 DEF RouterInv, HopInv
      <4> QED  BY <4>4, <4>5, <4>6
    <3>2. ASSUME NEW f \in forwarded
          PROVE  /\ f[1] \notin refused
                 /\ \A g \in forwarded : g[1] = f[1] => g = f
                 /\ \A r \in Reqs' : \A q \in Elements(r.packets) : q.id # f[1]
      BY <2>2 DEF RouterInv, SentInv
    <3> QED  BY <1>1, <2>1, <3>1, <3>2 DEF SentInv
  <2>17. NoneLost'
    <3>1. SUFFICES ASSUME NEW id \in transit PROVE Queued(id)' \/ Sent(id)' \/ id \in refused
      BY <1>1 DEF NoneLost
    <3>2. Sent(id) => Sent(id)'
      BY <2>1 DEF Sent
    <3>3. ASSUME Queued(id) PROVE Queued(id)' \/ Sent(id)'
      <4>1. PICK r \in Reqs : \E p \in Elements(r.packets) : p.id = id
        BY <3>3, QueuedIff
      <4>2. PICK p \in Elements(r.packets) : p.id = id
        BY <4>1
      <4>3. CASE r.ip # ip
        BY <2>2, <4>2, <4>3, QueuedIff
      <4>4. CASE r.ip = ip
        <5>1. p.id # 0
          BY <4>2 DEF RouterInv, IdInv
        <5>2. <<p.id, p.ttl, TtlWhenSent(p)>> \in forwarded'
          BY <2>1, <2>3, <2>6, <4>4, <5>1
        <5>3. \E f \in forwarded' : f[1] = id
          BY <4>2, <5>2
        <5> QED  BY <5>3 DEF Sent
      <4> QED  BY <4>3, <4>4
    <3> QED  BY <3>2, <3>3 DEF RouterInv, NoneLost
  <2>18. CountInv'
    <3>1. SameCalls
      <4>1. \A t \in Thread : Frames(t)' = {}
        BY <1>1, <2>9 DEF Frames
      <4> QED  BY <4>1 DEF SameCalls
    <3> QED  BY <2>2, <3>1, CountsKept DEF RouterInv, SameCount
  <2> QED  BY <2>2, <2>11, <2>12, <2>13, <2>14, <2>15, <2>16, <2>17, <2>18 DEF RouterInv
<1> QED  BY <1>2, <1>3

-----------------------------------------------------------------------------
(* The walk over the packets of a request that is given up *)

(* The source of p, the next packet of the walk f of thread t, is told; f1 *)
(* is the walk afterwards.  A packet pk of the router's own may be queued. *)
LEMMA WalkAdvanced ==
    ASSUME RouterInv, NEW t \in Thread, stack[t] # << >>,
           Walking(Top(t), Top(t).req.ip), NEW p \in Elements(Top(t).walk),
           NEW f1, f1.pc = "walk", f1.req = Top(t).req,
           Elements(f1.walk) \subseteq Elements(Top(t).walk),
           \A q \in Elements(Top(t).walk) : q = p \/ q \in Elements(f1.walk),
           NEW pk, pk.id = 0, Grown(pk), HopInv',
           Elements(Below(t)) \cup {f1} \subseteq Frames(t)',
           \A g \in Frames(t)' : g \in Elements(Below(t)) \cup {f1} \/
                                 (g.pc = "check" /\ g.req.ip \in Address
                                  /\ \E r \in Reqs' : r.ip = g.req.ip),
           \A u \in Thread : u # t => Frames(u)' = Frames(u),
           refused' = refused \cup ({p.id} \ {0}),
           UNCHANGED <<arrived, transit, forwarded>>
    PROVE  PacketInv'
<1> DEFINE f == Top(t)
<1>1. /\ f \in Frames(t) /\ Frames(t) = Elements(Below(t)) \cup {f}
  BY TopOfStack DEF RouterInv, TypeOK
<1>2. PICK r0 \in Reqs : r0.ip = f.req.ip
  BY <1>1 DEF RouterInv, FrameInv, Walking
<1>3. p \in Elements(r0.packets) /\ Elements(f.walk) \subseteq Elements(r0.packets)
  BY <1>1, <1>2 DEF RouterInv, WalkInv
<1> HIDE DEF f
<1>4. IdInv /\ arrived \in Nat /\ p.id \in 0 .. arrived
  BY <1>2, <1>3 DEF RouterInv, TypeOK, IdInv
<1>5. \A a : (\E r \in Reqs : r.ip = a) => \E r \in Reqs' : r.ip = a
  BY DEF Grown
<1>6. FrameInv'
  <2>1. SUFFICES ASSUME NEW u \in Thread, NEW g \in Frames(u)'
                 PROVE  /\ g.req.ip \in Address
                        /\ g.req.live => \E r \in Reqs' : r.ip = g.req.ip
    BY DEF FrameInv
  <2>2. ASSUME g \in Frames(u) \/ g = f1
        PROVE  /\ g.req.ip \in Address
               /\ g.req.live => \E r \in Reqs' : r.ip = g.req.ip
    <3>1. CASE g \in Frames(u)
      BY <1>5, <3>1 DEF RouterInv, FrameInv
    <3>2. CASE g = f1
      <4>1. g.req = f.req
        BY <3>2 DEF f
      <4>2. f.req.ip \in Address
        BY <1>1 DEF RouterInv, FrameInv
      <4> QED  BY <1>2, <1>5, <4>1, <4>2
    <3> QED  BY <2>2, <3>1, <3>2
  <2> QED  BY <1>1, <2>2
<1>7. IdInv'
  <2>1. refused' \subseteq 1 .. arrived
    <3>1. p.id # 0 => p.id \in 1 .. arrived
      BY <1>4
    <3> QED  BY <1>4, <3>1 DEF IdInv
  <2>2. ASSUME NEW r \in Reqs', NEW q \in Elements(r.packets)
        PROVE  q.id = 0 \/ \E s \in Reqs : q \in Elements(s.packets) /\ q.id \in 0 .. arrived
    BY <1>4 DEF Grown, IdInv
  <2>3. ASSUME NEW r \in Reqs', NEW q \in Elements(r.packets) PROVE q.id \in 0 .. arrived
    BY <1>4, <2>2
  <2>4. ASSUME NEW r \in Reqs', NEW q \in Elements(r.packets),
               NEW s \in Reqs', NEW e \in Elements(s.packets), q.id = e.id, q.id # 0
        PROVE  q = e
    BY <1>4, <2>2, <2>4 DEF IdInv
  <2> QED  BY <1>4, <2>1, <2>3, <2>4 DEF IdInv
<1>8. SentInv'
  <2>1. ASSUME NEW g \in forwarded PROVE g[1] # p.id /\ g[1] # 0
    BY <1>2, <1>3, <1>4 DEF RouterInv, SentInv, IdInv
  <2>2. ASSUME NEW g \in forwarded, NEW r \in Reqs', NEW q \in Elements(r.packets)
        PROVE  q.id # g[1]
    BY <2>1 DEF Grown, RouterInv, SentInv
  <2> QED  BY <2>1, <2>2 DEF RouterInv, SentInv
<1>9. WalkInv'
  <2>1. SUFFICES ASSUME NEW u \in Thread, NEW g \in Frames(u)', NEW r \in Reqs',
                        Walking(g, r.ip)
                 PROVE  /\ Elements(g.walk) \subseteq Elements(r.packets)
                        /\ \A q \in Elements(r.packets) :
                              q.id = 0 \/ q.id \in refused' \/ q \in Elements(g.walk)
    BY DEF WalkInv
  <2>2. PICK h \in Frames(u) :
           /\ Walking(h, r.ip)
           /\ Elements(g.walk) \subseteq Elements(h.walk)
           /\ \A q \in Elements(h.walk) : q = p \/ q \in Elements(g.walk)
    <3>1. CASE g = f1 /\ u = t
      BY <1>1, <2>1, <3>1 DEF Walking, f
    <3>2. CASE g \in Frames(u)
      BY <2>1, <3>2
    <3>3. g \in Frames(u) \/ (g = f1 /\ u = t)
      BY <1>1, <2>1 DEF Walking
    <3> QED  BY <3>1, <3>2, <3>3
  <2>3. PICK s \in Reqs : s.ip = r.ip
    BY <2>2 DEF RouterInv, FrameInv, Walking
  <2>4. Elements(s.packets) \subseteq Elements(r.packets)
    BY <2>3 DEF Grown
  <2>5. /\ Elements(h.walk) \subseteq Elements(s.packets)
        /\ \A q \in Elements(s.packets) :
              q.id = 0 \/ q.id \in refused \/ q \in Elements(h.walk)
    BY <2>2, <2>3 DEF RouterInv, WalkInv
  <2>6. \A x, y \in Reqs : x.ip = y.ip => x = y
    BY UniqueReqs DEF RouterInv, Reqs
  <2>7. ASSUME NEW q \in Elements(r.packets)
        PROVE  q.id = 0 \/ q.id \in refused' \/ q \in Elements(g.walk)
    <3>1. CASE q = pk
      BY <3>1
    <3>2. CASE q # pk
      <4>1. q \in Elements(s.packets)
        BY <2>3, <2>6, <3>2 DEF Grown
      <4> QED  BY <2>2, <2>5, <4>1
    <3> QED  BY <3>1, <3>2
  <2> QED  BY <2>2, <2>4, <2>5, <2>7
<1>10. RefusedInv'
  <2>1. SUFFICES ASSUME NEW r \in Reqs', NEW q \in Elements(r.packets), q.id \in refused'
                 PROVE  \E u \in Thread : \E g \in Frames(u)' : Walking(g, r.ip)
    BY DEF RefusedInv
  <2>2. q.id # 0
    BY <1>4, <2>1 DEF IdInv
  <2>3. PICK s \in Reqs : s.ip = r.ip /\ q \in Elements(s.packets)
    BY <2>2 DEF Grown
  <2>4. CASE q.id \in refused
    <3>1. PICK u \in Thread : \E g \in Frames(u) : Walking(g, r.ip)
      BY <2>3, <2>4 DEF RouterInv, RefusedInv
    <3>2. PICK g \in Frames(u) : Walking(g, r.ip)
      BY <3>1
    <3>3. CASE g \in Frames(u)'
      BY <3>2, <3>3
    <3>4. CASE g \notin Frames(u)'
      <4>1. u = t /\ g = f
        BY <1>1, <3>4
      <4>2. Walking(f1, r.ip)
        BY <3>2, <4>1 DEF Walking, f
      <4> QED  BY <4>2
    <3> QED  BY <3>3, <3>4
  <2>5. CASE q.id = p.id
    <3>1. q = p
      BY <1>2, <1>3, <1>4, <2>2, <2>3, <2>5 DEF IdInv
    <3>2. r.ip = r0.ip
      BY <1>2, <1>3, <2>3, <3>1 DEF RouterInv, HopInv
    <3>3. Walking(f1, r.ip)
      BY <1>2, <3>2 DEF Walking, f
    <3> QED  BY <3>3
  <2> QED  BY <2>1, <2>4, <2>5
<1>11. NoneLost'
  <2>1. SUFFICES ASSUME NEW id \in transit PROVE Queued(id)' \/ Sent(id)' \/ id \in refused'
    BY DEF NoneLost
  <2>2. Sent(id)' = Sent(id)
    BY DEF Sent
  <2>3. Queued(id) => Queued(id)'
    BY QueuedIff DEF Grown
  <2> QED  BY <2>2, <2>3 DEF RouterInv, NoneLost
<1> QED  BY <1>6, <1>7, <1>8, <1>9, <1>10, <1>11 DEF PacketInv

LEMMA NothingGrown ==
    ASSUME RouterInv, UNCHANGED requests, NEW pk
    PROVE  /\ Grown(pk) /\ CountsGrown /\ HopInv' /\ Reqs' = Reqs
           /\ requests' \in Seq(Request) /\ UniqueIp(requests)'
<1>1. Reqs' = Reqs
  BY DEF Reqs
<1>2. Grown(pk)
  BY <1>1, UniqueReqs DEF Grown, RouterInv, Reqs
<1> QED  BY <1>1, <1>2 DEF CountsGrown, SameCount, RouterInv, TypeOK, HopInv, UniqueIp

LEMMA HostUnreachableStep ==
    ASSUME RouterInv, NEW t \in Thread, HostUnreachable(t)
    PROVE  RouterInv'
<1> DEFINE f == Top(t)
           p == Head(f.walk)
           f1 == [f EXCEPT !.walk = Tail(@)]
           calls == Append(Below(t), f1)
           pk == Own(interface_ip[f.req.ip], p.src)
           ip == gateway[p.src]
<1>1. /\ stack[t] # << >> /\ f.pc = "walk" /\ f.walk # << >>
      /\ UNCHANGED <<arrived, transit, forwarded>>
  BY DEF HostUnreachable, Running
<1>2. CASE ~f.req.live \/ gateway[f.req.ip] = NoAddress \/ ip = NoAddress
  <2>1. refused' = refused /\ \E kind \in {"null", "freed_request"} : Faults(kind)
    BY <1>2 DEF HostUnreachable
  <2> QED  BY <1>1, <2>1, FaultsStep
<1>3. CASE ~(~f.req.live \/ gateway[f.req.ip] = NoAddress \/ ip = NoAddress)
  <2>1. /\ f.req.live /\ ip # NoAddress /\ SendOrQueue(t, pk, calls)
        /\ refused' = refused \cup ({p.id} \ {0})
        /\ UNCHANGED <<entries, sweep, asked>>
    BY <1>3 DEF HostUnreachable
  <2>2. /\ f \in Frame /\ f.req.ip \in Address
        /\ f \in Frames(t) /\ Frames(t) = Elements(Below(t)) \cup {f}
        /\ Below(t) \in Seq(Frame) /\ f.walk \in Seq(Packet)
    BY <1>1, RunningLocked, TopOfStack DEF RouterInv, TypeOK, Frame
  <2>3. /\ Tail(f.walk) \in Seq(Packet) /\ p \in Packet
        /\ Elements(f.walk) = Elements(Tail(f.walk)) \cup {p}
    BY <1>1, <2>2, TailElements
  <2>4. /\ p.src \in Address /\ p.id \in Nat /\ ip \in Address
        /\ interface_ip[f.req.ip] \in Address
    BY <2>1, <2>2, <2>3, ConstantsAssumption DEF Packet
  <2>5. pk \in Packet /\ pk.id = 0 /\ pk.dst = p.src
    BY <2>4, OwnType
  <2>6. f1 \in Frame /\ f1.pc = "walk" /\ f1.req = f.req /\ f1.walk = Tail(f.walk)
        /\ f1.loaded = f.loaded
    BY <1>1, <2>2, <2>3 DEF Frame
  <2>7. Walking(f, f.req.ip)
    BY <1>1, <2>1 DEF Walking
  <2>8. refused' \subseteq Nat
    <3>1. refused \subseteq Nat
      BY DEF RouterInv, TypeOK
    <3> QED  BY <2>1, <2>4, <3>1
  <2> DEFINE Done == /\ PacketInv' /\ BelowInv' /\ CountInv' /\ UniqueIp(requests)'
                     /\ requests' \in Seq(Request) /\ stack' \in [Thread -> Seq(Frame)]
                     /\ fault' \in {"no", "null", "freed_request", "freed_next", "stack"}
                     /\ stack'["sweeper"] # << >> => lock
                     /\ \A a : (\E r \in Reqs : r.ip = a) => \E r \in Reqs' : r.ip = a
  <2>9. ASSUME Done PROVE RouterInv'
    <3>1. TypeOK'
      BY <1>1, <2>1, <2>8, <2>9 DEF RouterInv, TypeOK, sweep
    <3>2. SweepInv'
      BY <2>1, <2>9 DEF RouterInv, SweepInv, sweep
    <3> QED  BY <2>9, <3>1, <3>2 DEF RouterInv, PacketInv
  <2>10. stack["sweeper"] # << >> => lock
    BY DEF RouterInv, SweepInv
  <2>11. t = "sweeper" => lock
    BY <1>1, <2>10
  <2>12. pk.dst = p.src /\ gateway[pk.dst] = ip
    BY <2>5
  <2>13. SendOrQueue(t, pk, calls) <=>
           IF Cached(ip)
           THEN stack' = [stack EXCEPT ![t] = calls] /\ UNCHANGED <<requests, fault>>
           ELSE IF Len(calls) >= MaxDepth
           THEN fault' = "stack" /\ UNCHANGED <<requests, stack>>
           ELSE /\ requests' = QueueReq(ip, pk)
                /\ stack' = [stack EXCEPT ![t] = Append(calls, Call(ip))]
                /\ UNCHANGED fault
    BY <2>12 DEF SendOrQueue
  <2>14. \A e \in Elements(Below(t)) : e.pc = "walk"
    BY <1>1 DEF RouterInv, BelowInv
  <2> HIDE DEF f1
  <2>15. /\ calls \in Seq(Frame)
         /\ Elements(calls) = Elements(Below(t)) \cup {f1}
    BY <2>2, <2>6, AppendElements
  <2>a. stack \in [Thread -> Seq(Frame)] /\ fault \in {"no", "null", "freed_request", "freed_next", "stack"}
    BY DEF RouterInv, TypeOK
  <2> HIDE DEF pk, ip, p
  <2>16. CASE Cached(ip)
    <3>1. stack' = [stack EXCEPT ![t] = Append(Below(t), f1)] /\ UNCHANGED <<requests, fault>>
      BY <2>1, <2>13, <2>16
    <3>2. /\ Grown(pk) /\ CountsGrown /\ HopInv' /\ Reqs' = Reqs
          /\ requests' \in Seq(Request) /\ UniqueIp(requests)'
      BY <3>1, NothingGrown
    <3>3. /\ stack' \in [Thread -> Seq(Frame)] /\ BelowInv'
          /\ Frames(t)' = Elements(Below(t)) \cup {f1}
          /\ \A u \in Thread : u # t => Frames(u)' = Frames(u)
      BY <1>1, <2>6, <3>1, Replaced
    <3>4. PacketInv'
      BY <1>1, <2>1, <2>3, <2>5, <2>6, <2>7, <3>2, <3>3, WalkAdvanced
    <3>5. CountInv'
      <4>1. SameCalls
        BY <1>1, <2>1, <2>2, <2>6, <3>3 DEF SameCalls, SameCall
      <4> QED  BY <3>2, <4>1, CountsGrownKept
    <3>6. stack'["sweeper"] # << >> => lock
      BY <2>10, <2>11, <2>a, <3>1
    <3> QED  BY <2>9, <2>a, <3>1, <3>2, <3>3, <3>4, <3>5, <3>6
  <2>17. CASE ~Cached(ip) /\ Len(calls) >= MaxDepth
    <3>1. fault' = "stack" /\ UNCHANGED <<requests, stack>>
      BY <2>1, <2>13, <2>17
    <3>2. /\ Grown(pk) /\ CountsGrown /\ HopInv' /\ Reqs' = Reqs
          /\ requests' \in Seq(Request) /\ UniqueIp(requests)'
      BY <3>1, NothingGrown
    <3>3. /\ stack' \in [Thread -> Seq(Frame)] /\ BelowInv'
          /\ \A u \in Thread : Frames(u)' = Frames(u)
      BY <2>a, <3>1, StackUnchanged DEF RouterInv
    <3>4. PacketInv'
      <4>1. p \in Elements(f.walk) /\ Elements(Below(t)) \cup {f} \subseteq Frames(t)'
        BY <2>2, <2>3, <3>3
      <4>2. \A g \in Frames(t)' : g \in Elements(Below(t)) \cup {f}
        BY <2>2, <3>3
      <4> QED  BY <1>1, <2>1, <2>5, <2>7, <3>2, <3>3, <4>1, <4>2, WalkAdvanced
    <3>5. CountInv'
      <4>1. SameCalls
        BY <3>3 DEF SameCalls, SameCall
      <4> QED  BY <3>2, <4>1, CountsGrownKept
    <3>6. stack'["sweeper"] # << >> => lock
      BY <2>10, <3>1
    <3> QED  BY <2>9, <3>1, <3>2, <3>3, <3>4, <3>5, <3>6
  <2>18. CASE ~Cached(ip) /\ ~(Len(calls) >= MaxDepth)
    <3>1. /\ requests' = QueueReq(ip, pk) /\ UNCHANGED fault
          /\ stack' = [stack EXCEPT ![t] = Append(calls, Call(ip))]
      BY <2>1, <2>13, <2>18
    <3>2. /\ requests' \in Seq(Request) /\ UniqueIp(requests)' /\ HopInv'
          /\ Grown(pk) /\ CountsGrown /\ \E r \in Reqs' : r.ip = ip
      BY <2>4, <2>5, <2>12, <3>1, QueueGrows
    <3>3. Call(ip) \in Frame /\ Call(ip).pc = "check" /\ Call(ip).req.ip = ip
      BY <2>4, CallType
    <3>4. \A e \in Elements(calls) : e.pc = "walk"
      BY <2>6, <2>14, <2>15
    <3> HIDE DEF calls
    <3>5. /\ stack' \in [Thread -> Seq(Frame)] /\ BelowInv'
          /\ Frames(t)' = Elements(calls) \cup {Call(ip)}
          /\ \A u \in Thread : u # t => Frames(u)' = Frames(u)
      BY <2>15, <3>1, <3>3, <3>4, Pushed
    <3>6. /\ Elements(Below(t)) \cup {f1} \subseteq Frames(t)'
          /\ \A g \in Frames(t)' : g \in Elements(Below(t)) \cup {f1} \/
                                   (g.pc = "check" /\ g.req.ip \in Address
                                    /\ \E r \in Reqs' : r.ip = g.req.ip)
      BY <2>4, <2>15, <3>2, <3>3, <3>5
    <3>7. PacketInv'
      BY <1>1, <2>1, <2>3, <2>5, <2>6, <2>7, <3>2, <3>5, <3>6, WalkAdvanced
    <3>8. CountInv'
      <4>1. SameCalls
        BY <1>1, <2>1, <2>2, <2>6, <2>15, <3>3, <3>5 DEF SameCalls, SameCall
      <4> QED  BY <3>2, <4>1, CountsGrownKept
    <3>9. stack'["sweeper"] # << >> => lock
      BY <2>10, <2>11, <2>a, <3>1
    <3>10. \A a : (\E r \in Reqs : r.ip = a) => \E r \in Reqs' : r.ip = a
      BY <3>2 DEF Grown
    <3> QED  BY <2>9, <2>a, <3>1, <3>2, <3>5, <3>7, <3>8, <3>9, <3>10
  <2> QED  BY <2>16, <2>17, <2>18
<1> QED  BY <1>2, <1>3

(* What is left of a call when the request for ip is freed *)
Left(c, ip) == [c EXCEPT !.req = Dangling(@, ip)]

LEMMA LeftType ==
    ASSUME NEW c \in Frame, NEW ip
    PROVE  /\ Left(c, ip) \in Frame /\ Left(c, ip).pc = c.pc /\ Left(c, ip).walk = c.walk
           /\ Left(c, ip).loaded = c.loaded
           /\ Left(c, ip).req.ip = c.req.ip
           /\ Left(c, ip).req.live <=> c.req.live /\ c.req.ip # ip
<1>1. /\ Dangling(c.req, ip) \in Pointer /\ Dangling(c.req, ip).ip = c.req.ip
      /\ Dangling(c.req, ip).live <=> c.req.live /\ c.req.ip # ip
  BY DEF Dangling, Pointer, Frame
<1> QED  BY <1>1 DEF Left, Frame

LEMMA DanglingElements ==
    ASSUME NEW s \in Seq(Frame), NEW ip
    PROVE  /\ DanglingCalls(s, ip) \in Seq(Frame)
           /\ Len(DanglingCalls(s, ip)) = Len(s)
           /\ \A k \in 1 .. Len(s) : DanglingCalls(s, ip)[k] = Left(s[k], ip)
           /\ \A e \in Elements(DanglingCalls(s, ip)) : \E c \in Elements(s) : e = Left(c, ip)
           /\ \A c \in Elements(s) : Left(c, ip) \in Elements(DanglingCalls(s, ip))
<1> DEFINE d == DanglingCalls(s, ip)
<1>1. d = [k \in DOMAIN s |-> Left(s[k], ip)]
  BY DEF DanglingCalls, Left
<1>2. DOMAIN s = 1 .. Len(s) /\ \A k \in DOMAIN s : s[k] \in Frame
  OBVIOUS
<1>3. \A k \in DOMAIN s : d[k] = Left(s[k], ip) /\ d[k] \in Frame
  BY <1>1, <1>2, LeftType
<1> HIDE DEF d
<1>4. d \in Seq(Frame) /\ DOMAIN d = DOMAIN s /\ Len(d) = Len(s)
  <2>1. d = [k \in DOMAIN s |-> d[k]]
    BY <1>1
  <2> QED  BY <1>3, <2>1, MappedElements
<1>5. ASSUME NEW e \in Elements(d) PROVE \E c \in Elements(s) : e = Left(c, ip)
  <2>1. PICK k \in DOMAIN s : e = d[k]
    BY <1>4 DEF Elements
  <2> QED  BY <1>3, <2>1 DEF Elements
<1>6. ASSUME NEW c \in Elements(s) PROVE Left(c, ip) \in Elements(d)
  <2>1. PICK k \in DOMAIN s : c = s[k]
    BY DEF Elements
  <2>2. d[k] \in Elements(d)
    BY <1>4 DEF Elements
  <2> QED  BY <1>3, <2>1, <2>2
<1> QED  BY <1>2, <1>3, <1>4, <1>5, <1>6 DEF d

LEMMA DestroyRequestStep ==
    ASSUME RouterInv, NEW t \in Thread, DestroyRequest(t)
    PROVE  RouterInv'
<1>1. CASE ~Top(t).req.live
  BY <1>1, FaultsStep DEF DestroyRequest, history
<1>2. CASE Top(t).req.live
  <2>a. PICK ip : ip = Top(t).req.ip
    OBVIOUS
  <2> DEFINE f == Top(t)
             rest(u) == IF u = t THEN Below(t) ELSE stack[u]
  <2>1. /\ stack[t] # << >> /\ f.pc = "walk" /\ f.walk = << >> /\ f.req.live /\ f.req.ip = ip
        /\ requests' = Without(Index(ip))
        /\ stack' = [u \in Thread |-> DanglingCalls(rest(u), ip)]
        /\ next_req' = Dangling(next_req, ip)
        /\ UNCHANGED <<entries, lock, woken, asked, fault, history>>
    BY <1>2, <2>a DEF DestroyRequest, Running
  <2>2. /\ f \in Frames(t) /\ ip \in Address /\ \E r \in Reqs : r.ip = ip
        /\ Below(t) \in Seq(Frame) /\ Frames(t) = Elements(Below(t)) \cup {f}
        /\ ~lock => t = "main"
    BY <2>1, RunningLocked, TopOfStack DEF RouterInv, TypeOK
  <2> HIDE DEF f
  <2>3. /\ requests' \in Seq(Request) /\ UniqueIp(requests)'
        /\ Reqs' = {r \in Reqs : r.ip # ip}
    <3>1. Index(ip) \in DOMAIN requests /\ requests[Index(ip)].ip = ip
      BY <2>2, LiveRequest
    <3>2. /\ Without(Index(ip)) \in Seq(Request) /\ UniqueIp(Without(Index(ip)))
          /\ Elements(Without(Index(ip))) = {r \in Reqs : r.ip # ip}
      BY <3>1, WithoutRequest DEF RouterInv, TypeOK
    <3>3. UniqueIp(requests)' = UniqueIp(requests')
      BY DEF UniqueIp
    <3> QED  BY <2>1, <3>2, <3>3 DEF Reqs
  <2>4. ASSUME NEW u \in Thread
        PROVE  /\ rest(u) \in Seq(Frame) /\ Elements(rest(u)) \subseteq Frames(u)
               /\ stack'[u] = DanglingCalls(rest(u), ip) /\ stack'[u] \in Seq(Frame)
               /\ \A e \in Frames(u)' : \E c \in Elements(rest(u)) : e = Left(c, ip)
               /\ \A c \in Elements(rest(u)) : Left(c, ip) \in Frames(u)'
    <3>1. rest(u) \in Seq(Frame) /\ Elements(rest(u)) \subseteq Frames(u)
      BY <2>2 DEF RouterInv, TypeOK, Frames
    <3>2. stack'[u] = DanglingCalls(rest(u), ip)
      BY <2>1
    <3> HIDE DEF rest
    <3> QED  BY <3>1, <3>2, DanglingElements DEF Frames
  <2>5. ASSUME NEW u \in Thread, NEW c \in Frames(u)
        PROVE  /\ Left(c, ip).pc = c.pc /\ Left(c, ip).walk = c.walk
               /\ Left(c, ip).loaded = c.loaded
               /\ Left(c, ip).req.ip = c.req.ip
               /\ Left(c, ip).req.live <=> c.req.live /\ c.req.ip # ip
    <3>1. stack[u] \in Seq(Frame)
      BY DEF RouterInv, TypeOK
    <3>2. c \in Frame
      BY <3>1, ElementType DEF Frames
    <3> QED  BY <3>2, LeftType
  <2>6. TypeOK'
    <3>1. stack' \in [Thread -> Seq(Frame)]
      BY <2>1, <2>4
    <3>2. next_req' \in Pointer
      BY <2>1 DEF RouterInv, TypeOK, Dangling, Pointer
    <3> QED  BY <2>1, <2>3, <3>1, <3>2 DEF RouterInv, TypeOK, history
  <2>7. SweepInv'
    <3>1. /\ next_req'.ip = next_req.ip
          /\ next_req'.live <=> next_req.live /\ next_req.ip # ip
          /\ next_req.ip = NoAddress => next_req' = next_req
      <4>1. next_req \in Pointer /\ NoAddress # ip
        BY <2>2, ConstantsAssumption DEF RouterInv, TypeOK
      <4> QED  BY <2>1, <4>1 DEF Dangling, Pointer
    <3>2. ~lock => stack'["sweeper"] = << >> /\ next_req' = NULL
      <4>1. SUFFICES ASSUME ~lock PROVE stack'["sweeper"] = << >> /\ next_req' = NULL
        OBVIOUS
      <4>2. next_req = NULL /\ stack["sweeper"] = << >> /\ t = "main"
        BY <2>2, <4>1 DEF RouterInv, SweepInv
      <4>3. next_req' = NULL
        BY <3>1, <4>2 DEF NULL
      <4>4. rest("sweeper") = << >> /\ "sweeper" \in Thread
        BY <4>2 DEF Thread
      <4>5. stack'["sweeper"] = DanglingCalls(<< >>, ip) /\ << >> \in Seq(Frame)
        BY <2>4, <4>4
      <4>6. Len(DanglingCalls(<< >>, ip)) = 0 /\ DanglingCalls(<< >>, ip) \in Seq(Frame)
        BY <4>5, DanglingElements
      <4> QED  BY <4>3, <4>5, <4>6
    <3>3. next_req.ip # NoAddress /\ next_req.live => \E r \in Reqs : r.ip = next_req.ip
      BY DEF RouterInv, SweepInv
    <3> QED  BY <2>1, <2>3, <3>1, <3>2, <3>3 DEF RouterInv, SweepInv
  <2>8. BelowInv'
    <3>1. SUFFICES ASSUME NEW u \in Thread, stack'[u] # << >>, NEW e \in Elements(Below(u)')
                   PROVE  e.pc = "walk"
      BY DEF BelowInv
    <3>2. CASE u = t
      <4>1. \A c \in Elements(Below(t)) : c.pc = "walk"
        BY <2>1 DEF RouterInv, BelowInv
      <4>2. e \in Frames(t)'
        <5>1. stack'[t] \in Seq(Frame)
          BY <2>4
        <5> QED  BY <3>1, <3>2, <5>1, TopElements DEF Frames, Below
      <4>3. PICK c \in Elements(Below(t)) : e = Left(c, ip)
        BY <2>4, <4>2
      <4> QED  BY <2>2, <2>5, <4>1, <4>3
    <3>3. CASE u # t
      <4>1. /\ stack[u] \in Seq(Frame) /\ stack'[u] = DanglingCalls(stack[u], ip)
        BY <2>4, <3>3
      <4>2. /\ stack'[u] \in Seq(Frame) /\ Len(stack'[u]) = Len(stack[u])
            /\ \A k \in 1 .. Len(stack[u]) : stack'[u][k] = Left(stack[u][k], ip)
        BY <4>1, DanglingElements
      <4> DEFINE n == Len(stack[u])
      <4>3. n \in Nat /\ n > 0 /\ stack[u] # << >>
        BY <3>1, <4>1, <4>2
      <4>4. PICK k \in 1 .. n - 1 : e = stack'[u][k]
        <5>1. Below(u)' = SubSeq(stack'[u], 1, n - 1)
          BY <4>2 DEF Below
        <5>2. \A k \in 1 .. n - 1 : stack'[u][k] \in Frame
          BY <4>2, <4>3
        <5>3. /\ Below(u)' \in Seq(Frame)
              /\ Len(Below(u)') = IF 1 <= n - 1 THEN n - 1 - 1 + 1 ELSE 0
              /\ \A k \in 1 .. n - 1 - 1 + 1 : Below(u)'[k] = stack'[u][1 + k - 1]
          BY <4>3, <5>1, <5>2, SubSeqProperties
        <5>4. PICK k \in 1 .. Len(Below(u)') : e = Below(u)'[k]
          BY <5>3 DEF Elements
        <5>5. k \in 1 .. n - 1 /\ k \in 1 .. n - 1 - 1 + 1 /\ 1 + k - 1 = k
          <6>1. CASE 1 <= n - 1
            BY <4>3, <5>3, <6>1
          <6>2. CASE ~(1 <= n - 1)
            BY <4>3, <5>3, <6>2
          <6> QED  BY <6>1, <6>2
        <5> QED  BY <5>3, <5>4, <5>5
      <4>5. stack[u][k] \in Elements(Below(u)) /\ stack[u][k] \in Frames(u)
        <5>1. \A j \in 1 .. n - 1 : stack[u][j] \in Frame
          BY <4>1
        <5>2. /\ Below(u) \in Seq(Frame)
              /\ Len(Below(u)) = IF 1 <= n - 1 THEN n - 1 - 1 + 1 ELSE 0
              /\ \A j \in 1 .. n - 1 - 1 + 1 : Below(u)[j] = stack[u][1 + j - 1]
          BY <4>3, <5>1, SubSeqProperties DEF Below
        <5>3. k \in 1 .. Len(Below(u)) /\ k \in 1 .. n - 1 - 1 + 1 /\ 1 + k - 1 = k
          BY <4>3, <5>2
        <5>4. Below(u)[k] = stack[u][k] /\ k \in DOMAIN Below(u)
          BY <5>2, <5>3
        <5>5. k \in DOMAIN stack[u]
          BY <4>1, <4>3
        <5> QED  BY <5>4, <5>5 DEF Elements, Frames
      <4>6. e = Left(stack[u][k], ip) /\ stack[u][k].pc = "walk"
        BY <4>2, <4>3, <4>4, <4>5 DEF RouterInv, BelowInv
      <4> QED  BY <2>5, <4>5, <4>6
    <3> QED  BY <3>2, <3>3
  <2>9. CountInv'
    <3>1. SameCalls
      BY <2>4, <2>5 DEF SameCalls, SameCall
    <3> QED  BY <2>3, <3>1, CountsKept DEF RouterInv, SameCount
  <2> HIDE DEF rest
  <2>10. HopInv' /\ IdInv' /\ SentInv'
    BY <2>1, <2>3 DEF RouterInv, HopInv, IdInv, SentInv, history
  <2>11. ASSUME NEW u \in Thread, NEW e \in Frames(u)'
         PROVE  \E c \in Frames(u) : /\ e.pc = c.pc /\ e.walk = c.walk /\ e.req.ip = c.req.ip
                                     /\ e.req.live <=> c.req.live /\ c.req.ip # ip
    BY <2>4, <2>5
  <2>12. FrameInv'
    BY <2>3, <2>11 DEF RouterInv, FrameInv
  <2>13. WalkInv'
    <3>1. SUFFICES ASSUME NEW u \in Thread, NEW e \in Frames(u)', NEW r \in Reqs',
                          Walking(e, r.ip)
                   PROVE  /\ Elements(e.walk) \subseteq Elements(r.packets)
                          /\ \A p \in Elements(r.packets) :
                                p.id = 0 \/ p.id \in refused \/ p \in Elements(e.walk)
      BY <2>1 DEF WalkInv, history
    <3>2. PICK c \in Frames(u) : /\ e.pc = c.pc /\ e.walk = c.walk /\ e.req.ip = c.req.ip
                                 /\ e.req.live <=> c.req.live /\ c.req.ip # ip
      BY <2>11
    <3>3. Walking(c, r.ip) /\ r \in Reqs
      BY <2>3, <3>1, <3>2 DEF Walking
    <3> QED  BY <3>2, <3>3 DEF RouterInv, WalkInv
  <2>14. RefusedInv'
    <3>1. SUFFICES ASSUME NEW r \in Reqs', NEW p \in Elements(r.packets), p.id \in refused
                   PROVE  \E u \in Thread : \E e \in Frames(u)' : Walking(e, r.ip)
      BY <2>1 DEF RefusedInv, history
    <3>2. r \in Reqs /\ r.ip # ip
      BY <2>3
    <3>3. PICK u \in Thread : \E c \in Frames(u) : Walking(c, r.ip)
      BY <3>1, <3>2 DEF RouterInv, RefusedInv
    <3>4. PICK c \in Frames(u) : Walking(c, r.ip)
      BY <3>3
    <3>5. c \in Elements(rest(u))
      <4>1. CASE u = t
        BY <2>1, <2>2, <3>2, <3>4, <4>1 DEF Walking, rest
      <4>2. CASE u # t
        BY <3>4, <4>2 DEF rest, Frames
      <4> QED  BY <4>1, <4>2
    <3>6. Left(c, ip) \in Frames(u)' /\ Walking(Left(c, ip), r.ip)
      BY <2>4, <2>5, <3>2, <3>4, <3>5 DEF Walking
    <3> QED  BY <3>6
  <2>15. NoneLost'
    <3>1. SUFFICES ASSUME NEW id \in transit PROVE Queued(id)' \/ Sent(id)' \/ id \in refused
      BY <2>1 DEF NoneLost, history
    <3>2. Sent(id)' = Sent(id)
      BY <2>1 DEF Sent, history
    <3>3. ASSUME Queued(id) PROVE Queued(id)' \/ id \in refused
      <4>1. PICK r \in Reqs : \E p \in Elements(r.packets) : p.id = id
        BY <3>3, QueuedIff
      <4>2. PICK p \in Elements(r.packets) : p.id = id
        BY <4>1
      <4>3. CASE r.ip # ip
        BY <2>3, <4>2, <4>3, QueuedIff
      <4>4. CASE r.ip = ip
        <5>1. Walking(f, r.ip) /\ Elements(f.walk) = {}
          BY <2>1, <4>4, EmptyElements DEF Walking
        <5>2. p.id = 0 \/ p.id \in refused
          BY <2>2, <5>1 DEF RouterInv, WalkInv
        <5>3. p.id # 0
          BY <4>2 DEF RouterInv, IdInv
        <5> QED  BY <4>2, <5>2, <5>3
      <4> QED  BY <4>3, <4>4
    <3> QED  BY <3>2, <3>3 DEF RouterInv, NoneLost
  <2> QED  BY <2>3, <2>6, <2>7, <2>8, <2>9, <2>10, <2>12, <2>13, <2>14, <2>15 DEF RouterInv
<1> QED  BY <1>1, <1>2

-----------------------------------------------------------------------------
(* The invariant *)

LEMMA InitInv ==
    ASSUME Init
    PROVE  RouterInv
<1>1. Reqs = {} /\ \A t \in Thread : stack[t] = << >> /\ Frames(t) = {}
  BY EmptyElements DEF Init, Reqs, Frames
<1>2. NULL \in Pointer /\ NULL.ip = NoAddress /\ NULL.live
  BY DEF NULL, Pointer
<1>3. TypeOK
  <2>1. [ip |-> NoAddress, age |-> 0]
           \in [ip : Address \cup {NoAddress}, age : 0 .. SR_ARPCACHE_TO + 1]
    BY ConstantsAssumption
  <2>2. entries \in [1 .. SR_ARPCACHE_SZ ->
                        [ip : Address \cup {NoAddress}, age : 0 .. SR_ARPCACHE_TO + 1]]
    BY <2>1 DEF Init
  <2>3. stack \in [Thread -> Seq(Frame)] /\ requests \in Seq(Request)
    BY DEF Init
  <2> QED  BY <1>2, <2>2, <2>3 DEF Init, TypeOK
<1>4. UniqueIp(requests) /\ BelowInv
  BY <1>1 DEF Init, UniqueIp, BelowInv
<1>5. HopInv /\ FrameInv /\ IdInv /\ SentInv /\ WalkInv /\ RefusedInv /\ CountInv
  BY <1>1 DEF Init, HopInv, FrameInv, IdInv, SentInv, WalkInv, RefusedInv, CountInv
<1>6. SweepInv
  BY <1>1, <1>2 DEF Init, SweepInv, Thread
<1>7. NoneLost
  BY DEF Init, NoneLost
<1> QED  BY <1>3, <1>4, <1>5, <1>6, <1>7 DEF RouterInv

LEMMA NextInv ==
    ASSUME RouterInv, [Next]_vars
    PROVE  RouterInv'
<1>1. CASE Receive
  <2>1. ASSUME NEW d \in Traffic, EchoReply(d) PROVE RouterInv'
    BY <2>1, EchoReplyStep
  <2>2. ASSUME NEW d \in Traffic, PortUnreachable(d) PROVE RouterInv'
    BY <2>2, IcmpErrorStep DEF PortUnreachable
  <2>3. ASSUME NEW d \in Traffic, Ignore(d) PROVE RouterInv'
    BY <2>3, IgnoredStep DEF Ignore
  <2>4. ASSUME NEW d \in Traffic, TimeExceeded(d) PROVE RouterInv'
    BY <2>4, IcmpErrorStep DEF TimeExceeded
  <2>5. ASSUME NEW d \in Traffic, Forward(d) PROVE RouterInv'
    BY <2>5, ForwardStep
  <2>6. ASSUME NEW d \in Traffic, NetUnreachable(d) PROVE RouterInv'
    BY <2>6, IcmpErrorStep, IgnoredStep DEF NetUnreachable
  <2>7. ASSUME NEW ip \in asked, ArpReply(ip) PROVE RouterInv'
    BY <2>7, ArpReplyStep
  <2> QED  BY <1>1, <2>1, <2>2, <2>3, <2>4, <2>5, <2>6, <2>7 DEF Receive
<1>2. ASSUME NEW t \in Thread, Handle(t) PROVE RouterInv'
  BY <1>2, HandleArpreqStep, SendArpRequestStep, CountAttemptStep, HostUnreachableStep,
     DestroyRequestStep DEF Handle
<1>3. CASE Sweep
  BY <1>3, SweepBeginStep, SweepNextStep, SweepEndStep DEF Sweep
<1>4. CASE Tick
  BY <1>4, TickStep
<1>5. CASE UNCHANGED vars
  <2>1. TypeOK' /\ arrived <= arrived'
    BY <1>5 DEF RouterInv, TypeOK, vars, sweep, history
  <2> QED  BY <1>5, <2>1, QuietStep DEF vars, sweep, history
<1> QED  BY <1>1, <1>2, <1>3, <1>4, <1>5 DEF Next

LEMMA Invariant == Spec => []RouterInv
<1>1. Init => RouterInv
  BY InitInv
<1>2. RouterInv /\ [Next]_vars => RouterInv'
  BY NextInv
<1> QED  BY <1>1, <1>2, PTL DEF Spec

-----------------------------------------------------------------------------
(* For every routing, cache and traffic, the router's state is well typed: *)
(* in particular no TTL leaves the eight bits it has, though zero wraps.   *)
THEOREM TypeCorrect == Spec => []TypeOK
<1>1. RouterInv => TypeOK
  BY DEF RouterInv
<1> QED  BY <1>1, Invariant, PTL

(* sr_arpcache_queuereq() keeps one request per next hop, whichever thread *)
(* queues, and handle_arpreq() always finds a packet to ask for.           *)
THEOREM QueueCorrect == Spec => []QueueByNextHop
<1>1. RouterInv => QueueByNextHop
  <2>1. SUFFICES ASSUME RouterInv PROVE QueueByNextHop
    OBVIOUS
  <2>2. \A i \in DOMAIN requests : requests[i] \in Reqs
    BY DEF Reqs, Elements
  <2> QED  BY <2>1, <2>2 DEF RouterInv, UniqueIp, HopInv, QueueByNextHop
<1> QED  BY <1>1, Invariant, PTL

(* A packet taken for forwarding waits, was sent on, or its source was     *)
(* told: neither sr_arpreq_destroy() nor a reply loses it.                 *)
THEOREM NothingLost == Spec => []NoneLost
<1>1. RouterInv => NoneLost
  BY DEF RouterInv
<1> QED  BY <1>1, Invariant, PTL

(* No packet is both sent on and reported as undeliverable, or sent twice, *)
(* although two threads work on the queue.                                 *)
THEOREM NeverBoth == Spec => []SentOrRefused
<1>1. RouterInv => SentOrRefused
  <2>1. SUFFICES ASSUME RouterInv, NEW id \in transit
                 PROVE  /\ ~(Sent(id) /\ id \in refused)
                        /\ Sent(id) => ~Queued(id)
                        /\ Cardinality({f \in forwarded : f[1] = id}) <= 1
    BY DEF SentOrRefused
  <2>2. ~(Sent(id) /\ id \in refused)
    BY <2>1 DEF RouterInv, SentInv, Sent
  <2>3. Sent(id) => ~Queued(id)
    BY <2>1, QueuedIff DEF RouterInv, SentInv, Sent
  <2>4. Cardinality({f \in forwarded : f[1] = id}) <= 1
    <3> DEFINE F == {f \in forwarded : f[1] = id}
    <3>1. CASE F = {}
      BY <3>1, FS_EmptySet
    <3>2. CASE F # {}
      <4>1. PICK f \in F : TRUE
        BY <3>2
      <4>2. F = {f}
        BY <2>1, <4>1 DEF RouterInv, SentInv
      <4>3. Cardinality(F) = 1
        BY <4>2, FS_Singleton
      <4> QED  BY <4>3
    <3> QED  BY <3>1, <3>2
  <2> QED  BY <2>2, <2>3, <2>4
<1> QED  BY <1>1, Invariant, PTL

(* A pointer to a request, in a call or in the sweep, leads to a request   *)
(* that is in the queue unless sr_arpreq_destroy() has freed it: no reply  *)
(* frees a request that somebody points to.                                *)
THEOREM PointersCorrect == Spec => []PointersValid
<1>1. RouterInv => PointersValid
  <2>1. SUFFICES ASSUME RouterInv PROVE PointersValid
    OBVIOUS
  <2>2. ASSUME NEW ip, \E r \in Reqs : r.ip = ip PROVE Indexes(ip) # {}
    BY <2>2 DEF Reqs, Elements, Indexes
  <2>3. ASSUME NEW t \in Thread, NEW k \in DOMAIN stack[t], stack[t][k].req.live
        PROVE  Indexes(stack[t][k].req.ip) # {}
    <3>1. stack[t][k] \in Frames(t)
      BY DEF Frames, Elements
    <3> QED  BY <2>1, <2>2, <2>3, <3>1 DEF RouterInv, FrameInv
  <2>4. ASSUME next_req.live, next_req # NULL PROVE Indexes(next_req.ip) # {}
    <3>1. next_req.ip # NoAddress
      BY <2>1, <2>4 DEF RouterInv, TypeOK, Pointer, NULL
    <3> QED  BY <2>1, <2>2, <2>4, <3>1 DEF RouterInv, SweepInv
  <2> QED  BY <2>3, <2>4 DEF PointersValid
<1> QED  BY <1>1, Invariant, PTL

(* However the two threads overwrite each other's count, a request is      *)
(* given up only after as many broadcasts as the limit says.               *)
THEOREM AttemptsCorrect == Spec => []GivenUpAfterAttempts
<1>1. RouterInv => GivenUpAfterAttempts
  <2>1. SUFFICES ASSUME RouterInv, NEW t \in Thread, NEW k \in DOMAIN stack[t],
                        stack[t][k].pc = "walk", stack[t][k].req.live,
                        NEW i \in Indexes(stack[t][k].req.ip)
                 PROVE  requests[i].broadcasts >= MaxSent
    BY DEF GivenUpAfterAttempts
  <2>2. /\ requests[i] \in Reqs /\ requests[i].ip = stack[t][k].req.ip
        /\ stack[t][k] \in Frames(t)
    BY DEF Indexes, Reqs, Frames, Elements
  <2>3. CallCounts(stack[t][k], requests[i])
    BY <2>1, <2>2 DEF RouterInv, CountInv
  <2>4. MaxSent \in Nat /\ requests[i].broadcasts \in Nat
    <3>1. requests \in Seq(Request) /\ i \in DOMAIN requests
      BY <2>1 DEF RouterInv, TypeOK, Indexes
    <3>2. requests[i] \in Request
      BY <3>1
    <3> QED  BY <3>2, ConstantsAssumption DEF Request
  <2> QED  BY <2>1, <2>3, <2>4 DEF CallCounts
<1> QED  BY <1>1, Invariant, PTL

=============================================================================
