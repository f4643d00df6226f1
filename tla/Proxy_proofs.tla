---------------------------- MODULE Proxy_proofs ----------------------------
(***************************************************************************)
(* The proxy, for any number of clients and any requests in any fragments: *)
(* types, what is contacted, what is answered, and no zombie forgotten.    *)
(* The parent's side is proved in ForkServer_proofs; here the children,    *)
(* the clients and the hosts are added.                                    *)
(***************************************************************************)
EXTENDS Proxy, ForkServer_proofs

(* The child has left the loop that reads the request: its header has      *)
(* arrived, unless the client has ended it.                                *)
HeaderArrived ==
    \A c \in Client : stage[c] # "recv" /\ peer[c] = "open" => num_tot[c] >= request[c].blank

(* The blacklist has been read when the server listens. *)
ListRead == stdin_ready /\ main \notin {"boot", "exited"} => Listed \subseteq tot_blacklist

(* Where a child is, and what it has done by then. *)
StageInv ==
    \A c \in Client :
        /\ proc[c] = "none" => stage[c] = "recv"
        /\ stage[c] # "relay" => contacted[c] = NoHost /\ host[c] = "none" /\ relayed[c] = 0
        /\ contacted[c] # NoHost => /\ request[c].checks = {}
                                    /\ stdin_ready => contacted[c] \notin Listed
        /\ contacted[c] # NoHost <=> host[c] # "none"
        /\ answer[c] # "none" => relayed[c] = 0 /\ proc[c] \in {"zombie", "reaped"}

(* A host that has closed has sent its answer, and a child that ends has   *)
(* read all of it, unless its client has gone.                             *)
EndInv ==
    \A c \in Client :
        /\ host[c] = "closed" => host_sent[c] = ResponseLen[contacted[c]]
        /\ proc[c] \in {"zombie", "reaped"} /\ contacted[c] # NoHost /\ peer[c] # "gone" =>
              host[c] # "up" /\ relayed[c] = host_sent[c]

ProxyInv == ServerInv /\ TypeOK /\ HeaderArrived /\ ListRead /\ StageInv /\ EndInv

(* What the parts are about, for steps that leave them alone. *)
childside == <<stdin_ready, tot_blacklist, clients, child, hosts>>

LEMMA ProxyStarts == Init => ProxyInv
<1> SUFFICES ASSUME Init PROVE ProxyInv
  OBVIOUS
<1>1. ServerInv
  BY ServerStarts DEF Init
<1>2. TypeOK
  BY <1>1, ProxyAssumption DEF Init, TypeOK, ServerInv
<1>3. HeaderArrived /\ ListRead /\ StageInv /\ EndInv
  BY DEF Init, ServerInit, HeaderArrived, ListRead, StageInv, EndInv
<1> QED BY <1>1, <1>2, <1>3 DEF ProxyInv

(* The parent's steps, and Connect: the children are left alone.  A child  *)
(* is made or reaped, but none begins or ends its work.                    *)
LEMMA ServerSidePreserves ==
    ASSUME ProxyInv, ServerInv', UNCHANGED childside,
           main \notin {"boot", "exited"} \/ main' \in {"boot", "exited"},
           \A c \in Client : \/ proc'[c] = proc[c]
                             \/ proc[c] = "none" /\ stage[c] = "recv"
                             \/ proc[c] = "zombie" /\ proc'[c] = "reaped",
           \A c \in Client : proc'[c] = "none" => proc[c] = "none"
    PROVE  ProxyInv'
<1> USE DEF ProxyInv, childside, clients, child, hosts
<1>1. TypeOK'
  BY DEF TypeOK, ServerInv
<1>2. HeaderArrived' /\ ListRead'
  BY DEF HeaderArrived, ListRead
<1>3. StageInv'
  BY DEF StageInv
<1>4. EndInv'
  BY DEF StageInv, EndInv
<1> QED BY <1>1, <1>2, <1>3, <1>4

LEMMA BootPreserves ==
    ASSUME ProxyInv, Boot
    PROVE  ProxyInv'
<1> USE DEF ProxyInv, Boot
<1>1. ServerInv'
  BY ListeningPreserves
<1>2. /\ \A c \in Client : proc'[c] = proc[c] 
      /\ UNCHANGED <<stdin_ready, clients, child, hosts>>
      /\ tot_blacklist' \subseteq Host
      /\ stdin_ready => Listed \subseteq tot_blacklist'
  BY ProxyAssumption DEF Listening
<1>3. TypeOK'
  BY <1>1, <1>2 DEF TypeOK, ServerInv, clients, child, hosts
<1>4. HeaderArrived' /\ ListRead'
  BY <1>2 DEF HeaderArrived, ListRead, clients, child
<1>5. StageInv'
  BY <1>2 DEF StageInv, clients, child, hosts
<1>6. EndInv'
  BY <1>2 DEF EndInv, clients, child, hosts
<1> QED BY <1>1, <1>3, <1>4, <1>5, <1>6

LEMMA ParentPreserves ==
    ASSUME ProxyInv, Parent
    PROVE  ProxyInv'
<1> USE DEF ProxyInv
<1>1. CASE Boot
  BY <1>1, BootPreserves
<1>2. CASE StartFails /\ UNCHANGED childside
  <2>1. ServerInv'
    BY <1>2, StartFailsPreserves
  <2> QED BY <1>2, <2>1, ServerSidePreserves DEF StartFails
<1>3. CASE Accept /\ UNCHANGED childside
  <2>1. ServerInv'
    BY <1>3, AcceptPreserves
  <2> QED BY <1>3, <2>1, ServerSidePreserves DEF Accept, MainAt
<1>4. CASE (Fork \/ ForkFails) /\ UNCHANGED childside
  <2>1. ServerInv'
    BY <1>4, ForkPreserves
  <2>2. \A c \in Client : \/ proc'[c] = proc[c]
                          \/ proc[c] = "none" /\ stage[c] = "recv" /\ proc'[c] # "none"
    BY <1>4 DEF Fork, ForkFails, MainAt, ServerInv, ServerTypeOK, NewFdFresh, StageInv
  <2>3. main \notin {"boot", "exited"}
    BY <1>4 DEF Fork, ForkFails, MainAt
  <2> QED BY <1>4, <2>1, <2>2, <2>3, ServerSidePreserves
<1>5. CASE ParentClose /\ UNCHANGED childside
  <2>1. ServerInv'
    BY <1>5, ParentClosePreserves
  <2> QED BY <1>5, <2>1, ServerSidePreserves DEF ParentClose, MainAt
<1>6. CASE Sigchld /\ UNCHANGED childside
  <2>1. ServerInv'
    BY <1>6, SigchldPreserves
  <2>2. /\ main' = main
        /\ \A c \in Client : \/ proc'[c] = proc[c]
                             \/ proc[c] = "zombie" /\ proc'[c] = "reaped"
    BY <1>6 DEF Sigchld, SigchldDelivered, Reap, HandlerReturn, ServerInv, ServerTypeOK
  <2> QED BY <1>6, <2>1, <2>2, ServerSidePreserves
<1> QED BY <1>1, <1>2, <1>3, <1>4, <1>5, <1>6 DEF Parent, childside

LEMMA OutsidePreserves ==
    ASSUME ProxyInv, NEW c \in Client, Outside(c)
    PROVE  ProxyInv'
<1> USE DEF ProxyInv
<1>1. CASE Connect(c) /\ UNCHANGED childside
  <2>1. ServerInv'
    BY <1>1, ConnectPreserves
  <2> QED BY <1>1, <2>1, ServerSidePreserves DEF Connect
<1>2. CASE ClientSend(c) \/ ClientEnd(c) \/ HostSend(c) \/ HostClose(c)
  <2>1. UNCHANGED <<server, stdin_ready, tot_blacklist, child>>
    BY <1>2 DEF ClientSend, ClientEnd, HostSend, HostClose
  <2>2. ServerInv'
    BY <2>1, ServerStutters
  <2>3. TypeOK'
    <3>1. CASE ClientSend(c)
      BY <2>1, <2>2, <3>1, ProxyAssumption DEF ClientSend, TypeOK, ServerInv, child, hosts
    <3>2. CASE ClientEnd(c)
      BY <2>1, <2>2, <3>2 DEF ClientEnd, TypeOK, ServerInv, child, hosts
    <3>3. CASE HostSend(c)
      <4>1. contacted[c] \in Host
        BY <3>3, ProxyAssumption DEF HostSend, StageInv, TypeOK
      <4> QED BY <2>1, <2>2, <3>3, <4>1, ProxyAssumption DEF HostSend, TypeOK, ServerInv, clients, child
    <3>4. CASE HostClose(c)
      BY <2>1, <2>2, <3>4 DEF HostClose, TypeOK, ServerInv, clients, child
    <3> QED BY <1>2, <3>1, <3>2, <3>3, <3>4
  <2>4. HeaderArrived' /\ ListRead'
    BY <1>2, <2>1 DEF ClientSend, ClientEnd, HostSend, HostClose, HeaderArrived,
       ListRead, TypeOK, server, clients, child
  <2>5. StageInv'
    BY <1>2, <2>1 DEF ClientSend, ClientEnd, HostSend, HostClose, StageInv,
       TypeOK, server, clients, child, hosts
  <2>6. EndInv'
    <3>1. CASE ClientSend(c)
      BY <2>1, <3>1 DEF ClientSend, EndInv, server, child, hosts
    <3>2. CASE ClientEnd(c)
      BY <2>1, <3>2 DEF ClientEnd, EndInv, TypeOK, server, child, hosts
    <3>3. CASE HostSend(c)
      BY <2>1, <3>3 DEF HostSend, EndInv, TypeOK, server, clients, child
    <3>4. CASE HostClose(c)
      BY <2>1, <3>4 DEF HostClose, EndInv, TypeOK, server, clients, child
    <3> QED BY <1>2, <3>1, <3>2, <3>3, <3>4
  <2> QED BY <2>2, <2>3, <2>4, <2>5, <2>6
<1> QED BY <1>1, <1>2 DEF Outside, childside

(* A child's last step. *)
LEMMA ExitPreserves ==
    ASSUME ProxyInv, NEW c \in Client, proc[c] = "running", ChildExit(c),
           UNCHANGED <<stdin_ready, tot_blacklist, clients, stage, num_tot, contacted,
                       relayed, hosts>>,
           \/ UNCHANGED answer
           \/ stage[c] # "relay" /\ \E a \in {"400", "404"} : answer' = [answer EXCEPT ![c] = a],
           contacted[c] # NoHost /\ peer[c] # "gone" => HostFinished(c)
    PROVE  ProxyInv'
<1> USE DEF ProxyInv, clients, hosts
<1>1. ServerInv'
  BY ChildExitPreserves
<1>2. /\ main' = main
      /\ \A d \in Client : proc'[d] = IF d = c THEN "zombie" ELSE proc[d]
  BY DEF ChildExit, ServerInv, ServerTypeOK
<1>3. TypeOK'
  BY <1>1 DEF TypeOK, ServerInv
<1>4. HeaderArrived' /\ ListRead'
  BY <1>2 DEF HeaderArrived, ListRead
<1>5. StageInv'
  BY <1>2 DEF StageInv, TypeOK
<1>6. EndInv'
  BY <1>2 DEF EndInv, HostFinished
<1> QED BY <1>1, <1>3, <1>4, <1>5, <1>6

LEMMA ChildPreserves ==
    ASSUME ProxyInv, NEW c \in Client, ChildStep(c)
    PROVE  ProxyInv'
<1> USE DEF ProxyInv
<1>1. CASE Recv(c)
  <2>1. UNCHANGED <<server, stdin_ready, tot_blacklist, clients, contacted, answer, relayed, hosts>>
    BY <1>1 DEF Recv
  <2>2. ServerInv'
    BY <2>1, ServerStutters
  <2>3. PICK n \in num_tot[c] + 1 .. sent[c] :
            /\ num_tot' = [num_tot EXCEPT ![c] = n]
            /\ IF EndReached(c, n) THEN To(c, "parse") ELSE UNCHANGED stage
    BY <1>1 DEF Recv
  <2>4. n \in Nat /\ n <= sent[c] /\ (EndReached(c, n) => n >= request[c].blank)
    BY <2>3, ProxyAssumption DEF EndReached, TypeOK
  <2>5. TypeOK'
    BY <2>1, <2>2, <2>3, <2>4 DEF To, TypeOK, ServerInv, clients, hosts
  <2>6. HeaderArrived' /\ ListRead'
    BY <1>1, <2>1, <2>3, <2>4 DEF Recv, ChildAt, To, HeaderArrived, ListRead, TypeOK, server, clients
  <2>7. StageInv'
    BY <1>1, <2>1, <2>3 DEF Recv, ChildAt, To, StageInv, TypeOK, server, clients, hosts
  <2>8. EndInv'
    BY <2>1 DEF EndInv, server, clients, hosts
  <2> QED BY <2>2, <2>5, <2>6, <2>7, <2>8
<1>2. CASE RecvEnd(c)
  <2>1. UNCHANGED <<server, stdin_ready, tot_blacklist, clients, num_tot, contacted, answer, relayed, hosts>>
    BY <1>2 DEF RecvEnd
  <2>2. ServerInv'
    BY <2>1, ServerStutters
  <2>5. TypeOK'
    BY <1>2, <2>1, <2>2 DEF RecvEnd, To, TypeOK, ServerInv, clients, hosts
  <2>6. HeaderArrived' /\ ListRead'
    BY <1>2, <2>1 DEF RecvEnd, To, HeaderArrived, ListRead, TypeOK, server, clients
  <2>7. StageInv'
    BY <1>2, <2>1 DEF RecvEnd, ChildAt, To, StageInv, TypeOK, server, clients, hosts
  <2>8. EndInv'
    BY <2>1 DEF EndInv, server, clients, hosts
  <2> QED BY <2>2, <2>5, <2>6, <2>7, <2>8
<1>3. CASE Killed(c)
  BY <1>3, ExitPreserves DEF Killed, child
<1>4. CASE ScanOverrun(c)
  BY <1>4, ExitPreserves DEF ScanOverrun, ChildAt, StageInv, child
<1>5. CASE BadRequest(c)
  BY <1>5, ExitPreserves DEF BadRequest, ChildAt, StageInv
<1>6. CASE NotFound(c)
  BY <1>6, ExitPreserves DEF NotFound, GoodRequest, ChildAt, StageInv
<1>7. CASE DialFails(c)
  BY <1>7, ExitPreserves DEF DialFails, GoodRequest, ChildAt, StageInv, child
<1>8. CASE Forward(c)
  <2>1. UNCHANGED <<server, stdin_ready, tot_blacklist, clients, num_tot, answer, relayed, host_sent>>
    BY <1>8 DEF Forward
  <2>2. ServerInv'
    BY <2>1, ServerStutters
  <2>3. proc[c] = "running" /\ stage[c] = "parse" /\ request[c].checks = {}
    BY <1>8 DEF Forward, GoodRequest, ChildAt, IsBadRequest
  <2>4. Target(c) \in Host /\ Target(c) # NoHost /\ (stdin_ready => Target(c) \notin Listed)
    BY <2>3, ProxyAssumption DEF Target, TypeOK, ListRead, ServerInv, NoneBeforeBoot
  <2>5. TypeOK'
    BY <1>8, <2>1, <2>2, <2>4 DEF Forward, To, TypeOK, ServerInv, clients
  <2>6. HeaderArrived' /\ ListRead'
    BY <1>8, <2>1, <2>3 DEF Forward, To, HeaderArrived, ListRead, TypeOK, server, clients
  <2>7. StageInv'
    BY <1>8, <2>1, <2>3, <2>4 DEF Forward, To, StageInv, TypeOK, server, clients
  <2>8. EndInv'
    BY <1>8, <2>1, <2>3 DEF Forward, EndInv, StageInv, TypeOK, server, clients
  <2> QED BY <2>2, <2>5, <2>6, <2>7, <2>8
<1>9. CASE Relay(c)
  <2>1. UNCHANGED <<server, stdin_ready, tot_blacklist, clients, stage, num_tot, contacted, answer, hosts>>
    BY <1>9 DEF Relay
  <2>2. ServerInv'
    BY <2>1, ServerStutters
  <2>3. proc[c] = "running" /\ stage[c] = "relay" /\ answer[c] = "none"
    BY <1>9 DEF Relay, ChildAt, StageInv
  <2>5. TypeOK'
    BY <1>9, <2>1, <2>2 DEF Relay, TypeOK, ServerInv, clients, hosts
  <2>6. HeaderArrived' /\ ListRead'
    BY <2>1 DEF HeaderArrived, ListRead, server, clients
  <2>7. StageInv'
    BY <1>9, <2>1, <2>3 DEF Relay, StageInv, TypeOK, server, clients, hosts
  <2>8. EndInv'
    BY <1>9, <2>1, <2>3 DEF Relay, EndInv, TypeOK, server, clients, hosts
  <2> QED BY <2>2, <2>5, <2>6, <2>7, <2>8
<1>10. CASE RelayEnd(c)
  BY <1>10, ExitPreserves DEF RelayEnd, ChildAt, child
<1> QED BY <1>1, <1>2, <1>3, <1>4, <1>5, <1>6, <1>7, <1>8, <1>9, <1>10 DEF ChildStep

(* The inductive invariant holds in every reachable state. *)
LEMMA ProxyInvariant == Spec => []ProxyInv
<1>1. Init => ProxyInv
  BY ProxyStarts
<1>2. ProxyInv /\ [Next]_vars => ProxyInv'
  <2> SUFFICES ASSUME ProxyInv, [Next]_vars PROVE ProxyInv'
    OBVIOUS
  <2>1. CASE Parent
    BY <2>1, ParentPreserves
  <2>2. CASE \E c \in Client : ChildStep(c)
    BY <2>2, ChildPreserves
  <2>3. CASE \E c \in Client : Outside(c)
    BY <2>3, OutsidePreserves
  <2>4. CASE UNCHANGED vars
    <3>1. ServerInv'
      BY <2>4, ServerStutters DEF ProxyInv, vars
    <3> QED BY <2>4, <3>1, ServerSidePreserves DEF vars, server, childside
  <2> QED BY <2>1, <2>2, <2>3, <2>4 DEF Next
<1> QED BY <1>1, <1>2, PTL DEF Spec

(* The proxy is type correct, for any number of clients and any requests.  *)
(* In particular a child never takes in more of a request than its client  *)
(* has sent, and never relays more than the host has sent.                 *)
THEOREM TypeCorrect == Spec => []TypeOK
<1>1. ProxyInv => TypeOK
  BY DEF ProxyInv
<1> QED BY <1>1, ProxyInvariant, PTL

(* A host is contacted only with a complete request that passes the        *)
(* checks, and never a blacklisted one, however requests are cut into      *)
(* segments.                                                               *)
THEOREM ContactCorrect == Spec => []ContactedRightly
<1>1. ProxyInv => ContactedRightly
  BY DEF ProxyInv, HeaderArrived, StageInv, ContactedRightly
<1> QED BY <1>1, ProxyInvariant, PTL

(* A client that stays to the end has all that the host has sent, and an   *)
(* error answer is never mixed with it.                                    *)
THEOREM AnswerCorrect == Spec => []AnswerWhole
<1>1. ASSUME ProxyInv PROVE AnswerWhole
  <2> SUFFICES ASSUME NEW c \in Client
               PROVE  /\ answer[c] # "none" => relayed[c] = 0
                      /\ Released(c) /\ contacted[c] # NoHost /\ peer[c] # "gone" =>
                            \/ relayed[c] = ResponseLen[contacted[c]]
                            \/ host[c] = "failed" /\ relayed[c] = host_sent[c]
    BY DEF AnswerWhole
  <2>1. Released(c) => proc[c] \in {"zombie", "reaped"}
    BY <1>1 DEF Released, ProxyInv, ServerInv, ServerTypeOK, ChildHolds
  <2> QED BY <1>1, <2>1 DEF ProxyInv, TypeOK, StageInv, EndInv
<1> QED BY <1>1, ProxyInvariant, PTL

(* Although signals do not queue, no child that has ended is forgotten:    *)
(* for any number of children and any interleaving with the handler.       *)
THEOREM ZombiesReaped == Spec => []NoZombieForgotten
<1>1. ProxyInv => NoZombieForgotten
  BY DEF ProxyInv, ServerInv
<1> QED BY <1>1, ProxyInvariant, PTL
=============================================================================
