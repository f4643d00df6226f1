------------------------------- MODULE Proxy --------------------------------
(***************************************************************************)
(* The HTTP proxy of assignment 2 (proxy.c): the blacklist read from       *)
(* standard input, and what the child process of a connection does: read   *)
(* the request, check it, redirect it, pass it to the host and relay the   *)
(* answer.                                                                 *)
(*                                                                         *)
(* A request is abstracted to its length and to where in it things are:    *)
(* a prefix of it is what has arrived so far.                              *)
(*   len        bytes the client has to send                               *)
(*   blank      bytes up to the end of the blank line after the header     *)
(*   lf_cr_lf   the prefixes that end in LF CR LF                          *)
(*   lf         the prefixes that end in LF                                *)
(*   uri_end    bytes up to the space after the URI                        *)
(*   host_at    bytes up to the first one of the Host header's value       *)
(*   checks     which of the checks on method, URI, port, version and Host *)
(*              header the request would fail when it is all there         *)
(*   host       the host named in the URI                                  *)
(***************************************************************************)
EXTENDS ForkServer

CONSTANTS
    Host,         \* host names, WARNING among them
    WARNING,      \* "warning.or.kr"
    NoHost,
    Resolvable,   \* names that gethostbyname() knows
    Listed,       \* names that occur in the text on standard input
    Request,      \* the requests each client may send
    Garbage,      \* names that may occur in an array never initialised
    ResponseLen,  \* bytes of a host's answer
    Hasty         \* bound: clients that may end their half of the connection

ASSUME ProxyAssumption ==
    /\ WARNING \in Host /\ NoHost \notin Host
    /\ WARNING \notin Listed
    /\ Resolvable \subseteq Host /\ Listed \subseteq Host
    /\ \A c \in Client : \A r \in Request[c] :
          /\ r.host \in Host
          /\ r.uri_end \in Nat /\ r.host_at \in Nat /\ r.blank \in Nat /\ r.len \in Nat
          /\ r.uri_end < r.host_at /\ r.host_at <= r.blank /\ r.blank <= r.len
          /\ \A n \in r.lf_cr_lf : n \in r.blank .. r.len
    /\ Garbage \subseteq Host \ {WARNING}
    /\ ResponseLen \in [Host -> Nat] /\ Hasty \subseteq Client

VARIABLES
    stdin_ready,     \* standard input had something when the proxy started
    tot_blacklist,   \* names that occur in tot_blacklist
    request,         \* what each client wants to send
    sent,            \* bytes of it that the client has sent
    peer,            \* the client's end: "open", "shut" (sends no more) or "gone"
    stage,           \* where the child is
    num_tot,         \* bytes in totalBuf
    contacted,       \* the host the child connected to
    host,            \* the host's end of that connection
    host_sent,       \* bytes the host has sent
    answer,          \* the error answer sent to the client
    relayed          \* bytes of the host's answer sent to the client

clients == <<request, sent, peer>>
child == <<stage, num_tot, contacted, answer, relayed>>
hosts == <<host, host_sent>>
vars == <<server, stdin_ready, tot_blacklist, clients, child, hosts>>

TypeOK ==
    /\ ServerTypeOK
    /\ stdin_ready \in BOOLEAN
    /\ tot_blacklist \subseteq Host
    /\ \A c \in Client : request[c] \in Request[c]
    /\ peer \in [Client -> {"open", "shut", "gone"}]
    /\ stage \in [Client -> {"recv", "parse", "relay"}]
    /\ contacted \in [Client -> Host \cup {NoHost}]
    /\ host \in [Client -> {"none", "up", "closed", "failed"}]
    /\ answer \in [Client -> {"none", "400", "404"}]
    /\ num_tot \in [Client -> Nat] /\ sent \in [Client -> Nat]
    /\ relayed \in [Client -> Nat] /\ host_sent \in [Client -> Nat]
    /\ \A c \in Client : /\ num_tot[c] <= sent[c] /\ sent[c] <= request[c].len
                         /\ relayed[c] <= host_sent[c]

Init ==
    /\ ServerInit
    /\ stdin_ready \in BOOLEAN
    /\ tot_blacklist = {}
    /\ request \in {f \in [Client -> UNION {Request[c] : c \in Client}] :
                       \A c \in Client : f[c] \in Request[c]}
    /\ sent = [c \in Client |-> 0]
    /\ peer = [c \in Client |-> "open"]
    /\ stage = [c \in Client |-> "recv"]
    /\ num_tot = [c \in Client |-> 0]
    /\ contacted = [c \in Client |-> NoHost]
    /\ host = [c \in Client |-> "none"]
    /\ host_sent = [c \in Client |-> 0]
    /\ answer = [c \in Client |-> "none"]
    /\ relayed = [c \in Client |-> 0]

-----------------------------------------------------------------------------
(* Start: poll() with no timeout decides whether standard input is read.   *)
(* The text is appended to an array that was never initialised, in which   *)
(* any name may occur.                                                     *)
Boot ==
    /\ Listening
    /\ \E garbage \in SUBSET Garbage :
          tot_blacklist' = garbage \cup IF stdin_ready THEN Listed ELSE {}
    /\ UNCHANGED <<stdin_ready, clients, child, hosts>>

-----------------------------------------------------------------------------
(* The client and the host *)

ClientSend(c) ==
    /\ holders[c] # {} /\ peer[c] = "open"
    /\ \E n \in sent[c] + 1 .. request[c].len : sent' = [sent EXCEPT ![c] = n]
    /\ UNCHANGED <<server, stdin_ready, tot_blacklist, request, peer, child, hosts>>

(* The client ends its half of the connection, or all of it. *)
ClientEnd(c) ==
    /\ c \in Hasty /\ holders[c] # {} /\ peer[c] # "gone"
    /\ peer' \in {[peer EXCEPT ![c] = "shut"], [peer EXCEPT ![c] = "gone"]}
    /\ UNCHANGED <<server, stdin_ready, tot_blacklist, request, sent, child, hosts>>

HostSend(c) ==
    /\ host[c] = "up"
    /\ \E n \in host_sent[c] + 1 .. ResponseLen[contacted[c]] :
          host_sent' = [host_sent EXCEPT ![c] = n]
    /\ UNCHANGED <<server, stdin_ready, tot_blacklist, clients, child, host>>

HostClose(c) ==
    /\ host[c] = "up"
    /\ host' = [host EXCEPT ![c] = IF host_sent[c] = ResponseLen[contacted[c]]
                                     THEN "closed" ELSE "failed"]
    /\ UNCHANGED <<server, stdin_ready, tot_blacklist, clients, child, host_sent>>

-----------------------------------------------------------------------------
(* The child *)

ChildAt(c, place) == proc[c] = "running" /\ stage[c] = place

To(c, place) == stage' = [stage EXCEPT ![c] = place]

(* Mutant: any line end is taken for the end of the request. *)
LineEndReached(c, n) == n \in request[c].lf

(* The end of the request is looked for at the end of what has arrived. *)
EndReached(c, n) == n \in request[c].lf_cr_lf

Recv(c) ==
    /\ ChildAt(c, "recv")
    /\ \E n \in num_tot[c] + 1 .. sent[c] :
          /\ num_tot' = [num_tot EXCEPT ![c] = n]
          /\ IF EndReached(c, n) THEN To(c, "parse") ELSE UNCHANGED stage
    /\ UNCHANGED <<server, stdin_ready, tot_blacklist, clients, contacted, answer,
                   relayed, hosts>>

(* recv() returns 0, or -1 on a reset: what has arrived is the request. *)
RecvEnd(c) ==
    /\ ChildAt(c, "recv") /\ peer[c] # "open"
    /\ num_tot[c] = sent[c] \/ peer[c] = "gone"
    /\ To(c, "parse")
    /\ UNCHANGED <<server, stdin_ready, tot_blacklist, clients, num_tot, contacted,
                   answer, relayed, hosts>>

(* send() to a client that has gone may kill the process (SIGPIPE). *)
Killed(c) ==
    /\ proc[c] = "running" /\ peer[c] = "gone"
    /\ \/ stage[c] = "parse"
       \/ stage[c] = "relay" /\ relayed[c] < host_sent[c]
    /\ ChildExit(c)
    /\ UNCHANGED <<stdin_ready, tot_blacklist, clients, child, hosts>>

(* Method and URI are scanned for a space; if it has not arrived the scan  *)
(* runs past the end of the buffer, and the process may die.               *)
ScanOverrun(c) ==
    /\ ChildAt(c, "parse") /\ num_tot[c] < request[c].uri_end
    /\ ChildExit(c)
    /\ UNCHANGED <<stdin_ready, tot_blacklist, clients, child, hosts>>

(* Every check answers 400.  A request cut off before the Host header's    *)
(* value fails one of them too.                                            *)
IsBadRequest(c) ==
    \/ request[c].checks # {}
    \/ request[c].host \notin Resolvable
    \/ num_tot[c] < request[c].host_at

BadRequest(c) ==
    /\ ChildAt(c, "parse") /\ IsBadRequest(c)
    /\ answer' = [answer EXCEPT ![c] = "400"]
    /\ ChildExit(c)
    /\ UNCHANGED <<stdin_ready, tot_blacklist, clients, stage, num_tot, contacted,
                   relayed, hosts>>

(* strstr(tot_blacklist, Host) *)
Target(c) == IF request[c].host \in tot_blacklist THEN WARNING ELSE request[c].host

GoodRequest(c) == ChildAt(c, "parse") /\ ~IsBadRequest(c)

(* getaddrinfo() fails. *)
NotFound(c) ==
    /\ GoodRequest(c)
    /\ answer' = [answer EXCEPT ![c] = "404"]
    /\ ChildExit(c)
    /\ UNCHANGED <<stdin_ready, tot_blacklist, clients, stage, num_tot, contacted,
                   relayed, hosts>>

(* The first address is the only one tried: if socket() or connect() fails *)
(* for it the connection is closed with no answer.                         *)
DialFails(c) ==
    /\ GoodRequest(c)
    /\ ChildExit(c)
    /\ UNCHANGED <<stdin_ready, tot_blacklist, clients, child, hosts>>

(* connect() succeeds and totalBuf is sent. *)
Forward(c) ==
    /\ GoodRequest(c)
    /\ contacted' = [contacted EXCEPT ![c] = Target(c)]
    /\ host' = [host EXCEPT ![c] = "up"]
    /\ To(c, "relay")
    /\ UNCHANGED <<server, stdin_ready, tot_blacklist, clients, num_tot, answer,
                   relayed, host_sent>>

(* recv() from the host and send() of as many bytes to the client. *)
Relay(c) ==
    /\ ChildAt(c, "relay")
    /\ \E n \in 1 .. host_sent[c] - relayed[c] :
          relayed' = [relayed EXCEPT ![c] = @ + n]
    /\ UNCHANGED <<server, stdin_ready, tot_blacklist, clients, stage, num_tot,
                   contacted, answer, hosts>>

(* Mutant: the answer is taken for complete when nothing more is there. *)
NothingThere(c) == relayed[c] = host_sent[c]

(* recv() returns 0, or fails, when the host has closed and all is read. *)
HostFinished(c) == host[c] # "up" /\ relayed[c] = host_sent[c]

RelayEnd(c) ==
    /\ ChildAt(c, "relay") /\ HostFinished(c)
    /\ ChildExit(c)
    /\ UNCHANGED <<stdin_ready, tot_blacklist, clients, child, hosts>>

ChildStep(c) ==
    \/ Recv(c)
    \/ RecvEnd(c)
    \/ Killed(c)
    \/ ScanOverrun(c)
    \/ BadRequest(c)
    \/ NotFound(c)
    \/ DialFails(c)
    \/ Forward(c)
    \/ Relay(c)
    \/ RelayEnd(c)

Outside(c) ==
    \/ Connect(c) /\ UNCHANGED <<stdin_ready, tot_blacklist, clients, child, hosts>>
    \/ ClientSend(c)
    \/ ClientEnd(c)
    \/ HostSend(c)
    \/ HostClose(c)

Parent ==
    \/ Boot
    \/ /\ StartFails \/ Accept \/ Fork \/ ForkFails \/ ParentClose \/ Sigchld
       /\ UNCHANGED <<stdin_ready, tot_blacklist, clients, child, hosts>>

Next == Parent \/ \E c \in Client : ChildStep(c) \/ Outside(c)

Spec == Init /\ [][Next]_vars

(* The kernel runs every process that can run, and a host ends its answer  *)
(* in the end.  Clients send and close as they like.                       *)
Fairness ==
    /\ WF_vars(Parent)
    /\ \A c \in Client : WF_vars(ChildStep(c)) /\ WF_vars(HostClose(c))

FairSpec == Spec /\ Fairness

-----------------------------------------------------------------------------
(* Properties *)

(* README: blacklisted domains are redirected, malformed requests are      *)
(* refused.  A host is contacted only with a request that passes every     *)
(* check and whose header has arrived as a whole, unless the client itself *)
(* ended it; and whatever the fragments in which a request arrives, no     *)
(* host on the blacklist is, if the list was there when the proxy started. *)
ContactedRightly ==
    \A c \in Client : contacted[c] # NoHost =>
        /\ request[c].checks = {}
        /\ peer[c] = "open" => num_tot[c] >= request[c].blank
        /\ stdin_ready => contacted[c] \notin Listed

(* A client that stays connected to the end has the host's whole answer,   *)
(* or the host failed; it never has an error answer and host bytes mixed.  *)
AnswerWhole ==
    \A c \in Client :
        /\ answer[c] # "none" => relayed[c] = 0
        /\ Released(c) /\ contacted[c] # NoHost /\ peer[c] # "gone" =>
              \/ relayed[c] = ResponseLen[contacted[c]]
              \/ host[c] = "failed" /\ relayed[c] = host_sent[c]

(* A client whose request ends where its data ends, and has been sent, is  *)
(* released in the end: answered or not, it sees end of file, although     *)
(* other clients may never finish theirs.                                  *)
ClientReleased ==
    \A c \in Client :
        (/\ holders[c] # {} /\ sent[c] = request[c].len
         /\ request[c].blank = request[c].len) ~> Released(c)
=============================================================================
