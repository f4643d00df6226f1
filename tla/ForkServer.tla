----------------------------- MODULE ForkServer -----------------------------
(***************************************************************************)
(* The skeleton that the servers of assignments 1 and 2 share: the accept  *)
(* loop, one child process per connection, the copies of the connection's  *)
(* descriptor in parent and child, and the SIGCHLD handler that reaps the  *)
(* children.  Line numbers refer to proxy.c; server.c has the same code.   *)
(* What a child does with its connection is left to the modules that       *)
(* extend this one.                                                        *)
(***************************************************************************)
EXTENDS Integers, Sequences

CONSTANTS
    Client,           \* the clients, each with one connection
    NoClient,         \* new_fd when it names no connection
    BACKLOG,          \* connections the kernel queues for accept()
    MaxForkFailures   \* bound: calls of fork() that fail

ASSUME ForkServerAssumption ==
    /\ NoClient \notin Client
    /\ BACKLOG \in Nat \ {0}
    /\ MaxForkFailures \in Nat

VARIABLES
    backlog,    \* connections completed and not yet accepted
    main,       \* where the parent is: "boot", "accept", "fork", "close", "exited"
    new_fd,     \* the connection the parent works on
    holders,    \* which processes hold a descriptor of a connection
    proc,       \* the child process of a connection
    sigchld,    \* SIGCHLD is pending
    handler,    \* the parent is in sigchld_handler()
    failures    \* calls of fork() that have failed

server == <<backlog, main, new_fd, holders, proc, sigchld, handler, failures>>

ServerTypeOK ==
    /\ backlog \in Seq(Client)
    /\ main \in {"boot", "accept", "fork", "close", "exited"}
    /\ new_fd \in Client \cup {NoClient}
    /\ holders \in [Client -> SUBSET {"kernel", "parent", "child"}]
    /\ proc \in [Client -> {"none", "running", "zombie", "reaped"}]
    /\ sigchld \in BOOLEAN /\ handler \in BOOLEAN
    /\ failures \in 0 .. MaxForkFailures

ServerInit ==
    /\ backlog = << >> /\ main = "boot" /\ new_fd = NoClient
    /\ holders = [c \in Client |-> {}]
    /\ proc = [c \in Client |-> "none"]
    /\ sigchld = FALSE /\ handler = FALSE /\ failures = 0

(* The signal handler runs on the parent's only thread. *)
MainAt(place) == main = place /\ ~handler

(* socket(), bind() and listen() on the first address that allows it. *)
Listening ==
    /\ main = "boot"
    /\ main' = "accept"
    /\ UNCHANGED <<backlog, new_fd, holders, proc, sigchld, handler, failures>>

StartFails ==
    /\ main = "boot"
    /\ main' = "exited"
    /\ UNCHANGED <<backlog, new_fd, holders, proc, sigchld, handler, failures>>

(* connect() of a client, as far as the listening socket has room. *)
Connect(c) ==
    /\ main \notin {"boot", "exited"}
    /\ Len(backlog) < BACKLOG
    /\ proc[c] = "none" /\ holders[c] = {}
    /\ backlog' = Append(backlog, c)
    /\ holders' = [holders EXCEPT ![c] = {"kernel"}]
    /\ UNCHANGED <<main, new_fd, proc, sigchld, handler, failures>>

Accept ==
    /\ MainAt("accept") /\ backlog # << >>
    /\ new_fd' = Head(backlog)
    /\ backlog' = Tail(backlog)
    /\ holders' = [holders EXCEPT ![Head(backlog)] = {"parent"}]
    /\ main' = "fork"
    /\ UNCHANGED <<proc, sigchld, handler, failures>>

Fork ==
    /\ MainAt("fork")
    /\ proc' = [proc EXCEPT ![new_fd] = "running"]
    /\ holders' = [holders EXCEPT ![new_fd] = @ \cup {"child"}]
    /\ main' = "close"
    /\ UNCHANGED <<backlog, new_fd, sigchld, handler, failures>>

(* fork() returning -1 is taken for the parent's side: the connection is   *)
(* closed with no answer.                                                  *)
ForkFails ==
    /\ MainAt("fork") /\ failures < MaxForkFailures
    /\ failures' = failures + 1
    /\ proc' = [proc EXCEPT ![new_fd] = "reaped"]
    /\ main' = "close"
    /\ UNCHANGED <<backlog, new_fd, holders, sigchld, handler>>

(* Mutant: the parent keeps its copy of the descriptor. *)
ParentKeeps(c) == holders[c]

AfterParentClose(c) == holders[c] \ {"parent"}

ParentClose ==
    /\ MainAt("close")
    /\ holders' = [holders EXCEPT ![new_fd] = AfterParentClose(new_fd)]
    /\ new_fd' = NoClient
    /\ main' = "accept"
    /\ UNCHANGED <<backlog, proc, sigchld, handler, failures>>

(* A child ends: its descriptors are closed and the parent is signalled.   *)
(* Signals do not queue: a second SIGCHLD is lost while one is pending.    *)
ChildExit(c) ==
    /\ proc' = [proc EXCEPT ![c] = "zombie"]
    /\ holders' = [holders EXCEPT ![c] = @ \ {"child"}]
    /\ sigchld' = TRUE
    /\ UNCHANGED <<backlog, main, new_fd, handler, failures>>

SigchldDelivered ==
    /\ sigchld /\ ~handler
    /\ sigchld' = FALSE /\ handler' = TRUE
    /\ UNCHANGED <<backlog, main, new_fd, holders, proc, failures>>

Zombies == {c \in Client : proc[c] = "zombie"}

(* Mutant: the handler reaps one child per signal. *)
ReapOnce(c) == handler' = FALSE

(* waitpid(-1, NULL, WNOHANG) is called again until it finds no child. *)
ReapAgain(c) == UNCHANGED handler

Reap(c) ==
    /\ handler /\ proc[c] = "zombie"
    /\ proc' = [proc EXCEPT ![c] = "reaped"]
    /\ ReapAgain(c)
    /\ UNCHANGED <<backlog, main, new_fd, holders, sigchld, failures>>

HandlerReturn ==
    /\ handler /\ Zombies = {}
    /\ handler' = FALSE
    /\ UNCHANGED <<backlog, main, new_fd, holders, proc, sigchld, failures>>

Sigchld ==
    \/ SigchldDelivered
    \/ \E c \in Client : Reap(c)
    \/ HandlerReturn

(* A client sees end of file when no process holds its connection: HTTP    *)
(* and the echo client's output end there.                                 *)
Released(c) == proc[c] # "none" /\ holders[c] = {}

-----------------------------------------------------------------------------
(* Properties *)

(* Although signals do not queue, no ended child is forgotten: a zombie    *)
(* has a signal pending or is in reach of the running handler.             *)
NoZombieForgotten == Zombies # {} => sigchld \/ handler
=============================================================================
