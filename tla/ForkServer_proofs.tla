-------------------------- MODULE ForkServer_proofs --------------------------
(***************************************************************************)
(* What the accept loop, fork() and the SIGCHLD handler preserve, for any  *)
(* number of clients, any backlog and any number of failing fork()s,       *)
(* whatever the children do with their connections.                        *)
(***************************************************************************)
EXTENDS ForkServer, TLAPS

(* A child that runs holds its connection. *)
ChildHolds == \A c \in Client : proc[c] = "running" => "child" \in holders[c]

(* A connection that waits for accept() waits once and has no process. *)
BacklogFresh ==
    /\ \A i \in 1 .. Len(backlog) : /\ holders[backlog[i]] = {"kernel"}
                                    /\ proc[backlog[i]] = "none"
    /\ \A i, j \in 1 .. Len(backlog) : backlog[i] = backlog[j] => i = j

(* The parent's place says what new_fd is. *)
NewFdFresh ==
    /\ main \in {"fork", "close"} => new_fd \in Client
    /\ main = "fork" => holders[new_fd] = {"parent"} /\ proc[new_fd] = "none"

(* No process is made before the server listens. *)
NoneBeforeBoot == main \in {"boot", "exited"} => \A c \in Client : proc[c] = "none"

ServerInv ==
    /\ ServerTypeOK
    /\ NoZombieForgotten
    /\ ChildHolds
    /\ BacklogFresh
    /\ NewFdFresh
    /\ NoneBeforeBoot

(* Facts about sequences in the form in which they are needed. *)
LEMMA AppendFacts ==
    ASSUME NEW S, NEW s \in Seq(S), NEW e \in S
    PROVE  /\ Append(s, e) \in Seq(S)
           /\ Len(Append(s, e)) = Len(s) + 1
           /\ \A i \in 1 .. Len(s) + 1 : Append(s, e)[i] = IF i <= Len(s) THEN s[i] ELSE e
  OBVIOUS

LEMMA TailFacts ==
    ASSUME NEW S, NEW s \in Seq(S), s # << >>
    PROVE  /\ Head(s) = s[1] /\ Head(s) \in S /\ Len(s) >= 1
           /\ Tail(s) \in Seq(S)
           /\ Len(Tail(s)) = Len(s) - 1
           /\ \A i \in 1 .. Len(s) - 1 : Tail(s)[i] = s[i + 1]
  OBVIOUS

(* A server that has just started has no children. *)
LEMMA ServerStarts ==
    ASSUME ServerInit
    PROVE  ServerInv
<1> USE DEF ServerInit
<1>1. ServerTypeOK
  <2>1. backlog \in Seq(Client) /\ failures \in 0 .. MaxForkFailures
    BY ForkServerAssumption
  <2>2. sigchld \in BOOLEAN /\ handler \in BOOLEAN
    OBVIOUS
  <2>3. /\ new_fd \in Client \cup {NoClient}
        /\ main \in {"boot", "accept", "fork", "close", "exited"}
        /\ holders \in [Client -> SUBSET {"kernel", "parent", "child"}]
        /\ proc \in [Client -> {"none", "running", "zombie", "reaped"}]
    OBVIOUS
  <2> QED BY <2>1, <2>2, <2>3 DEF ServerTypeOK
<1>2. NoZombieForgotten /\ ChildHolds
  BY DEF NoZombieForgotten, Zombies, ChildHolds
<1>3. Len(backlog) = 0
  OBVIOUS
<1>4. BacklogFresh
  BY <1>3 DEF BacklogFresh
<1>5. NewFdFresh /\ NoneBeforeBoot
  BY DEF NewFdFresh, NoneBeforeBoot
<1> QED BY <1>1, <1>2, <1>4, <1>5 DEF ServerInv

LEMMA ListeningPreserves == ServerInv /\ Listening => ServerInv'
  BY DEF Listening, ServerInv, ServerTypeOK, NoZombieForgotten, Zombies, ChildHolds,
     BacklogFresh, NewFdFresh, NoneBeforeBoot

LEMMA StartFailsPreserves == ServerInv /\ StartFails => ServerInv'
  BY DEF StartFails, ServerInv, ServerTypeOK, NoZombieForgotten, Zombies, ChildHolds,
     BacklogFresh, NewFdFresh, NoneBeforeBoot

LEMMA ConnectPreserves ==
    ASSUME ServerInv, NEW c \in Client, Connect(c)
    PROVE  ServerInv'
<1> USE DEF ServerInv, Connect
<1>1. /\ backlog' \in Seq(Client) /\ Len(backlog') = Len(backlog) + 1
      /\ \A i \in 1 .. Len(backlog) + 1 :
            backlog'[i] = IF i <= Len(backlog) THEN backlog[i] ELSE c
      /\ Len(backlog) \in Nat
      /\ \A i \in 1 .. Len(backlog) : backlog[i] \in Client
  BY AppendFacts DEF ServerTypeOK
<1>2. ServerTypeOK'
  BY <1>1 DEF ServerTypeOK
<1>3. NoZombieForgotten'
  BY DEF NoZombieForgotten, Zombies
<1>4. ChildHolds'
  BY DEF ChildHolds, ServerTypeOK
<1>5. \A i \in 1 .. Len(backlog) : backlog[i] # c
  BY <1>1 DEF BacklogFresh
<1>6. BacklogFresh'
  BY <1>1, <1>5 DEF BacklogFresh, ServerTypeOK
<1>7. NewFdFresh'
  BY DEF NewFdFresh, ServerTypeOK
<1>8. NoneBeforeBoot'
  BY DEF NoneBeforeBoot
<1> QED BY <1>2, <1>3, <1>4, <1>6, <1>7, <1>8

LEMMA AcceptPreserves ==
    ASSUME ServerInv, Accept
    PROVE  ServerInv'
<1> USE DEF ServerInv, Accept, MainAt
<1>1. /\ Head(backlog) = backlog[1] /\ Head(backlog) \in Client
      /\ Len(backlog) \in Nat /\ Len(backlog) >= 1
      /\ backlog' \in Seq(Client) /\ Len(backlog') = Len(backlog) - 1
      /\ \A i \in 1 .. Len(backlog) - 1 : backlog'[i] = backlog[i + 1]
      /\ \A i \in 1 .. Len(backlog) : backlog[i] \in Client
  BY TailFacts DEF ServerTypeOK
<1>2. proc[Head(backlog)] = "none"
  BY <1>1 DEF BacklogFresh
<1>3. ServerTypeOK'
  BY <1>1 DEF ServerTypeOK
<1>4. NoZombieForgotten'
  BY DEF NoZombieForgotten, Zombies
<1>5. ChildHolds'
  BY <1>1, <1>2 DEF ChildHolds, ServerTypeOK
<1>6. \A i \in 1 .. Len(backlog') : i + 1 \in 1 .. Len(backlog) /\ backlog'[i] # Head(backlog)
  BY <1>1 DEF BacklogFresh
<1>7. BacklogFresh'
  BY <1>1, <1>6 DEF BacklogFresh, ServerTypeOK
<1>8. NewFdFresh'
  BY <1>1, <1>2 DEF NewFdFresh, ServerTypeOK
<1>9. NoneBeforeBoot'
  BY DEF NoneBeforeBoot
<1> QED BY <1>3, <1>4, <1>5, <1>7, <1>8, <1>9

LEMMA ForkPreserves ==
    ASSUME ServerInv, Fork \/ ForkFails
    PROVE  ServerInv'
<1> USE DEF ServerInv, Fork, ForkFails, MainAt
<1>1. new_fd \in Client /\ holders[new_fd] = {"parent"} /\ proc[new_fd] = "none"
  BY DEF NewFdFresh
<1>2. ServerTypeOK'
  <2>1. CASE Fork
    BY <1>1, <2>1 DEF ServerTypeOK
  <2>2. CASE ForkFails
    BY <1>1, <2>2, ForkServerAssumption DEF ServerTypeOK
  <2> QED BY <2>1, <2>2
<1>3. NoZombieForgotten'
  BY <1>1 DEF NoZombieForgotten, Zombies, ServerTypeOK
<1>4. ChildHolds'
  BY <1>1 DEF ChildHolds, ServerTypeOK
<1>5. \A i \in 1 .. Len(backlog) : backlog[i] \in Client /\ backlog[i] # new_fd
  <2> SUFFICES ASSUME NEW i \in 1 .. Len(backlog)
               PROVE  backlog[i] \in Client /\ backlog[i] # new_fd
    OBVIOUS
  <2>1. backlog[i] \in Client
    BY DEF ServerTypeOK
  <2>2. "kernel" \in holders[backlog[i]]
    BY DEF BacklogFresh
  <2>3. "kernel" \notin holders[new_fd]
    BY <1>1
  <2> QED BY <2>1, <2>2, <2>3
<1>6. BacklogFresh'
  BY <1>1, <1>5 DEF BacklogFresh, ServerTypeOK
<1>7. NewFdFresh'
  BY <1>1 DEF NewFdFresh
<1>8. NoneBeforeBoot'
  BY DEF NoneBeforeBoot
<1> QED BY <1>2, <1>3, <1>4, <1>6, <1>7, <1>8

LEMMA ParentClosePreserves ==
    ASSUME ServerInv, ParentClose
    PROVE  ServerInv'
<1> USE DEF ServerInv, ParentClose, MainAt, AfterParentClose
<1>1. new_fd \in Client
  BY DEF NewFdFresh
<1>2. ServerTypeOK'
  BY <1>1 DEF ServerTypeOK
<1>3. NoZombieForgotten'
  BY DEF NoZombieForgotten, Zombies
<1>4. ChildHolds'
  BY <1>1 DEF ChildHolds, ServerTypeOK
<1>5. \A i \in 1 .. Len(backlog) : backlog[i] \in Client
  BY DEF ServerTypeOK
<1>6. BacklogFresh'
  BY <1>1, <1>5 DEF BacklogFresh, ServerTypeOK
<1>7. NewFdFresh'
  BY DEF NewFdFresh
<1>8. NoneBeforeBoot'
  BY DEF NoneBeforeBoot
<1> QED BY <1>2, <1>3, <1>4, <1>6, <1>7, <1>8

LEMMA ChildExitPreserves ==
    ASSUME ServerInv, NEW c \in Client, proc[c] = "running", ChildExit(c)
    PROVE  ServerInv'
<1> USE DEF ServerInv, ChildExit
<1>2. ServerTypeOK'
  BY DEF ServerTypeOK
<1>3. NoZombieForgotten'
  BY DEF NoZombieForgotten
<1>4. ChildHolds'
  BY DEF ChildHolds, ServerTypeOK
<1>5. \A i \in 1 .. Len(backlog) : backlog[i] \in Client /\ backlog[i] # c
  BY DEF BacklogFresh, ServerTypeOK
<1>6. BacklogFresh'
  BY <1>5 DEF BacklogFresh, ServerTypeOK
<1>7. NewFdFresh'
  BY DEF NewFdFresh, ServerTypeOK
<1>8. NoneBeforeBoot'
  BY DEF NoneBeforeBoot
<1> QED BY <1>2, <1>3, <1>4, <1>6, <1>7, <1>8

LEMMA SigchldPreserves ==
    ASSUME ServerInv, Sigchld
    PROVE  ServerInv'
<1> USE DEF ServerInv
<1>1. CASE SigchldDelivered
  BY <1>1, ZenonT(60) DEF SigchldDelivered, ServerTypeOK, NoZombieForgotten, Zombies, ChildHolds,
     BacklogFresh, NewFdFresh, NoneBeforeBoot
<1>2. ASSUME NEW c \in Client, Reap(c)
      PROVE  ServerInv'
  <2> USE DEF Reap, ReapAgain
  <2>1. ServerTypeOK'
    BY <1>2 DEF ServerTypeOK
  <2>2. NoZombieForgotten'
    BY <1>2 DEF NoZombieForgotten
  <2>3. ChildHolds'
    BY <1>2 DEF ChildHolds, ServerTypeOK
  <2>4. \A i \in 1 .. Len(backlog) : backlog[i] \in Client /\ backlog[i] # c
    BY <1>2 DEF BacklogFresh, ServerTypeOK
  <2>5. BacklogFresh'
    BY <1>2, <2>4 DEF BacklogFresh, ServerTypeOK
  <2>6. NewFdFresh'
    BY <1>2 DEF NewFdFresh, ServerTypeOK
  <2>7. NoneBeforeBoot'
    BY <1>2 DEF NoneBeforeBoot, ServerTypeOK
  <2> QED BY <2>1, <2>2, <2>3, <2>5, <2>6, <2>7
<1>3. CASE HandlerReturn
  BY <1>3, ZenonT(60) DEF HandlerReturn, ServerTypeOK, NoZombieForgotten, Zombies, ChildHolds,
     BacklogFresh, NewFdFresh, NoneBeforeBoot
<1> QED BY <1>1, <1>2, <1>3 DEF Sigchld

LEMMA ServerStutters == ServerInv /\ UNCHANGED server => ServerInv'
  BY DEF server, ServerInv, ServerTypeOK, NoZombieForgotten, Zombies, ChildHolds,
     BacklogFresh, NewFdFresh, NoneBeforeBoot
=============================================================================
