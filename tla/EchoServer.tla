----------------------------- MODULE EchoServer -----------------------------
(***************************************************************************)
(* Assignment 1: client.c sends its standard input line by line until a    *)
(* double Enter or end of file; server.c prints what its clients send, a   *)
(* process for each of them.  Standard output is buffered by each process, *)
(* and a child starts with a copy of its parent's buffer.                  *)
(*                                                                         *)
(* Input is a sequence of characters: NL, or anything else.                *)
(***************************************************************************)
EXTENDS ForkServer

CONSTANTS
    NL, Char,     \* the newline, and the other characters
    Inputs,       \* what each client may be given on standard input
    LINESIZE,     \* characters fgets() takes at most (MAXDATASIZE - 2)
    WAITING, Main \* the server's first message; the name of its process

ASSUME EchoAssumption ==
    /\ NL \notin Char
    /\ \A c \in Client : Inputs[c] \subseteq Seq(Char \cup {NL})
    /\ LINESIZE \in Nat \ {0}
    /\ Main \notin Client /\ WAITING \notin Client

VARIABLES
    input,      \* standard input of a client, as far as it is not read
    typed,      \* all of it (history)
    prev_nl,    \* prev_buf holds a newline
    client,     \* "new", "reading" or "exited"
    sent,       \* what the client has sent
    received,   \* how much of it the child has received
    tty,        \* standard output of the server is a terminal
    buffer,     \* characters and messages buffered by each process
    output      \* what has been written to standard output

clients == <<input, typed, prev_nl, client, sent>>
stdio == <<tty, buffer, output>>
vars == <<server, clients, received, stdio>>

(* buf of client.c is not initialised before it is copied to prev_buf. *)
Init ==
    /\ ServerInit
    /\ typed \in {f \in [Client -> UNION {Inputs[c] : c \in Client}] :
                     \A c \in Client : f[c] \in Inputs[c]}
    /\ input = typed
    /\ prev_nl \in [Client -> BOOLEAN]
    /\ client = [c \in Client |-> "new"]
    /\ sent = [c \in Client |-> << >>]
    /\ received = [c \in Client |-> 0]
    /\ tty \in BOOLEAN
    /\ buffer = [p \in Client \cup {Main} |-> << >>]
    /\ output = << >>

-----------------------------------------------------------------------------
(* client.c *)

(* fgets(): up to a newline, LINESIZE characters or the end. *)
FirstLine(s) ==
    CHOOSE n \in 1 .. Len(s) :
        /\ s[n] = NL \/ n = LINESIZE \/ n = Len(s)
        /\ \A k \in 1 .. n - 1 : s[k] # NL /\ k # LINESIZE

AfterLine(s, n) == SubSeq(s, n + 1, Len(s))

ClientConnect(c) ==
    /\ client[c] = "new"
    /\ Connect(c)
    /\ client' = [client EXCEPT ![c] = "reading"]
    /\ UNCHANGED <<input, typed, prev_nl, sent, received, stdio>>

(* Mutant: any line that starts with a newline ends the client. *)
IsBlankLine(c) == input[c] # << >> /\ Head(input[c]) = NL

IsDoubleEnter(c) == prev_nl[c] /\ input[c] # << >> /\ Head(input[c]) = NL

SendLine(c) ==
    LET n == FirstLine(input[c]) IN
    /\ client[c] = "reading" /\ input[c] # << >> /\ ~IsDoubleEnter(c)
    /\ sent' = [sent EXCEPT ![c] = @ \o SubSeq(input[c], 1, n)]
    /\ input' = [input EXCEPT ![c] = AfterLine(@, n)]
    /\ prev_nl' = [prev_nl EXCEPT ![c] = (input[c][n] = NL)]
    /\ UNCHANGED <<server, typed, client, received, stdio>>

ClientExit(c) ==
    /\ client[c] = "reading"
    /\ input[c] = << >> \/ IsDoubleEnter(c)
    /\ client' = [client EXCEPT ![c] = "exited"]
    /\ UNCHANGED <<server, input, typed, prev_nl, sent, received, stdio>>

-----------------------------------------------------------------------------
(* Standard output of the server *)

(* The buffer is written up to the last newline on a terminal, and only    *)
(* when the process ends otherwise (as long as it is not full).            *)
LineEnds(items) == {i \in 1 .. Len(items) : items[i].nl}

Flushed(items) ==
    IF ~tty \/ LineEnds(items) = {} THEN 0
    ELSE CHOOSE i \in LineEnds(items) : \A j \in LineEnds(items) : j <= i

printf(p, items) ==
    LET all == buffer[p] \o items IN
    /\ output' = output \o SubSeq(all, 1, Flushed(all))
    /\ buffer' = [buffer EXCEPT ![p] = SubSeq(all, Flushed(all) + 1, Len(all))]
    /\ UNCHANGED tty

(* Mutant: a message without a newline. *)
UnfinishedMessage(text) == <<[from |-> Main, what |-> text, nl |-> FALSE]>>

Message(text) == <<[from |-> Main, what |-> text, nl |-> TRUE]>>

(* Characters a .. b of what client c has sent. *)
Text(c, a, b) == [i \in 1 .. b - a + 1 |->
                     [from |-> c, what |-> a + i - 1, nl |-> sent[c][a + i - 1] = NL]]

-----------------------------------------------------------------------------
(* server.c *)

Boot == Listening /\ printf(Main, Message(WAITING)) /\ UNCHANGED <<clients, received>>

EchoAccept ==
    /\ Accept
    /\ printf(Main, Message(new_fd'))
    /\ UNCHANGED <<clients, received>>

InheritedBuffer(c) == buffer[Main]

EchoFork ==
    /\ Fork
    /\ buffer' = [buffer EXCEPT ![new_fd] = InheritedBuffer(new_fd)]
    /\ UNCHANGED <<clients, received, tty, output>>

EchoChild(c) ==
    /\ proc[c] = "running"
    /\ \E n \in received[c] + 1 .. Len(sent[c]) :
          /\ received' = [received EXCEPT ![c] = n]
          /\ printf(c, Text(c, received[c] + 1, n))
    /\ UNCHANGED <<server, clients>>

(* Mutant: the process ends without flushing its standard output. *)
DiscardedAtExit(c) == << >>

(* exit() writes what is left in the buffer. *)
WrittenAtExit(c) == buffer[c]

(* recv() returns 0. *)
EchoExit(c) ==
    /\ proc[c] = "running" /\ client[c] = "exited" /\ received[c] = Len(sent[c])
    /\ ChildExit(c)
    /\ output' = output \o WrittenAtExit(c)
    /\ buffer' = [buffer EXCEPT ![c] = << >>]
    /\ UNCHANGED <<clients, received, tty>>

Parent ==
    \/ Boot
    \/ EchoAccept
    \/ EchoFork
    \/ /\ StartFails \/ ForkFails \/ ParentClose \/ Sigchld
       /\ UNCHANGED <<clients, received, stdio>>

ClientStep(c) == ClientConnect(c) \/ SendLine(c) \/ ClientExit(c)

Next == Parent \/ \E c \in Client : ClientStep(c) \/ EchoChild(c) \/ EchoExit(c)

Spec == Init /\ [][Next]_vars

(* The kernel runs the server's processes; people type when they like. *)
Fairness ==
    /\ WF_vars(Parent)
    /\ \A c \in Client : WF_vars(EchoChild(c) \/ EchoExit(c))

FairSpec == Spec /\ Fairness

-----------------------------------------------------------------------------
(* Properties *)

(* Where the user has pressed Enter twice: the first empty line. *)
DoubleEnters(s) == {i \in 1 .. Len(s) - 1 : s[i] = NL /\ s[i + 1] = NL}

(* "Double Enter triggers client exit": a client that has exited has sent  *)
(* its input up to the first empty line, whatever the lengths of its       *)
(* lines, and in particular when a newline is alone in the buffer because  *)
(* its line just filled the one before.  An input that starts with Enter   *)
(* depends on memory that was never initialised.                           *)
SentUpToDoubleEnter ==
    \A c \in Client : client[c] = "exited" =>
        \/ DoubleEnters(typed[c]) = {} /\ sent[c] = typed[c]
        \/ \E i \in DoubleEnters(typed[c]) :
              /\ \A j \in DoubleEnters(typed[c]) : i <= j
              /\ sent[c] = SubSeq(typed[c], 1, i)
        \/ typed[c][1] = NL /\ sent[c] = << >>

(* The places of what p has printed. *)
PlacesOf(p, items) == {i \in 1 .. Len(items) : items[i].from = p}

(* Characters 1 .. n of client c are among the items, once and in order. *)
InOrder(c, items, n) ==
    /\ {items[i].what : i \in PlacesOf(c, items)} = 1 .. n
    /\ \A i, j \in PlacesOf(c, items) : i < j => items[i].what < items[j].what

(* However the children's writes interleave, the characters of a client    *)
(* come out once and in the order it sent them, and on a terminal the      *)
(* server's own messages come out at most once.  (If standard output is a  *)
(* file every child writes the messages that its parent had buffered once  *)
(* more.)                                                                  *)
OutputInOrder ==
    /\ \A c \in Client : InOrder(c, output \o buffer[c], received[c])
    /\ tty => \A i, j \in PlacesOf(Main, output) : output[i] = output[j] => i = j

(* What a client has sent when it exits is on standard output in the end,  *)
(* unless no process could be made for it.                                 *)
TextPrinted ==
    \A c \in Client :
        (client[c] = "exited") ~>
            \/ Len(SelectSeq(output, LAMBDA item : item.from = c)) = Len(sent[c])
            \/ Released(c) /\ received[c] = 0
=============================================================================
