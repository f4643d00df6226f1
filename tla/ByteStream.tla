----------------------------- MODULE ByteStream -----------------------------
(***************************************************************************)
(* What a connection promises in one direction: the bytes one application  *)
(* writes come out at the other end once each, in order and without a gap, *)
(* cut into chunks as the transport likes, and end of file comes after the *)
(* last of them.  Bytes are their positions in the stream, the first is 1. *)
(*                                                                         *)
(* Stcp implements this specification from the client to the server        *)
(* (StcpStream); the file transfer is built on it (FileTransfer).          *)
(***************************************************************************)
EXTENDS Integers, Sequences

CONSTANT WriteSizes  \* how many bytes one write may hand over

VARIABLES
    written,    \* bytes the writer has written
    closed,     \* the writer has closed its end
    delivered,  \* bytes that have reached the reader's queue
    ready,      \* the reader's queue: chunks, and end-of-file nodes
    read,       \* bytes the reader has taken
    eof,        \* the reader was told about the end of file
    abandoned   \* the reader has thrown its queue away

vars == <<written, closed, delivered, ready, read, eof, abandoned>>

Eof == [from |-> 0, len |-> 0]

Init ==
    /\ written = 0 /\ delivered = 0 /\ read = 0
    /\ ready = << >>
    /\ closed = FALSE /\ eof = FALSE /\ abandoned = FALSE

Write(n) ==
    /\ ~closed
    /\ written' = written + n
    /\ UNCHANGED <<closed, delivered, ready, read, eof, abandoned>>

Close ==
    /\ ~closed
    /\ closed' = TRUE
    /\ UNCHANGED <<written, delivered, ready, read, eof, abandoned>>

Deliver(n) ==
    /\ ~abandoned /\ n \in 1 .. written - delivered
    /\ ready' = Append(ready, [from |-> delivered + 1, len |-> n])
    /\ delivered' = delivered + n
    /\ UNCHANGED <<written, closed, read, eof, abandoned>>

DeliverEof ==
    /\ ~abandoned /\ closed /\ delivered = written
    /\ ready' = Append(ready, Eof)
    /\ UNCHANGED <<written, closed, delivered, read, eof, abandoned>>

(* What is left of the queue when n bytes of its first chunk are taken. *)
After(n) ==
    IF Head(ready).len > n
    THEN <<[from |-> Head(ready).from + n, len |-> Head(ready).len - n]>> \o Tail(ready)
    ELSE Tail(ready)

(* n bytes are taken from the first chunk; none from an end-of-file node. *)
Read(n) ==
    /\ ready # << >> /\ ~eof
    /\ n \in 0 .. Head(ready).len
    /\ (n = 0) <=> (Head(ready).len = 0)
    /\ n > 0 => Head(ready).from = read + 1
    /\ ready' = After(n)
    /\ read' = read + n
    /\ eof' = (n = 0)
    /\ UNCHANGED <<written, closed, delivered, abandoned>>

Abandon ==
    /\ ~abandoned
    /\ abandoned' = TRUE
    /\ ready' = << >>
    /\ UNCHANGED <<written, closed, delivered, read, eof>>

Next ==
    \/ \E n \in WriteSizes : Write(n)
    \/ Close
    \/ \E n \in 1 .. written - delivered : Deliver(n)
    \/ DeliverEof
    \/ \E n \in 0 .. (IF ready = << >> THEN 0 ELSE Head(ready).len) : Read(n)
    \/ Abandon

Spec == Init /\ [][Next]_vars
=============================================================================
