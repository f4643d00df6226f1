---------------------------- MODULE FileTransfer ----------------------------
(***************************************************************************)
(* The file transfer applications of assignment 4 (client.c, server.c) on  *)
(* one connection: the client sends the name of a file as a line, the      *)
(* server answers with a line that announces the length, or -1, and then   *)
(* sends the contents.  Each direction of the connection is a ByteStream,  *)
(* closed as transport.c closes it: the server's side sends its FIN only   *)
(* if the client's has come before.                                        *)
(*                                                                         *)
(* What is written is a sequence of tokens, which are numbers: characters  *)
(* of names and bytes of files, the length announced, and the ones below.  *)
(* Files do not change during a transfer.                                  *)
(***************************************************************************)
EXTENDS Integers, Sequences, FiniteSets, SequencesExt, FiniteSetsExt

CR == -2
LF == -3
COMMA == -4
TEXT == -5     \* the text that ends a response; it has no comma

(* No line end inside: what fgets() reads is one line, and the name given  *)
(* with -f is taken to be one too.                                         *)
IsOneLine(n) == \A i \in 1 .. Len(n) - 1 : ~(n[i] = CR /\ n[i + 1] = LF)

CONSTANTS
    Content,   \* the files the server can read: contents by name
    Names,     \* what the user may ask for, names without trailing spaces
    MaxAsked,  \* bound: lines an interactive user types
    LINE,      \* the client's buffer (1000)
    RESP,      \* the server's buffer (5000)
    MaxChunk   \* bound: the longest chunk the transport delivers

ASSUME FileTransferAssumption ==
    /\ DOMAIN Content \subseteq Names
    /\ \A n \in DOMAIN Content : Content[n] \in Seq(Int)
    /\ \A n \in Names : n \in Seq(Int) /\ IsOneLine(n)
    /\ LINE \in Nat \ {0} /\ RESP \in Nat \ {0} /\ MaxChunk \in Nat \ {0}
    /\ MaxAsked \in Nat

VARIABLES
    up_text,     \* what the client has written, and the stream that carries it
    up_closed, up_delivered, up_ready, up_read, up_eof, up_abandoned,
    down_text,   \* what the server has written, and the stream that carries it
    down_closed, down_delivered, down_ready, down_read, down_eof, down_abandoned,
    filename,    \* -f was given
    asked,       \* what the user is still going to ask for
    client,      \* where the client is
    name,        \* what it has asked for
    line,        \* the line it is reading
    length,      \* bytes of the file still to come
    rcvd,        \* the file "rcvd"
    write_error, \* history: some of this file could not be written
    results,     \* history: what came of each request
    server,      \* where the server is
    server_line, \* the line it is reading, or the name of the file it sends
    position,    \* the offset in that file
    read_error   \* history: read() of a file has failed

up == <<up_text, up_closed, up_delivered, up_ready, up_read, up_eof, up_abandoned>>
down == <<down_text, down_closed, down_delivered, down_ready, down_read, down_eof,
          down_abandoned>>
client_vars == <<filename, asked, client, name, line, length, rcvd, write_error, results>>
server_vars == <<server, server_line, position, read_error>>
vars == <<up, down, client_vars, server_vars>>

Up == INSTANCE ByteStream WITH WriteSizes <- Nat, written <- Len(up_text),
          closed <- up_closed, delivered <- up_delivered, ready <- up_ready,
          read <- up_read, eof <- up_eof, abandoned <- up_abandoned

Down == INSTANCE ByteStream WITH WriteSizes <- Nat, written <- Len(down_text),
          closed <- down_closed, delivered <- down_delivered, ready <- down_ready,
          read <- down_read, eof <- down_eof, abandoned <- down_abandoned

Init ==
    /\ up_text = << >> /\ Up!Init
    /\ down_text = << >> /\ Down!Init
    /\ filename \in BOOLEAN
    /\ asked \in UNION {[1 .. n -> Names] : n \in 0 .. MaxAsked}
    /\ filename => Len(asked) = 1
    /\ client = "prompt" /\ name = << >> /\ line = << >> /\ length = 0
    /\ rcvd = << >> /\ write_error = FALSE /\ results = << >>
    /\ server = "line" /\ server_line = << >> /\ position = 0 /\ read_error = FALSE

-----------------------------------------------------------------------------
(* The transport: chunks, and end of file once *)

NoEof(ready) == \A i \in 1 .. Len(ready) : ready[i].len # 0

(* The client's FIN has come: CSTATE_CLOSE_WAIT. *)
FinSeen == up_eof \/ ~NoEof(up_ready)

Transport ==
    \/ /\ UNCHANGED <<up_text, down, client_vars, server_vars>>
       /\ \/ \E n \in 1 .. MaxChunk : Up!Deliver(n)
          \/ NoEof(up_ready) /\ ~up_eof /\ Up!DeliverEof
    \/ /\ UNCHANGED <<up, down_text, client_vars, server_vars>>
       /\ \/ \E n \in 1 .. MaxChunk : Down!Deliver(n)
          \/ server \in {"last_ack", "closed"} /\ NoEof(down_ready) /\ Down!DeliverEof

-----------------------------------------------------------------------------
(* get_nvt_line(), which client and server have each *)

(* Mutant: the line ends with the carriage return. *)
CarriageReturnEnds(soFar, char) == soFar # << >> /\ char = CR

IsLineEnd(soFar, char) == soFar # << >> /\ Last(soFar) = CR /\ char = LF

-----------------------------------------------------------------------------
(* The client *)

(* Lines that an interactive client does not send: blank ones, and those   *)
(* of one character.                                                       *)
IsSkipped(n) == Len(n) <= 1

Ask ==
    /\ client = "prompt" /\ asked # << >>
    /\ filename \/ ~IsSkipped(Head(asked))
    /\ up_text' = up_text \o Head(asked) \o <<CR, LF>>
    /\ Up!Write(Len(Head(asked)) + 2)
    /\ name' = Head(asked)
    /\ asked' = Tail(asked)
    /\ client' = "line" /\ line' = << >>
    /\ UNCHANGED <<down, filename, length, rcvd, write_error, results, server_vars>>

Skip ==
    /\ client = "prompt" /\ asked # << >>
    /\ ~filename /\ IsSkipped(Head(asked))
    /\ asked' = Tail(asked)
    /\ UNCHANGED <<up, down, filename, client, name, line, length, rcvd, write_error,
                   results, server_vars>>

(* End of standard input, the end of the only request, or an error: the    *)
(* client calls myclose().                                                 *)
Finish ==
    /\ \/ client = "prompt" /\ asked = << >>
       \/ client = "failed"
    /\ UNCHANGED <<up_text, down, filename, asked, name, line, length, rcvd, write_error,
                   results, server_vars>>
    /\ Up!Close
    /\ client' = "closing"

(* The server's FIN has come: myclose() throws away what has not been read *)
(* and returns.                                                            *)
ClientClosed ==
    /\ client = "closing" /\ ~NoEof(down_ready)
    /\ UNCHANGED <<up, down_text, filename, asked, name, line, length, rcvd, write_error,
                   results, server_vars>>
    /\ Down!Abandon
    /\ client' = "closed"

(* Data that comes in CSTATE_FIN_WAIT_1 does not fit the buffer for the    *)
(* ACK, and the assertion on its checksum ends the process (NoneDies of    *)
(* Stcp).                                                                  *)
ClientAborted ==
    /\ client = "closing" /\ down_delivered < Len(down_text)
    /\ UNCHANGED <<up, down_text, filename, asked, name, line, length, rcvd, write_error,
                   results, server_vars>>
    /\ Down!Abandon
    /\ client' = "aborted"

(* The comma before the length: the last but one, as a name may hold some. *)
LengthComma(l) ==
    LET commas == {i \in 1 .. Len(l) : l[i] = COMMA}
    IN  Max({i \in commas : \E j \in commas : i < j})

IsMalformed(l) == Cardinality({i \in 1 .. Len(l) : l[i] = COMMA}) < 2

(* Mutant: the file is opened for appending. *)
FileKept == rcvd

(* fopen(RCVD_FILENAME, "w") *)
FileOpened == << >>

(* What the client does with the server's line.  fopen() may fail. *)
TakeResponse(l) ==
    LET announced == l[LengthComma(l) + 1]
        Nothing(status) == [name |-> name, data |-> << >>, status |-> status]
    IN  \/ /\ IsMalformed(l)
           /\ client' = "failed"
           /\ UNCHANGED <<length, rcvd, write_error, results>>
        \/ /\ ~IsMalformed(l) /\ announced = -1
           /\ client' = IF filename THEN "failed" ELSE "prompt"
           /\ results' = Append(results, Nothing("refused"))
           /\ UNCHANGED <<length, rcvd, write_error>>
        \/ /\ ~IsMalformed(l) /\ announced # -1
           /\ client' = "body"
           /\ length' = announced
           /\ rcvd' = FileOpened
           /\ write_error' = FALSE
           /\ UNCHANGED results
        \/ /\ ~IsMalformed(l) /\ announced # -1
           /\ client' = "failed"
           /\ results' = Append(results, Nothing("not_opened"))
           /\ UNCHANGED <<length, rcvd, write_error>>

ClientLine ==
    /\ client = "line"
    /\ UNCHANGED <<up, down_text, filename, asked, name, server_vars>>
    /\ \/ /\ Down!Read(1)
          /\ LET char == down_text[down_read + 1]
             IN  IF IsLineEnd(line, char)
                 THEN TakeResponse(Front(line)) /\ line' = << >>
                 ELSE /\ line' = Append(line, char)
                      /\ UNCHANGED <<client, length, rcvd, write_error, results>>
       \/ /\ Down!Read(0)
          /\ TakeResponse(line) /\ line' = << >>

(* MIN(length, sizeof(line)) *)
ToRead(n) == IF n < LINE THEN n ELSE LINE

(* Of what was read fwrite() stores all, or only a part if there is an     *)
(* error, now or when its buffer is written; the length goes down by what  *)
(* was read.  If the connection ends before the file the client exits.     *)
ClientBody ==
    /\ client = "body" /\ length > 0
    /\ UNCHANGED <<up, down_text, filename, asked, name, line, results, server_vars>>
    /\ \/ \E n \in 1 .. ToRead(length) :
             /\ Down!Read(n)
             /\ n = ToRead(length) \/ n = Head(down_ready).len
             /\ \E k \in 0 .. n :
                   /\ rcvd' = rcvd \o SubSeq(down_text, down_read + 1, down_read + k)
                   /\ write_error' = (write_error \/ k < n)
             /\ length' = length - n
             /\ UNCHANGED client
       \/ /\ Down!Read(0)
          /\ client' = "failed"
          /\ UNCHANGED <<length, rcvd, write_error>>

(* The client takes the file for received, whatever fwrite() said. *)
ClientDone ==
    /\ client = "body" /\ length = 0
    /\ results' = Append(results, [name |-> name, data |-> rcvd,
                                   status |-> IF write_error THEN "damaged" ELSE "received"])
    /\ client' = "prompt"
    /\ UNCHANGED <<up, down, filename, asked, name, line, length, rcvd, write_error,
                   server_vars>>

Client == Ask \/ Skip \/ Finish \/ ClientClosed \/ ClientLine \/ ClientBody \/ ClientDone

-----------------------------------------------------------------------------
(* The server *)

Respond(n, number) ==
    LET response == n \o <<COMMA, number, COMMA, TEXT, CR, LF>>
    IN  /\ down_text' = down_text \o response
        /\ Down!Write(Len(response))

(* Mutant: a file that does not exist ends the connection. *)
ClosedAfterRefusal == "done"

(* process_line() returns 0 when it has refused a request. *)
AfterRefusal == "line"

(* process_line(), up to the response.  open() may fail. *)
Process(n) ==
    /\ \/ /\ Respond(n, -1)
          /\ server' = AfterRefusal /\ server_line' = << >>
       \/ /\ n \in DOMAIN Content
          /\ Respond(n, Len(Content[n]))
          /\ server' = "file" /\ server_line' = n
    /\ position' = 0
    /\ UNCHANGED <<read_error>>

(* Mutant: the server waits for another line after an empty one. *)
NeverEmpty(l) == FALSE

(* !*line *)
IsEmptyLine(l) == l = << >>

(* An empty line, or end of file before the first character, ends the      *)
(* connection.  A line that the end of file cuts off is a request too.     *)
TakeLine(l) ==
    IF IsEmptyLine(l)
    THEN /\ server' = "done"
         /\ UNCHANGED <<down, server_line, position, read_error>>
    ELSE Process(l)

ServerLine ==
    /\ server = "line"
    /\ UNCHANGED <<up_text, client_vars>>
    /\ \/ /\ Up!Read(1)
          /\ LET char == up_text[up_read + 1]
             IN  IF IsLineEnd(server_line, char)
                 THEN TakeLine(Front(server_line))
                 ELSE /\ server_line' = Append(server_line, char)
                      /\ UNCHANGED <<down, server, position, read_error>>
       \/ Up!Read(0) /\ TakeLine(server_line)

ServerSend ==
    /\ server = "file" /\ position < Len(Content[server_line])
    /\ LET bytes == SubSeq(Content[server_line], position + 1,
                           Min({position + RESP, Len(Content[server_line])}))
       IN  /\ down_text' = down_text \o bytes
           /\ Down!Write(Len(bytes))
           /\ position' = position + Len(bytes)
    /\ UNCHANGED <<up, client_vars, server, server_line, read_error>>

ServerSent ==
    /\ server = "file" /\ position = Len(Content[server_line])
    /\ server' = "line" /\ server_line' = << >>
    /\ UNCHANGED <<up, down, client_vars, position, read_error>>

(* read() of the file fails: process_line() returns -1. *)
ReadFails ==
    /\ server = "file"
    /\ server' = "done" /\ read_error' = TRUE
    /\ UNCHANGED <<up, down, client_vars, server_line, position>>

(* myclose() *)
ServerClose ==
    /\ server = "done"
    /\ UNCHANGED <<up, down_text, client_vars, server_line, position, read_error>>
    /\ Down!Close
    /\ server' = "closing"

(* The server's transport handles the close request: in CSTATE_CLOSE_WAIT  *)
(* it sends a FIN, in CSTATE_ESTABLISHED nothing, and the request is gone. *)
CloseRequest ==
    /\ server = "closing"
    /\ server' = IF FinSeen THEN "last_ack" ELSE "ignored"
    /\ UNCHANGED <<up, down, client_vars, server_line, position, read_error>>

(* An ACK has come in CSTATE_LAST_ACK: that of the FIN, or of data that    *)
(* the client has not read.                                                *)
ServerClosed ==
    /\ server = "last_ack"
    /\ client = "closed" \/ ~NoEof(down_ready) \/ down_read < Len(down_text)
    /\ UNCHANGED <<up_text, down, client_vars, server_line, position, read_error>>
    /\ Up!Abandon
    /\ server' = "closed"

(* The assertions on POLLERR and POLLHUP, after the client's process died. *)
ServerAborted ==
    /\ client = "aborted" /\ server \notin {"closed", "aborted"}
    /\ server' = "aborted"
    /\ UNCHANGED <<up, down, client_vars, server_line, position, read_error>>

Server == ServerLine \/ ServerSend \/ ServerSent \/ ServerClose \/ CloseRequest \/ ServerClosed

Next == Transport \/ Client \/ Server \/ ReadFails \/ ClientAborted \/ ServerAborted

Spec == Init /\ [][Next]_vars

(* Both processes run, and the transport delivers. *)
FairSpec == Spec /\ WF_vars(Transport) /\ WF_vars(Client) /\ WF_vars(Server)

-----------------------------------------------------------------------------
(* Properties *)

(* What the client stores is the file it asked for, whatever its contents, *)
(* its name and the chunks it came in, and whatever it stored before,      *)
(* unless a write failed: the client notices no short write and goes on    *)
(* after a failed one.                                                     *)
FilesIntact ==
    \A i \in 1 .. Len(results) :
        results[i].status = "received" =>
            results[i].name \in DOMAIN Content /\ results[i].data = Content[results[i].name]

(* When the client asks again, nothing of an earlier answer is left on the *)
(* way, and the server has read every request: the two are in step.        *)
InStep ==
    client = "prompt" => down_read = Len(down_text) /\ up_read = Len(up_text)

(* The transport needs the client to close first (BothCloseReturn of Stcp  *)
(* fails otherwise).  The server closes first only after an empty name on  *)
(* the command line or a file it could not read.                           *)
ClientClosesFirst ==
    down_closed => up_closed \/ read_error \/ (filename /\ name = << >>)

(* Every session comes to its end on both sides, both calls of myclose()   *)
(* included, unless the server leaves first, after a read error or an      *)
(* empty name, and its close request is lost, or the client stops because  *)
(* it cannot store a file, and dies of the data that still comes.          *)
SessionOver ==
    <>(\/ client = "closed" /\ server = "closed"
       \/ server = "ignored" /\ (read_error \/ (filename /\ name = << >>))
       \/ /\ client = "aborted"
          /\ \E i \in 1 .. Len(results) : results[i].status = "not_opened")
=============================================================================
