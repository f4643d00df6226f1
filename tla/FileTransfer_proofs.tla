------------------------- MODULE FileTransfer_proofs -------------------------
(***************************************************************************)
(* Proofs about module FileTransfer, for every value of its constants: the *)
(* client stores the file it asked for, client and server stay in step,    *)
(* and the client closes first unless something went wrong.                *)
(*                                                                         *)
(* Nothing on the wire separates one request, response or file from the    *)
(* next, so the invariant says for every position of the client what is on *)
(* the way in both directions and where the server is.                     *)
(***************************************************************************)
EXTENDS FileTransfer, SequenceTheorems, FiniteSetTheorems, TLAPS

Node == [from : Nat, len : Nat]

(* One direction of the connection: the chunks in the reader's queue cover *)
(* what was delivered and not read, and end of file stands behind them.    *)
Flow(written, closed, delivered, ready, read, eof, abandoned) ==
    /\ delivered \in Nat /\ read \in Nat /\ ready \in Seq(Node)
    /\ read <= delivered /\ delivered <= written
    /\ closed \in BOOLEAN /\ eof \in BOOLEAN /\ abandoned \in BOOLEAN
    /\ abandoned => ready = << >>
    /\ eof => closed /\ read = written
    /\ \A i \in 1 .. Len(ready) :
          /\ ready[i].len = 0 => i = Len(ready) /\ closed /\ delivered = written
          /\ ready[i].len > 0 => /\ ready[i].from + ready[i].len <= delivered + 1
                                 /\ i = 1 => ready[i].from = read + 1
    /\ \A i \in 1 .. Len(ready) - 1 :
          IF ready[i + 1].len = 0 THEN ready[i].from + ready[i].len = delivered + 1
          ELSE ready[i + 1].from = ready[i].from + ready[i].len
    /\ ready # << >> /\ ready[Len(ready)].len > 0 =>
          ready[Len(ready)].from + ready[Len(ready)].len = delivered + 1
    /\ ~abandoned /\ (ready = << >> \/ ready[1].len = 0) => read = delivered

UpFlow == Flow(Len(up_text), up_closed, up_delivered, up_ready, up_read, up_eof, up_abandoned)

(* The server's transport may have sent its FIN. *)
MayHaveEnded == server \in {"last_ack", "closed", "aborted"}

DownFlow == Flow(Len(down_text), MayHaveEnded, down_delivered, down_ready, down_read,
                 down_eof, down_abandoned)

Result == [name : Names, data : Seq(Int),
           status : {"refused", "not_opened", "received", "damaged"}]

TypeInv ==
    /\ up_text \in Seq(Int) /\ down_text \in Seq(Int)
    /\ filename \in BOOLEAN /\ asked \in Seq(Names)
    /\ client \in {"prompt", "line", "body", "failed", "closing", "closed", "aborted"}
    /\ name \in Seq(Int) /\ line \in Seq(Int) /\ length \in Int /\ rcvd \in Seq(Int)
    /\ write_error \in BOOLEAN /\ results \in Seq(Result)
    /\ server \in {"line", "file", "done", "closing", "ignored", "last_ack", "closed",
                   "aborted"}
    /\ server_line \in Seq(Int) /\ position \in Nat /\ read_error \in BOOLEAN

(* The client's process has called myclose(). *)
Closing == client \in {"closing", "closed", "aborted"}

(* The server has left its loop. *)
Gone == server \in {"done", "closing", "ignored", "last_ack", "closed", "aborted"}

(* The server's side of the connection ends after the client's. *)
CloseInv ==
    /\ up_closed <=> Closing
    /\ down_closed => Gone
    /\ MayHaveEnded => Closing

FileInv ==
    server = "file" => /\ server_line \in DOMAIN Content
                       /\ position <= Len(Content[server_line])

-----------------------------------------------------------------------------
(* What is on the way *)

(* text ends with s, which starts behind position a. *)
EndsWith(text, a, s) ==
    /\ a \in Nat /\ Len(text) = a + Len(s)
    /\ \A i \in 1 .. Len(s) : text[a + i] = s[i]

Prefix(s, k) == SubSeq(s, 1, k)

Request(n) == n \o <<CR, LF>>

Response(n, number) == n \o <<COMMA, number, COMMA, TEXT, CR, LF>>

(* The server has answered everything and holds soFar of the next line. *)
Idle(soFar) ==
    \/ server = "line" /\ server_line = soFar
    \/ server = "file" /\ position = Len(Content[server_line]) /\ soFar = << >>

(* The server has written p bytes of the file the client has asked for. *)
HasSent(p) ==
    \/ server = "file" /\ server_line = name /\ position = p
    \/ server = "line" /\ server_line = << >> /\ p = Len(Content[name])
    \/ Gone /\ read_error

Quiet == down_read = Len(down_text) /\ up_read = Len(up_text)

PromptInv == Quiet /\ (Idle(<< >>) \/ (Gone /\ read_error))

OverInv == \/ Gone
           \/ up_read = Len(up_text) /\ (server = "line" => server_line = << >>)

(* The server has read k tokens of the request. *)
Asked(k) == /\ Idle(Prefix(Request(name), k))
            /\ EndsWith(up_text, up_read - k, Request(name))

Asking == /\ line = << >> /\ down_read = Len(down_text)
          /\ \E k \in 0 .. Len(name) + 1 : Asked(k)

(* The client has read k tokens of the response. *)
Answer(k, number, sent) ==
    /\ line = Prefix(Response(name, number), k)
    /\ EndsWith(down_text, down_read - k, Response(name, number) \o sent)

Refused(k) == Answer(k, -1, << >>) /\ server = "line" /\ server_line = << >>

Granted(k, p) == HasSent(p) /\ Answer(k, Len(Content[name]), Prefix(Content[name], p))

Answered == /\ up_read = Len(up_text)
            /\ \/ \E k \in 0 .. Len(name) + 5 : Refused(k)
               \/ /\ name \in DOMAIN Content
                  /\ \E k \in 0 .. Len(name) + 5, p \in 0 .. Len(Content[name]) : Granted(k, p)

(* The server has closed without an answer, or is going to. *)
Unanswered == /\ line = << >> /\ down_read = Len(down_text)
              /\ Gone /\ (read_error \/ (filename /\ name = << >>))

LineInv == /\ name \in Names /\ (filename \/ name # << >>)
           /\ Asking \/ Answered \/ Unanswered

(* The client has taken the first bytes of the file, and the rest of what  *)
(* the server has sent of it is on the way.                                *)
Got == Len(Content[name]) - length

Stored(p) == /\ p \in Got .. Len(Content[name]) /\ HasSent(p)
             /\ EndsWith(down_text, down_read - Got, Prefix(Content[name], p))

BodyInv == /\ name \in DOMAIN Content /\ up_read = Len(up_text)
           /\ length \in 0 .. Len(Content[name])
           /\ ~write_error => rcvd = Prefix(Content[name], Got)
           /\ \E p \in 0 .. Len(Content[name]) : Stored(p)

(* Why the server has left the loop *)
GoneInv == Gone => up_closed \/ read_error \/ (filename /\ name = << >>)

ClientInv ==
    /\ client = "prompt" => PromptInv
    /\ client = "line" => LineInv
    /\ client = "body" => BodyInv
    /\ client = "failed" \/ Closing => OverInv

TransferInv ==
    /\ TypeInv /\ UpFlow /\ DownFlow /\ CloseInv /\ FileInv
    /\ ClientInv /\ GoneInv /\ FilesIntact

-----------------------------------------------------------------------------
(* One direction of the connection *)

LEMMA FlowWrite ==
    ASSUME NEW w \in Nat, NEW w2 \in Nat, w <= w2, NEW d, NEW q, NEW r, NEW e, NEW a,
           Flow(w, FALSE, d, q, r, e, a)
    PROVE  Flow(w2, FALSE, d, q, r, e, a)
BY DEF Flow

LEMMA FlowClose ==
    ASSUME NEW w \in Nat, NEW d, NEW q, NEW r, NEW e, NEW a,
           Flow(w, FALSE, d, q, r, e, a)
    PROVE  Flow(w, TRUE, d, q, r, e, a)
BY DEF Flow

LEMMA FlowAbandon ==
    ASSUME NEW w \in Nat, NEW c, NEW d, NEW q, NEW r, NEW e, NEW a,
           Flow(w, c, d, q, r, e, a)
    PROVE  Flow(w, c, d, << >>, r, e, TRUE)
<1>1. << >> \in Seq(Node) /\ Len(<< >>) = 0
  BY EmptySeq
<1>2. QED
  BY <1>1 DEF Flow

LEMMA NodeFacts ==
    ASSUME NEW q \in Seq(Node)
    PROVE  /\ Len(q) \in Nat
           /\ \A i \in 1 .. Len(q) : q[i].from \in Nat /\ q[i].len \in Nat
           /\ q # << >> => Len(q) >= 1 /\ Head(q) = q[1]
<1>1. Len(q) \in Nat /\ \A i \in 1 .. Len(q) : q[i] \in Node
  BY ElementOfSeq, LenProperties
<1>2. QED
  BY <1>1, EmptySeq DEF Node

LEMMA FlowDeliver ==
    ASSUME NEW w \in Nat, NEW c, NEW d, NEW q, NEW r, NEW e,
           Flow(w, c, d, q, r, e, FALSE), NEW n \in 1 .. w - d
    PROVE  Flow(w, c, d + n, Append(q, [from |-> d + 1, len |-> n]), r, e, FALSE)
<1>0. d \in Nat /\ r \in Nat /\ q \in Seq(Node) /\ r <= d /\ d <= w /\ n \in Nat /\ n > 0
  BY DEF Flow
<1> PICK x : x = [from |-> d + 1, len |-> n]
  OBVIOUS
<1> PICK t : t = Append(q, x)
  OBVIOUS
<1>1. x \in Node /\ x.from = d + 1 /\ x.len = n
  BY <1>0 DEF Node
<1>2. /\ t \in Seq(Node) /\ Len(t) = Len(q) + 1 /\ t[Len(q) + 1] = x /\ t # << >>
      /\ \A i \in 1 .. Len(q) : t[i] = q[i]
  BY <1>0, <1>1, AppendProperties
<1>3. /\ Len(q) \in Nat
      /\ \A i \in 1 .. Len(q) : q[i].from \in Nat /\ q[i].len \in Nat
  BY <1>0, NodeFacts
<1>4. \A i \in 1 .. Len(q) : q[i].len > 0 /\ q[i].from + q[i].len <= d + 1
  BY <1>0, <1>3 DEF Flow
<1>5. q = << >> => Len(q) = 0 /\ r = d
  BY EmptySeq DEF Flow
<1>6. \A i \in 1 .. Len(t) :
          /\ t[i].len > 0
          /\ t[i].from + t[i].len <= d + n + 1
          /\ i = 1 => t[i].from = r + 1
  <2> TAKE i \in 1 .. Len(t)
  <2>1. CASE i \in 1 .. Len(q)
    BY <2>1, <1>0, <1>2, <1>3, <1>4, SMTT(30) DEF Flow
  <2>2. CASE i = Len(q) + 1
    <3>1. i = 1 => q = << >>
      BY <2>2, <1>0, <1>3, EmptySeq
    <3>2. QED
      BY <3>1, <2>2, <1>0, <1>1, <1>2, <1>5
  <2>3. QED
    BY <2>1, <2>2, <1>2, <1>3
<1>7. \A i \in 1 .. Len(t) - 1 : t[i + 1].from = t[i].from + t[i].len
  <2> TAKE i \in 1 .. Len(t) - 1
  <2>0. i \in 1 .. Len(q) /\ t[i] = q[i]
    BY <1>2, <1>3
  <2>1. CASE i \in 1 .. Len(q) - 1
    <3>1. i + 1 \in 1 .. Len(q) /\ t[i + 1] = q[i + 1] /\ q[i + 1].len # 0
      BY <2>1, <1>2, <1>3, <1>4
    <3>2. QED
      BY <3>1, <2>0, <2>1, <1>3 DEF Flow
  <2>2. CASE i = Len(q)
    <3>1. q # << >> /\ q[Len(q)].len > 0
      BY <2>0, <2>2, <1>4, EmptySeq
    <3>2. q[Len(q)].from + q[Len(q)].len = d + 1
      BY <3>1 DEF Flow
    <3>3. QED
      BY <3>2, <2>0, <2>2, <1>1, <1>2
  <2>3. QED
    BY <2>0, <2>1, <2>2, <1>3
<1>8. t[Len(t)].from + t[Len(t)].len = d + n + 1
  BY <1>0, <1>1, <1>2
<1>9. d + n \in Nat /\ r <= d + n /\ d + n <= w
  BY <1>0
<1>10. t[1].len > 0
  BY <1>6, <1>2, <1>3
<1>10a. \A i \in 1 .. Len(t) : t[i].len # 0
  <2> TAKE i \in 1 .. Len(t)
  <2>1. t[i].len > 0
    BY <1>6
  <2>2. QED
    BY <2>1
<1>10b. \A i \in 1 .. Len(t) - 1 : t[i + 1].len # 0
  BY <1>10a, <1>2, <1>3
<1>11. Flow(w, c, d + n, t, r, e, FALSE)
  BY <1>0, <1>2, <1>6, <1>7, <1>8, <1>9, <1>10, <1>10a, <1>10b DEF Flow
<1>12. QED
  BY <1>11

LEMMA FlowDeliverEof ==
    ASSUME NEW w \in Nat, NEW q, NEW r, NEW e,
           Flow(w, TRUE, w, q, r, e, FALSE), NoEof(q)
    PROVE  Flow(w, TRUE, w, Append(q, [from |-> 0, len |-> 0]), r, e, FALSE)
<1>0. r \in Nat /\ q \in Seq(Node) /\ r <= w
  BY DEF Flow
<1> PICK x : x = [from |-> 0, len |-> 0]
  OBVIOUS
<1> PICK t : t = Append(q, x)
  OBVIOUS
<1>1. x \in Node /\ x.from = 0 /\ x.len = 0
  BY DEF Node
<1>2. /\ t \in Seq(Node) /\ Len(t) = Len(q) + 1 /\ t[Len(q) + 1] = x /\ t # << >>
      /\ \A i \in 1 .. Len(q) : t[i] = q[i]
  BY <1>0, <1>1, AppendProperties
<1>3. /\ Len(q) \in Nat
      /\ \A i \in 1 .. Len(q) : q[i].from \in Nat /\ q[i].len \in Nat /\ q[i].len # 0
  BY <1>0, NodeFacts DEF NoEof
<1>5. q = << >> => Len(q) = 0 /\ r = w
  BY EmptySeq DEF Flow
<1>6. \A i \in 1 .. Len(t) :
          /\ t[i].len = 0 => i = Len(t)
          /\ t[i].len > 0 => /\ t[i].from + t[i].len <= w + 1
                             /\ i = 1 => t[i].from = r + 1
  <2> TAKE i \in 1 .. Len(t)
  <2>1. CASE i \in 1 .. Len(q)
    BY <2>1, <1>0, <1>2, <1>3 DEF Flow
  <2>2. CASE i = Len(q) + 1
    BY <2>2, <1>0, <1>1, <1>2
  <2>3. QED
    BY <2>1, <2>2, <1>2, <1>3
<1>7. \A i \in 1 .. Len(t) - 1 :
          IF t[i + 1].len = 0 THEN t[i].from + t[i].len = w + 1
          ELSE t[i + 1].from = t[i].from + t[i].len
  <2> TAKE i \in 1 .. Len(t) - 1
  <2>0. i \in 1 .. Len(q) /\ t[i] = q[i]
    BY <1>2, <1>3
  <2>1. CASE i \in 1 .. Len(q) - 1
    <3>1. i + 1 \in 1 .. Len(q) /\ t[i + 1] = q[i + 1] /\ q[i + 1].len # 0
      BY <2>1, <1>2, <1>3
    <3>2. QED
      BY <3>1, <2>0, <2>1, <1>3 DEF Flow
  <2>2. CASE i = Len(q)
    <3>1. q # << >> /\ q[Len(q)].len > 0
      BY <2>0, <2>2, <1>3, EmptySeq
    <3>2. q[Len(q)].from + q[Len(q)].len = w + 1
      BY <3>1 DEF Flow
    <3>3. QED
      BY <3>2, <2>0, <2>2, <1>1, <1>2
  <2>3. QED
    BY <2>0, <2>1, <2>2, <1>3
<1>8. t[Len(t)].len = 0
  BY <1>1, <1>2
<1>9. t[1].len = 0 => r = w
  <2>1. CASE q = << >>
    BY <2>1, <1>5
  <2>2. CASE q # << >>
    <3>1. 1 \in 1 .. Len(q)
      BY <2>2, <1>0, NodeFacts
    <3>2. QED
      BY <3>1, <1>2, <1>3
  <2>3. QED
    BY <2>1, <2>2
<1>11. Flow(w, TRUE, w, t, r, e, FALSE)
  BY <1>0, <1>2, <1>6, <1>7, <1>8, <1>9 DEF Flow
<1>12. QED
  BY <1>11

(* What a read of n bytes takes is there, and end of file comes last. *)
LEMMA FlowRead ==
    ASSUME NEW w \in Nat, NEW c \in BOOLEAN, NEW d, NEW q, NEW r, NEW e, NEW a,
           Flow(w, c, d, q, r, e, a),
           q # << >>, ~e, NEW n \in Nat, n <= Head(q).len,
           (n = 0) <=> (Head(q).len = 0)
    PROVE  /\ r + n <= w
           /\ n = 0 => r = w /\ c
           /\ Flow(w, c, d, IF Head(q).len > n
                            THEN <<[from |-> Head(q).from + n, len |-> Head(q).len - n]>> \o Tail(q)
                            ELSE Tail(q),
                   r + n, n = 0, a)
<1>0. d \in Nat /\ r \in Nat /\ q \in Seq(Node) /\ r <= d /\ d <= w /\ a = FALSE
  BY DEF Flow
<1>1. /\ Len(q) \in Nat /\ Len(q) >= 1 /\ Head(q) = q[1]
      /\ \A i \in 1 .. Len(q) : q[i].from \in Nat /\ q[i].len \in Nat
  BY <1>0, NodeFacts
<1>2. /\ Tail(q) \in Seq(Node) /\ Len(Tail(q)) = Len(q) - 1
      /\ \A i \in 1 .. Len(Tail(q)) : Tail(q)[i] = q[i + 1]
  BY <1>0, HeadTailProperties
<1> PICK f : f = q[1].from
  OBVIOUS
<1> PICK l : l = q[1].len
  OBVIOUS
<1>3. f \in Nat /\ l \in Nat /\ (l > 0 => f = r + 1 /\ f + l <= d + 1) /\ n <= l /\ (n = 0 <=> l = 0)
  BY <1>1 DEF Flow
<1>4. r + n <= d /\ (n = 0 => r = w /\ c /\ r = d /\ Len(q) = 1)
  <2>1. n > 0 => r + n <= d
    BY <1>0, <1>3
  <2>2. n = 0 => d = w /\ c /\ r = d /\ Len(q) = 1
    <3>1. 1 \in 1 .. Len(q)
      BY <1>1
    <3>2. l = 0 => 1 = Len(q) /\ c /\ d = w
      BY <3>1 DEF Flow
    <3>3. l = 0 => r = d
      BY <1>0 DEF Flow
    <3>4. QED
      BY <3>2, <3>3, <1>3
  <2>3. QED
    BY <2>1, <2>2, <1>0
<1>5. CASE Head(q).len > n
  <2>0. l > n /\ n > 0 /\ f = r + 1
    BY <1>5, <1>1, <1>3
  <2> PICK x : x = [from |-> f + n, len |-> l - n]
    OBVIOUS
  <2> PICK t : t = <<x>> \o Tail(q)
    OBVIOUS
  <2>1. x \in Node /\ x.from = f + n /\ x.len = l - n
    BY <2>0, <1>3 DEF Node
  <2>1a. <<x>> \in Seq(Node) /\ Len(<<x>>) = 1 /\ <<x>>[1] = x
    BY <2>1
  <2>2. /\ t \in Seq(Node) /\ Len(t) = Len(q)
        /\ \A i \in 1 .. 1 + (Len(q) - 1) : t[i] = IF i <= 1 THEN <<x>>[i] ELSE Tail(q)[i - 1]
    BY <2>1a, <1>1, <1>2, ConcatProperties
  <2>3. t[1] = x /\ \A i \in 2 .. Len(q) : t[i] = q[i]
    <3>1. t[1] = x
      BY <2>1a, <2>2, <1>1
    <3>2. ASSUME NEW i \in 2 .. Len(q) PROVE t[i] = q[i]
      <4>1. i - 1 \in 1 .. Len(Tail(q)) /\ i \in 1 .. 1 + (Len(q) - 1) /\ ~(i <= 1) /\ (i - 1) + 1 = i
        BY <1>1, <1>2
      <4>2. t[i] = Tail(q)[i - 1] /\ Tail(q)[i - 1] = q[(i - 1) + 1]
        BY <4>1, <2>2, <1>2
      <4>3. QED
        BY <4>1, <4>2
    <3>3. QED
      BY <3>1, <3>2
  <2>3a. t # << >>
    BY <2>2, <1>1, EmptySeq
  <2>4. \A i \in 1 .. Len(t) :
          /\ t[i].len = 0 => i = Len(t) /\ c /\ d = w
          /\ t[i].len > 0 => /\ t[i].from + t[i].len <= d + 1
                             /\ i = 1 => t[i].from = (r + n) + 1
    <3> TAKE i \in 1 .. Len(t)
    <3>1. CASE i = 1
      <4>1. t[i].from = f + n /\ t[i].len = l - n
        BY <3>1, <2>1, <2>3
      <4>2. l > n /\ l > 0 /\ f + l <= d + 1
        BY <2>0, <1>3
      <4>3. l - n # 0 /\ (f + n) + (l - n) <= d + 1 /\ f + n = (r + n) + 1
        BY <4>2, <2>0, <1>0, <1>3, SMTT(30)
      <4>4. QED
        BY <4>1, <4>3
    <3>2. CASE i \in 2 .. Len(q)
      <4>1. i \in 1 .. Len(q) /\ i # 1 /\ t[i] = q[i]
        BY <3>2, <2>3, <1>1
      <4>2. /\ q[i].len = 0 => i = Len(q) /\ c /\ d = w
            /\ q[i].len > 0 => q[i].from + q[i].len <= d + 1
        BY <4>1 DEF Flow
      <4>3. QED
        BY <4>1, <4>2, <2>2
    <3>3. i = 1 \/ i \in 2 .. Len(q)
      BY <2>2, <1>1
    <3>4. QED
      BY <3>1, <3>2, <3>3
  <2>5. \A i \in 1 .. Len(t) - 1 :
          IF t[i + 1].len = 0 THEN t[i].from + t[i].len = d + 1
          ELSE t[i + 1].from = t[i].from + t[i].len
    <3> TAKE i \in 1 .. Len(t) - 1
    <3>1. /\ i \in 1 .. Len(q) - 1 /\ i + 1 \in 2 .. Len(q) /\ t[i + 1] = q[i + 1]
          /\ i \in 1 .. Len(q)
      BY <2>2, <2>3, <1>1
    <3>2. t[i].from + t[i].len = q[i].from + q[i].len
      <4>1. CASE i = 1
        BY <4>1, <2>0, <2>1, <2>3, <1>3
      <4>2. CASE i # 1
        BY <4>2, <3>1, <2>3
      <4>3. QED
        BY <4>1, <4>2
    <3>3. IF q[i + 1].len = 0 THEN q[i].from + q[i].len = d + 1
          ELSE q[i + 1].from = q[i].from + q[i].len
      BY <3>1 DEF Flow
    <3>4. QED
      BY <3>1, <3>2, <3>3
  <2>6. t[Len(t)].len > 0 => t[Len(t)].from + t[Len(t)].len = d + 1
    <3>1. q[Len(q)].len > 0 => q[Len(q)].from + q[Len(q)].len = d + 1
      BY DEF Flow
    <3>2. CASE Len(q) = 1
      <4>1. t[Len(t)] = x /\ q[Len(q)].len = l /\ q[Len(q)].from = f
        BY <3>2, <2>2, <2>3
      <4>2. l > 0
        BY <2>0, <1>3
      <4>3. QED
        BY <4>1, <4>2, <3>1, <2>0, <2>1, <1>3
    <3>3. CASE Len(q) # 1
      BY <3>1, <3>3, <2>2, <2>3, <1>1
    <3>4. QED
      BY <3>2, <3>3
  <2>7. t[1].len # 0
    BY <2>0, <2>1, <2>3, <1>3
  <2>8. r + n \in Nat
    BY <1>0
  <2>9. Flow(w, c, d, t, r + n, FALSE, FALSE)
    <3>1. c \in BOOLEAN
      BY DEF Flow
    <3>2. QED
      BY <3>1, <2>2, <2>3a, <2>4, <2>5, <2>6, <2>7, <2>8, <1>0, <1>4 DEF Flow
  <2>10. (n = 0) = FALSE /\ a = FALSE
    BY <2>0, <1>0
  <2>11. (IF Head(q).len > n
          THEN <<[from |-> Head(q).from + n, len |-> Head(q).len - n]>> \o Tail(q)
          ELSE Tail(q)) = t
    BY <1>1, <1>5
  <2>12. r + n <= w
    BY <1>0, <1>4
  <2>13. QED
    BY <2>9, <2>10, <2>11, <2>12, <1>4
<1>6. CASE ~(Head(q).len > n)
  <2>0. l = n
    BY <1>6, <1>1, <1>3
  <2> PICK t : t = Tail(q)
    OBVIOUS
  <2>1. /\ t \in Seq(Node) /\ Len(t) = Len(q) - 1
        /\ \A i \in 1 .. Len(t) : i + 1 \in 2 .. Len(q) /\ i + 1 \in 1 .. Len(q) /\ t[i] = q[i + 1]
    BY <1>1, <1>2
  <2>2. Len(t) \in Nat /\ (t # << >> => Len(t) >= 1)
    BY <2>1, NodeFacts
  <2>2a. Len(t) >= 1 => n > 0 /\ f = r + 1 /\ r + n + 1 = f + l
    <3> HAVE Len(t) >= 1
    <3>1. Len(q) # 1
      BY <2>1, <1>1
    <3>2. n # 0
      BY <3>1, <1>4
    <3>3. QED
      BY <3>2, <2>0, <1>0, <1>3, SMTT(30)
  <2>3. Len(t) >= 1 => IF t[1].len = 0 THEN r + n = d ELSE t[1].from = (r + n) + 1
    <3> HAVE Len(t) >= 1
    <3>1. 1 \in 1 .. Len(q) - 1 /\ t[1] = q[1 + 1]
      BY <2>1, <1>1
    <3>2. IF q[1 + 1].len = 0 THEN q[1].from + q[1].len = d + 1
          ELSE q[1 + 1].from = q[1].from + q[1].len
      BY <3>1 DEF Flow
    <3>3. QED
      BY <3>1, <3>2, <2>2a, <1>0, <1>3
  <2>4. \A i \in 1 .. Len(t) :
          /\ t[i].len = 0 => i = Len(t) /\ c /\ d = w
          /\ t[i].len > 0 => /\ t[i].from + t[i].len <= d + 1
                             /\ i = 1 => t[i].from = (r + n) + 1
    <3> TAKE i \in 1 .. Len(t)
    <3>1. i + 1 \in 1 .. Len(q) /\ t[i] = q[i + 1]
      BY <2>1
    <3>2. /\ q[i + 1].len = 0 => i + 1 = Len(q) /\ c /\ d = w
          /\ q[i + 1].len > 0 => q[i + 1].from + q[i + 1].len <= d + 1
      BY <3>1 DEF Flow
    <3>3. i = 1 /\ t[i].len > 0 => t[i].from = (r + n) + 1
      BY <2>2, <2>3
    <3>4. i + 1 = Len(q) => i = Len(t)
      <4> PICK a1 : a1 = Len(q)
        OBVIOUS
      <4> PICK b1 : b1 = Len(t)
        OBVIOUS
      <4>1. i \in Int /\ b1 = a1 - 1 /\ a1 \in Nat
        BY <2>1, <1>1
      <4>2. i + 1 = a1 => i = b1
        BY ONLY <4>1
      <4>3. QED
        BY <4>2
    <3>5. QED
      BY <3>1, <3>2, <3>3, <3>4
  <2>5. \A i \in 1 .. Len(t) - 1 :
          IF t[i + 1].len = 0 THEN t[i].from + t[i].len = d + 1
          ELSE t[i + 1].from = t[i].from + t[i].len
    <3> TAKE i \in 1 .. Len(t) - 1
    <3>1. /\ i + 1 \in 1 .. Len(q) - 1 /\ t[i] = q[i + 1] /\ t[i + 1] = q[(i + 1) + 1]
      BY <2>1, <2>2, <1>1
    <3>2. IF q[(i + 1) + 1].len = 0 THEN q[i + 1].from + q[i + 1].len = d + 1
          ELSE q[(i + 1) + 1].from = q[i + 1].from + q[i + 1].len
      BY <3>1 DEF Flow
    <3>4. QED
      BY <3>1, <3>2
  <2>6. t # << >> /\ t[Len(t)].len > 0 => t[Len(t)].from + t[Len(t)].len = d + 1
    <3> HAVE t # << >> /\ t[Len(t)].len > 0
    <3>1. t[Len(t)] = q[Len(q)]
      BY <2>1, <2>2, <1>1
    <3>2. QED
      BY <3>1 DEF Flow
  <2>7. t = << >> => r + n = d
    <3> HAVE t = << >>
    <3>0. Len(t) = 0
      BY EmptySeq
    <3>1. Len(q) = 1
      BY <3>0, <2>1, <1>1
    <3>2. q[1].len > 0 => q[1].from + q[1].len = d + 1
      BY <3>1 DEF Flow
    <3>3. CASE n = 0
      BY <3>3, <1>0, <1>4
    <3>4. CASE n # 0
      BY <3>2, <3>4, <2>0, <1>0, <1>3
    <3>5. QED
      BY <3>3, <3>4
  <2>8. t # << >> /\ t[1].len = 0 => r + n = d
    BY <2>2, <2>3
  <2>9. r + n \in Nat /\ (n = 0 => r + n = w)
    BY <1>0, <1>4
  <2>10. Flow(w, c, d, t, r + n, n = 0, FALSE)
    <3>1. c \in BOOLEAN /\ (n = 0) \in BOOLEAN
      BY DEF Flow
    <3>2. QED
      BY <3>1, <2>1, <2>4, <2>5, <2>6, <2>7, <2>8, <2>9, <1>0, <1>4 DEF Flow
  <2>11. (IF Head(q).len > n
          THEN <<[from |-> Head(q).from + n, len |-> Head(q).len - n]>> \o Tail(q)
          ELSE Tail(q)) = t
    BY <1>6
  <2>12. r + n <= w
    BY <1>0, <1>4
  <2>13. QED
    BY <2>10, <2>11, <2>12, <1>0, <1>4
<1>7. QED
  BY <1>5, <1>6

-----------------------------------------------------------------------------
(* What is written, and lines *)

LEMMA PrefixFacts ==
    ASSUME NEW s \in Seq(Int), NEW k \in 0 .. Len(s)
    PROVE  /\ Prefix(s, k) \in Seq(Int) /\ Len(Prefix(s, k)) = k
           /\ \A i \in 1 .. k : Prefix(s, k)[i] = s[i]
<1>1. Len(s) \in Nat /\ \A i \in 1 .. k : s[i] \in Int
  BY LenProperties, ElementOfSeq
<1>2. /\ SubSeq(s, 1, k) \in Seq(Int)
      /\ Len(SubSeq(s, 1, k)) = IF 1 <= k THEN k - 1 + 1 ELSE 0
      /\ \A i \in 1 .. k - 1 + 1 : SubSeq(s, 1, k)[i] = s[1 + i - 1]
  BY <1>1, SubSeqProperties
<1>3. QED
  BY <1>1, <1>2 DEF Prefix

LEMMA PrefixEmpty == ASSUME NEW s PROVE Prefix(s, 0) = << >>
BY SubSeqEmpty DEF Prefix

LEMMA PrefixFull == ASSUME NEW s \in Seq(Int) PROVE Prefix(s, Len(s)) = s
BY SubSeqFull DEF Prefix

LEMMA PrefixNext ==
    ASSUME NEW s \in Seq(Int), NEW k \in 0 .. Len(s) - 1
    PROVE  Append(Prefix(s, k), s[k + 1]) = Prefix(s, k + 1)
<1>0. Len(s) \in Nat /\ k \in 0 .. Len(s) /\ k + 1 \in 1 .. Len(s) /\ k + 1 \in 0 .. Len(s)
  BY LenProperties
<1>1. /\ Prefix(s, k) \in Seq(Int) /\ Len(Prefix(s, k)) = k
      /\ \A i \in 1 .. k : Prefix(s, k)[i] = s[i]
  BY <1>0, PrefixFacts
<1>2. /\ Prefix(s, k + 1) \in Seq(Int) /\ Len(Prefix(s, k + 1)) = k + 1
      /\ \A i \in 1 .. k + 1 : Prefix(s, k + 1)[i] = s[i]
  BY <1>0, PrefixFacts
<1> PICK x : x = s[k + 1]
  OBVIOUS
<1> PICK p : p = Prefix(s, k)
  OBVIOUS
<1> PICK t : t = Append(p, x)
  OBVIOUS
<1>3. x \in Int
  BY <1>0, ElementOfSeq
<1>4. t \in Seq(Int) /\ Len(t) = k + 1 /\ t[k + 1] = x /\ \A i \in 1 .. k : t[i] = p[i]
  BY <1>1, <1>3, AppendProperties
<1>5. ASSUME NEW i \in 1 .. k + 1 PROVE t[i] = Prefix(s, k + 1)[i]
  <2>1. Prefix(s, k + 1)[i] = s[i]
    BY <1>2
  <2>2. CASE i = k + 1
    BY <2>1, <2>2, <1>4
  <2>3. CASE i # k + 1
    <3>1. i \in 1 .. k
      BY <2>3, <1>0
    <3>2. QED
      BY <3>1, <2>1, <1>1, <1>4
  <2>4. QED
    BY <2>2, <2>3
<1>6. t = Prefix(s, k + 1)
  BY <1>2, <1>4, <1>5, SeqEqual
<1>7. QED
  BY <1>6

LEMMA ConcatThree ==
    ASSUME NEW s \in Seq(Int), NEW t \in Seq(Int), NEW u \in Seq(Int)
    PROVE  (s \o t) \o u = s \o (t \o u)
<1>1. PICK S : S = Int
  OBVIOUS
<1>2. s \in Seq(S) /\ t \in Seq(S) /\ u \in Seq(S)
  BY <1>1
<1>3. QED
  BY ONLY <1>2, ConcatAssociative, SMTT(30)

LEMMA EndsEmpty ==
    ASSUME NEW text \in Seq(Int) PROVE EndsWith(text, Len(text), << >>)
BY LenProperties, EmptySeq DEF EndsWith

LEMMA EndsAppend ==
    ASSUME NEW text \in Seq(Int), NEW s \in Seq(Int), NEW t \in Seq(Int), NEW a,
           EndsWith(text, a, s)
    PROVE  EndsWith(text \o t, a, s \o t)
<1>0. a \in Nat /\ Len(text) = a + Len(s) /\ \A i \in 1 .. Len(s) : text[a + i] = s[i]
  BY DEF EndsWith
<1>1. Len(text) \in Nat /\ Len(s) \in Nat /\ Len(t) \in Nat
  BY LenProperties
<1>2. /\ text \o t \in Seq(Int) /\ Len(text \o t) = Len(text) + Len(t)
      /\ \A i \in 1 .. Len(text) + Len(t) : (text \o t)[i] =
             IF i <= Len(text) THEN text[i] ELSE t[i - Len(text)]
  BY ConcatProperties
<1>3. /\ s \o t \in Seq(Int) /\ Len(s \o t) = Len(s) + Len(t)
      /\ \A i \in 1 .. Len(s) + Len(t) : (s \o t)[i] =
             IF i <= Len(s) THEN s[i] ELSE t[i - Len(s)]
  BY ConcatProperties
<1>4. ASSUME NEW i \in 1 .. Len(s) + Len(t) PROVE (text \o t)[a + i] = (s \o t)[i]
  <2>1. a + i \in 1 .. Len(text) + Len(t)
    BY <1>0, <1>1
  <2>2. CASE i <= Len(s)
    <3>1. a + i <= Len(text) /\ i \in 1 .. Len(s)
      BY <2>2, <1>0, <1>1
    <3>2. QED
      BY <3>1, <2>1, <2>2, <1>0, <1>2, <1>3
  <2>3. CASE ~(i <= Len(s))
    <3>1. ~(a + i <= Len(text)) /\ (a + i) - Len(text) = i - Len(s)
      BY <2>3, <1>0, <1>1
    <3>2. QED
      BY <3>1, <2>1, <2>3, <1>2, <1>3
  <2>4. QED
    BY <2>2, <2>3
<1>5. Len(text \o t) = a + Len(s \o t)
  BY <1>0, <1>1, <1>2, <1>3
<1>6. \A i \in 1 .. Len(s \o t) : (text \o t)[a + i] = (s \o t)[i]
  BY <1>3, <1>4
<1>7. QED
  BY ONLY <1>0, <1>5, <1>6 DEF EndsWith

(* What is left when the first part has been read *)
LEMMA EndsSkip ==
    ASSUME NEW text \in Seq(Int), NEW s \in Seq(Int), NEW t \in Seq(Int), NEW a,
           EndsWith(text, a, s \o t)
    PROVE  EndsWith(text, a + Len(s), t)
<1>1. Len(text) \in Nat /\ Len(s) \in Nat /\ Len(t) \in Nat
  BY LenProperties
<1>3. /\ s \o t \in Seq(Int) /\ Len(s \o t) = Len(s) + Len(t)
      /\ \A i \in 1 .. Len(s) + Len(t) : (s \o t)[i] =
             IF i <= Len(s) THEN s[i] ELSE t[i - Len(s)]
  BY ConcatProperties
<1>0. a \in Nat /\ Len(text) = a + (Len(s) + Len(t)) /\ \A i \in 1 .. Len(s) + Len(t) : text[a + i] = (s \o t)[i]
  BY <1>3 DEF EndsWith
<1>4. ASSUME NEW i \in 1 .. Len(t) PROVE text[(a + Len(s)) + i] = t[i]
  <2>1. /\ Len(s) + i \in 1 .. Len(s) + Len(t) /\ ~(Len(s) + i <= Len(s))
        /\ (Len(s) + i) - Len(s) = i /\ (a + Len(s)) + i = a + (Len(s) + i)
    BY <1>0, <1>1
  <2>2. text[a + (Len(s) + i)] = (s \o t)[Len(s) + i] /\ (s \o t)[Len(s) + i] = t[(Len(s) + i) - Len(s)]
    BY <2>1, <1>0, <1>3
  <2>3. QED
    BY <2>1, <2>2
<1>5. QED
  BY <1>0, <1>1, <1>4 DEF EndsWith

LEMMA RequestFacts ==
    ASSUME NEW n \in Seq(Int)
    PROVE  /\ Request(n) \in Seq(Int) /\ Len(Request(n)) = Len(n) + 2 /\ Len(n) \in Nat
           /\ \A i \in 1 .. Len(n) : Request(n)[i] = n[i]
           /\ Request(n)[Len(n) + 1] = CR /\ Request(n)[Len(n) + 2] = LF
<1> PICK e : e = <<CR, LF>>
  OBVIOUS
<1>1. e \in Seq(Int) /\ Len(e) = 2 /\ e[1] = CR /\ e[2] = LF
  BY DEF CR, LF
<1>2. Len(n) \in Nat
  BY LenProperties
<1>3. /\ n \o e \in Seq(Int) /\ Len(n \o e) = Len(n) + Len(e)
      /\ \A i \in 1 .. Len(n) + Len(e) : (n \o e)[i] = IF i <= Len(n) THEN n[i] ELSE e[i - Len(n)]
  BY <1>1, ConcatProperties
<1>4. \A i \in 1 .. Len(n) : (n \o e)[i] = n[i]
  BY <1>1, <1>2, <1>3
<1>5. \A j \in {1, 2} : (n \o e)[Len(n) + j] = e[j]
  <2> TAKE j \in {1, 2}
  <2>1. /\ Len(n) + j \in 1 .. Len(n) + Len(e) /\ ~(Len(n) + j <= Len(n))
        /\ (Len(n) + j) - Len(n) = j
    BY <1>1, <1>2
  <2>2. (n \o e)[Len(n) + j] = e[(Len(n) + j) - Len(n)]
    BY <2>1, <1>3
  <2>3. QED
    BY <2>1, <2>2
<1>6. QED
  BY <1>1, <1>2, <1>3, <1>4, <1>5 DEF Request

LEMMA ResponseFacts ==
    ASSUME NEW n \in Seq(Int), NEW m \in Int
    PROVE  /\ Response(n, m) \in Seq(Int) /\ Len(Response(n, m)) = Len(n) + 6 /\ Len(n) \in Nat
           /\ \A i \in 1 .. Len(n) : Response(n, m)[i] = n[i]
           /\ Response(n, m)[Len(n) + 1] = COMMA /\ Response(n, m)[Len(n) + 2] = m
           /\ Response(n, m)[Len(n) + 3] = COMMA /\ Response(n, m)[Len(n) + 4] = TEXT
           /\ Response(n, m)[Len(n) + 5] = CR /\ Response(n, m)[Len(n) + 6] = LF
<1> PICK e : e = <<COMMA, m, COMMA, TEXT, CR, LF>>
  OBVIOUS
<1>1. /\ e \in Seq(Int) /\ Len(e) = 6 /\ e[1] = COMMA /\ e[2] = m /\ e[3] = COMMA
      /\ e[4] = TEXT /\ e[5] = CR /\ e[6] = LF
  BY DEF CR, LF, COMMA, TEXT
<1>2. Len(n) \in Nat
  BY LenProperties
<1>3. /\ n \o e \in Seq(Int) /\ Len(n \o e) = Len(n) + Len(e)
      /\ \A i \in 1 .. Len(n) + Len(e) : (n \o e)[i] = IF i <= Len(n) THEN n[i] ELSE e[i - Len(n)]
  BY <1>1, ConcatProperties
<1>4. \A i \in 1 .. Len(n) : (n \o e)[i] = n[i]
  BY <1>1, <1>2, <1>3
<1>5. \A j \in {1, 2, 3, 4, 5, 6} : (n \o e)[Len(n) + j] = e[j]
  <2> TAKE j \in {1, 2, 3, 4, 5, 6}
  <2>1. /\ Len(n) + j \in 1 .. Len(n) + Len(e) /\ ~(Len(n) + j <= Len(n))
        /\ (Len(n) + j) - Len(n) = j
    BY <1>1, <1>2
  <2>2. (n \o e)[Len(n) + j] = e[(Len(n) + j) - Len(n)]
    BY <2>1, <1>3
  <2>3. QED
    BY <2>1, <2>2
<1>6. QED
  BY <1>1, <1>2, <1>3, <1>4, <1>5 DEF Response

(* get_nvt_line() stops at the end of the text s and nowhere before when   *)
(* s has CR LF only at its end.                                            *)
LEMMA LineEnds ==
    ASSUME NEW s \in Seq(Int), Len(s) >= 2,
           s[Len(s) - 1] = CR, s[Len(s)] = LF,
           \A i \in 1 .. Len(s) - 2 : ~(s[i] = CR /\ s[i + 1] = LF),
           NEW k \in 0 .. Len(s) - 1
    PROVE  IsLineEnd(Prefix(s, k), s[k + 1]) <=> k = Len(s) - 1
<1>1. /\ Len(s) \in Nat /\ k \in 0 .. Len(s)
  BY LenProperties
<1>2. /\ Prefix(s, k) \in Seq(Int) /\ Len(Prefix(s, k)) = k
      /\ \A i \in 1 .. k : Prefix(s, k)[i] = s[i]
  BY <1>1, PrefixFacts
<1>3. CASE k = 0
  <2>1. Prefix(s, k) = << >>
    BY <1>3, PrefixEmpty
  <2>2. QED
    BY <2>1, <1>1, <1>3 DEF IsLineEnd
<1>4. CASE k > 0
  <2>1. Last(Prefix(s, k)) = s[k] /\ Prefix(s, k) # << >>
    BY <1>1, <1>2, <1>4, EmptySeq DEF Last
  <2>2. CASE k = Len(s) - 1
    <3>1. k + 1 = Len(s)
      BY <2>2, <1>1
    <3>2. QED
      BY <3>1, <2>1, <2>2 DEF IsLineEnd
  <2>3. CASE k # Len(s) - 1
    <3>1. k \in 1 .. Len(s) - 2
      BY <2>3, <1>1, <1>4
    <3>2. QED
      BY <3>1, <2>1, <2>3 DEF IsLineEnd
  <2>4. QED
    BY <2>2, <2>3
<1>5. QED
  BY <1>1, <1>3, <1>4

LEMMA RequestLine ==
    ASSUME NEW n \in Names, NEW k \in 0 .. Len(n) + 1
    PROVE  /\ IsLineEnd(Prefix(Request(n), k), Request(n)[k + 1]) <=> k = Len(n) + 1
           /\ k = Len(n) + 1 => Front(Prefix(Request(n), k)) = n
<1>0. n \in Seq(Int) /\ IsOneLine(n)
  BY FileTransferAssumption
<1> PICK s : s = Request(n)
  OBVIOUS
<1>1. /\ s \in Seq(Int) /\ Len(s) = Len(n) + 2 /\ Len(n) \in Nat
      /\ \A i \in 1 .. Len(n) : s[i] = n[i]
      /\ s[Len(n) + 1] = CR /\ s[Len(n) + 2] = LF
  BY <1>0, RequestFacts
<1>2. Len(s) >= 2 /\ s[Len(s) - 1] = CR /\ s[Len(s)] = LF /\ Len(s) - 1 = Len(n) + 1
      /\ Len(s) - 2 = Len(n)
  BY <1>1
<1>3. ASSUME NEW i \in 1 .. Len(n) PROVE ~(s[i] = CR /\ s[i + 1] = LF)
  <2>1. CASE i = Len(n)
    BY <2>1, <1>1 DEF CR, LF
  <2>2. CASE i # Len(n)
    <3>1. i \in 1 .. Len(n) - 1 /\ i + 1 \in 1 .. Len(n)
      BY <2>2, <1>1
    <3>2. QED
      BY <3>1, <1>0, <1>1 DEF IsOneLine
  <2>3. QED
    BY <2>1, <2>2
<1>4. IsLineEnd(Prefix(s, k), s[k + 1]) <=> k = Len(n) + 1
  <2>1. /\ \A i \in 1 .. Len(s) - 2 : ~(s[i] = CR /\ s[i + 1] = LF)
        /\ k \in 0 .. Len(s) - 1
    BY <1>2, <1>3
  <2>2. IsLineEnd(Prefix(s, k), s[k + 1]) <=> k = Len(s) - 1
    BY <2>1, <1>1, <1>2, LineEnds
  <2>3. QED
    BY <2>2, <1>2
<1>5. k = Len(n) + 1 => Front(Prefix(s, k)) = n
  <2> HAVE k = Len(n) + 1
  <2>1. k \in 0 .. Len(s)
    BY <1>1
  <2> PICK p : p = Prefix(s, k)
    OBVIOUS
  <2>2. p \in Seq(Int) /\ Len(p) = k /\ \A i \in 1 .. k : p[i] = s[i]
    BY <2>1, <1>1, PrefixFacts
  <2>3. Len(n) \in 0 .. Len(p) /\ Len(p) - 1 = Len(n)
    BY <2>2, <1>1
  <2>4. Prefix(p, Len(n)) \in Seq(Int) /\ Len(Prefix(p, Len(n))) = Len(n)
        /\ \A i \in 1 .. Len(n) : Prefix(p, Len(n))[i] = p[i]
    BY <2>2, <2>3, PrefixFacts
  <2>5. ASSUME NEW i \in 1 .. Len(n) PROVE Prefix(p, Len(n))[i] = n[i]
    <3>1. i \in 1 .. k
      BY <1>1
    <3>2. QED
      BY <3>1, <2>2, <2>4, <1>1
  <2>6. Prefix(p, Len(n)) = n
    BY <2>4, <2>5, <1>0, SeqEqual
  <2>7. QED
    BY <2>3, <2>6 DEF Front, Prefix
<1>6. QED
  BY <1>4, <1>5

(* Likewise for the response, whose number is not a line feed. *)
LEMMA ResponseLine ==
    ASSUME NEW n \in Names, NEW m \in Int, m >= -1, NEW k \in 0 .. Len(n) + 5
    PROVE  /\ IsLineEnd(Prefix(Response(n, m), k), Response(n, m)[k + 1]) <=> k = Len(n) + 5
           /\ k = Len(n) + 5 => Front(Prefix(Response(n, m), k)) = Prefix(Response(n, m), Len(n) + 4)
<1>0. n \in Seq(Int) /\ IsOneLine(n)
  BY FileTransferAssumption
<1> PICK s : s = Response(n, m)
  OBVIOUS
<1>1. /\ s \in Seq(Int) /\ Len(s) = Len(n) + 6 /\ Len(n) \in Nat
      /\ \A i \in 1 .. Len(n) : s[i] = n[i]
      /\ s[Len(n) + 1] = COMMA /\ s[Len(n) + 2] = m
      /\ s[Len(n) + 3] = COMMA /\ s[Len(n) + 4] = TEXT
      /\ s[Len(n) + 5] = CR /\ s[Len(n) + 6] = LF
  BY <1>0, ResponseFacts
<1>2. Len(s) >= 2 /\ s[Len(s) - 1] = CR /\ s[Len(s)] = LF /\ Len(s) - 1 = Len(n) + 5
      /\ Len(s) - 2 = Len(n) + 4
  BY <1>1
<1>3. ASSUME NEW i \in 1 .. Len(n) + 4 PROVE ~(s[i] = CR /\ s[i + 1] = LF)
  <2>1. CASE i >= Len(n)
    <3> PICK c : c = Len(n)
      OBVIOUS
    <3>1. i = c \/ i = c + 1 \/ i = c + 2 \/ i = c + 3 \/ i = c + 4
      <4>1. c \in Nat /\ i \in Int /\ c <= i /\ i <= c + 4
        BY <2>1, <1>1
      <4>2. QED
        BY ONLY <4>1
    <3>2. /\ (c + 1) + 1 = c + 2 /\ (c + 2) + 1 = c + 3 /\ (c + 3) + 1 = c + 4
          /\ (c + 4) + 1 = c + 5
      BY <1>1
    <3>3. s[i + 1] = COMMA \/ s[i + 1] = m \/ s[i + 1] = TEXT \/ s[i + 1] = CR
      BY <3>1, <3>2, <1>1
    <3>4. QED
      BY <3>3 DEF COMMA, TEXT, CR, LF
  <2>2. CASE ~(i >= Len(n))
    <3>1. i \in 1 .. Len(n) - 1 /\ i + 1 \in 1 .. Len(n) /\ i \in 1 .. Len(n)
      BY <2>2, <1>1, SMTT(30)
    <3>2. s[i] = n[i] /\ s[i + 1] = n[i + 1]
      BY <3>1, <1>1
    <3>3. ~(n[i] = CR /\ n[i + 1] = LF)
      BY <3>1, <1>0 DEF IsOneLine
    <3>4. QED
      BY ONLY <3>2, <3>3
  <2>3. QED
    BY <2>1, <2>2
<1>4. IsLineEnd(Prefix(s, k), s[k + 1]) <=> k = Len(n) + 5
  <2>1. /\ \A i \in 1 .. Len(s) - 2 : ~(s[i] = CR /\ s[i + 1] = LF)
        /\ k \in 0 .. Len(s) - 1
    BY <1>2, <1>3
  <2>2. IsLineEnd(Prefix(s, k), s[k + 1]) <=> k = Len(s) - 1
    BY <2>1, <1>1, <1>2, LineEnds
  <2>3. QED
    BY <2>2, <1>2
<1>5. k = Len(n) + 5 => Front(Prefix(s, k)) = Prefix(s, Len(n) + 4)
  <2> HAVE k = Len(n) + 5
  <2>1. k \in 0 .. Len(s) /\ Len(n) + 4 \in 0 .. Len(s)
    BY <1>1
  <2> PICK p : p = Prefix(s, k)
    OBVIOUS
  <2>2. p \in Seq(Int) /\ Len(p) = k /\ \A i \in 1 .. k : p[i] = s[i]
    BY <2>1, <1>1, PrefixFacts
  <2> PICK j : j = Len(n) + 4
    OBVIOUS
  <2>3. j \in 0 .. Len(p) /\ Len(p) - 1 = j /\ j \in 0 .. Len(s) /\ k = j + 1 /\ j \in Nat
    <3> PICK c : c = Len(n)
      OBVIOUS
    <3>1. c \in Nat /\ j = c + 4 /\ k = c + 5 /\ Len(p) = k /\ Len(s) = c + 6
      BY <2>2, <1>1
    <3>2. QED
      BY <3>1
  <2>4. Prefix(p, j) \in Seq(Int) /\ Len(Prefix(p, j)) = j
        /\ \A i \in 1 .. j : Prefix(p, j)[i] = p[i]
    BY <2>2, <2>3, PrefixFacts
  <2>5. Prefix(s, j) \in Seq(Int) /\ Len(Prefix(s, j)) = j
        /\ \A i \in 1 .. j : Prefix(s, j)[i] = s[i]
    BY <2>3, <1>1, PrefixFacts
  <2>6. \A i \in 1 .. j : Prefix(p, j)[i] = Prefix(s, j)[i]
    BY <2>2, <2>3, <2>4, <2>5, SMTT(30)
  <2>7. Prefix(p, j) = Prefix(s, j)
    BY <2>4, <2>5, <2>6, SeqEqual
  <2>8. QED
    BY <2>3, <2>7 DEF Front, Prefix
<1>6. QED
  BY <1>4, <1>5

(* The number the client reads in a complete response is the one that was  *)
(* written, whatever commas there are in the name.                         *)
LEMMA Announced ==
    ASSUME NEW n \in Seq(Int), NEW m \in Int, m >= -1, NEW l,
           l = Prefix(Response(n, m), Len(n) + 4)
    PROVE  ~IsMalformed(l) /\ l[LengthComma(l) + 1] = m
<1> PICK s : s = Response(n, m)
  OBVIOUS
<1>1. /\ s \in Seq(Int) /\ Len(s) = Len(n) + 6 /\ Len(n) \in Nat
      /\ s[Len(n) + 1] = COMMA /\ s[Len(n) + 2] = m
      /\ s[Len(n) + 3] = COMMA /\ s[Len(n) + 4] = TEXT
  BY ResponseFacts
<1> PICK c : c = Len(n)
  OBVIOUS
<1>2. c + 4 \in 0 .. Len(s) /\ c \in Nat
  BY <1>1
<1>3. l \in Seq(Int) /\ Len(l) = c + 4 /\ \A i \in 1 .. c + 4 : l[i] = s[i]
  BY <1>1, <1>2, PrefixFacts
<1>3a. c + 1 \in 1 .. c + 4 /\ c + 2 \in 1 .. c + 4 /\ c + 3 \in 1 .. c + 4 /\ c + 4 \in 1 .. c + 4
  BY <1>2
<1>4. l[c + 1] = COMMA /\ l[c + 2] = m /\ l[c + 3] = COMMA /\ l[c + 4] = TEXT
  BY <1>1, <1>3, <1>3a
<1> DEFINE commas == {i \in 1 .. Len(l) : l[i] = COMMA}
<1>5. c + 1 \in commas /\ c + 3 \in commas /\ \A i \in commas : i \in 1 .. c + 4 /\ i # c + 2 /\ i # c + 4
  <2>1. m # COMMA /\ TEXT # COMMA
    BY DEF COMMA, TEXT
  <2>2. c + 1 \in 1 .. Len(l) /\ c + 3 \in 1 .. Len(l)
    BY <1>2, <1>3
  <2>3. QED
    BY <2>1, <2>2, <1>3, <1>4
<1>6. Cardinality(commas) >= 2 /\ Cardinality(commas) \in Nat
  <2>0. c + 4 \in Int /\ 1 \in Int
    BY <1>2
  <2>1. commas \in SUBSET (1 .. c + 4) /\ IsFiniteSet(1 .. c + 4)
    BY <2>0, <1>3, FS_Interval
  <2>2. IsFiniteSet(commas)
    BY <2>1, FS_Subset
  <2>3. IsFiniteSet({c + 1}) /\ Cardinality({c + 1}) = 1
    BY FS_Singleton
  <2>4. IsFiniteSet({c + 1} \cup {c + 3}) /\ Cardinality({c + 1} \cup {c + 3}) = 2
    <3>1. c + 3 \notin {c + 1}
      BY <1>2
    <3>2. Cardinality({c + 1} \cup {c + 3}) = Cardinality({c + 1}) + 1
      BY <3>1, <2>3, FS_AddElement
    <3>3. QED
      BY <3>2, <2>3, FS_AddElement
  <2>5. {c + 1} \cup {c + 3} \in SUBSET commas
    BY <1>5
  <2>6. Cardinality({c + 1} \cup {c + 3}) <= Cardinality(commas)
    BY <2>2, <2>5, FS_Subset
  <2>7. Cardinality(commas) \in Nat
    BY <2>2, FS_CardinalityType
  <2>8. QED
    BY <2>4, <2>6, <2>7
<1>7. ~IsMalformed(l)
  BY <1>6 DEF IsMalformed
<1> DEFINE earlier == {i \in commas : \E j \in commas : i < j}
<1> HIDE DEF commas
<1>8. c + 1 \in earlier /\ \A i \in earlier : i \in Int /\ i <= c + 1
  <2>1. c + 1 \in earlier
    BY <1>2, <1>5
  <2>2. ASSUME NEW i \in earlier PROVE i \in Int /\ i <= c + 1
    <3>1. PICK j \in commas : i < j
      BY <2>2
    <3>2. i \in commas
      BY <2>2
    <3>3. QED
      BY <3>1, <3>2, <1>2, <1>5
  <2>3. QED
    BY <2>1, <2>2
<1>9. Max(earlier) = c + 1
  <2> HIDE DEF earlier
  <2>1. \E x \in earlier : \A y \in earlier : x >= y
    BY <1>2, <1>8
  <2>2. Max(earlier) \in earlier /\ \A y \in earlier : Max(earlier) >= y
    BY <2>1 DEF Max
  <2>3. QED
    BY <2>2, <1>2, <1>8
<1>10. LengthComma(l) = c + 1
  BY <1>9 DEF LengthComma, commas
<1>11. (c + 1) + 1 = c + 2
  BY <1>2
<1>12. QED
  BY <1>4, <1>7, <1>10, <1>11

-----------------------------------------------------------------------------
(* The two streams in a step *)

LEMMA LenText ==
    ASSUME TypeInv
    PROVE  Len(up_text) \in Nat /\ Len(down_text) \in Nat
BY LenProperties DEF TypeInv

LEMMA UpSame ==
    ASSUME UpFlow, UNCHANGED up
    PROVE  UpFlow'
BY DEF UpFlow, up

LEMMA DownSame ==
    ASSUME DownFlow, UNCHANGED down, UNCHANGED server_vars
    PROVE  DownFlow'
BY DEF DownFlow, MayHaveEnded, down, server_vars

(* The server may have got to the end of its side in the meantime. *)
LEMMA DownKept ==
    ASSUME TypeInv, DownFlow, UNCHANGED down, MayHaveEnded => MayHaveEnded'
    PROVE  DownFlow'
<1>1. Len(down_text) \in Nat /\ Len(down_text') = Len(down_text)
  BY LenText DEF down
<1>2. Flow(Len(down_text), MayHaveEnded, down_delivered, down_ready, down_read, down_eof,
           down_abandoned)
  BY DEF DownFlow
<1>3. MayHaveEnded \in BOOLEAN /\ MayHaveEnded' \in BOOLEAN
  BY DEF MayHaveEnded
<1>4. CASE MayHaveEnded' = MayHaveEnded
  BY <1>1, <1>2, <1>4 DEF DownFlow, down
<1>5. CASE MayHaveEnded = FALSE /\ MayHaveEnded' = TRUE
  <2>1. Flow(Len(down_text), TRUE, down_delivered, down_ready, down_read, down_eof,
             down_abandoned)
    BY <1>1, <1>2, <1>5, FlowClose
  <2>2. QED
    BY <2>1, <1>1, <1>5 DEF DownFlow, down
<1>6. QED
  BY <1>3, <1>4, <1>5

LEMMA UpRead ==
    ASSUME TypeInv, UpFlow, NEW n, Up!Read(n), UNCHANGED up_text
    PROVE  /\ UpFlow' /\ UNCHANGED <<up_closed, up_abandoned>>
           /\ n \in Nat /\ up_read \in Nat /\ up_read' = up_read + n
           /\ up_read + n <= Len(up_text)
           /\ n = 0 => up_read = Len(up_text) /\ up_closed
<1> PICK w : w = Len(up_text)
  OBVIOUS
<1> PICK q : q = up_ready
  OBVIOUS
<1>1. w \in Nat /\ Flow(w, up_closed, up_delivered, q, up_read, up_eof, up_abandoned)
  BY LenText DEF UpFlow
<1>2. q \in Seq(Node) /\ up_closed \in BOOLEAN /\ up_read \in Nat
  BY <1>1 DEF Flow
<1>3. q # << >> /\ ~up_eof /\ n \in 0 .. Head(q).len /\ ((n = 0) <=> (Head(q).len = 0))
  BY DEF Up!Read
<1>4. Head(q).len \in Nat
  <2>1. Head(q) \in Node
    BY <1>2, <1>3, HeadTailProperties
  <2>2. QED
    BY <2>1 DEF Node
<1>5. n \in Nat /\ n <= Head(q).len
  BY <1>3, <1>4
<1>6. /\ up_read + n <= w
      /\ n = 0 => up_read = w /\ up_closed
      /\ Flow(w, up_closed, up_delivered,
              IF Head(q).len > n
              THEN <<[from |-> Head(q).from + n, len |-> Head(q).len - n]>> \o Tail(q)
              ELSE Tail(q),
              up_read + n, n = 0, up_abandoned)
  BY <1>1, <1>2, <1>3, <1>5, FlowRead
<1>7. /\ up_read' = up_read + n /\ up_eof' = (n = 0) /\ up_closed' = up_closed
      /\ up_abandoned' = up_abandoned /\ up_delivered' = up_delivered
      /\ up_ready' = IF Head(q).len > n
                     THEN <<[from |-> Head(q).from + n, len |-> Head(q).len - n]>> \o Tail(q)
                     ELSE Tail(q)
  BY DEF Up!Read, Up!After
<1>8. Len(up_text') = w
  OBVIOUS
<1>9. UpFlow'
  BY <1>6, <1>7, <1>8 DEF UpFlow
<1>10. QED
  BY <1>2, <1>5, <1>6, <1>7, <1>9

LEMMA DownRead ==
    ASSUME TypeInv, DownFlow, NEW n, Down!Read(n), UNCHANGED down_text, UNCHANGED server_vars
    PROVE  /\ DownFlow' /\ UNCHANGED down_closed
           /\ n \in Nat /\ down_read \in Nat /\ down_read' = down_read + n
           /\ down_read + n <= Len(down_text)
           /\ n = 0 => down_read = Len(down_text) /\ MayHaveEnded
<1> PICK w : w = Len(down_text)
  OBVIOUS
<1> PICK q : q = down_ready
  OBVIOUS
<1>1. w \in Nat /\ Flow(w, MayHaveEnded, down_delivered, q, down_read, down_eof, down_abandoned)
  BY LenText DEF DownFlow
<1>2. q \in Seq(Node) /\ MayHaveEnded \in BOOLEAN /\ down_read \in Nat
  BY <1>1 DEF Flow, MayHaveEnded
<1>3. q # << >> /\ ~down_eof /\ n \in 0 .. Head(q).len /\ ((n = 0) <=> (Head(q).len = 0))
  BY DEF Down!Read
<1>4. Head(q).len \in Nat
  <2>1. Head(q) \in Node
    BY <1>2, <1>3, HeadTailProperties
  <2>2. QED
    BY <2>1 DEF Node
<1>5. n \in Nat /\ n <= Head(q).len
  BY <1>3, <1>4
<1>6. /\ down_read + n <= w
      /\ n = 0 => down_read = w /\ MayHaveEnded
      /\ Flow(w, MayHaveEnded, down_delivered,
              IF Head(q).len > n
              THEN <<[from |-> Head(q).from + n, len |-> Head(q).len - n]>> \o Tail(q)
              ELSE Tail(q),
              down_read + n, n = 0, down_abandoned)
  BY <1>1, <1>2, <1>3, <1>5, FlowRead
<1>7. /\ down_read' = down_read + n /\ down_eof' = (n = 0) /\ down_closed' = down_closed
      /\ down_abandoned' = down_abandoned /\ down_delivered' = down_delivered
      /\ down_ready' = IF Head(q).len > n
                     THEN <<[from |-> Head(q).from + n, len |-> Head(q).len - n]>> \o Tail(q)
                     ELSE Tail(q)
  BY DEF Down!Read, Down!After
<1>8. Len(down_text') = w /\ MayHaveEnded' = MayHaveEnded
  BY DEF MayHaveEnded, server_vars
<1>9. DownFlow'
  BY <1>6, <1>7, <1>8 DEF DownFlow
<1>10. QED
  BY <1>2, <1>5, <1>6, <1>7, <1>9

(* Writing more *)
LEMMA DownWrite ==
    ASSUME TypeInv, DownFlow, NEW n \in Nat, NEW t \in Seq(Int),
           Down!Write(n), down_text' = down_text \o t,
           ~MayHaveEnded, ~MayHaveEnded'
    PROVE  /\ DownFlow' /\ down_text' \in Seq(Int)
           /\ UNCHANGED <<down_closed, down_read>>
<1>1. down_text \in Seq(Int)
  BY DEF TypeInv
<1>2. down_text' \in Seq(Int) /\ Len(down_text') = Len(down_text) + Len(t)
  BY <1>1, ConcatProperties
<1>3. Len(down_text) \in Nat /\ Len(t) \in Nat
  BY <1>1, LenProperties
<1> PICK w : w = Len(down_text)
  OBVIOUS
<1> PICK w2 : w2 = Len(down_text')
  OBVIOUS
<1>4. w \in Nat /\ w2 \in Nat /\ w <= w2
  BY <1>2, <1>3
<1>5. /\ ~down_closed /\ down_closed' = down_closed /\ down_delivered' = down_delivered
      /\ down_ready' = down_ready /\ down_read' = down_read /\ down_eof' = down_eof
      /\ down_abandoned' = down_abandoned
  BY DEF Down!Write
<1>6. Flow(w, MayHaveEnded, down_delivered, down_ready, down_read, down_eof, down_abandoned)
  BY DEF DownFlow
<1>7. MayHaveEnded = FALSE /\ MayHaveEnded' = FALSE
  BY DEF MayHaveEnded
<1>8. Flow(w2, FALSE, down_delivered, down_ready, down_read, down_eof, down_abandoned)
  BY <1>4, <1>6, <1>7, FlowWrite
<1>9. DownFlow'
  BY <1>5, <1>7, <1>8 DEF DownFlow
<1>10. QED
  BY <1>2, <1>5, <1>9

LEMMA UpWrite ==
    ASSUME TypeInv, UpFlow, NEW n \in Nat, NEW t \in Seq(Int),
           Up!Write(n), up_text' = up_text \o t
    PROVE  /\ UpFlow' /\ up_text' \in Seq(Int)
           /\ UNCHANGED <<up_closed, up_abandoned, up_read>> /\ ~up_closed
<1>1. up_text \in Seq(Int)
  BY DEF TypeInv
<1>2. up_text' \in Seq(Int) /\ Len(up_text') = Len(up_text) + Len(t)
  BY <1>1, ConcatProperties
<1>3. Len(up_text) \in Nat /\ Len(t) \in Nat
  BY <1>1, LenProperties
<1> PICK w : w = Len(up_text)
  OBVIOUS
<1> PICK w2 : w2 = Len(up_text')
  OBVIOUS
<1>4. w \in Nat /\ w2 \in Nat /\ w <= w2
  BY <1>2, <1>3
<1>5. /\ ~up_closed /\ up_closed' = up_closed /\ up_delivered' = up_delivered
      /\ up_ready' = up_ready /\ up_read' = up_read /\ up_eof' = up_eof
      /\ up_abandoned' = up_abandoned
  BY DEF Up!Write
<1>6. Flow(w, up_closed, up_delivered, up_ready, up_read, up_eof, up_abandoned)
  BY DEF UpFlow
<1>7. up_closed = FALSE
  BY <1>5, <1>6 DEF Flow
<1>8. Flow(w2, FALSE, up_delivered, up_ready, up_read, up_eof, up_abandoned)
  BY <1>4, <1>6, <1>7, FlowWrite
<1>9. UpFlow'
  BY <1>5, <1>7, <1>8 DEF UpFlow
<1>10. QED
  BY <1>2, <1>5, <1>9

LEMMA UpEnds ==
    ASSUME TypeInv, UpFlow, UNCHANGED up_text, Up!Close \/ Up!Abandon
    PROVE  UpFlow' /\ up_read' = up_read
<1>1. Flow(Len(up_text), up_closed, up_delivered, up_ready, up_read, up_eof, up_abandoned)
      /\ Len(up_text) \in Nat /\ Len(up_text') = Len(up_text)
  BY LenText DEF UpFlow
<1>2. CASE Up!Close
  <2>1. up_closed = FALSE
    BY <1>1, <1>2 DEF Up!Close, Flow
  <2>2. Flow(Len(up_text), TRUE, up_delivered, up_ready, up_read, up_eof, up_abandoned)
    BY <2>1, <1>1, FlowClose
  <2>3. QED
    BY <2>2, <1>1, <1>2 DEF UpFlow, Up!Close
<1>3. CASE Up!Abandon
  <2>2. Flow(Len(up_text), up_closed, up_delivered, << >>, up_read, up_eof, TRUE)
    BY <1>1, FlowAbandon
  <2>3. QED
    BY <2>2, <1>1, <1>3 DEF UpFlow, Up!Abandon
<1>4. QED
  BY <1>2, <1>3

LEMMA DownEnds ==
    ASSUME TypeInv, DownFlow, UNCHANGED down_text, Down!Close \/ Down!Abandon,
           MayHaveEnded' = MayHaveEnded
    PROVE  DownFlow' /\ down_read' = down_read
<1>1. Flow(Len(down_text), MayHaveEnded, down_delivered, down_ready, down_read, down_eof, down_abandoned)
      /\ Len(down_text) \in Nat /\ Len(down_text') = Len(down_text)
  BY LenText DEF DownFlow
<1>2. CASE Down!Close
  BY <1>1, <1>2 DEF DownFlow, Down!Close
<1>3. CASE Down!Abandon
  <2>2. Flow(Len(down_text), MayHaveEnded, down_delivered, << >>, down_read, down_eof, TRUE)
    BY <1>1, FlowAbandon
  <2>3. QED
    BY <2>2, <1>1, <1>3 DEF DownFlow, Down!Abandon
<1>4. QED
  BY <1>2, <1>3

(* A step in which only the transport moves *)
LEMMA Frame ==
    ASSUME TypeInv, CloseInv, FileInv, ClientInv, GoneInv, FilesIntact,
           UNCHANGED <<up_text, up_closed, up_read, down_text, down_closed, down_read,
                       client_vars, server_vars>>
    PROVE  (TypeInv /\ CloseInv /\ FileInv /\ ClientInv /\ GoneInv /\ FilesIntact)'
<1>1. (TypeInv /\ CloseInv /\ FileInv /\ GoneInv /\ FilesIntact)'
  BY DEF TypeInv, CloseInv, Closing, MayHaveEnded, FileInv, GoneInv, Gone, FilesIntact,
         client_vars, server_vars
<1>2. ClientInv'
  BY DEF ClientInv, PromptInv, LineInv, BodyInv, OverInv, Quiet, Idle, Gone, HasSent,
         Asking, Asked, Answered, Answer, Refused, Granted, Unanswered, Stored, Got,
         Closing, client_vars, server_vars
<1>3. QED
  BY <1>1, <1>2

LEMMA TransportStep ==
    ASSUME TransferInv, Transport
    PROVE  TransferInv'
<1>0. /\ TypeInv /\ CloseInv /\ FileInv /\ ClientInv /\ GoneInv /\ FilesIntact
      /\ UpFlow /\ DownFlow
  BY DEF TransferInv
<1>1. UNCHANGED <<up_text, up_closed, up_read, down_text, down_closed, down_read,
                  client_vars, server_vars>>
  BY DEF Transport, Up!Deliver, Up!DeliverEof, Down!Deliver, Down!DeliverEof, up, down
<1>2. UpFlow'
  <2>1. CASE UNCHANGED up
    BY <2>1, <1>0, UpSame
  <2>2. CASE UNCHANGED up_text /\ \E n \in 1 .. MaxChunk : Up!Deliver(n)
    <3>1. PICK n \in 1 .. MaxChunk : Up!Deliver(n)
      BY <2>2
    <3>2. /\ ~up_abandoned /\ n \in 1 .. Len(up_text) - up_delivered
          /\ up_ready' = Append(up_ready, [from |-> up_delivered + 1, len |-> n])
          /\ up_delivered' = up_delivered + n
          /\ UNCHANGED <<up_closed, up_read, up_eof, up_abandoned>>
      BY <3>1 DEF Up!Deliver
    <3>3. /\ Flow(Len(up_text), up_closed, up_delivered, up_ready, up_read, up_eof, up_abandoned)
          /\ Len(up_text) \in Nat /\ Len(up_text') = Len(up_text)
      BY <1>0, <1>1, LenText DEF UpFlow
    <3>4. up_abandoned = FALSE
      BY <3>2, <3>3 DEF Flow
    <3>5. Flow(Len(up_text), up_closed, up_delivered + n,
               Append(up_ready, [from |-> up_delivered + 1, len |-> n]), up_read, up_eof, FALSE)
      BY <3>2, <3>3, <3>4, FlowDeliver
    <3>6. QED
      BY <3>2, <3>3, <3>4, <3>5 DEF UpFlow
  <2>3. CASE UNCHANGED up_text /\ NoEof(up_ready) /\ Up!DeliverEof
    <3>2. /\ ~up_abandoned /\ up_closed /\ up_delivered = Len(up_text)
          /\ up_ready' = Append(up_ready, [from |-> 0, len |-> 0])
          /\ UNCHANGED <<up_closed, up_read, up_eof, up_abandoned, up_delivered>>
      BY <2>3 DEF Up!DeliverEof, Up!Eof
    <3>3. /\ Flow(Len(up_text), up_closed, up_delivered, up_ready, up_read, up_eof, up_abandoned)
          /\ Len(up_text) \in Nat /\ Len(up_text') = Len(up_text)
      BY <1>0, <1>1, LenText DEF UpFlow
    <3>4. up_abandoned = FALSE /\ up_closed = TRUE
      BY <3>2, <3>3 DEF Flow
    <3>5. Flow(Len(up_text), TRUE, Len(up_text),
               Append(up_ready, [from |-> 0, len |-> 0]), up_read, up_eof, FALSE)
      BY <2>3, <3>2, <3>3, <3>4, FlowDeliverEof
    <3>6. QED
      BY <3>2, <3>3, <3>4, <3>5 DEF UpFlow
  <2>4. QED
    BY <2>1, <2>2, <2>3 DEF Transport
<1>3. DownFlow'
  <2>0. MayHaveEnded' = MayHaveEnded
    BY <1>1 DEF MayHaveEnded, server_vars
  <2>1. CASE UNCHANGED down
    BY <2>1, <1>0, <1>1, DownSame
  <2>2. CASE UNCHANGED down_text /\ \E n \in 1 .. MaxChunk : Down!Deliver(n)
    <3>1. PICK n \in 1 .. MaxChunk : Down!Deliver(n)
      BY <2>2
    <3>2. /\ ~down_abandoned /\ n \in 1 .. Len(down_text) - down_delivered
          /\ down_ready' = Append(down_ready, [from |-> down_delivered + 1, len |-> n])
          /\ down_delivered' = down_delivered + n
          /\ UNCHANGED <<down_closed, down_read, down_eof, down_abandoned>>
      BY <3>1 DEF Down!Deliver
    <3>3. /\ Flow(Len(down_text), MayHaveEnded, down_delivered, down_ready, down_read, down_eof, down_abandoned)
          /\ Len(down_text) \in Nat /\ Len(down_text') = Len(down_text)
      BY <1>0, <1>1, LenText DEF DownFlow
    <3>4. down_abandoned = FALSE
      BY <3>2, <3>3 DEF Flow
    <3>5. Flow(Len(down_text), MayHaveEnded, down_delivered + n,
               Append(down_ready, [from |-> down_delivered + 1, len |-> n]), down_read, down_eof, FALSE)
      BY <3>2, <3>3, <3>4, FlowDeliver
    <3>6. QED
      BY <3>2, <3>3, <3>4, <3>5, <2>0 DEF DownFlow
  <2>3. CASE /\ UNCHANGED down_text /\ NoEof(down_ready) /\ Down!DeliverEof
             /\ server \in {"last_ack", "closed"}
    <3>2. /\ ~down_abandoned /\ down_delivered = Len(down_text)
          /\ down_ready' = Append(down_ready, [from |-> 0, len |-> 0])
          /\ UNCHANGED <<down_closed, down_read, down_eof, down_abandoned, down_delivered>>
      BY <2>3 DEF Down!DeliverEof, Down!Eof
    <3>3. /\ Flow(Len(down_text), MayHaveEnded, down_delivered, down_ready, down_read, down_eof, down_abandoned)
          /\ Len(down_text) \in Nat /\ Len(down_text') = Len(down_text)
      BY <1>0, <1>1, LenText DEF DownFlow
    <3>4. down_abandoned = FALSE /\ MayHaveEnded = TRUE
      BY <2>3, <3>2, <3>3 DEF Flow, MayHaveEnded
    <3>5. Flow(Len(down_text), TRUE, Len(down_text),
               Append(down_ready, [from |-> 0, len |-> 0]), down_read, down_eof, FALSE)
      BY <2>3, <3>2, <3>3, <3>4, FlowDeliverEof
    <3>6. QED
      BY <3>2, <3>3, <3>4, <3>5, <2>0 DEF DownFlow
  <2>4. QED
    BY <2>1, <2>2, <2>3 DEF Transport
<1>4. QED
  BY <1>0, <1>1, <1>2, <1>3, Frame DEF TransferInv

-----------------------------------------------------------------------------
(* The client's steps *)

LEMMA AskStep ==
    ASSUME TransferInv, Ask
    PROVE  TransferInv'
<1>0. /\ TypeInv /\ CloseInv /\ FileInv /\ ClientInv /\ GoneInv /\ FilesIntact
      /\ UpFlow /\ DownFlow
  BY DEF TransferInv
<1>1. PICK n : n = Head(asked)
  OBVIOUS
<1>2. n \in Names /\ n \in Seq(Int) /\ Tail(asked) \in Seq(Names) /\ asked # << >>
  <2>1. asked \in Seq(Names) /\ asked # << >>
    BY <1>0 DEF TypeInv, Ask
  <2>2. n \in Names /\ Tail(asked) \in Seq(Names)
    BY <2>1, <1>1, HeadTailProperties
  <2>3. QED
    BY <2>1, <2>2, FileTransferAssumption
<1>3. /\ client = "prompt" /\ client' = "line" /\ name' = n /\ line' = << >>
      /\ asked' = Tail(asked) /\ (filename \/ ~IsSkipped(n))
      /\ UNCHANGED <<down, filename, length, rcvd, write_error, results, server_vars>>
      /\ Up!Write(Len(n) + 2) /\ up_text' = (up_text \o n) \o <<CR, LF>>
  BY <1>1 DEF Ask
<1>4. Request(n) \in Seq(Int) /\ Len(n) \in Nat
  BY <1>2, RequestFacts
<1>5. up_text \in Seq(Int) /\ Len(up_text) \in Nat
  BY <1>0, LenText DEF TypeInv
<1>6. up_text' = up_text \o Request(n)
  <2>1. PICK e : e = <<CR, LF>>
    OBVIOUS
  <2>2. e \in Seq(Int)
    BY <2>1 DEF CR, LF
  <2>3. (up_text \o n) \o e = up_text \o (n \o e)
    BY <2>2, <1>2, <1>5, ConcatThree
  <2>4. QED
    BY <2>1, <2>3, <1>3 DEF Request
<1>7. UpFlow' /\ up_text' \in Seq(Int) /\ UNCHANGED <<up_closed, up_abandoned, up_read>>
  <2>1. Len(n) + 2 \in Nat
    BY <1>4
  <2>2. QED
    BY <2>1, <1>0, <1>3, <1>4, <1>6, UpWrite
<1>8. DownFlow'
  BY <1>0, <1>3, DownSame
<1>9. TypeInv'
  BY <1>0, <1>2, <1>3, <1>7, EmptySeq DEF TypeInv, down, server_vars
<1>10. CloseInv' /\ FileInv' /\ FilesIntact'
  BY <1>0, <1>3, <1>7 DEF CloseInv, Closing, MayHaveEnded, Gone, FileInv, FilesIntact,
                          down, server_vars
<1>11. PromptInv
  BY <1>0, <1>3 DEF ClientInv
<1>12. GoneInv'
  <2>1. Gone => read_error
    BY <1>11 DEF PromptInv, Idle, Gone
  <2>2. QED
    BY <2>1, <1>3 DEF GoneInv, Gone, server_vars
<1>13. n # << >> \/ filename
  <2>1. CASE filename
    BY <2>1
  <2>2. CASE ~filename
    <3>1. ~(Len(n) <= 1)
      BY <2>2, <1>3 DEF IsSkipped
    <3>2. Len(<< >>) = 0
      BY EmptySeq
    <3>3. QED
      BY <3>1, <3>2
  <2>3. QED
    BY <2>1, <2>2
<1>14. (Asking \/ Unanswered)'
  <2>1. down_read' = Len(down_text')
    BY <1>3, <1>11 DEF PromptInv, Quiet, down
  <2>2. CASE Idle(<< >>)
    <3>1. EndsWith(up_text, Len(up_text), << >>)
      BY <1>5, EndsEmpty
    <3>2. << >> \in Seq(Int) /\ << >> \o Request(n) = Request(n)
      BY <1>4, EmptySeq, ConcatEmptySeq
    <3>3. EndsWith(up_text \o Request(n), Len(up_text), << >> \o Request(n))
      BY <3>1, <3>2, <1>4, <1>5, EndsAppend
    <3>4. up_read' = Len(up_text) /\ up_read' - 0 = Len(up_text)
      BY <1>5, <1>7, <1>11 DEF PromptInv, Quiet
    <3>5. EndsWith(up_text', up_read' - 0, Request(n))
      BY <3>2, <3>3, <3>4, <1>6
    <3>6. Prefix(Request(n), 0) = << >>
      BY PrefixEmpty
    <3>7. Idle(<< >>)'
      BY <2>2, <1>3 DEF Idle, server_vars
    <3>8. Asked(0)'
      BY <3>5, <3>6, <3>7, <1>3 DEF Asked, Idle
    <3>9. 0 \in 0 .. Len(name') + 1
      BY <1>3, <1>4
    <3>10. QED
      BY <3>8, <3>9, <2>1, <1>3 DEF Asking
  <2>3. CASE Gone /\ read_error
    BY <2>1, <2>3, <1>3 DEF Unanswered, Gone, server_vars
  <2>4. QED
    BY <2>2, <2>3, <1>11 DEF PromptInv
<1>15. ClientInv'
  BY <1>2, <1>3, <1>13, <1>14 DEF ClientInv, LineInv, Closing
<1>16. QED
  BY <1>7, <1>8, <1>9, <1>10, <1>12, <1>15 DEF TransferInv

LEMMA SkipStep ==
    ASSUME TransferInv, Skip
    PROVE  TransferInv'
<1>0. /\ TypeInv /\ CloseInv /\ FileInv /\ ClientInv /\ GoneInv /\ FilesIntact
      /\ UpFlow /\ DownFlow
  BY DEF TransferInv
<1>1. /\ client = "prompt" /\ asked # << >> /\ asked' = Tail(asked)
      /\ UNCHANGED <<up, down, filename, client, name, line, length, rcvd, write_error,
                     results, server_vars>>
  BY DEF Skip
<1>2. Tail(asked) \in Seq(Names)
  BY <1>0, <1>1, HeadTailProperties DEF TypeInv
<1>3. UpFlow' /\ DownFlow'
  BY <1>0, <1>1, UpSame, DownSame
<1>4. (TypeInv /\ CloseInv /\ FileInv /\ GoneInv /\ FilesIntact)'
  BY <1>0, <1>1, <1>2
  DEF TypeInv, CloseInv, Closing, MayHaveEnded, FileInv, GoneInv, Gone, FilesIntact, up, down, server_vars
<1>5. ClientInv'
  BY <1>0, <1>1 DEF ClientInv, Closing, PromptInv, Quiet, Idle, Gone, up, down, server_vars
<1>6. QED
  BY <1>3, <1>4, <1>5 DEF TransferInv

LEMMA FinishStep ==
    ASSUME TransferInv, Finish
    PROVE  TransferInv'
<1>0. /\ TypeInv /\ CloseInv /\ FileInv /\ ClientInv /\ GoneInv /\ FilesIntact
      /\ UpFlow /\ DownFlow
  BY DEF TransferInv
<1>1. /\ client \in {"prompt", "failed"} /\ client' = "closing"
      /\ UNCHANGED up_text /\ Up!Close
      /\ UNCHANGED <<down, filename, asked, name, line, length, rcvd, write_error, results,
                     server_vars>>
  BY DEF Finish
<1>2. UpFlow' /\ DownFlow' /\ up_read' = up_read
  BY <1>0, <1>1, UpEnds, DownSame
<1>3. up_closed' = TRUE
  BY <1>1 DEF Up!Close
<1>4. (TypeInv /\ CloseInv /\ FileInv /\ GoneInv /\ FilesIntact)'
  BY <1>0, <1>1, <1>3
  DEF TypeInv, CloseInv, Closing, MayHaveEnded, FileInv, GoneInv, Gone, FilesIntact, down,
      server_vars
<1>5. OverInv
  BY <1>0, <1>1 DEF ClientInv, PromptInv, OverInv, Quiet, Idle
<1>6. OverInv'
  BY <1>1, <1>2, <1>5 DEF OverInv, Gone, server_vars
<1>7. ClientInv'
  BY <1>1, <1>6 DEF ClientInv
<1>8. QED
  BY <1>2, <1>4, <1>7 DEF TransferInv

LEMMA ClientLeavesStep ==
    ASSUME TransferInv, ClientClosed \/ ClientAborted
    PROVE  TransferInv'
<1>0. /\ TypeInv /\ CloseInv /\ FileInv /\ ClientInv /\ GoneInv /\ FilesIntact
      /\ UpFlow /\ DownFlow
  BY DEF TransferInv
<1>1. /\ client = "closing" /\ client' \in {"closed", "aborted"}
      /\ UNCHANGED down_text /\ Down!Abandon
      /\ UNCHANGED <<up, filename, asked, name, line, length, rcvd, write_error, results,
                     server_vars>>
  BY DEF ClientClosed, ClientAborted
<1>2. UpFlow' /\ DownFlow'
  <2>1. MayHaveEnded' = MayHaveEnded
    BY <1>1 DEF MayHaveEnded, server_vars
  <2>2. QED
    BY <2>1, <1>0, <1>1, UpSame, DownEnds
<1>3. down_closed' = down_closed
  BY <1>1 DEF Down!Abandon
<1>4. (TypeInv /\ CloseInv /\ FileInv /\ GoneInv /\ FilesIntact)'
  BY <1>0, <1>1, <1>3
  DEF TypeInv, CloseInv, Closing, MayHaveEnded, FileInv, GoneInv, Gone, FilesIntact, up,
      server_vars
<1>5. ClientInv'
  BY <1>0, <1>1 DEF ClientInv, Closing, OverInv, Gone, up, server_vars
<1>6. QED
  BY <1>2, <1>4, <1>5 DEF TransferInv

(* The client appends a token of the response to its line. *)
LEMMA AnswerNext ==
    ASSUME TypeInv, name \in Names, NEW k \in 0 .. Len(name) + 5, NEW m \in Int, m >= -1,
           NEW t \in Seq(Int), Answer(k, m, t), down_read \in Nat
    PROVE  /\ down_text[down_read + 1] = Response(name, m)[k + 1]
           /\ Append(line, down_text[down_read + 1]) = Prefix(Response(name, m), k + 1)
           /\ down_read + 1 <= Len(down_text)
           /\ IsLineEnd(line, down_text[down_read + 1]) <=> k = Len(name) + 5
           /\ k = Len(name) + 5 => /\ Front(line) = Prefix(Response(name, m), Len(name) + 4)
                                   /\ EndsWith(down_text, down_read + 1, t)
<1>0. down_text \in Seq(Int) /\ name \in Seq(Int)
  BY DEF TypeInv
<1> PICK s : s = Response(name, m)
  OBVIOUS
<1>1. s \in Seq(Int) /\ Len(s) = Len(name) + 6 /\ Len(name) \in Nat
  BY <1>0, ResponseFacts
<1>2. line = Prefix(s, k) /\ EndsWith(down_text, down_read - k, s \o t)
  BY DEF Answer
<1>3. /\ Len(s \o t) = Len(s) + Len(t) /\ Len(t) \in Nat
      /\ \A i \in 1 .. Len(s) + Len(t) : (s \o t)[i] = IF i <= Len(s) THEN s[i] ELSE t[i - Len(s)]
  BY <1>1, ConcatProperties, LenProperties
<1> PICK a : a = down_read - k
  OBVIOUS
<1>4. /\ a \in Nat /\ Len(down_text) = a + (Len(s) + Len(t)) /\ k \in Nat /\ down_read = a + k
      /\ \A i \in 1 .. Len(s) + Len(t) : down_text[a + i] = (s \o t)[i]
  BY <1>2, <1>3 DEF EndsWith
<1>5. k + 1 \in 1 .. Len(s) + Len(t) /\ k + 1 <= Len(s) /\ down_read + 1 = a + (k + 1)
      /\ k \in 0 .. Len(s) - 1
  BY <1>1, <1>3, <1>4
<1>6. down_text[down_read + 1] = s[k + 1]
  BY <1>3, <1>4, <1>5
<1>7. down_read + 1 <= Len(down_text)
  BY <1>1, <1>3, <1>4
<1>8. Append(Prefix(s, k), s[k + 1]) = Prefix(s, k + 1)
  BY <1>1, <1>5, PrefixNext
<1>9. /\ IsLineEnd(Prefix(s, k), s[k + 1]) <=> k = Len(name) + 5
      /\ k = Len(name) + 5 => Front(Prefix(s, k)) = Prefix(s, Len(name) + 4)
  BY ResponseLine
<1>10. k = Len(name) + 5 => EndsWith(down_text, down_read + 1, t)
  <2> HAVE k = Len(name) + 5
  <2>1. EndsWith(down_text, a + Len(s), t)
    BY <1>0, <1>1, <1>2, EndsSkip
  <2>2. a + Len(s) = down_read + 1
    BY <1>1, <1>4
  <2>3. QED
    BY <2>1, <2>2
<1>11. QED
  BY <1>2, <1>6, <1>7, <1>8, <1>9, <1>10

LEMMA AppendIntact ==
    ASSUME results \in Seq(Result), FilesIntact, NEW x \in Result,
           x.status = "received" => x.name \in DOMAIN Content /\ x.data = Content[x.name],
           results' = Append(results, x)
    PROVE  FilesIntact' /\ results' \in Seq(Result)
<1>1. /\ results' \in Seq(Result) /\ Len(results') = Len(results) + 1
      /\ results'[Len(results) + 1] = x
      /\ \A i \in 1 .. Len(results) : results'[i] = results[i]
  BY AppendProperties
<1>2. Len(results) \in Nat
  BY LenProperties
<1>3. ASSUME NEW i \in 1 .. Len(results'), results'[i].status = "received"
      PROVE  results'[i].name \in DOMAIN Content /\ results'[i].data = Content[results'[i].name]
  <2>1. CASE i = Len(results) + 1
    BY <2>1, <1>1, <1>3
  <2>2. CASE i # Len(results) + 1
    <3>1. i \in 1 .. Len(results)
      BY <2>2, <1>1, <1>2
    <3>2. QED
      BY <3>1, <1>1, <1>3 DEF FilesIntact
  <2>3. QED
    BY <2>1, <2>2
<1>4. QED
  BY <1>1, <1>3 DEF FilesIntact

(* The parts of the invariant a step of the client leaves alone *)
LEMMA ClientFrame ==
    ASSUME CloseInv, FileInv, GoneInv, ~Closing, ~Closing',
           UNCHANGED <<up_closed, down_closed, filename, name, server_vars>>
    PROVE  (CloseInv /\ FileInv /\ GoneInv)'
BY DEF CloseInv, MayHaveEnded, FileInv, GoneInv, Gone, server_vars

LEMMA ClientLineStep ==
    ASSUME TransferInv, ClientLine
    PROVE  TransferInv'
<1>0. /\ TypeInv /\ CloseInv /\ FileInv /\ ClientInv /\ GoneInv /\ FilesIntact
      /\ UpFlow /\ DownFlow
  BY DEF TransferInv
<1>1. client = "line" /\ UNCHANGED <<up, down_text, filename, asked, name, server_vars>>
  BY DEF ClientLine
<1>2. LineInv
  BY <1>0, <1>1 DEF ClientInv
<1>3. UpFlow'
  BY <1>0, <1>1, UpSame
<1>4. Len(down_text) \in Nat /\ name \in Seq(Int) /\ down_text \in Seq(Int)
  BY <1>0, LenText DEF TypeInv
<1>5. CASE Down!Read(1) /\ ~IsLineEnd(line, down_text[down_read + 1])
  <2>1. /\ line' = Append(line, down_text[down_read + 1])
        /\ UNCHANGED <<client, length, rcvd, write_error, results>>
    <3>1. ~Down!Read(0)
      BY <1>5 DEF Down!Read
    <3>2. QED
      BY <1>5, <3>1 DEF ClientLine
  <2>2. /\ DownFlow' /\ UNCHANGED down_closed
        /\ down_read \in Nat /\ down_read' = down_read + 1 /\ down_read + 1 <= Len(down_text)
    BY <1>0, <1>1, <1>5, DownRead
  <2>3. Answered
    <3>1. down_read # Len(down_text)
      BY <2>2, <1>4
    <3>2. QED
      BY <3>1, <1>2 DEF LineInv, Asking, Unanswered
  <2>4. Answered' /\ line' \in Seq(Int)
    <3>1. CASE \E k \in 0 .. Len(name) + 5 : Refused(k)
      <4>1. PICK k \in 0 .. Len(name) + 5 : Refused(k)
        BY <3>1
      <4> PICK s : s = Response(name, -1)
        OBVIOUS
      <4>2. /\ -1 \in Int /\ -1 >= -1 /\ << >> \in Seq(Int) /\ name \in Names
            /\ Answer(k, -1, << >>)
        BY <4>1, <1>2 DEF Refused, LineInv
      <4>3. /\ line' = Prefix(s, k + 1)
            /\ ~(k = Len(name) + 5)
        BY <4>2, <2>1, <2>2, <1>0, <1>5, AnswerNext
      <4>4. k + 1 \in 0 .. Len(name) + 5 /\ down_read' - (k + 1) = down_read - k
        BY <4>3, <2>2, <1>4, LenProperties
      <4>5. s \in Seq(Int) /\ Len(s) = Len(name) + 6
        BY <1>4, <4>2, ResponseFacts
      <4>6. k + 1 \in 0 .. Len(s)
        BY <4>4, <4>5, <1>4, LenProperties
      <4>7. line' \in Seq(Int)
        BY <4>3, <4>5, <4>6, PrefixFacts
      <4>8. Refused(k + 1)'
        BY <4>1, <4>3, <4>4, <1>1 DEF Refused, Answer, server_vars
      <4>9. QED
        BY <4>4, <4>7, <4>8, <2>3, <1>1 DEF Answered, up
    <3>2. CASE /\ name \in DOMAIN Content
               /\ \E k \in 0 .. Len(name) + 5, p \in 0 .. Len(Content[name]) : Granted(k, p)
      <4>1. PICK k \in 0 .. Len(name) + 5, p \in 0 .. Len(Content[name]) : Granted(k, p)
        BY <3>2
      <4>1a. Content[name] \in Seq(Int) /\ name \in Names
        BY <3>2, <1>2, FileTransferAssumption DEF LineInv
      <4> PICK m : m = Len(Content[name])
        OBVIOUS
      <4> PICK s : s = Response(name, m)
        OBVIOUS
      <4> PICK t : t = Prefix(Content[name], p)
        OBVIOUS
      <4>1b. m \in Nat
        BY <4>1a, LenProperties
      <4>2. m \in Int /\ m >= -1 /\ t \in Seq(Int) /\ Answer(k, m, t)
        BY <4>1, <4>1a, <4>1b, PrefixFacts DEF Granted
      <4>3. /\ line' = Prefix(s, k + 1)
            /\ ~(k = Len(name) + 5)
        BY <4>1a, <4>2, <2>1, <2>2, <1>0, <1>5, AnswerNext
      <4>4. k + 1 \in 0 .. Len(name) + 5 /\ down_read' - (k + 1) = down_read - k
        BY <4>3, <2>2, <1>4, LenProperties
      <4>5. s \in Seq(Int) /\ Len(s) = Len(name) + 6
        BY <1>4, <4>2, ResponseFacts
      <4>6. k + 1 \in 0 .. Len(s)
        BY <4>4, <4>5, <1>4, LenProperties
      <4>7. line' \in Seq(Int)
        BY <4>3, <4>5, <4>6, PrefixFacts
      <4>8. Granted(k + 1, p)'
        BY <4>1, <4>3, <4>4, <1>1 DEF Granted, Answer, HasSent, Gone, server_vars
      <4>9. QED
        BY <4>4, <4>7, <4>8, <3>2, <2>3, <1>1 DEF Answered, up
    <3>3. QED
      BY <3>1, <3>2, <2>3 DEF Answered
  <2>5. TypeInv'
    BY <2>1, <2>4, <1>0, <1>1 DEF TypeInv, up, server_vars
  <2>6. (CloseInv /\ FileInv /\ GoneInv)'
    BY <2>1, <2>2, <1>0, <1>1, ClientFrame DEF up, Closing
  <2>7. FilesIntact'
    BY <2>1, <1>0 DEF FilesIntact
  <2>8. ClientInv'
    BY <2>1, <2>4, <1>1, <1>2 DEF ClientInv, LineInv, Closing
  <2>9. QED
    BY <2>2, <2>5, <2>6, <2>7, <2>8, <1>3 DEF TransferInv
<1>6. CASE Down!Read(1) /\ IsLineEnd(line, down_text[down_read + 1])
  <2>1. TakeResponse(Front(line)) /\ line' = << >>
    <3>1. ~Down!Read(0)
      BY <1>6 DEF Down!Read
    <3>2. QED
      BY <1>6, <3>1 DEF ClientLine
  <2>2. /\ DownFlow' /\ UNCHANGED down_closed
        /\ down_read \in Nat /\ down_read' = down_read + 1 /\ down_read + 1 <= Len(down_text)
    BY <1>0, <1>1, <1>6, DownRead
  <2>3. Answered
    <3>1. down_read # Len(down_text)
      BY <2>2, <1>4
    <3>2. QED
      BY <3>1, <1>2 DEF LineInv, Asking, Unanswered
  <2>4. CASE \E k \in 0 .. Len(name) + 5 : Refused(k)
    <3>1. PICK k \in 0 .. Len(name) + 5 : Refused(k)
      BY <2>4
    <3>2. /\ -1 \in Int /\ -1 >= -1 /\ << >> \in Seq(Int) /\ name \in Names
          /\ Answer(k, -1, << >>)
      BY <3>1, <1>2 DEF Refused, LineInv
    <3>3. /\ Front(line) = Prefix(Response(name, -1), Len(name) + 4)
          /\ EndsWith(down_text, down_read + 1, << >>)
      BY <3>2, <2>2, <1>0, <1>6, AnswerNext
    <3>4. PICK l : l = Front(line)
      OBVIOUS
    <3>5. ~IsMalformed(l) /\ l[LengthComma(l) + 1] = -1
      BY <3>2, <3>3, <3>4, <1>4, Announced
    <3>6. /\ client' = (IF filename THEN "failed" ELSE "prompt")
          /\ results' = Append(results, [name |-> name, data |-> << >>, status |-> "refused"])
          /\ UNCHANGED <<length, rcvd, write_error>>
      BY <2>1, <3>4, <3>5 DEF TakeResponse
    <3>7. FilesIntact' /\ results' \in Seq(Result)
      <4>1. PICK x : x = [name |-> name, data |-> << >>, status |-> "refused"]
        OBVIOUS
      <4>2. x \in Result /\ x.status # "received"
        BY <4>1, <3>2 DEF Result
      <4>3. results \in Seq(Result)
        BY <1>0 DEF TypeInv
      <4>4. QED
        BY <4>1, <4>2, <4>3, <3>6, <1>0, AppendIntact
    <3>8. TypeInv'
      BY <3>6, <3>7, <2>1, <1>0, <1>1, EmptySeq DEF TypeInv, up, server_vars
    <3>9. (CloseInv /\ FileInv /\ GoneInv)'
      BY <3>6, <2>2, <1>0, <1>1, ClientFrame DEF up, Closing
    <3>10. Idle(<< >>)'
      BY <3>1, <1>1 DEF Refused, Idle, server_vars
    <3>11. Quiet'
      <4>1. Len(down_text) = down_read + 1 + Len(<< >>) /\ Len(<< >>) = 0
        BY <3>3, EmptySeq DEF EndsWith
      <4>2. Len(down_text) = down_read + 1
        BY <4>1, <2>2
      <4>3. QED
        BY <4>2, <2>2, <2>3, <1>1 DEF Quiet, Answered, up
    <3>12. ClientInv'
      BY <3>6, <3>10, <3>11 DEF ClientInv, Closing, PromptInv, OverInv, Quiet, Idle
    <3>13. QED
      BY <3>7, <3>8, <3>9, <3>12, <2>2, <1>3 DEF TransferInv
  <2>5. CASE /\ name \in DOMAIN Content
             /\ \E k \in 0 .. Len(name) + 5, p \in 0 .. Len(Content[name]) : Granted(k, p)
    <3>1. PICK k \in 0 .. Len(name) + 5, p \in 0 .. Len(Content[name]) : Granted(k, p)
      BY <2>5
    <3>1a. Content[name] \in Seq(Int) /\ name \in Names
      BY <2>5, <1>2, FileTransferAssumption DEF LineInv
    <3> PICK m : m = Len(Content[name])
      OBVIOUS
    <3> PICK t : t = Prefix(Content[name], p)
      OBVIOUS
    <3>1b. m \in Nat /\ p \in 0 .. m
      BY <3>1a, LenProperties
    <3>1c. t \in Seq(Int)
      BY <3>1a, <3>1b, PrefixFacts
    <3>2. m \in Int /\ m >= -1 /\ t \in Seq(Int) /\ Answer(k, m, t)
      BY <3>1, <3>1b, <3>1c DEF Granted
    <3>3. /\ Front(line) = Prefix(Response(name, m), Len(name) + 4)
          /\ EndsWith(down_text, down_read + 1, t)
      BY <3>1a, <3>2, <2>2, <1>0, <1>6, AnswerNext
    <3>4. PICK l : l = Front(line)
      OBVIOUS
    <3>5. ~IsMalformed(l) /\ l[LengthComma(l) + 1] = m /\ m # -1
      BY <3>1b, <3>2, <3>3, <3>4, <1>4, Announced
    <3>6. \/ client' = "body" /\ length' = m /\ rcvd' = << >> /\ write_error' = FALSE
             /\ results' = results
          \/ /\ client' = "failed" /\ UNCHANGED <<length, rcvd, write_error>>
             /\ results' = Append(results, [name |-> name, data |-> << >>,
                                            status |-> "not_opened"])
      BY <2>1, <3>4, <3>5 DEF TakeResponse, FileOpened
    <3>7. CASE client' = "failed"
      <4>1. /\ UNCHANGED <<length, rcvd, write_error>>
            /\ results' = Append(results, [name |-> name, data |-> << >>,
                                           status |-> "not_opened"])
        BY <3>6, <3>7
      <4>2. FilesIntact' /\ results' \in Seq(Result)
        <5>1. PICK x : x = [name |-> name, data |-> << >>, status |-> "not_opened"]
          OBVIOUS
        <5>2. x \in Result /\ x.status # "received"
          BY <5>1, <3>1a, EmptySeq DEF Result
        <5>3. results \in Seq(Result)
          BY <1>0 DEF TypeInv
        <5>4. QED
          BY <5>1, <5>2, <5>3, <4>1, <1>0, AppendIntact
      <4>3. TypeInv'
        BY <4>1, <4>2, <3>7, <2>1, <1>0, <1>1, EmptySeq DEF TypeInv, up, server_vars
      <4>4. (CloseInv /\ FileInv /\ GoneInv)'
        BY <3>7, <2>2, <1>0, <1>1, ClientFrame DEF up, Closing
      <4>5. HasSent(p)
        BY <3>1 DEF Granted
      <4>6. OverInv'
        BY <4>5, <2>3, <1>1 DEF OverInv, HasSent, Gone, Answered, up, server_vars
      <4>7. ClientInv'
        BY <4>6, <3>7 DEF ClientInv
      <4>8. QED
        BY <4>2, <4>3, <4>4, <4>7, <2>2, <1>3 DEF TransferInv
    <3>8. CASE client' = "body"
      <4>1. /\ length' = m /\ rcvd' = << >> /\ write_error' = FALSE
            /\ results' = results
        BY <3>6, <3>8
      <4>2. TypeInv'
        BY <4>1, <3>2, <3>8, <2>1, <1>0, <1>1, EmptySeq DEF TypeInv, up, server_vars
      <4>3. (CloseInv /\ FileInv /\ GoneInv)'
        BY <3>8, <2>2, <1>0, <1>1, ClientFrame DEF up, Closing
      <4>4. FilesIntact'
        BY <4>1, <1>0 DEF FilesIntact
      <4>5. HasSent(p)'
        BY <3>1, <1>1 DEF Granted, HasSent, Gone, server_vars
      <4>6. Got' = 0 /\ rcvd' = Prefix(Content[name], 0)
        BY <4>1, <3>1b, <1>1, PrefixEmpty DEF Got
      <4>7. Stored(p)'
        <5>1. down_read' - 0 = down_read + 1
          BY <2>2
        <5>2. p \in 0 .. Len(Content[name]) /\ EndsWith(down_text, down_read' - 0, Prefix(Content[name], p))
          BY <5>1, <3>3
        <5>3. QED
          BY <5>2, <4>5, <4>6, <1>1 DEF Stored
      <4>8. length' \in 0 .. Len(Content[name])
        BY <4>1, <3>1b
      <4>9. BodyInv'
        BY <4>6, <4>7, <4>8, <3>1, <2>3, <2>5, <1>1 DEF BodyInv, Answered, up
      <4>10. ClientInv'
        BY <4>9, <3>8 DEF ClientInv, Closing
      <4>11. QED
        BY <4>2, <4>3, <4>4, <4>10, <2>2, <1>3 DEF TransferInv
    <3>9. QED
      BY <3>6, <3>7, <3>8
  <2>6. QED
    BY <2>3, <2>4, <2>5 DEF Answered
<1>7. ~Down!Read(0)
  <2>1. Down!Read(0) => MayHaveEnded
    BY <1>0, <1>1, DownRead
  <2>2. QED
    BY <2>1, <1>0, <1>1 DEF CloseInv, Closing
<1>8. QED
  BY <1>5, <1>6, <1>7 DEF ClientLine

(* What is read next continues the file. *)
LEMMA StoredNext ==
    ASSUME TypeInv, name \in DOMAIN Content, NEW p, Stored(p),
           length \in 0 .. Len(Content[name]), down_read \in Nat,
           NEW n \in Nat, n >= 1, down_read + n <= Len(down_text)
    PROVE  /\ Got + n <= p
           /\ Prefix(Content[name], Got) \o SubSeq(down_text, down_read + 1, down_read + n)
                  = Prefix(Content[name], Got + n)
<1>0. down_text \in Seq(Int) /\ Content[name] \in Seq(Int)
  BY FileTransferAssumption DEF TypeInv
<1> PICK c : c = Content[name]
  OBVIOUS
<1> PICK r : r = Got
  OBVIOUS
<1> PICK x : x = Prefix(c, r)
  OBVIOUS
<1> PICK t : t = SubSeq(down_text, down_read + 1, down_read + n)
  OBVIOUS
<1>1. Len(c) \in Nat /\ r \in Nat /\ r <= Len(c) /\ Len(down_text) \in Nat
  <2>1. Len(c) \in Nat /\ Len(down_text) \in Nat
    BY <1>0, LenProperties
  <2>2. r = Len(c) - length /\ length \in 0 .. Len(c)
    BY DEF Got
  <2>3. QED
    BY <2>1, <2>2
<1>2. p \in r .. Len(c) /\ EndsWith(down_text, down_read - r, Prefix(c, p))
  BY DEF Stored
<1>3. p \in 0 .. Len(c) /\ r \in 0 .. Len(c)
  BY <1>1, <1>2
<1>3a. x \in Seq(Int) /\ Len(x) = r /\ \A i \in 1 .. r : x[i] = c[i]
  BY <1>0, <1>3, PrefixFacts
<1>4. Len(Prefix(c, p)) = p /\ \A i \in 1 .. p : Prefix(c, p)[i] = c[i]
  BY <1>0, <1>3, PrefixFacts
<1> PICK a : a = down_read - r
  OBVIOUS
<1>5. /\ a \in Nat /\ down_read = a + r /\ Len(down_text) = a + p
      /\ \A i \in 1 .. p : down_text[a + i] = c[i]
  BY <1>1, <1>2, <1>4 DEF EndsWith
<1>6. r + n <= p /\ r + n \in 0 .. Len(c)
  BY <1>1, <1>3, <1>5
<1>7. t \in Seq(Int) /\ Len(t) = n /\ \A i \in 1 .. n : t[i] = c[r + i]
  <2>1. \A i \in down_read + 1 .. down_read + n : down_text[i] \in Int
    <3> TAKE i \in down_read + 1 .. down_read + n
    <3>1. i \in 1 .. Len(down_text)
      BY <1>1
    <3>2. QED
      BY <3>1, <1>0, ElementOfSeq
  <2>2. down_read + 1 \in Int /\ down_read + n \in Int
    OBVIOUS
  <2>3. /\ t \in Seq(Int)
        /\ Len(t) = IF down_read + 1 <= down_read + n
                    THEN (down_read + n) - (down_read + 1) + 1 ELSE 0
        /\ \A i \in 1 .. (down_read + n) - (down_read + 1) + 1 :
              t[i] = down_text[(down_read + 1) + i - 1]
    BY <2>1, <2>2, SubSeqProperties
  <2>4. (down_read + n) - (down_read + 1) + 1 = n
    OBVIOUS
  <2>5. ASSUME NEW i \in 1 .. n PROVE t[i] = c[r + i]
    <3>1. (down_read + 1) + i - 1 = a + (r + i) /\ r + i \in 1 .. p
      BY <1>1, <1>3, <1>5, <1>6
    <3>2. t[i] = down_text[(down_read + 1) + i - 1]
      BY <2>3, <2>4
    <3>3. QED
      BY <3>1, <3>2, <1>5
  <2>6. down_read + 1 <= down_read + n
    OBVIOUS
  <2>7. Len(t) = n
    BY <2>3, <2>4, <2>6
  <2>8. QED
    BY <2>3, <2>5, <2>7
<1>8. /\ x \o t \in Seq(Int) /\ Len(x \o t) = r + n
      /\ \A i \in 1 .. r + n : (x \o t)[i] = IF i <= r THEN x[i] ELSE t[i - r]
  <2>1. x \in Seq(Int) /\ t \in Seq(Int) /\ Len(x) = r /\ Len(t) = n
    BY <1>3a, <1>7
  <2>2. /\ x \o t \in Seq(Int) /\ Len(x \o t) = Len(x) + Len(t)
        /\ \A i \in 1 .. Len(x) + Len(t) : (x \o t)[i] =
               IF i <= Len(x) THEN x[i] ELSE t[i - Len(x)]
    BY ONLY <2>1, ConcatProperties
  <2>3. QED
    BY ONLY <2>1, <2>2
<1>9. /\ Prefix(c, r + n) \in Seq(Int) /\ Len(Prefix(c, r + n)) = r + n
      /\ \A i \in 1 .. r + n : Prefix(c, r + n)[i] = c[i]
  BY <1>0, <1>6, PrefixFacts
<1>11. ASSUME NEW i \in 1 .. r + n PROVE (x \o t)[i] = Prefix(c, r + n)[i]
  <2>1. CASE i <= r
    <3>1. i \in 1 .. r
      BY <2>1, <1>1
    <3>2. QED
      BY <2>1, <3>1, <1>3a, <1>8, <1>9
  <2>2. CASE ~(i <= r)
    <3>1. i - r \in 1 .. n /\ r + (i - r) = i
      BY <2>2, <1>1
    <3>2. t[i - r] = c[r + (i - r)]
      BY <3>1, <1>7
    <3>3. QED
      BY <2>2, <3>1, <3>2, <1>8, <1>9
  <2>3. QED
    BY <2>1, <2>2
<1>12. x \o t = Prefix(c, r + n)
  BY <1>8, <1>9, <1>11, SeqEqual, ZenonT(60)
<1>13. QED
  BY <1>6, <1>12

LEMMA ClientBodyStep ==
    ASSUME TransferInv, ClientBody
    PROVE  TransferInv'
<1>0. /\ TypeInv /\ CloseInv /\ FileInv /\ ClientInv /\ GoneInv /\ FilesIntact
      /\ UpFlow /\ DownFlow
  BY DEF TransferInv
<1>1. /\ client = "body"
      /\ UNCHANGED <<up, down_text, filename, asked, name, line, results, server_vars>>
  BY DEF ClientBody
<1>1a. ~Down!Read(0)
  <2>1. Down!Read(0) => MayHaveEnded
    BY <1>0, <1>1, DownRead
  <2>2. QED
    BY <2>1, <1>0, <1>1 DEF CloseInv, Closing
<1>2. PICK n \in 1 .. ToRead(length) :
          /\ Down!Read(n) /\ length' = length - n /\ client' = client
          /\ \E k \in 0 .. n :
                /\ rcvd' = rcvd \o SubSeq(down_text, down_read + 1, down_read + k)
                /\ write_error' = (write_error \/ k < n)
  BY <1>1a DEF ClientBody
<1>2a. PICK k \in 0 .. n :
          /\ rcvd' = rcvd \o SubSeq(down_text, down_read + 1, down_read + k)
          /\ write_error' = (write_error \/ k < n)
  BY <1>2
<1>3. BodyInv
  BY <1>0, <1>1 DEF ClientInv
<1>4. PICK p : Stored(p)
  BY <1>3 DEF BodyInv
<1>5. /\ DownFlow' /\ UNCHANGED down_closed
      /\ down_read \in Nat /\ down_read' = down_read + n /\ down_read + n <= Len(down_text)
      /\ n \in Nat
  BY <1>0, <1>1, <1>2, DownRead
<1>6. n >= 1
  BY <1>2, <1>5
<1>6a. /\ Content[name] \in Seq(Int) /\ Len(Content[name]) \in Nat /\ Len(down_text) \in Nat
       /\ down_text \in Seq(Int) /\ rcvd \in Seq(Int) /\ write_error \in BOOLEAN
  BY <1>0, <1>3, FileTransferAssumption, LenProperties DEF TypeInv, BodyInv
<1>7. /\ Got + n <= p
      /\ Prefix(Content[name], Got) \o SubSeq(down_text, down_read + 1, down_read + n)
             = Prefix(Content[name], Got + n)
  BY <1>0, <1>3, <1>4, <1>5, <1>6, StoredNext DEF BodyInv
<1>8. rcvd' \in Seq(Int)
  <2>1. \A i \in down_read + 1 .. down_read + k : down_text[i] \in Int
    <3> TAKE i \in down_read + 1 .. down_read + k
    <3>1. i \in 1 .. Len(down_text)
      BY <1>5, <1>6a
    <3>2. QED
      BY <3>1, <1>6a, ElementOfSeq
  <2>2. down_read + 1 \in Int /\ down_read + k \in Int
    BY <1>5
  <2>3. SubSeq(down_text, down_read + 1, down_read + k) \in Seq(Int)
    BY <2>1, <2>2, SubSeqProperties
  <2>4. QED
    BY <2>3, <1>2a, <1>6a, ConcatProperties
<1>9. /\ Got' = Got + n /\ length' \in 0 .. Len(Content[name]) /\ length' \in Int
      /\ p \in 0 .. Len(Content[name]) /\ p \in Got' .. Len(Content[name])
      /\ down_read' - Got' = down_read - Got
  <2>1. /\ length \in 0 .. Len(Content[name]) /\ p \in Got .. Len(Content[name])
        /\ Got = Len(Content[name]) - length
    BY <1>3, <1>4 DEF BodyInv, Stored, Got
  <2>2. Got' = Len(Content[name]) - length'
    BY <1>1 DEF Got
  <2>3. PICK g : g = Got
    OBVIOUS
  <2>4. PICK g2 : g2 = Got'
    OBVIOUS
  <2>5. PICK c : c = Len(Content[name])
    OBVIOUS
  <2>6. /\ c \in Nat /\ length \in 0 .. c /\ g = c - length /\ g2 = c - length' /\ p \in g .. c
        /\ length' = length - n /\ g + n <= p /\ n \in Nat /\ down_read \in Nat
        /\ down_read' = down_read + n
    BY <2>1, <2>2, <2>3, <2>4, <2>5, <1>2, <1>5, <1>6a, <1>7
  <2>7. /\ g2 = g + n /\ length' \in 0 .. c /\ length' \in Int
        /\ p \in 0 .. c /\ p \in g2 .. c /\ down_read' - g2 = down_read - g
    BY ONLY <2>6
  <2>8. QED
    BY <2>3, <2>4, <2>5, <2>7
<1>10. HasSent(p)'
  BY <1>1, <1>4 DEF Stored, HasSent, Gone, server_vars
<1>11. Stored(p)'
  BY <1>1, <1>4, <1>9, <1>10 DEF Stored
<1>11a. ~write_error' => rcvd' = Prefix(Content[name], Got')
  <2> HAVE ~write_error'
  <2>1. ~write_error /\ ~(k < n)
    BY <1>2a
  <2>2. k = n
    BY <2>1, <1>5
  <2>3. rcvd = Prefix(Content[name], Got)
    BY <2>1, <1>3 DEF BodyInv
  <2>4. QED
    BY <2>2, <2>3, <1>2a, <1>7, <1>9
<1>12. BodyInv'
  BY <1>1, <1>3, <1>9, <1>11, <1>11a DEF BodyInv, up
<1>13. TypeInv'
  <2>1. write_error' \in BOOLEAN
    BY <1>2a
  <2>2. QED
    BY <2>1, <1>0, <1>1, <1>2, <1>8, <1>9 DEF TypeInv, up, server_vars
<1>14. (CloseInv /\ FileInv /\ GoneInv)'
  BY <1>0, <1>1, <1>2, <1>5, ClientFrame DEF up, Closing
<1>15. FilesIntact' /\ UpFlow'
  BY <1>0, <1>1, UpSame DEF FilesIntact
<1>16. ClientInv'
  BY <1>1, <1>2, <1>12 DEF ClientInv, Closing
<1>17. QED
  BY <1>5, <1>13, <1>14, <1>15, <1>16 DEF TransferInv

LEMMA ClientDoneStep ==
    ASSUME TransferInv, ClientDone
    PROVE  TransferInv'
<1>0. /\ TypeInv /\ CloseInv /\ FileInv /\ ClientInv /\ GoneInv /\ FilesIntact
      /\ UpFlow /\ DownFlow
  BY DEF TransferInv
<1>1. /\ client = "body" /\ client' = "prompt" /\ length = 0
      /\ results' = Append(results, [name |-> name, data |-> rcvd,
                                     status |-> IF write_error THEN "damaged" ELSE "received"])
      /\ UNCHANGED <<up, down, filename, asked, name, line, length, rcvd, write_error,
                     server_vars>>
  BY DEF ClientDone
<1>2. BodyInv
  BY <1>0, <1>1 DEF ClientInv
<1>3. PICK p : Stored(p)
  BY <1>2 DEF BodyInv
<1>4. Content[name] \in Seq(Int) /\ name \in Names /\ Len(Content[name]) \in Nat
  BY <1>0, <1>2, FileTransferAssumption, LenProperties DEF BodyInv, TypeInv
<1>5. Got = Len(Content[name]) /\ p = Len(Content[name])
  <2>1. Got = Len(Content[name])
    BY <1>1, <1>4 DEF Got
  <2>2. p \in Got .. Len(Content[name])
    BY <1>3 DEF Stored
  <2>3. QED
    BY <2>1, <2>2, <1>4
<1>6. ~write_error => rcvd = Content[name]
  BY <1>2, <1>4, <1>5, PrefixFull DEF BodyInv
<1>7. FilesIntact' /\ results' \in Seq(Result)
  <2>1. PICK x : x = [name |-> name, data |-> rcvd,
                      status |-> IF write_error THEN "damaged" ELSE "received"]
    OBVIOUS
  <2>2. results \in Seq(Result) /\ rcvd \in Seq(Int)
    BY <1>0 DEF TypeInv
  <2>3. x \in Result /\ x.name \in DOMAIN Content
        /\ (x.status = "received" => x.data = Content[x.name])
    <3>1. x.name = name /\ x.data = rcvd /\ x.status = (IF write_error THEN "damaged" ELSE "received")
      BY <2>1
    <3>2. x \in Result
      BY <2>1, <2>2, <1>4 DEF Result
    <3>3. QED
      BY <3>1, <3>2, <1>2, <1>6 DEF BodyInv
  <2>4. QED
    BY <2>1, <2>2, <2>3, <1>0, <1>1, AppendIntact
<1>8. Quiet
  <2>1. EndsWith(down_text, down_read - Got, Content[name])
    BY <1>3, <1>4, <1>5, PrefixFull DEF Stored
  <2>2. Len(down_text) = (down_read - Got) + Len(Content[name]) /\ down_read \in Nat
    BY <2>1, <1>0 DEF EndsWith, DownFlow, Flow
  <2>3. Len(down_text) = down_read
    BY <2>2, <1>4, <1>5
  <2>4. QED
    BY <2>3, <1>2 DEF Quiet, BodyInv
<1>9. PromptInv
  <2>1. HasSent(p)
    BY <1>3 DEF Stored
  <2>2. QED
    BY <2>1, <1>5, <1>8 DEF HasSent, PromptInv, Idle
<1>10. ClientInv'
  BY <1>1, <1>9 DEF ClientInv, Closing, PromptInv, Quiet, Idle, Gone, up, down, server_vars
<1>11. TypeInv' /\ UpFlow' /\ DownFlow'
  BY <1>0, <1>1, <1>7, UpSame, DownSame DEF TypeInv, up, down, server_vars
<1>12. (CloseInv /\ FileInv /\ GoneInv)'
  BY <1>0, <1>1, ClientFrame DEF up, down, Closing
<1>13. QED
  BY <1>7, <1>10, <1>11, <1>12 DEF TransferInv

-----------------------------------------------------------------------------
(* The server's steps *)

(* The server finds something to read only while the client waits for an   *)
(* answer, and end of file only when the client has closed.                *)
LEMMA WhenReading ==
    ASSUME TransferInv, server = "line"
    PROVE  /\ up_read # Len(up_text) => client = "line" /\ Asking
           /\ up_closed => Closing /\ server_line = << >>
<1>0. ClientInv /\ TypeInv /\ CloseInv
  BY DEF TransferInv
<1>1. ~Gone
  BY DEF Gone
<1>2. up_read # Len(up_text) => client = "line" /\ Asking
  BY <1>0, <1>1 DEF ClientInv, TypeInv, PromptInv, Quiet, LineInv, Answered, Unanswered,
                    BodyInv, OverInv, Closing
<1>3. up_closed => Closing /\ server_line = << >>
  BY <1>0, <1>1 DEF CloseInv, ClientInv, OverInv
<1>4. QED
  BY <1>2, <1>3

(* The server reads a token of the request. *)
LEMMA AskedNext ==
    ASSUME TypeInv, name \in Names, NEW k \in 0 .. Len(name) + 1, Asked(k),
           server = "line", up_read \in Nat
    PROVE  /\ server_line = Prefix(Request(name), k)
           /\ Append(server_line, up_text[up_read + 1]) = Prefix(Request(name), k + 1)
           /\ IsLineEnd(server_line, up_text[up_read + 1]) <=> k = Len(name) + 1
           /\ k = Len(name) + 1 => Front(server_line) = name /\ Len(up_text) = up_read + 1
<1>0. up_text \in Seq(Int) /\ name \in Seq(Int)
  BY DEF TypeInv
<1> PICK s : s = Request(name)
  OBVIOUS
<1>1. s \in Seq(Int) /\ Len(s) = Len(name) + 2 /\ Len(name) \in Nat
  BY <1>0, RequestFacts
<1>2. server_line = Prefix(s, k) /\ EndsWith(up_text, up_read - k, s)
  BY DEF Asked, Idle
<1> PICK a : a = up_read - k
  OBVIOUS
<1>3. /\ a \in Nat /\ Len(up_text) = a + Len(s) /\ k \in Nat /\ up_read = a + k
      /\ \A i \in 1 .. Len(s) : up_text[a + i] = s[i]
  BY <1>2 DEF EndsWith
<1>4. k + 1 \in 1 .. Len(s) /\ up_read + 1 = a + (k + 1) /\ k \in 0 .. Len(s) - 1
  BY <1>1, <1>3, SMTT(30)
<1>5. up_text[up_read + 1] = s[k + 1]
  BY <1>3, <1>4
<1>6. Append(Prefix(s, k), s[k + 1]) = Prefix(s, k + 1)
  BY <1>1, <1>4, PrefixNext
<1>7. /\ IsLineEnd(Prefix(s, k), s[k + 1]) <=> k = Len(name) + 1
      /\ k = Len(name) + 1 => Front(Prefix(s, k)) = name
  BY RequestLine
<1>8. k = Len(name) + 1 => Len(up_text) = up_read + 1
  BY <1>1, <1>3
<1>9. QED
  BY <1>2, <1>5, <1>6, <1>7, <1>8

(* The first bytes of an answer *)
LEMMA AnswerStarts ==
    ASSUME TypeInv, name \in Names, NEW m \in Int, line = << >>,
           down_read = Len(down_text),
           down_text' = down_text \o Response(name, m),
           down_read' = down_read, name' = name, line' = line
    PROVE  /\ \A t : t = << >> => Answer(0, m, t)'
           /\ 0 \in 0 .. Len(name) + 5
<1>0. down_text \in Seq(Int) /\ name \in Seq(Int)
  BY DEF TypeInv
<1>1. Response(name, m) \in Seq(Int) /\ Len(name) \in Nat
  BY <1>0, ResponseFacts
<1>2. Prefix(Response(name, m), 0) = << >>
  BY PrefixEmpty
<1>3. EndsWith(down_text, Len(down_text), << >>)
  BY <1>0, EndsEmpty
<1>4. << >> \in Seq(Int) /\ << >> \o Response(name, m) = Response(name, m)
      /\ Response(name, m) \o << >> = Response(name, m)
  BY <1>1, EmptySeq, ConcatEmptySeq
<1>5. EndsWith(down_text \o Response(name, m), Len(down_text), << >> \o Response(name, m))
  BY <1>0, <1>1, <1>3, <1>4, EndsAppend
<1>6. EndsWith(down_text', Len(down_text), Response(name, m))
  BY <1>4, <1>5
<1>7. down_read' - 0 = Len(down_text)
  BY <1>0, LenProperties
<1>8. ASSUME NEW t, t = << >> PROVE Answer(0, m, t)'
  BY <1>2, <1>4, <1>6, <1>7, <1>8 DEF Answer
<1>9. QED
  BY <1>1, <1>8

LEMMA ServerLineStep ==
    ASSUME TransferInv, ServerLine
    PROVE  TransferInv'
<1>0. /\ TypeInv /\ CloseInv /\ FileInv /\ ClientInv /\ GoneInv /\ FilesIntact
      /\ UpFlow /\ DownFlow
  BY DEF TransferInv
<1>1. server = "line" /\ UNCHANGED <<up_text, client_vars>>
  BY DEF ServerLine
<1>2. Len(up_text) \in Nat /\ up_text \in Seq(Int) /\ server_line \in Seq(Int)
  BY <1>0, LenText DEF TypeInv
<1>3. CASE Up!Read(1)
  <2>0. ~Up!Read(0)
    BY <1>3 DEF Up!Read
  <2>1. /\ UpFlow' /\ UNCHANGED <<up_closed, up_abandoned>>
        /\ up_read \in Nat /\ up_read' = up_read + 1 /\ up_read + 1 <= Len(up_text)
    BY <1>0, <1>1, <1>3, UpRead
  <2>2. client = "line" /\ Asking /\ ~up_closed
    <3>1. up_read # Len(up_text)
      BY <2>1, <1>2
    <3>2. client = "line" /\ Asking
      BY <3>1, <1>1, WhenReading
    <3>3. QED
      BY <3>2, <1>0 DEF CloseInv, Closing
  <2>3. name \in Names /\ (filename \/ name # << >>) /\ name \in Seq(Int)
    BY <2>2, <1>0 DEF ClientInv, LineInv, TypeInv
  <2>4. PICK k \in 0 .. Len(name) + 1 : Asked(k)
    BY <2>2 DEF Asking
  <2>5. line = << >> /\ down_read = Len(down_text)
    BY <2>2 DEF Asking
  <2>6. /\ server_line = Prefix(Request(name), k)
        /\ Append(server_line, up_text[up_read + 1]) = Prefix(Request(name), k + 1)
        /\ IsLineEnd(server_line, up_text[up_read + 1]) <=> k = Len(name) + 1
        /\ k = Len(name) + 1 => Front(server_line) = name /\ Len(up_text) = up_read + 1
    BY <2>1, <2>3, <2>4, <1>0, <1>1, AskedNext
  <2>7. Request(name) \in Seq(Int) /\ Len(Request(name)) = Len(name) + 2 /\ Len(name) \in Nat
    BY <2>3, RequestFacts
  <2>8. CASE k # Len(name) + 1
    <3>1. /\ server_line' = Prefix(Request(name), k + 1)
          /\ UNCHANGED <<down, server, position, read_error>>
      BY <2>0, <2>6, <2>8 DEF ServerLine
    <3>2. k + 1 \in 0 .. Len(name) + 1 /\ k + 1 \in 0 .. Len(Request(name))
          /\ up_read' - (k + 1) = up_read - k
      BY <2>1, <2>7, <2>8
    <3>3. server_line' \in Seq(Int)
      BY <3>1, <3>2, <2>7, PrefixFacts
    <3>4. Asked(k + 1)'
      BY <3>1, <3>2, <2>4, <1>1 DEF Asked, Idle, client_vars
    <3>5. Asking'
      BY <3>1, <3>2, <3>4, <2>5, <1>1 DEF Asking, client_vars, down
    <3>6. ClientInv'
      BY <3>5, <2>2, <2>3, <1>1 DEF ClientInv, LineInv, Closing, client_vars
    <3>7. (TypeInv /\ CloseInv /\ FileInv /\ GoneInv /\ FilesIntact)'
      BY <3>1, <3>3, <2>1, <1>0, <1>1
      DEF TypeInv, CloseInv, Closing, MayHaveEnded, FileInv, GoneInv, Gone, FilesIntact,
          client_vars, down
    <3>7a. DownFlow'
      <4>1. ~MayHaveEnded
        BY <1>1 DEF MayHaveEnded
      <4>2. QED
        BY <4>1, <3>1, <1>0, DownKept
    <3>8. QED
      BY <3>6, <3>7, <3>7a, <2>1 DEF TransferInv
  <2>9. CASE k = Len(name) + 1
    <3>1. TakeLine(name) /\ up_read' = Len(up_text')
      BY <2>0, <2>1, <2>6, <2>9, <1>1 DEF ServerLine
    <3>2. CASE name = << >>
      <4>1. server' = "done" /\ UNCHANGED <<down, server_line, position, read_error>>
        BY <3>1, <3>2 DEF TakeLine, IsEmptyLine
      <4>2. filename
        BY <3>2, <2>3
      <4>3. Unanswered'
        BY <4>1, <4>2, <3>2, <2>5, <1>1 DEF Unanswered, Gone, client_vars, down
      <4>4. ClientInv'
        BY <4>3, <2>2, <2>3, <1>1 DEF ClientInv, LineInv, Closing, client_vars
      <4>5. (TypeInv /\ CloseInv /\ FileInv /\ GoneInv /\ FilesIntact)'
        BY <4>1, <4>2, <3>2, <2>1, <1>0, <1>1
        DEF TypeInv, CloseInv, Closing, MayHaveEnded, FileInv, GoneInv, Gone, FilesIntact,
            client_vars, down
      <4>5a. DownFlow'
        <5>1. ~MayHaveEnded
          BY <1>1 DEF MayHaveEnded
        <5>2. QED
          BY <5>1, <4>1, <1>0, DownKept
      <4>6. QED
        BY <4>4, <4>5, <4>5a, <2>1 DEF TransferInv
    <3>3. CASE name # << >>
      <4>0. Process(name)
        BY <3>1, <3>3 DEF TakeLine, IsEmptyLine
      <4>1. CASE Respond(name, -1) /\ server' = "line" /\ server_line' = << >>
        <5>1. /\ position' = 0 /\ read_error' = read_error
              /\ down_text' = down_text \o Response(name, -1)
              /\ Down!Write(Len(Response(name, -1)))
          BY <4>0, <4>1 DEF Process, Respond, Response
        <5>2. Response(name, -1) \in Seq(Int) /\ Len(Response(name, -1)) \in Nat
          <6>1. -1 \in Int
            OBVIOUS
          <6>2. Response(name, -1) \in Seq(Int)
            BY <6>1, <2>3, ResponseFacts
          <6>3. QED
            BY <6>2, LenProperties
        <5>3. /\ DownFlow' /\ down_text' \in Seq(Int)
              /\ UNCHANGED <<down_closed, down_read>>
          <6>1. ~MayHaveEnded /\ ~MayHaveEnded'
            BY <4>1, <1>1 DEF MayHaveEnded
          <6>2. QED
            BY <6>1, <5>1, <5>2, <1>0, DownWrite
        <5>3a. -1 \in Int
          OBVIOUS
        <5>4. Answer(0, -1, << >>)' /\ 0 \in 0 .. Len(name) + 5
          BY <5>3a, <5>1, <5>3, <2>3, <2>5, <1>0, <1>1, AnswerStarts DEF client_vars
        <5>5. Refused(0)'
          BY <5>4, <4>1 DEF Refused
        <5>6. Answered'
          BY <5>4, <5>5, <3>1, <1>1 DEF Answered, client_vars
        <5>7. ClientInv'
          BY <5>6, <2>2, <2>3, <1>1 DEF ClientInv, LineInv, Closing, client_vars
        <5>8. (TypeInv /\ CloseInv /\ FileInv /\ GoneInv /\ FilesIntact)'
          BY <5>1, <5>3, <4>1, <2>1, <1>0, <1>1, EmptySeq
          DEF TypeInv, CloseInv, Closing, MayHaveEnded, FileInv, GoneInv, Gone, FilesIntact,
              client_vars
        <5>9. QED
          BY <5>3, <5>7, <5>8, <2>1 DEF TransferInv
      <4>2. CASE /\ name \in DOMAIN Content /\ Respond(name, Len(Content[name]))
                 /\ server' = "file" /\ server_line' = name
        <5>0. PICK m : m = Len(Content[name])
          OBVIOUS
        <5>0a. Content[name] \in Seq(Int) /\ m \in Nat /\ m \in Int
          BY <5>0, <4>2, FileTransferAssumption, LenProperties
        <5>1. /\ position' = 0 /\ read_error' = read_error
              /\ down_text' = down_text \o Response(name, m)
              /\ Down!Write(Len(Response(name, m)))
          BY <5>0, <4>0, <4>2 DEF Process, Respond, Response
        <5>2. Response(name, m) \in Seq(Int) /\ Len(Response(name, m)) \in Nat
          BY <5>0a, <2>3, ResponseFacts, LenProperties
        <5>3. /\ DownFlow' /\ down_text' \in Seq(Int)
              /\ UNCHANGED <<down_closed, down_read>>
          <6>1. ~MayHaveEnded /\ ~MayHaveEnded'
            BY <4>2, <1>1 DEF MayHaveEnded
          <6>2. QED
            BY <6>1, <5>1, <5>2, <1>0, DownWrite
        <5>4. Answer(0, m, << >>)' /\ 0 \in 0 .. Len(name) + 5
          BY <5>0a, <5>1, <5>3, <2>3, <2>5, <1>0, <1>1, AnswerStarts DEF client_vars
        <5>5. Granted(0, 0)'
          <6>1. HasSent(0)'
            BY <5>1, <4>2, <1>1 DEF HasSent, client_vars
          <6>2. Prefix(Content[name], 0) = << >>
            BY PrefixEmpty
          <6>3. QED
            BY <6>1, <6>2, <5>0, <5>4, <1>1 DEF Granted, Answer, client_vars
        <5>6. Answered'
          <6>1. 0 \in 0 .. Len(Content[name])
            BY <5>0, <5>0a
          <6>2. QED
            BY <6>1, <5>4, <5>5, <4>2, <3>1, <1>1 DEF Answered, client_vars
        <5>7. ClientInv'
          BY <5>6, <2>2, <2>3, <1>1 DEF ClientInv, LineInv, Closing, client_vars
        <5>8. FileInv'
          BY <5>0, <5>0a, <5>1, <4>2 DEF FileInv
        <5>9. (TypeInv /\ CloseInv /\ GoneInv /\ FilesIntact)'
          BY <5>1, <5>3, <4>2, <2>1, <2>3, <1>0, <1>1
          DEF TypeInv, CloseInv, Closing, MayHaveEnded, GoneInv, Gone, FilesIntact,
              client_vars
        <5>10. QED
          BY <5>3, <5>7, <5>8, <5>9, <2>1 DEF TransferInv
      <4>3. QED
        BY <4>0, <4>1, <4>2 DEF Process, AfterRefusal
    <3>4. QED
      BY <3>2, <3>3
  <2>10. QED
    BY <2>8, <2>9
<1>4. CASE Up!Read(0)
  <2>0. ~Up!Read(1)
    BY <1>4 DEF Up!Read
  <2>1. /\ UpFlow' /\ UNCHANGED <<up_closed, up_abandoned>> /\ up_closed
    BY <1>0, <1>1, <1>4, UpRead
  <2>2. Closing /\ server_line = << >>
    BY <2>1, <1>1, WhenReading
  <2>3. server' = "done" /\ UNCHANGED <<down, server_line, position, read_error>>
    BY <2>0, <2>2 DEF ServerLine, TakeLine, IsEmptyLine
  <2>4. ClientInv'
    BY <2>2, <2>3, <1>1 DEF ClientInv, Closing, OverInv, Gone, client_vars
  <2>5. (TypeInv /\ CloseInv /\ FileInv /\ GoneInv /\ FilesIntact)'
    BY <2>1, <2>3, <1>0, <1>1
    DEF TypeInv, CloseInv, Closing, MayHaveEnded, FileInv, GoneInv, Gone, FilesIntact,
        client_vars, down
  <2>6. DownFlow'
    <3>1. ~MayHaveEnded
      BY <1>1 DEF MayHaveEnded
    <3>2. QED
      BY <3>1, <2>3, <1>0, DownKept
  <2>7. QED
    BY <2>1, <2>4, <2>5, <2>6 DEF TransferInv
<1>5. QED
  BY <1>3, <1>4 DEF ServerLine

(* Longer: what has been sent of a file when the next block is written *)
LEMMA SentNext ==
    ASSUME NEW c \in Seq(Int), NEW p \in 0 .. Len(c) - 1, NEW t,
           t = SubSeq(c, p + 1, Min({p + RESP, Len(c)}))
    PROVE  /\ t \in Seq(Int) /\ Len(t) \in Nat /\ p + Len(t) \in p .. Len(c)
           /\ p + Len(t) \in 0 .. Len(c)
           /\ Prefix(c, p) \o t = Prefix(c, p + Len(t))
<1>1. Len(c) \in Nat /\ RESP \in Nat /\ RESP >= 1
  BY FileTransferAssumption, LenProperties
<1> DEFINE S == {p + RESP, Len(c)}
<1>2. PICK q : q = Min(S)
  OBVIOUS
<1>3. q \in S /\ q <= Len(c)
  <2>1. \E x \in S : \A y \in S : x =< y
    <3>1. CASE p + RESP <= Len(c)
      BY <3>1, <1>1
    <3>2. CASE ~(p + RESP <= Len(c))
      BY <3>2, <1>1
    <3>3. QED
      BY <3>1, <3>2
  <2>2. Min(S) \in S /\ \A y \in S : Min(S) =< y
    <3> HIDE DEF S
    <3>1. QED
      BY <2>1 DEF Min
  <2>3. QED
    BY <2>2, <1>2
<1>4. q \in p + 1 .. Len(c)
  BY <1>1, <1>3
<1>5. t = SubSeq(c, p + 1, q)
  BY <1>2
<1>6. t \in Seq(Int) /\ Len(t) = q - p
  <2>1. \A i \in p + 1 .. q : c[i] \in Int
    <3> TAKE i \in p + 1 .. q
    <3>1. i \in 1 .. Len(c)
      BY <1>1, <1>4
    <3>2. QED
      BY <3>1, ElementOfSeq
  <2>2. p + 1 \in Int /\ q \in Int
    BY <1>1, <1>4
  <2>3. /\ t \in Seq(Int)
        /\ Len(t) = IF p + 1 <= q THEN q - (p + 1) + 1 ELSE 0
    <3>1. PICK a : a = p + 1
      OBVIOUS
    <3>2. a \in Int /\ q \in Int /\ \A i \in a .. q : c[i] \in Int
      BY <3>1, <2>1, <2>2
    <3>3. /\ SubSeq(c, a, q) \in Seq(Int)
          /\ Len(SubSeq(c, a, q)) = IF a <= q THEN q - a + 1 ELSE 0
      BY ONLY <3>2, SubSeqProperties
    <3>4. QED
      BY <3>1, <3>3, <1>5
  <2>4. p + 1 <= q /\ q - (p + 1) + 1 = q - p
    BY <1>1, <1>4
  <2>5. QED
    BY <2>3, <2>4
<1>7. p + Len(t) = q /\ Len(t) \in Nat /\ q \in p .. Len(c) /\ q \in 0 .. Len(c)
  <2>1. PICK a : a = Len(c)
    OBVIOUS
  <2>2. PICK b : b = Len(t)
    OBVIOUS
  <2>3. a \in Nat /\ p \in 0 .. a - 1 /\ q \in p + 1 .. a /\ b = q - p
    BY <2>1, <2>2, <1>1, <1>4, <1>6
  <2>4. p + b = q /\ b \in Nat /\ q \in p .. a /\ q \in 0 .. a
    BY ONLY <2>3
  <2>5. QED
    BY <2>1, <2>2, <2>4
<1>8. Prefix(c, p) \o t = Prefix(c, q)
  <2>1. 1 \in 1 .. Len(c) + 1 /\ p \in 1 - 1 .. Len(c) /\ q \in p .. Len(c)
    BY <1>1, <1>4
  <2>2. SubSeq(c, 1, p) \o SubSeq(c, p + 1, q) = SubSeq(c, 1, q)
    BY <2>1, ConcatAdjacentSubSeq
  <2>3. QED
    BY <2>2, <1>5 DEF Prefix
<1>9. QED
  BY <1>6, <1>7, <1>8

LEMMA ServerSendStep ==
    ASSUME TransferInv, ServerSend
    PROVE  TransferInv'
<1>0. /\ TypeInv /\ CloseInv /\ FileInv /\ ClientInv /\ GoneInv /\ FilesIntact
      /\ UpFlow /\ DownFlow
  BY DEF TransferInv
<1>1. PICK t : t = SubSeq(Content[server_line], position + 1,
                          Min({position + RESP, Len(Content[server_line])}))
  OBVIOUS
<1>2. /\ server = "file" /\ position < Len(Content[server_line])
      /\ down_text' = down_text \o t /\ Down!Write(Len(t)) /\ position' = position + Len(t)
      /\ UNCHANGED <<up, client_vars, server, server_line, read_error>>
  BY <1>1 DEF ServerSend
<1>3. PICK p : p = position
  OBVIOUS
<1>4. PICK c : c = Content[server_line]
  OBVIOUS
<1>5. c \in Seq(Int) /\ p \in 0 .. Len(c) - 1 /\ Len(c) \in Nat
  <2>1. server_line \in DOMAIN Content /\ position \in Nat
    BY <1>0, <1>2 DEF FileInv, TypeInv
  <2>2. c \in Seq(Int) /\ Len(c) \in Nat
    BY <2>1, <1>4, FileTransferAssumption, LenProperties
  <2>3. QED
    BY <2>1, <2>2, <1>2, <1>3, <1>4
<1>6. /\ t \in Seq(Int) /\ Len(t) \in Nat /\ p + Len(t) \in p .. Len(c)
      /\ p + Len(t) \in 0 .. Len(c)
      /\ Prefix(c, p) \o t = Prefix(c, p + Len(t))
  BY <1>1, <1>3, <1>4, <1>5, SentNext
<1>7. /\ DownFlow' /\ down_text' \in Seq(Int)
      /\ UNCHANGED <<down_closed, down_read>>
  <2>1. ~MayHaveEnded /\ ~MayHaveEnded'
    BY <1>2 DEF MayHaveEnded
  <2>2. QED
    BY <2>1, <1>0, <1>2, <1>6, DownWrite
<1>8. down_text \in Seq(Int) /\ name \in Seq(Int)
  BY <1>0 DEF TypeInv
<1>9. PICK r : r = p + Len(t)
  OBVIOUS
<1>10. HasSent(p) /\ server_line = name => HasSent(r)'
  BY <1>2, <1>3, <1>9 DEF HasSent, client_vars
<1>11. ~Gone /\ \A x : ~Idle(x)
  BY <1>2, <1>5 DEF Gone, Idle
<1>12. ASSUME client = "line" PROVE ClientInv'
  <2>1. Answered /\ name \in Names
    BY <1>0, <1>11, <1>12 DEF ClientInv, LineInv, Asking, Asked, Unanswered
  <2>2. ~(\E k \in 0 .. Len(name) + 5 : Refused(k))
    BY <1>2 DEF Refused
  <2>3. /\ name \in DOMAIN Content
        /\ \E k \in 0 .. Len(name) + 5, x \in 0 .. Len(Content[name]) : Granted(k, x)
    BY <2>1, <2>2 DEF Answered
  <2>4. PICK k \in 0 .. Len(name) + 5, x \in 0 .. Len(Content[name]) : Granted(k, x)
    BY <2>3
  <2>5. x = p /\ server_line = name /\ c = Content[name] /\ HasSent(p)
    BY <2>4, <1>2, <1>3, <1>4 DEF Granted, HasSent, Gone
  <2>6. PICK s : s = Response(name, Len(c))
    OBVIOUS
  <2>7. s \in Seq(Int) /\ Prefix(c, p) \in Seq(Int)
    <3>1. Len(c) \in Int /\ p \in 0 .. Len(c)
      BY <1>5
    <3>2. QED
      BY <3>1, <2>6, <1>5, <1>8, ResponseFacts, PrefixFacts
  <2>8. EndsWith(down_text, down_read - k, s \o Prefix(c, p))
    BY <2>4, <2>5, <2>6 DEF Granted, Answer
  <2>9. s \o Prefix(c, p) \in Seq(Int)
    BY <2>7, ConcatProperties
  <2>10. EndsWith(down_text \o t, down_read - k, (s \o Prefix(c, p)) \o t)
    BY <2>8, <2>9, <1>6, <1>8, EndsAppend
  <2>11. (s \o Prefix(c, p)) \o t = s \o (Prefix(c, p) \o t)
    BY <2>7, <1>6, ConcatThree
  <2>12. EndsWith(down_text', down_read' - k, s \o Prefix(c, r))
    BY <2>10, <2>11, <1>2, <1>6, <1>7, <1>9
  <2>13. line = Prefix(s, k)
    BY <2>4, <2>5, <2>6 DEF Granted, Answer
  <2>14. Granted(k, r)'
    BY <2>5, <2>6, <2>12, <2>13, <1>2, <1>10 DEF Granted, Answer, client_vars
  <2>15. r \in 0 .. Len(Content[name])
    BY <2>5, <1>6, <1>9
  <2>16. Answered'
    BY <2>1, <2>3, <2>14, <2>15, <1>2 DEF Answered, client_vars, up
  <2>17. QED
    BY <2>16, <1>0, <1>2, <1>12 DEF ClientInv, LineInv, Closing, client_vars
<1>13. ASSUME client = "body" PROVE ClientInv'
  <2>1. BodyInv
    BY <1>0, <1>13 DEF ClientInv
  <2>2. PICK x \in 0 .. Len(Content[name]) : Stored(x)
    BY <2>1 DEF BodyInv
  <2>3. x = p /\ server_line = name /\ c = Content[name] /\ HasSent(p)
    BY <2>2, <1>2, <1>3, <1>4 DEF Stored, HasSent, Gone
  <2>4. Prefix(c, p) \in Seq(Int)
    <3>1. p \in 0 .. Len(c)
      BY <1>5
    <3>2. QED
      BY <3>1, <1>5, PrefixFacts
  <2>5. EndsWith(down_text \o t, down_read - Got, Prefix(c, p) \o t)
    BY <2>2, <2>3, <2>4, <1>6, <1>8, EndsAppend DEF Stored
  <2>6. EndsWith(down_text', down_read' - Got', Prefix(c, r))
    BY <2>5, <1>2, <1>6, <1>7, <1>9 DEF Got, client_vars
  <2>7. Got' = Got /\ r \in Got .. Len(c) /\ r \in 0 .. Len(c)
    <3>1. p \in Got .. Len(c) /\ Got \in Int /\ Got' = Got
      BY <2>1, <2>2, <2>3, <1>2, <1>5 DEF Stored, BodyInv, Got, client_vars
    <3>2. QED
      BY <3>1, <1>5, <1>6, <1>9
  <2>8. Stored(r)'
    BY <2>3, <2>6, <2>7, <1>2, <1>10 DEF Stored, client_vars
  <2>9. BodyInv'
    BY <2>1, <2>3, <2>7, <2>8, <1>2 DEF BodyInv, client_vars, up
  <2>10. QED
    BY <2>9, <1>2, <1>13 DEF ClientInv, Closing, client_vars
<1>14. ClientInv'
  <2>1. client # "prompt"
    BY <1>0, <1>11 DEF ClientInv, PromptInv
  <2>2. CASE client = "failed" \/ Closing
    <3>1. OverInv'
      BY <2>2, <1>0, <1>2 DEF ClientInv, OverInv, Gone, up
    <3>2. QED
      BY <3>1, <2>2, <1>2 DEF ClientInv, Closing, client_vars
  <2>3. QED
    BY <2>1, <2>2, <1>0, <1>12, <1>13 DEF TypeInv, Closing
<1>15. (TypeInv /\ CloseInv /\ FileInv /\ GoneInv /\ FilesIntact)' /\ UpFlow'
  <2>1. position' \in Nat /\ position' <= Len(Content[server_line])
    BY <1>2, <1>3, <1>4, <1>5, <1>6
  <2>2. QED
    BY <2>1, <1>0, <1>2, <1>7, UpSame
    DEF TypeInv, CloseInv, Closing, MayHaveEnded, FileInv, GoneInv, Gone, FilesIntact,
        client_vars, up
<1>16. QED
  BY <1>7, <1>14, <1>15 DEF TransferInv

LEMMA ServerSentStep ==
    ASSUME TransferInv, ServerSent
    PROVE  TransferInv'
<1>0. /\ TypeInv /\ CloseInv /\ FileInv /\ ClientInv /\ GoneInv /\ FilesIntact
      /\ UpFlow /\ DownFlow
  BY DEF TransferInv
<1>1. /\ server = "file" /\ position = Len(Content[server_line])
      /\ server' = "line" /\ server_line' = << >>
      /\ UNCHANGED <<up, down, client_vars, position, read_error>>
  BY DEF ServerSent
<1>2. UpFlow' /\ DownFlow'
  <2>1. ~MayHaveEnded
    BY <1>1 DEF MayHaveEnded
  <2>2. QED
    BY <2>1, <1>0, <1>1, UpSame, DownKept
<1>3. (TypeInv /\ CloseInv /\ FileInv /\ GoneInv /\ FilesIntact)'
  BY <1>0, <1>1, EmptySeq
  DEF TypeInv, CloseInv, Closing, MayHaveEnded, FileInv, GoneInv, Gone, FilesIntact,
      client_vars, up, down
<1>4. \A x : Idle(x) => Idle(x)'
  BY <1>1 DEF Idle
<1>5. \A p : HasSent(p) => HasSent(p)'
  BY <1>1 DEF HasSent, Gone, client_vars
<1>6. ~Gone
  BY <1>1 DEF Gone
<1>7. ASSUME client = "prompt" PROVE ClientInv'
  BY <1>0, <1>1, <1>4, <1>6, <1>7 DEF ClientInv, Closing, PromptInv, Quiet, client_vars, up, down
<1>8. ASSUME client = "line" PROVE ClientInv'
  <2>1. LineInv /\ ~Unanswered
    BY <1>0, <1>6, <1>8 DEF ClientInv, Unanswered
  <2>2. CASE Asking
    <3>1. PICK k \in 0 .. Len(name) + 1 : Asked(k)
      BY <2>2 DEF Asking
    <3>2. Asked(k)'
      BY <3>1, <1>1, <1>4 DEF Asked, Idle, client_vars, up
    <3>3. Asking'
      BY <2>2, <3>1, <3>2, <1>1 DEF Asking, client_vars, down
    <3>4. QED
      BY <3>3, <2>1, <1>1, <1>8 DEF ClientInv, LineInv, Closing, client_vars
  <2>3. CASE Answered
    <3>1. ~(\E k \in 0 .. Len(name) + 5 : Refused(k))
      BY <1>1 DEF Refused
    <3>2. PICK k \in 0 .. Len(name) + 5, p \in 0 .. Len(Content[name]) :
              Granted(k, p) /\ name \in DOMAIN Content
      BY <2>3, <3>1 DEF Answered
    <3>3. Granted(k, p)'
      BY <3>2, <1>1, <1>5 DEF Granted, Answer, client_vars, down
    <3>4. Answered'
      BY <2>3, <3>2, <3>3, <1>1 DEF Answered, client_vars, up
    <3>5. QED
      BY <3>4, <2>1, <1>1, <1>8 DEF ClientInv, LineInv, Closing, client_vars
  <2>4. QED
    BY <2>1, <2>2, <2>3 DEF LineInv
<1>9. ASSUME client = "body" PROVE ClientInv'
  <2>1. BodyInv
    BY <1>0, <1>9 DEF ClientInv
  <2>2. PICK p \in 0 .. Len(Content[name]) : Stored(p)
    BY <2>1 DEF BodyInv
  <2>3. Stored(p)'
    BY <2>2, <1>1, <1>5 DEF Stored, Got, client_vars, down
  <2>4. BodyInv'
    BY <2>1, <2>2, <2>3, <1>1 DEF BodyInv, Got, client_vars, up
  <2>5. QED
    BY <2>4, <1>1, <1>9 DEF ClientInv, Closing, client_vars
<1>10. ASSUME client = "failed" \/ Closing PROVE ClientInv'
  <2>1. OverInv'
    BY <1>0, <1>1, <1>6, <1>10 DEF ClientInv, OverInv, up
  <2>2. QED
    BY <2>1, <1>1, <1>10 DEF ClientInv, Closing, client_vars
<1>11. ClientInv'
  BY <1>0, <1>7, <1>8, <1>9, <1>10 DEF TypeInv, Closing
<1>12. QED
  BY <1>2, <1>3, <1>11 DEF TransferInv

(* The server leaves its loop because of an error, or closes after that. *)
LEMMA LeavingStep ==
    ASSUME ClientInv, TypeInv, Gone', server # "line", read_error \in BOOLEAN,
           \/ server = "file" /\ read_error'
           \/ Gone /\ read_error' = read_error,
           UNCHANGED <<up_text, up_read, down_text, down_read, client_vars, server_line, position>>
    PROVE  ClientInv'
<1>1. CASE client = "prompt"
  BY <1>1 DEF ClientInv, Closing, PromptInv, Quiet, Gone, Idle, client_vars
<1>2. CASE client = "line"
  <2>1. LineInv
    BY <1>2 DEF ClientInv
  <2>2. CASE Asking
    <3>1. server = "file" /\ read_error'
      BY <2>2 DEF Asking, Asked, Idle, Gone
    <3>2. Unanswered'
      BY <3>1, <2>2 DEF Unanswered, Asking, client_vars
    <3>3. QED
      BY <3>2, <2>1, <1>2 DEF ClientInv, LineInv, Closing, client_vars
  <2>3. CASE Answered
    <3>1. ~(\E k \in 0 .. Len(name) + 5 : Refused(k))
      BY DEF Refused
    <3>2. PICK k \in 0 .. Len(name) + 5, p \in 0 .. Len(Content[name]) :
              Granted(k, p) /\ name \in DOMAIN Content
      BY <2>3, <3>1 DEF Answered
    <3>3. HasSent(p)'
      BY <3>2 DEF Granted, HasSent, Gone
    <3>4. Granted(k, p)'
      BY <3>2, <3>3 DEF Granted, Answer, client_vars
    <3>5. Answered'
      BY <2>3, <3>2, <3>4 DEF Answered, client_vars
    <3>6. QED
      BY <3>5, <2>1, <1>2 DEF ClientInv, LineInv, Closing, client_vars
  <2>4. CASE Unanswered
    <3>1. Unanswered'
      BY <2>4 DEF Unanswered, Gone, client_vars
    <3>2. QED
      BY <3>1, <2>1, <1>2 DEF ClientInv, LineInv, Closing, client_vars
  <2>5. QED
    BY <2>1, <2>2, <2>3, <2>4 DEF LineInv
<1>3. CASE client = "body"
  <2>1. BodyInv
    BY <1>3 DEF ClientInv
  <2>2. PICK p \in 0 .. Len(Content[name]) : Stored(p)
    BY <2>1 DEF BodyInv
  <2>3. HasSent(p)'
    BY <2>2 DEF Stored, HasSent, Gone
  <2>4. Stored(p)'
    BY <2>2, <2>3 DEF Stored, Got, client_vars
  <2>5. BodyInv'
    BY <2>1, <2>2, <2>4 DEF BodyInv, Got, client_vars
  <2>6. QED
    BY <2>5, <1>3 DEF ClientInv, Closing, client_vars
<1>4. CASE client = "failed" \/ Closing
  BY <1>4 DEF ClientInv, Closing, OverInv, client_vars
<1>5. QED
  BY <1>1, <1>2, <1>3, <1>4 DEF TypeInv, Closing

LEMMA ReadFailsStep ==
    ASSUME TransferInv, ReadFails
    PROVE  TransferInv'
<1>0. /\ TypeInv /\ CloseInv /\ FileInv /\ ClientInv /\ GoneInv /\ FilesIntact
      /\ UpFlow /\ DownFlow
  BY DEF TransferInv
<1>1. /\ server = "file" /\ server' = "done" /\ read_error' = TRUE
      /\ UNCHANGED <<up, down, client_vars, server_line, position>>
  BY DEF ReadFails
<1>2. UpFlow' /\ DownFlow'
  <2>1. ~MayHaveEnded
    BY <1>1 DEF MayHaveEnded
  <2>2. QED
    BY <2>1, <1>0, <1>1, UpSame, DownKept
<1>3. (TypeInv /\ CloseInv /\ FileInv /\ GoneInv /\ FilesIntact)'
  BY <1>0, <1>1
  DEF TypeInv, CloseInv, Closing, MayHaveEnded, FileInv, GoneInv, Gone, FilesIntact,
      client_vars, up, down
<1>4. ClientInv'
  <2>1. Gone' /\ read_error \in BOOLEAN
    BY <1>0, <1>1 DEF Gone, TypeInv
  <2>2. UNCHANGED <<up_text, up_read, down_text, down_read, client_vars, server_line, position>>
    BY <1>1 DEF up, down
  <2>3. QED
    BY <2>1, <2>2, <1>0, <1>1, LeavingStep
<1>5. QED
  BY <1>2, <1>3, <1>4 DEF TransferInv

LEMMA ServerCloseStep ==
    ASSUME TransferInv, ServerClose
    PROVE  TransferInv'
<1>0. /\ TypeInv /\ CloseInv /\ FileInv /\ ClientInv /\ GoneInv /\ FilesIntact
      /\ UpFlow /\ DownFlow
  BY DEF TransferInv
<1>1. /\ server = "done" /\ server' = "closing" /\ Down!Close /\ UNCHANGED down_text
      /\ UNCHANGED <<up, client_vars, server_line, position, read_error>>
  BY DEF ServerClose
<1>2. UpFlow' /\ DownFlow' /\ down_read' = down_read
  <2>1. MayHaveEnded' = MayHaveEnded
    BY <1>1 DEF MayHaveEnded
  <2>2. QED
    BY <2>1, <1>0, <1>1, UpSame, DownEnds
<1>3. (TypeInv /\ CloseInv /\ FileInv /\ GoneInv /\ FilesIntact)'
  BY <1>0, <1>1 DEF TypeInv, CloseInv, Closing, MayHaveEnded, FileInv, GoneInv, Gone, FilesIntact,
      client_vars, up
<1>4. ClientInv'
  <2>1. Gone' /\ Gone /\ read_error \in BOOLEAN /\ server # "line"
    BY <1>0, <1>1 DEF Gone, TypeInv
  <2>2. UNCHANGED <<up_text, up_read, down_text, down_read, client_vars, server_line, position>>
    BY <1>1, <1>2 DEF up
  <2>3. QED
    BY <2>1, <2>2, <1>0, <1>1, LeavingStep
<1>5. QED
  BY <1>2, <1>3, <1>4 DEF TransferInv

(* The server sends its FIN only when the client's has come. *)
LEMMA CloseRequestStep ==
    ASSUME TransferInv, CloseRequest
    PROVE  TransferInv'
<1>0. /\ TypeInv /\ CloseInv /\ FileInv /\ ClientInv /\ GoneInv /\ FilesIntact
      /\ UpFlow /\ DownFlow
  BY DEF TransferInv
<1>1. /\ server = "closing" /\ server' = (IF FinSeen THEN "last_ack" ELSE "ignored")
      /\ UNCHANGED <<up, down, client_vars, server_line, position, read_error>>
  BY DEF CloseRequest
<1>2. UpFlow' /\ DownFlow'
  <2>1. ~MayHaveEnded
    BY <1>1 DEF MayHaveEnded
  <2>2. QED
    BY <2>1, <1>0, <1>1, UpSame, DownKept
<1>3. FinSeen => up_closed
  BY <1>0 DEF FinSeen, NoEof, UpFlow, Flow
<1>4. (TypeInv /\ CloseInv /\ FileInv /\ GoneInv /\ FilesIntact)'
  <2>1. CASE FinSeen
    BY <2>1, <1>0, <1>1, <1>3
    DEF TypeInv, CloseInv, Closing, MayHaveEnded, FileInv, GoneInv, Gone, FilesIntact,
        client_vars, up, down
  <2>2. CASE ~FinSeen
    BY <2>2, <1>0, <1>1
    DEF TypeInv, CloseInv, Closing, MayHaveEnded, FileInv, GoneInv, Gone, FilesIntact,
        client_vars, up, down
  <2>3. QED
    BY <2>1, <2>2
<1>5. ClientInv'
  <2>1. Gone' /\ Gone /\ read_error \in BOOLEAN /\ server # "line"
    BY <1>0, <1>1 DEF Gone, TypeInv
  <2>2. UNCHANGED <<up_text, up_read, down_text, down_read, client_vars, server_line, position>>
    BY <1>1, <1>2 DEF up, down
  <2>3. QED
    BY <2>1, <2>2, <1>0, <1>1, LeavingStep
<1>6. QED
  BY <1>2, <1>4, <1>5 DEF TransferInv

LEMMA ServerClosedStep ==
    ASSUME TransferInv, ServerClosed
    PROVE  TransferInv'
<1>0. /\ TypeInv /\ CloseInv /\ FileInv /\ ClientInv /\ GoneInv /\ FilesIntact
      /\ UpFlow /\ DownFlow
  BY DEF TransferInv
<1>1. /\ server = "last_ack" /\ server' = "closed" /\ Up!Abandon /\ UNCHANGED up_text
      /\ UNCHANGED <<down, client_vars, server_line, position, read_error>>
  BY DEF ServerClosed
<1>2. UpFlow' /\ DownFlow' /\ up_read' = up_read
  <2>1. MayHaveEnded'
    BY <1>1 DEF MayHaveEnded
  <2>2. QED
    BY <2>1, <1>0, <1>1, UpEnds, DownKept
<1>3. up_closed' = up_closed
  BY <1>1 DEF Up!Abandon
<1>4. (TypeInv /\ CloseInv /\ FileInv /\ GoneInv /\ FilesIntact)'
  BY <1>0, <1>1, <1>3 DEF TypeInv, CloseInv, Closing, MayHaveEnded, FileInv, GoneInv, Gone, FilesIntact,
      client_vars, down
<1>5. ClientInv'
  <2>1. Gone' /\ Gone /\ read_error \in BOOLEAN /\ server # "line"
    BY <1>0, <1>1 DEF Gone, TypeInv
  <2>2. UNCHANGED <<up_text, up_read, down_text, down_read, client_vars, server_line, position>>
    BY <1>1, <1>2 DEF down
  <2>3. QED
    BY <2>1, <2>2, <1>0, <1>1, LeavingStep
<1>6. QED
  BY <1>2, <1>4, <1>5 DEF TransferInv

LEMMA ServerAbortedStep ==
    ASSUME TransferInv, ServerAborted
    PROVE  TransferInv'
<1>0. /\ TypeInv /\ CloseInv /\ FileInv /\ ClientInv /\ GoneInv /\ FilesIntact
      /\ UpFlow /\ DownFlow
  BY DEF TransferInv
<1>1. /\ client = "aborted" /\ server' = "aborted"
      /\ UNCHANGED <<up, down, client_vars, server_line, position, read_error>>
  BY DEF ServerAborted
<1>2. UpFlow' /\ DownFlow'
  <2>1. MayHaveEnded'
    BY <1>1 DEF MayHaveEnded
  <2>2. QED
    BY <2>1, <1>0, <1>1, UpSame, DownKept
<1>3. (TypeInv /\ CloseInv /\ FileInv /\ GoneInv /\ FilesIntact)'
  BY <1>0, <1>1 DEF TypeInv, CloseInv, Closing, MayHaveEnded, FileInv, GoneInv, Gone, FilesIntact,
      client_vars, up, down
<1>4. ClientInv'
  BY <1>1 DEF ClientInv, Closing, OverInv, Gone, client_vars
<1>5. QED
  BY <1>2, <1>3, <1>4 DEF TransferInv

-----------------------------------------------------------------------------
LEMMA TransferInit == Init => TransferInv
<1> SUFFICES ASSUME Init PROVE TransferInv
  OBVIOUS
<1>1. << >> \in Seq(Int) /\ << >> \in Seq(Node) /\ Len(<< >>) = 0 /\ << >> \in Seq(Result)
  BY EmptySeq
<1>2. UpFlow /\ DownFlow
  <2>1. Flow(0, FALSE, 0, << >>, 0, FALSE, FALSE)
    BY <1>1 DEF Flow
  <2>2. QED
    <3>1. MayHaveEnded = FALSE
      BY DEF Init, MayHaveEnded
    <3>2. Len(up_text) = 0 /\ Len(down_text) = 0
      BY <1>1 DEF Init
    <3>3. QED
      BY <2>1, <3>1, <3>2 DEF Init, Up!Init, Down!Init, UpFlow, DownFlow
<1>3. asked \in Seq(Names)
  <2>1. PICK n \in 0 .. MaxAsked : asked \in [1 .. n -> Names]
    BY DEF Init
  <2>2. n \in Nat
    BY <2>1, FileTransferAssumption
  <2>3. QED
    BY <2>1, <2>2, SeqDef
<1>4. TypeInv
  <2>1. results \in Seq(Result) /\ rcvd \in Seq(Int) /\ line \in Seq(Int) /\ name \in Seq(Int)
        /\ server_line \in Seq(Int) /\ up_text \in Seq(Int) /\ down_text \in Seq(Int)
    BY <1>1 DEF Init
  <2>2. /\ filename \in BOOLEAN /\ client = "prompt" /\ length = 0 /\ server = "line"
        /\ position = 0 /\ read_error = FALSE /\ write_error = FALSE
    BY DEF Init
  <2>3. length \in Int /\ position \in Nat
    BY <2>2
  <2>4. QED
    BY ONLY <2>1, <2>2, <2>3, <1>3 DEF TypeInv
<1>5. CloseInv /\ FileInv /\ GoneInv
  BY DEF Init, Up!Init, Down!Init, CloseInv, Closing, MayHaveEnded, FileInv, GoneInv, Gone
<1>6. FilesIntact
  BY <1>1 DEF Init, FilesIntact
<1>7. ClientInv
  BY <1>1 DEF Init, Up!Init, Down!Init, ClientInv, Closing, PromptInv, Quiet, Idle
<1>8. QED
  BY <1>2, <1>4, <1>5, <1>6, <1>7 DEF TransferInv

LEMMA TransferStep == TransferInv /\ [Next]_vars => TransferInv'
<1> SUFFICES ASSUME TransferInv, [Next]_vars PROVE TransferInv'
  OBVIOUS
<1>1. CASE UNCHANGED vars
  <2>1. /\ TypeInv /\ CloseInv /\ FileInv /\ ClientInv /\ GoneInv /\ FilesIntact
        /\ UpFlow /\ DownFlow
    BY DEF TransferInv
  <2>2. UNCHANGED up /\ UNCHANGED down /\ UNCHANGED client_vars /\ UNCHANGED server_vars
    BY <1>1 DEF vars
  <2>3. UNCHANGED <<up_text, up_closed, up_read, down_text, down_closed, down_read,
                    client_vars, server_vars>>
    BY <2>2 DEF up, down
  <2>4. UpFlow' /\ DownFlow'
    BY <2>1, <2>2, UpSame, DownSame
  <2>5. QED
    BY <2>1, <2>3, <2>4, Frame DEF TransferInv
<1>2. QED
  BY <1>1, TransportStep, AskStep, SkipStep, FinishStep, ClientLeavesStep, ClientLineStep,
     ClientBodyStep, ClientDoneStep, ServerLineStep, ServerSendStep, ServerSentStep,
     ServerCloseStep, CloseRequestStep, ServerClosedStep, ServerAbortedStep, ReadFailsStep
  DEF Next, Client, Server

LEMMA TransferInvariance == Spec => []TransferInv
BY TransferInit, TransferStep, PTL DEF Spec

(* Every file the client reports as received is, byte for byte, the file   *)
(* it asked for: whatever the contents, the commas and carriage returns in *)
(* names, the chunks of the transport, the sizes of both buffers and the   *)
(* number of requests, the byte counts keep requests, responses and files  *)
(* apart (FilesIntact).                                                    *)
THEOREM FilesCorrect == Spec => []FilesIntact
<1>1. TransferInv => FilesIntact
  BY DEF TransferInv
<1>2. QED
  BY <1>1, TransferInvariance, PTL

(* When the client asks again, both directions of the connection have been *)
(* read to the last byte (InStep).                                         *)
THEOREM StepCorrect == Spec => []InStep
<1>1. TransferInv => InStep
  BY DEF TransferInv, ClientInv, PromptInv, Quiet, InStep
<1>2. QED
  BY <1>1, TransferInvariance, PTL

(* The server closes before the client only after an empty name or a file  *)
(* it could not read (ClientClosesFirst).                                  *)
THEOREM CloseOrderCorrect == Spec => []ClientClosesFirst
<1>1. TransferInv => ClientClosesFirst
  BY DEF TransferInv, CloseInv, GoneInv, Gone, ClientClosesFirst
<1>2. QED
  BY <1>1, TransferInvariance, PTL

=============================================================================
