-------------------------- MODULE EchoServer_proofs --------------------------
(***************************************************************************)
(* The echo client and server, for any number of clients, any inputs, any  *)
(* size of the line buffer and any interleaving: what a client sends, and  *)
(* what the server's processes print.                                      *)
(***************************************************************************)
EXTENDS EchoServer, ForkServer_proofs, SequenceTheorems, WellFoundedInduction

Process == Client \cup {Main}

Item == [from : Process, what : Nat \cup Client \cup {WAITING}, nl : BOOLEAN]

EchoType ==
    /\ typed \in [Client -> Seq(Char \cup {NL})]
    /\ input \in [Client -> Seq(Char \cup {NL})]
    /\ sent \in [Client -> Seq(Char \cup {NL})]
    /\ prev_nl \in [Client -> BOOLEAN]
    /\ client \in [Client -> {"new", "reading", "exited"}]
    /\ received \in [Client -> Nat]
    /\ tty \in BOOLEAN
    /\ buffer \in [Process -> Seq(Item)]
    /\ output \in Seq(Item)

(* A client has sent a first part of its input, which has no empty line,   *)
(* and remembers whether that part ends a line.                            *)
LineInv(c) ==
    /\ Len(sent[c]) <= Len(typed[c])
    /\ \A i \in 1 .. Len(sent[c]) : sent[c][i] = typed[c][i]
    /\ Len(input[c]) = Len(typed[c]) - Len(sent[c])
    /\ \A i \in 1 .. Len(input[c]) : input[c][i] = typed[c][Len(sent[c]) + i]
    /\ Len(sent[c]) > 0 => (prev_nl[c] <=> typed[c][Len(sent[c])] = NL)
    /\ \A i \in DoubleEnters(typed[c]) : i >= Len(sent[c])

(* A buffer holds what its process printed, and messages of the parent,    *)
(* but no message if standard output is a terminal.                        *)
OwnInv ==
    /\ \A p \in Process : \A i \in 1 .. Len(buffer[p]) : buffer[p][i].from \in {p, Main}
    /\ tty => \A p \in Process : PlacesOf(Main, buffer[p]) = {}
    /\ \A c \in Client : proc[c] = "none" => received[c] = 0

(* On a terminal: a message names a client that has connected and does not *)
(* wait in the backlog, so the next one is a new one.                      *)
MessageInv ==
    /\ tty => \A i \in PlacesOf(Main, output) :
          \/ output[i].what = WAITING /\ main # "boot"
          \/ /\ output[i].what \in Client /\ client[output[i].what] # "new"
             /\ \A j \in 1 .. Len(backlog) : backlog[j] # output[i].what
    /\ \A j \in 1 .. Len(backlog) : client[backlog[j]] # "new"

EchoInv ==
    /\ ServerInv
    /\ EchoType
    /\ \A c \in Client : LineInv(c)
    /\ \A c \in Client : client[c] = "exited" => input[c] = << >> \/ IsDoubleEnter(c)
    /\ OwnInv
    /\ MessageInv
    /\ OutputInOrder

-----------------------------------------------------------------------------
(* The least element of a set of numbers, and the greatest of a bounded one *)

LEMMA Least ==
    ASSUME NEW T, T \subseteq Nat, T # {}
    PROVE  \E x \in T : \A y \in T : x <= y
<1>1. PICK x \in T : \A y \in T : ~(<<y, x>> \in OpToRel(<, Nat))
  BY NatLessThanWellFounded, WFMin
<1>2. \A y \in T : ~(y < x)
  BY <1>1 DEF OpToRel
<1>3. QED
  BY <1>2

LEMMA Greatest ==
    ASSUME NEW n \in Nat, NEW T, T \subseteq 1 .. n, T # {}
    PROVE  \E x \in T : \A y \in T : y <= x
<1>1. PICK U : U = {k \in Nat : \A i \in T : i <= k}
  OBVIOUS
<1>2. n \in U /\ U \subseteq Nat
  BY <1>1
<1>3. PICK m \in U : \A k \in U : m <= k
  BY <1>2, Least
<1>4. m \in T
  <2>1. SUFFICES ASSUME m \notin T PROVE FALSE
    OBVIOUS
  <2>2. \A i \in T : i <= m /\ i # m /\ i \in 1 .. n
    BY <1>1, <1>3, <2>1
  <2>x. PICK e \in T : e \in 1 .. n /\ e <= m
    BY <2>2
  <2>y. m \in Nat /\ m > 0
    BY <1>2, <1>3, <2>x
  <2>3. m - 1 \in Nat /\ \A i \in T : i <= m - 1
    BY <2>2, <2>y
  <2>4. m - 1 \in U
    BY <1>1, <2>3
  <2>5. QED
    BY <1>2, <1>3, <2>4
<1>5. QED
  BY <1>1, <1>3, <1>4

(* fgets() takes characters up to the first newline, to its limit or to    *)
(* the end.                                                                *)
LEMMA LineFacts ==
    ASSUME NEW S, NEW s \in Seq(S), s # << >>
    PROVE  /\ FirstLine(s) \in 1 .. Len(s)
           /\ s[FirstLine(s)] = NL \/ FirstLine(s) = LINESIZE \/ FirstLine(s) = Len(s)
           /\ \A k \in 1 .. FirstLine(s) - 1 : s[k] # NL /\ k # LINESIZE
<1>1. PICK T : T = {n \in 1 .. Len(s) : s[n] = NL \/ n = LINESIZE \/ n = Len(s)}
  OBVIOUS
<1>2. Len(s) \in T /\ T \subseteq Nat /\ Len(s) \in Nat
  BY <1>1
<1>3. PICK n \in T : \A k \in T : n <= k
  BY <1>2, Least
<1>4. n \in 1 .. Len(s) /\ (s[n] = NL \/ n = LINESIZE \/ n = Len(s))
  BY <1>1, <1>3
<1>5. \A k \in 1 .. n - 1 : s[k] # NL /\ k # LINESIZE
  <2>1. SUFFICES ASSUME NEW k \in 1 .. n - 1 PROVE k \notin T /\ k \in 1 .. Len(s)
    BY <1>1
  <2>2. QED
    BY <1>2, <1>3, <1>4
<1>6. QED
  BY <1>4, <1>5 DEF FirstLine

LEMMA FlushedFacts ==
    ASSUME NEW items \in Seq(Item)
    PROVE  /\ Flushed(items) \in 0 .. Len(items)
           /\ tty /\ Len(items) = 1 /\ items[1].nl => Flushed(items) = 1
<1>1. Len(items) \in Nat /\ LineEnds(items) \subseteq 1 .. Len(items)
  BY DEF LineEnds
<1>2. CASE ~tty \/ LineEnds(items) = {}
  <2>1. Flushed(items) = 0
    BY <1>2 DEF Flushed
  <2>2. Len(items) = 1 /\ items[1].nl => LineEnds(items) # {}
    BY DEF LineEnds
  <2>3. QED
    BY <1>1, <1>2, <2>1, <2>2
<1>3. CASE tty /\ LineEnds(items) # {}
  <2>1. Flushed(items) = CHOOSE i \in LineEnds(items) : \A j \in LineEnds(items) : j <= i
    BY <1>3 DEF Flushed
  <2>2. \E i \in LineEnds(items) : \A j \in LineEnds(items) : j <= i
    BY <1>1, <1>3, Greatest
  <2>3. Flushed(items) \in LineEnds(items)
    BY <2>1, <2>2
  <2>4. Flushed(items) \in 1 .. Len(items)
    BY <1>1, <2>3
  <2>5. PICK f, n : f = Flushed(items) /\ n = Len(items)
    OBVIOUS
  <2>6. n \in Nat /\ f \in 1 .. n
    BY <1>1, <2>4, <2>5
  <2>7. f \in 0 .. n /\ (n = 1 => f = 1)
    BY <2>6
  <2>8. QED
    BY <2>5, <2>7
<1>4. QED
  BY <1>2, <1>3

-----------------------------------------------------------------------------
(* Sequences of items *)

LEMMA Joined ==
    ASSUME NEW s \in Seq(Item), NEW t \in Seq(Item),
           NEW u, NEW n, NEW m, u = s \o t, n = Len(s), m = Len(t)
    PROVE  /\ u \in Seq(Item) /\ n \in Nat /\ m \in Nat /\ Len(u) = n + m
           /\ \A i \in 1 .. n : i \in 1 .. n + m /\ u[i] = s[i]
           /\ \A i \in n + 1 .. n + m :
                 i \in 1 .. n + m /\ i - n \in 1 .. m /\ u[i] = t[i - n]
           /\ \A i \in 1 .. n + m : i \in 1 .. n \/ i \in n + 1 .. n + m
<1>1. n \in Nat /\ m \in Nat /\ Len(u) = n + m /\ u \in Seq(Item)
  OBVIOUS
<1>2. \A i \in 1 .. n + m : u[i] = IF i <= n THEN s[i] ELSE t[i - n]
  BY ConcatProperties
<1>3. QED
  BY <1>1, <1>2

LEMMA Appended ==
    ASSUME NEW c \in Client, NEW s \in Seq(Item), NEW t \in Seq(Item), NEW a \in Nat, NEW b \in Nat,
           InOrder(c, s, a), Len(t) = b - a,
           \A i \in 1 .. Len(t) : t[i].from = c /\ t[i].what = a + i
    PROVE  InOrder(c, s \o t, b)
<1>1. PICK u, n, m : u = s \o t /\ n = Len(s) /\ m = Len(t)
  OBVIOUS
<1>2. /\ u \in Seq(Item) /\ n \in Nat /\ m \in Nat /\ Len(u) = n + m /\ m = b - a
      /\ \A i \in 1 .. n : u[i] = s[i]
      /\ \A i \in n + 1 .. n + m : u[i] = t[i - n] /\ i - n \in 1 .. m
  <2>1. /\ u \in Seq(Item) /\ n \in Nat /\ m \in Nat /\ Len(u) = n + m
        /\ \A i \in 1 .. n : i \in 1 .. n + m /\ u[i] = s[i]
        /\ \A i \in n + 1 .. n + m :
              i \in 1 .. n + m /\ i - n \in 1 .. m /\ u[i] = t[i - n]
    <3>1. s \in Seq(Item) /\ t \in Seq(Item) /\ u = s \o t /\ n = Len(s) /\ m = Len(t)
      BY <1>1
    <3>2. QED
      BY ONLY <3>1, Joined
  <2>2. QED
    BY <1>1, <2>1
<1>3. /\ \A i \in 1 .. n : u[i].from = c => u[i].what \in 1 .. a
      /\ \A k \in 1 .. a : \E i \in 1 .. n : u[i].from = c /\ u[i].what = k
      /\ \A i, j \in 1 .. n : u[i].from = c /\ u[j].from = c /\ i < j => u[i].what < u[j].what
  <2>1. PlacesOf(c, s) = {i \in 1 .. n : u[i].from = c}
    BY <1>1, <1>2 DEF PlacesOf
  <2>2. \A i \in PlacesOf(c, s) : s[i] = u[i]
    BY <1>2, <2>1
  <2>3. QED
    BY <2>1, <2>2 DEF InOrder
<1>4. \A i \in n + 1 .. n + m : u[i].from = c /\ u[i].what = a + (i - n)
  <2>1. SUFFICES ASSUME NEW i \in n + 1 .. n + m PROVE u[i].from = c /\ u[i].what = a + (i - n)
    OBVIOUS
  <2>2. u[i] = t[i - n] /\ i - n \in 1 .. Len(t)
    BY <1>1, <1>2
  <2>3. QED
    BY <2>2
<1>5. \A i, j \in PlacesOf(c, u) : i < j => u[i].what < u[j].what
  <2>1. SUFFICES ASSUME NEW i \in 1 .. n + m, NEW j \in 1 .. n + m, i < j,
                        u[i].from = c, u[j].from = c
                 PROVE  u[i].what < u[j].what
    BY <1>2 DEF PlacesOf
  <2>2. CASE j \in 1 .. n
    BY <1>2, <1>3, <2>1, <2>2
  <2>3. CASE j \in n + 1 .. n + m /\ i \in 1 .. n
    BY <1>2, <1>3, <1>4, <2>1, <2>3
  <2>4. CASE j \in n + 1 .. n + m /\ i \in n + 1 .. n + m
    BY <1>2, <1>4, <2>1, <2>4
  <2>5. QED
    BY <1>2, <2>1, <2>2, <2>3, <2>4
<1>6. ASSUME NEW i \in PlacesOf(c, u) PROVE u[i].what \in 1 .. b
  <2>1. i \in 1 .. n + m /\ u[i].from = c
    BY <1>2, <1>6 DEF PlacesOf
  <2>2. CASE i \in 1 .. n
    <3>1. u[i].what \in 1 .. a
      BY <1>3, <2>1, <2>2
    <3>2. QED
      BY <1>2, <3>1
  <2>3. CASE i \in n + 1 .. n + m
    BY <1>2, <1>4, <2>3
  <2>4. QED
    BY <1>2, <2>1, <2>2, <2>3
<1>7. ASSUME NEW k \in 1 .. b PROVE \E i \in PlacesOf(c, u) : u[i].what = k
  <2>1. CASE k <= a
    <3>1. PICK i \in 1 .. n : u[i].from = c /\ u[i].what = k
      BY <1>3, <2>1
    <3>2. i \in 1 .. Len(u)
      BY <1>2
    <3>3. QED
      BY <3>1, <3>2 DEF PlacesOf
  <2>2. CASE k > a
    <3>1. n + (k - a) \in n + 1 .. n + m /\ n + (k - a) \in 1 .. n + m
          /\ a + ((n + (k - a)) - n) = k
      BY <1>2, <2>2
    <3>2. QED
      BY <1>2, <1>4, <3>1 DEF PlacesOf
  <2>3. QED
    BY <2>1, <2>2
<1>8. {u[i].what : i \in PlacesOf(c, u)} = 1 .. b
  BY <1>6, <1>7
<1>9. QED
  BY <1>1, <1>5, <1>8 DEF InOrder

(* What does not come from c changes nothing for c, wherever it is. *)
LEMMA Inserted ==
    ASSUME NEW c \in Client, NEW s \in Seq(Item), NEW t \in Seq(Item), NEW x \in Seq(Item),
           NEW a \in Nat, InOrder(c, s \o t, a), \A i \in 1 .. Len(x) : x[i].from # c
    PROVE  InOrder(c, (s \o x) \o t, a)
<1>1. PICK u, v, n, m, l : /\ u = s \o t /\ v = (s \o x) \o t
                           /\ n = Len(s) /\ m = Len(t) /\ l = Len(x)
  OBVIOUS
<1>2. /\ n \in Nat /\ m \in Nat /\ l \in Nat /\ Len(u) = n + m /\ Len(v) = n + l + m
      /\ \A i \in 1 .. n : u[i] = s[i] /\ v[i] = s[i]
      /\ \A i \in n + 1 .. n + l : v[i] = x[i - n] /\ i - n \in 1 .. l
      /\ \A i \in n + 1 .. n + m : u[i] = t[i - n]
      /\ \A i \in n + l + 1 .. n + l + m : v[i] = t[i - (n + l)]
  <2>1. PICK y : y = s \o x
    OBVIOUS
  <2>2. y \in Seq(Item) /\ Len(y) = n + l /\ v = y \o t /\ n \in Nat /\ m \in Nat /\ l \in Nat
    BY <1>1, <2>1
  <2>3. \A i \in 1 .. n : i \in 1 .. n + l /\ y[i] = s[i]
    BY <1>1, <2>1, Joined
  <2>4. \A i \in n + 1 .. n + l : i \in 1 .. n + l /\ y[i] = x[i - n]
    BY <1>1, <2>1, Joined
  <2>5. /\ \A i \in 1 .. n + l : v[i] = y[i]
        /\ \A i \in (n + l) + 1 .. (n + l) + m : v[i] = t[i - (n + l)]
        /\ Len(v) = (n + l) + m
    <3>1. PICK k : k = n + l
      OBVIOUS
    <3>2. k = Len(y)
      BY <2>2, <3>1
    <3>3. /\ \A i \in 1 .. k : v[i] = y[i]
          /\ \A i \in k + 1 .. k + m : v[i] = t[i - k]
          /\ Len(v) = k + m
      <4>1. y \in Seq(Item) /\ t \in Seq(Item) /\ v = y \o t /\ k = Len(y) /\ m = Len(t)
        BY <1>1, <2>2, <3>2
      <4>2. QED
        BY ONLY <4>1, Joined
    <3>4. QED
      BY <3>1, <3>3
  <2>7. Len(u) = n + m
    BY <1>1, Joined
  <2>8. /\ \A i \in 1 .. n : u[i] = s[i]
        /\ \A i \in n + 1 .. n + m : u[i] = t[i - n]
    BY <1>1, Joined
  <2>9. \A i \in n + 1 .. n + l : i - n \in 1 .. l
    BY <2>2
  <2>10. QED
    BY <2>2, <2>3, <2>4, <2>5, <2>7, <2>8, <2>9
<1>3. /\ \A i \in 1 .. n : v[i] = u[i]
      /\ \A i \in n + 1 .. n + l : v[i].from # c
      /\ \A i \in n + l + 1 .. n + l + m : v[i] = u[i - l] /\ i - l \in n + 1 .. n + m
      /\ \A i \in n + 1 .. n + m : v[i + l] = u[i] /\ i + l \in n + l + 1 .. n + l + m
  <2>1. \A i \in n + l + 1 .. n + l + m : i - l \in n + 1 .. n + m /\ (i - l) - n = i - (n + l)
    BY <1>2
  <2>2. \A i \in n + 1 .. n + m : i + l \in n + l + 1 .. n + l + m /\ (i + l) - (n + l) = i - n
    BY <1>2
  <2>3. \A i \in n + 1 .. n + l : v[i].from # c
    BY <1>1, <1>2
  <2>4. QED
    BY <1>2, <2>1, <2>2, <2>3
<1>4. /\ \A i \in 1 .. n + m : u[i].from = c => u[i].what \in 1 .. a
      /\ \A k \in 1 .. a : \E i \in 1 .. n + m : u[i].from = c /\ u[i].what = k
      /\ \A i, j \in 1 .. n + m : u[i].from = c /\ u[j].from = c /\ i < j => u[i].what < u[j].what
  BY <1>1, <1>2 DEF InOrder, PlacesOf
<1>5. \A i \in PlacesOf(c, v) : \/ i \in 1 .. n
                                \/ i \in n + l + 1 .. n + l + m
  BY <1>2, <1>3 DEF PlacesOf
<1>6. ASSUME NEW i \in PlacesOf(c, v), NEW j \in PlacesOf(c, v), i < j PROVE v[i].what < v[j].what
  <2>1. v[i].from = c /\ v[j].from = c
    BY <1>6 DEF PlacesOf
  <2>2. CASE i \in 1 .. n /\ j \in 1 .. n
    <3>1. i \in 1 .. n + m /\ j \in 1 .. n + m
      BY <1>2, <2>2
    <3>2. QED
      BY <1>3, <1>4, <1>6, <2>1, <2>2, <3>1
  <2>3. CASE i \in 1 .. n /\ j \in n + l + 1 .. n + l + m
    <3>1. i \in 1 .. n + m /\ j - l \in 1 .. n + m /\ i < j - l
      BY <1>2, <2>3, SMTT(30)
    <3>2. QED
      BY <1>3, <1>4, <2>1, <2>3, <3>1, SMTT(30)
  <2>4. CASE i \in n + l + 1 .. n + l + m /\ j \in n + l + 1 .. n + l + m
    <3>1. i \in Nat /\ j \in Nat /\ i < j
      BY <1>2, <1>6, <2>4
    <3>2. i - l \in 1 .. n + m /\ j - l \in 1 .. n + m /\ i - l < j - l
      BY <1>2, <2>4, <3>1
    <3>3. v[i] = u[i - l] /\ v[j] = u[j - l]
      BY <1>3, <2>4
    <3>4. QED
      BY <1>4, <2>1, <3>2, <3>3
  <2>5. QED
    BY <1>2, <1>5, <1>6, <2>2, <2>3, <2>4
<1>7. ASSUME NEW i \in PlacesOf(c, v) PROVE v[i].what \in 1 .. a
  <2>1. CASE i \in 1 .. n
    <3>1. v[i].from = c
      BY <1>7 DEF PlacesOf
    <3>2. v[i] = u[i]
      BY <1>3, <2>1
    <3>3. i \in 1 .. n + m
      BY <1>2, <2>1
    <3>4. QED
      BY <1>4, <3>1, <3>2, <3>3
  <2>2. CASE i \in n + l + 1 .. n + l + m
    <3>1. v[i].from = c
      BY <1>7 DEF PlacesOf
    <3>2. v[i] = u[i - l] /\ i - l \in n + 1 .. n + m
      BY <1>3, <2>2
    <3>3. i - l \in 1 .. n + m
      BY <1>2, <3>2
    <3>4. QED
      BY <1>4, <3>1, <3>2, <3>3
  <2>3. QED
    BY <1>5, <1>7, <2>1, <2>2
<1>8. ASSUME NEW k \in 1 .. a PROVE \E i \in PlacesOf(c, v) : v[i].what = k
  <2>1. PICK i \in 1 .. n + m : u[i].from = c /\ u[i].what = k
    BY <1>4
  <2>2. CASE i \in 1 .. n
    <3>1. i \in 1 .. n + l + m /\ Len(v) = n + l + m
      BY <1>2, <2>2
    <3>2. v[i] = u[i]
      BY <1>3, <2>2
    <3>3. i \in PlacesOf(c, v)
      BY <2>1, <3>1, <3>2 DEF PlacesOf
    <3>4. QED
      BY <2>1, <3>2, <3>3
  <2>3. CASE i \in n + 1 .. n + m
    <3>1. i + l \in 1 .. n + l + m /\ Len(v) = n + l + m
      BY <1>2, <2>3
    <3>2. v[i + l] = u[i]
      BY <1>3, <2>3
    <3>3. i + l \in PlacesOf(c, v)
      BY <2>1, <3>1, <3>2 DEF PlacesOf
    <3>4. QED
      BY <2>1, <3>2, <3>3
  <2>4. QED
    BY <1>2, <2>1, <2>2, <2>3
<1>9. {v[i].what : i \in PlacesOf(c, v)} = 1 .. a
  BY <1>7, <1>8
<1>10. QED
  BY <1>1, <1>6, <1>9 DEF InOrder

(* Nothing has been received from c: the items hold nothing of c. *)
LEMMA NothingYet ==
    ASSUME NEW c \in Client, NEW s \in Seq(Item), NEW t \in Seq(Item), NEW x \in Seq(Item),
           InOrder(c, s \o t, 0), \A i \in 1 .. Len(x) : x[i].from # c
    PROVE  InOrder(c, s \o x, 0)
<1>1. PICK u, v, n, m : u = s \o t /\ v = s \o x /\ n = Len(s) /\ m = Len(t)
  OBVIOUS
<1>2. /\ n \in Nat /\ m \in Nat /\ Len(u) = n + m
      /\ \A i \in 1 .. n : i \in 1 .. n + m /\ u[i] = s[i] /\ v[i] = s[i]
      /\ Len(v) = n + Len(x) /\ Len(x) \in Nat
      /\ \A i \in n + 1 .. n + Len(x) : v[i] = x[i - n] /\ i - n \in 1 .. Len(x)
  BY <1>1
<1>3. PlacesOf(c, u) = {}
  <2>1. \A i \in PlacesOf(c, u) : u[i].what \in 1 .. 0
    BY <1>1 DEF InOrder
  <2>2. QED
    BY <2>1
<1>4. \A i \in 1 .. n : v[i].from # c
  BY <1>2, <1>3 DEF PlacesOf
<1>5. PlacesOf(c, v) = {}
  BY <1>2, <1>4 DEF PlacesOf
<1>6. QED
  BY <1>1, <1>5 DEF InOrder

(* printf(): a first part of the buffer and the new items is written, the  *)
(* rest stays; a message on a terminal is written at once.                 *)
LEMMA PrintFacts ==
    ASSUME EchoType, NEW p \in Process, NEW items \in Seq(Item), printf(p, items)
    PROVE  \E A, B \in Seq(Item) :
              /\ buffer[p] \o items = A \o B
              /\ output' = output \o A /\ buffer' = [buffer EXCEPT ![p] = B] /\ tty' = tty
              /\ tty /\ buffer[p] = << >> /\ Len(items) = 1 /\ items[1].nl => A = items /\ B = << >>
<1>1. PICK all, f, A, B : /\ all = buffer[p] \o items /\ f = Flushed(all)
                          /\ A = SubSeq(all, 1, f) /\ B = SubSeq(all, f + 1, Len(all))
  OBVIOUS
<1>2. buffer[p] \in Seq(Item) /\ all \in Seq(Item) /\ Len(all) \in Nat
  BY <1>1 DEF EchoType
<1>3. f \in 0 .. Len(all)
  BY <1>1, <1>2, FlushedFacts
<1>4. A \in Seq(Item) /\ B \in Seq(Item)
  BY <1>1, <1>2, <1>3, SMTT(30)
<1>5. A \o B = all
  <2>1. 1 \in 1 .. Len(all) + 1 /\ f \in 1 - 1 .. Len(all) /\ Len(all) \in f .. Len(all)
    BY <1>2, <1>3
  <2>2. A \o B = SubSeq(all, 1, Len(all))
    BY <1>1, <1>2, <2>1, ConcatAdjacentSubSeq
  <2>3. QED
    BY <1>2, <2>2, SubSeqFull
<1>6. output' = output \o A /\ buffer' = [buffer EXCEPT ![p] = B] /\ tty' = tty
  BY <1>1 DEF printf
<1>7. ASSUME tty, buffer[p] = << >>, Len(items) = 1, items[1].nl
      PROVE  A = items /\ B = << >>
  <2>1. all = items
    BY <1>1, <1>7
  <2>2. f = 1
    BY <1>1, <1>7, <2>1, FlushedFacts
  <2>3. A = items
    BY <1>1, <1>7, <2>1, <2>2, SubSeqFull
  <2>4. B = << >>
    BY <1>1, <1>7, <2>1, <2>2, SubSeqEmpty
  <2>5. QED
    BY <2>3, <2>4
<1>8. QED
  BY <1>1, <1>4, <1>5, <1>6, <1>7

(* Each item of the two parts is an item of the buffer or a new one. *)
LEMMA PartsFrom ==
    ASSUME NEW s \in Seq(Item), NEW t \in Seq(Item), NEW A \in Seq(Item), NEW B \in Seq(Item),
           s \o t = A \o B, NEW P,
           \A i \in 1 .. Len(s) : s[i].from \in P, \A i \in 1 .. Len(t) : t[i].from \in P
    PROVE  /\ \A i \in 1 .. Len(A) : A[i].from \in P
           /\ \A i \in 1 .. Len(B) : B[i].from \in P
<1>1. PICK u, n, m, k, l : /\ u = s \o t /\ n = Len(s) /\ m = Len(t) /\ k = Len(A) /\ l = Len(B)
  OBVIOUS
<1>2. /\ n \in Nat /\ m \in Nat /\ k \in Nat /\ l \in Nat
      /\ Len(u) = n + m /\ Len(u) = k + l
  BY <1>1
<1>3. /\ \A i \in 1 .. n + m : u[i] = IF i <= n THEN s[i] ELSE t[i - n]
      /\ \A i \in 1 .. k + l : u[i] = IF i <= k THEN A[i] ELSE B[i - k]
  BY <1>1, ConcatProperties
<1>4. \A i \in 1 .. n + m : u[i].from \in P
  <2>1. SUFFICES ASSUME NEW i \in 1 .. n + m PROVE u[i].from \in P
    OBVIOUS
  <2>2. CASE i <= n
    <3>1. i \in 1 .. Len(s) /\ u[i] = s[i]
      BY <1>1, <1>2, <1>3, <2>2
    <3>2. QED
      BY <3>1
  <2>3. CASE i > n
    <3>1. i - n \in 1 .. Len(t) /\ u[i] = t[i - n]
      BY <1>1, <1>2, <1>3, <2>3
    <3>2. QED
      BY <3>1
  <2>4. QED
    BY <1>2, <2>2, <2>3
<1>5. \A i \in 1 .. k : i \in 1 .. n + m /\ u[i] = A[i]
  BY <1>2, <1>3
<1>6. \A i \in 1 .. l : k + i \in 1 .. n + m /\ u[k + i] = B[i]
  <2>1. \A i \in 1 .. l : k + i \in 1 .. k + l /\ (k + i) - k = i /\ ~(k + i <= k)
    BY <1>2
  <2>2. QED
    BY <1>2, <1>3, <2>1
<1>7. QED
  BY <1>1, <1>4, <1>5, <1>6

(* A process prints items of its own: what it has printed so far, and what *)
(* it adds, stays in order, and the others' output is not disturbed.       *)
LEMMA PrintOrder ==
    ASSUME EchoType, OwnInv, OutputInOrder, NEW p \in Process, NEW A \in Seq(Item), NEW B \in Seq(Item),
           \A i \in 1 .. Len(A) : A[i].from \in {p, Main},
           output' = output \o A, buffer' = [buffer EXCEPT ![p] = B], NEW d \in Client, d # p
    PROVE  InOrder(d, output' \o buffer'[d], received[d])
<1>1. d # Main /\ d \in Process /\ buffer'[d] = buffer[d]
  BY EchoAssumption DEF Process, EchoType
<1>2. output \in Seq(Item) /\ buffer[d] \in Seq(Item) /\ received[d] \in Nat
  BY <1>1 DEF EchoType
<1>3. InOrder(d, output \o buffer[d], received[d])
  BY DEF OutputInOrder
<1>4. \A i \in 1 .. Len(A) : A[i].from # d
  BY <1>1
<1>5. QED
  BY <1>1, <1>2, <1>3, <1>4, Inserted

LEMMA OwnKept ==
    ASSUME EchoType, OwnInv, NEW p \in Process, NEW B \in Seq(Item),
           \A i \in 1 .. Len(B) : B[i].from \in {p, Main},
           tty => PlacesOf(Main, B) = {},
           buffer' = [buffer EXCEPT ![p] = B], tty' = tty,
           \A c \in Client : proc'[c] = "none" => received'[c] = 0
    PROVE  OwnInv'
<1>1. \A q \in Process : buffer'[q] = IF q = p THEN B ELSE buffer[q]
  BY DEF EchoType
<1>2. \A q \in Process : \A i \in 1 .. Len(buffer'[q]) : buffer'[q][i].from \in {q, Main}
  BY <1>1 DEF OwnInv
<1>3. tty' => \A q \in Process : PlacesOf(Main, buffer'[q]) = {}
  BY <1>1 DEF OwnInv
<1>4. QED
  BY <1>2, <1>3 DEF OwnInv, PlacesOf

-----------------------------------------------------------------------------
(* Initial states *)

LEMMA EchoStarts == Init => EchoInv
<1> SUFFICES ASSUME Init PROVE EchoInv
  OBVIOUS
<1>1. ServerInv
  BY ServerStarts DEF Init
<1>2. EchoType
  <2>1. typed \in [Client -> Seq(Char \cup {NL})]
    BY EchoAssumption DEF Init
  <2>2. << >> \in Seq(Item) /\ << >> \in Seq(Char \cup {NL})
    OBVIOUS
  <2>3. sent \in [Client -> Seq(Char \cup {NL})] /\ buffer \in [Process -> Seq(Item)]
    BY <2>2 DEF Init, Process
  <2>4. tty \in BOOLEAN /\ prev_nl \in [Client -> BOOLEAN] /\ output \in Seq(Item)
    BY <2>2 DEF Init
  <2>5. client \in [Client -> {"new", "reading", "exited"}] /\ received \in [Client -> Nat]
    BY DEF Init
  <2>6. input \in [Client -> Seq(Char \cup {NL})]
    BY <2>1 DEF Init
  <2>7. QED
    BY <2>1, <2>3, <2>4, <2>5, <2>6 DEF EchoType
<1>3. ASSUME NEW c \in Client PROVE LineInv(c)
  <2>1. sent[c] = << >> /\ input[c] = typed[c] /\ typed[c] \in Seq(Char \cup {NL})
    BY <1>2 DEF Init, EchoType
  <2>2. Len(sent[c]) = 0 /\ Len(typed[c]) \in Nat
    BY <2>1
  <2>3. \A i \in DoubleEnters(typed[c]) : i >= 0
    BY <2>2 DEF DoubleEnters
  <2>4. QED
    BY <2>1, <2>2, <2>3 DEF LineInv
<1>4. \A c \in Client : client[c] = "new"
  BY DEF Init
<1>5. \A p \in Process : buffer[p] = << >>
  BY DEF Init, Process
<1>6. output = << >> /\ backlog = << >> /\ \A c \in Client : received[c] = 0
  BY DEF Init, ServerInit
<1>7. OwnInv
  BY <1>5, <1>6 DEF OwnInv, PlacesOf
<1>8. MessageInv
  BY <1>6 DEF MessageInv, PlacesOf
<1>9. OutputInOrder
  <2>1. \A c \in Client : output \o buffer[c] = << >>
    <3>1. << >> \o << >> = << >>
      BY ConcatEmptySeq
    <3>2. QED
      BY <1>5, <1>6, <3>1 DEF Process
  <2>2. \A c \in Client : InOrder(c, << >>, 0)
    BY DEF InOrder, PlacesOf
  <2>3. QED
    BY <1>6, <2>1, <2>2 DEF OutputInOrder, PlacesOf
<1>10. QED
  BY <1>1, <1>2, <1>3, <1>4, <1>7, <1>8, <1>9 DEF EchoInv

-----------------------------------------------------------------------------
(* The client *)

LEMMA SentLine ==
    ASSUME EchoInv, NEW c \in Client, SendLine(c)
    PROVE  /\ typed' = typed /\ \A d \in Client : LineInv(d)'
           /\ sent' \in [Client -> Seq(Char \cup {NL})] /\ input' \in [Client -> Seq(Char \cup {NL})]
           /\ prev_nl' \in [Client -> BOOLEAN]
<1> DEFINE S == Char \cup {NL}
<1>1. PICK s, t, y, n : s = input[c] /\ t = typed[c] /\ y = sent[c] /\ n = FirstLine(s)
  OBVIOUS
<1>2. /\ s \in Seq(S) /\ t \in Seq(S) /\ y \in Seq(S) /\ s # << >>
      /\ sent' = [sent EXCEPT ![c] = y \o SubSeq(s, 1, n)]
      /\ input' = [input EXCEPT ![c] = SubSeq(s, n + 1, Len(s))]
      /\ prev_nl' = [prev_nl EXCEPT ![c] = (s[n] = NL)]
      /\ typed' = typed
      /\ ~IsDoubleEnter(c) /\ LineInv(c)
  BY <1>1 DEF SendLine, AfterLine, EchoInv, EchoType
<1>3. /\ n \in 1 .. Len(s) /\ Len(s) \in Nat
      /\ \A k \in 1 .. n - 1 : s[k] # NL
  BY <1>1, <1>2, LineFacts
<1>4. PICK a, l, m, A, B : /\ a = Len(y) /\ l = Len(s) /\ m = Len(t)
                           /\ A = SubSeq(s, 1, n) /\ B = SubSeq(s, n + 1, Len(s))
  OBVIOUS
<1>a. /\ Len(y) <= Len(t) /\ Len(s) = Len(t) - Len(y)
      /\ \A i \in 1 .. Len(y) : y[i] = t[i]
      /\ \A i \in 1 .. Len(s) : s[i] = t[Len(y) + i]
      /\ Len(y) > 0 => (prev_nl[c] <=> t[Len(y)] = NL)
      /\ \A i \in DoubleEnters(t) : i >= Len(y)
  BY <1>1, <1>2 DEF LineInv
<1>b. Len(y) \in Nat /\ Len(s) \in Nat /\ Len(t) \in Nat
  BY <1>2
<1>5. /\ a \in Nat /\ l \in Nat /\ m \in Nat /\ n \in Nat /\ 1 <= n /\ n <= l /\ l = m - a
      /\ \A i \in 1 .. a : y[i] = t[i]
      /\ \A i \in 1 .. l : s[i] = t[a + i]
      /\ a > 0 => (prev_nl[c] <=> t[a] = NL)
      /\ \A i \in DoubleEnters(t) : i >= a
  BY <1>3, <1>4, <1>a, <1>b
<1> HIDE DEF S
<1>c. \A i \in 1 .. l : s[i] \in S
  BY <1>2, <1>4
<1>6. A \in Seq(S) /\ Len(A) = n /\ \A i \in 1 .. n : A[i] = s[i]
  <2>1. /\ \A i \in 1 .. n : s[i] \in S
        /\ 1 \in Int /\ n \in Int /\ n - 1 + 1 = n /\ \A i \in 1 .. n : 1 + i - 1 = i
    BY <1>5, <1>c
  <2>2. QED
    BY <1>4, <1>5, <2>1, SubSeqProperties
<1>7. B \in Seq(S) /\ Len(B) = l - n /\ \A i \in 1 .. l - n : B[i] = s[n + i]
  <2>1. /\ \A i \in n + 1 .. l : s[i] \in S
        /\ n + 1 \in Int /\ l \in Int /\ l - (n + 1) + 1 = l - n
        /\ \A i \in 1 .. l - n : (n + 1) + i - 1 = n + i
    BY <1>5, <1>c
  <2>2. /\ B \in Seq(S) /\ Len(B) = IF n + 1 <= l THEN l - (n + 1) + 1 ELSE 0
        /\ \A i \in 1 .. l - (n + 1) + 1 : B[i] = s[(n + 1) + i - 1]
    BY <1>4, <2>1, SubSeqProperties
  <2>3. Len(B) = l - n
    BY <1>5, <2>2
  <2>4. QED
    BY <2>1, <2>2, <2>3
<1>8. PICK z : z = y \o A
  OBVIOUS
<1>9. /\ z \in Seq(S) /\ Len(z) = a + n
      /\ \A i \in 1 .. a + n : z[i] = IF i <= a THEN y[i] ELSE A[i - a]
  BY <1>2, <1>4, <1>6, <1>8, ConcatProperties, SMTT(30)
<1>10. \A i \in 1 .. a + n : z[i] = t[i]
  <2>1. SUFFICES ASSUME NEW i \in 1 .. a + n PROVE z[i] = t[i]
    OBVIOUS
  <2>2. CASE i <= a
    BY <1>5, <1>9, <2>2
  <2>3. CASE i > a
    <3>1. i - a \in 1 .. n /\ i - a \in 1 .. l /\ a + (i - a) = i
      BY <1>5, <2>3
    <3>2. QED
      BY <1>5, <1>6, <1>9, <2>3, <3>1
  <2>4. QED
    BY <1>5, <2>2, <2>3
<1>11. \A i \in 1 .. l - n : B[i] = t[(a + n) + i]
  <2>1. \A i \in 1 .. l - n : n + i \in 1 .. l /\ a + (n + i) = (a + n) + i
    BY <1>5
  <2>2. QED
    BY <1>5, <1>7, <2>1
<1>12. t[a + n] = s[n]
  <2>1. n \in 1 .. l
    BY <1>5
  <2>2. QED
    BY <1>5, <2>1
<1>13. ASSUME NEW i \in DoubleEnters(t) PROVE i >= a + n
  <2>1. /\ i \in Nat /\ i >= a /\ i + 1 <= m /\ t[i] = NL /\ t[i + 1] = NL
    <3>1. i \in 1 .. m - 1 /\ t[i] = NL /\ t[i + 1] = NL
      BY <1>4, <1>13 DEF DoubleEnters
    <3>2. i >= a
      BY <1>5
    <3>3. QED
      BY <1>5, <3>1, <3>2
  <2>2. CASE i = a
    <3>1. a > 0
      BY <1>4, <1>5, <1>13, <2>2 DEF DoubleEnters
    <3>2. s[1] = t[a + 1] /\ Head(s) = s[1]
      <4>1. 1 \in 1 .. l
        BY <1>5
      <4>2. QED
        BY <1>2, <1>5, <4>1
    <3>3. prev_nl[c] /\ Head(s) = NL
      BY <1>5, <2>1, <2>2, <3>1, <3>2
    <3>4. QED
      BY <1>1, <1>2, <3>3 DEF IsDoubleEnter
  <2>3. CASE i > a /\ i < a + n
    <3>1. i - a \in 1 .. n - 1 /\ i - a \in 1 .. l /\ a + (i - a) = i
      BY <1>5, <2>1, <2>3
    <3>2. s[i - a] = NL
      BY <1>5, <2>1, <3>1
    <3>3. QED
      BY <1>3, <3>1, <3>2
  <2>4. QED
    BY <1>5, <2>1, <2>2, <2>3
<1>14. /\ sent' = [sent EXCEPT ![c] = z] /\ input' = [input EXCEPT ![c] = B]
       /\ sent'[c] = z /\ input'[c] = B /\ typed'[c] = t /\ (prev_nl'[c] <=> s[n] = NL)
       /\ prev_nl' \in [Client -> BOOLEAN]
  <2>1. sent' = [sent EXCEPT ![c] = z] /\ input' = [input EXCEPT ![c] = B]
    BY <1>2, <1>4, <1>8
  <2>2. sent'[c] = z /\ input'[c] = B /\ typed'[c] = t
    BY <1>1, <1>2, <2>1 DEF EchoInv, EchoType
  <2>3. (prev_nl'[c] <=> s[n] = NL) /\ prev_nl' \in [Client -> BOOLEAN]
    BY <1>2 DEF EchoInv, EchoType
  <2>4. QED
    BY <2>1, <2>2, <2>3
<1>15. LineInv(c)'
  <2>1. Len(z) = a + n /\ Len(B) = m - (a + n) /\ a + n <= m /\ a + n > 0
    BY <1>5, <1>7, <1>9
  <2>2. \A i \in DoubleEnters(t) : i >= Len(z)
    BY <1>13, <2>1
  <2>3. Len(z) <= Len(t) /\ Len(B) = Len(t) - Len(z)
    BY <1>4, <2>1
  <2>4. \A i \in 1 .. Len(z) : z[i] = t[i]
    BY <1>10, <2>1
  <2>5. \A i \in 1 .. Len(B) : B[i] = t[Len(z) + i]
    BY <1>7, <1>11, <2>1
  <2>6. prev_nl'[c] <=> t[Len(z)] = NL
    BY <1>12, <1>14, <2>1
  <2>7. QED
    BY <1>14, <2>2, <2>3, <2>4, <2>5, <2>6 DEF LineInv, DoubleEnters
<1>16. ASSUME NEW d \in Client, d # c PROVE LineInv(d)'
  <2>1. sent'[d] = sent[d] /\ input'[d] = input[d] /\ typed'[d] = typed[d]
        /\ prev_nl'[d] = prev_nl[d]
    BY <1>2, <1>16 DEF EchoInv, EchoType
  <2>2. LineInv(d)
    BY DEF EchoInv
  <2>3. QED
    BY <2>1, <2>2 DEF LineInv, DoubleEnters
<1>17. sent' \in [Client -> Seq(S)] /\ input' \in [Client -> Seq(S)]
  BY <1>7, <1>9, <1>14 DEF EchoInv, EchoType, S
<1>18. QED
  BY <1>2, <1>14, <1>15, <1>16, <1>17 DEF S

(* Steps of the server leave the clients' lines alone. *)
LEMMA LinesKept ==
    ASSUME EchoInv, UNCHANGED <<typed, input, sent, prev_nl>>,
           \A c \in Client : client'[c] = "exited" => client[c] = "exited"
    PROVE  /\ \A c \in Client : LineInv(c)'
           /\ \A c \in Client : client'[c] = "exited" => input'[c] = << >> \/ IsDoubleEnter(c)'
  BY DEF EchoInv, LineInv, IsDoubleEnter, DoubleEnters

-----------------------------------------------------------------------------
(* The server's messages *)

(* Nothing of the parent's is added to the output. *)
LEMMA NoMessages ==
    ASSUME NEW s \in Seq(Item), NEW A \in Seq(Item), \A i \in 1 .. Len(A) : A[i].from # Main,
           NEW u, u = s \o A
    PROVE  /\ PlacesOf(Main, u) = PlacesOf(Main, s)
           /\ \A i \in PlacesOf(Main, s) : u[i] = s[i]
<1>1. PICK n, m : n = Len(s) /\ m = Len(A)
  OBVIOUS
<1>2. /\ u \in Seq(Item) /\ n \in Nat /\ m \in Nat /\ Len(u) = n + m
      /\ \A i \in 1 .. n : i \in 1 .. n + m /\ u[i] = s[i]
      /\ \A i \in n + 1 .. n + m : i \in 1 .. n + m /\ i - n \in 1 .. m /\ u[i] = A[i - n]
      /\ \A i \in 1 .. n + m : i \in 1 .. n \/ i \in n + 1 .. n + m
  BY <1>1, Joined
<1>3. \A i \in n + 1 .. n + m : u[i].from # Main
  BY <1>1, <1>2
<1>4. QED
  BY <1>1, <1>2, <1>3 DEF PlacesOf

LEMMA MessagesKept ==
    ASSUME EchoInv, NEW A \in Seq(Item), tty => \A i \in 1 .. Len(A) : A[i].from # Main,
           output' = output \o A \/ output' = output, tty' = tty, UNCHANGED clients,
           main' = main \/ main' # "boot",
           \A j \in 1 .. Len(backlog') : \E k \in 1 .. Len(backlog) : backlog'[j] = backlog[k]
    PROVE  /\ MessageInv'
           /\ tty' => \A i, j \in PlacesOf(Main, output') : output'[i] = output'[j] => i = j
<1>1. output \in Seq(Item) /\ client' = client
  BY DEF EchoInv, EchoType, clients
<1>2. tty => /\ PlacesOf(Main, output') = PlacesOf(Main, output)
             /\ \A i \in PlacesOf(Main, output) : output'[i] = output[i]
  BY <1>1, NoMessages
<1>3. tty' => \A i, j \in PlacesOf(Main, output') : output'[i] = output'[j] => i = j
  BY <1>2 DEF EchoInv, OutputInOrder
<1>4. \A j \in 1 .. Len(backlog') : client'[backlog'[j]] # "new"
  BY <1>1 DEF EchoInv, MessageInv
<1>5. tty' => \A i \in PlacesOf(Main, output') :
          \/ output'[i].what = WAITING /\ main' # "boot"
          \/ /\ output'[i].what \in Client /\ client'[output'[i].what] # "new"
             /\ \A j \in 1 .. Len(backlog') : backlog'[j] # output'[i].what
  <2>1. SUFFICES ASSUME tty, NEW i \in PlacesOf(Main, output)
                 PROVE  \/ output[i].what = WAITING /\ main' # "boot"
                        \/ /\ output[i].what \in Client /\ client[output[i].what] # "new"
                           /\ \A j \in 1 .. Len(backlog') : backlog'[j] # output[i].what
    BY <1>1, <1>2
  <2>2. \/ output[i].what = WAITING /\ main # "boot"
        \/ /\ output[i].what \in Client /\ client[output[i].what] # "new"
           /\ \A j \in 1 .. Len(backlog) : backlog[j] # output[i].what
    BY <2>1 DEF EchoInv, MessageInv
  <2>3. CASE output[i].what = WAITING /\ main # "boot"
    BY <2>3
  <2>4. CASE /\ output[i].what \in Client /\ client[output[i].what] # "new"
             /\ \A j \in 1 .. Len(backlog) : backlog[j] # output[i].what
    BY <2>4
  <2>5. QED
    BY <2>2, <2>3, <2>4
<1>6. QED
  BY <1>3, <1>4, <1>5 DEF MessageInv, PlacesOf

LEMMA MessageItem ==
    ASSUME NEW w \in Client \cup {WAITING}
    PROVE  /\ Message(w) \in Seq(Item) /\ Len(Message(w)) = 1
           /\ Message(w)[1].from = Main /\ Message(w)[1].what = w /\ Message(w)[1].nl
<1>1. PICK x : x = [from |-> Main, what |-> w, nl |-> TRUE]
  OBVIOUS
<1>2. x \in Item
  BY <1>1 DEF Item, Process
<1>3. Message(w) = <<x>>
  BY <1>1 DEF Message
<1>4. QED
  BY <1>1, <1>2, <1>3

(* The parent prints a message that is not yet in the output. *)
LEMMA ParentPrints ==
    ASSUME EchoInv, NEW w \in Client \cup {WAITING}, printf(Main, Message(w)),
           UNCHANGED <<clients, received, proc>>,
           tty => \A i \in PlacesOf(Main, output) : output[i].what # w
    PROVE  /\ EchoType' /\ OwnInv' /\ OutputInOrder' /\ tty' = tty
           /\ tty => \A i \in PlacesOf(Main, output') :
                        \/ output'[i].what = w
                        \/ \E j \in PlacesOf(Main, output) : output'[i] = output[j]
<1>0. EchoType /\ OwnInv /\ OutputInOrder /\ Main \in Process /\ output \in Seq(Item)
  BY DEF EchoInv, Process, EchoType
<1>1. PICK A \in Seq(Item), B \in Seq(Item) :
          /\ buffer[Main] \o Message(w) = A \o B
          /\ output' = output \o A /\ buffer' = [buffer EXCEPT ![Main] = B] /\ tty' = tty
          /\ tty /\ buffer[Main] = << >> /\ Len(Message(w)) = 1 /\ Message(w)[1].nl
                => A = Message(w) /\ B = << >>
  BY <1>0, MessageItem, PrintFacts
<1>2. buffer[Main] \in Seq(Item) /\ \A i \in 1 .. Len(buffer[Main]) : buffer[Main][i].from = Main
  BY <1>0 DEF EchoType, OwnInv
<1>3. tty => A = Message(w) /\ B = << >>
  <2>1. tty => PlacesOf(Main, buffer[Main]) = {}
    BY <1>0 DEF OwnInv
  <2>2. tty => Len(buffer[Main]) = 0
    BY <1>2, <2>1 DEF PlacesOf
  <2>3. tty => buffer[Main] = << >>
    BY <1>2, <2>2
  <2>4. QED
    BY <1>1, <2>3, MessageItem
<1>4. /\ \A i \in 1 .. Len(A) : A[i].from \in {Main}
      /\ \A i \in 1 .. Len(B) : B[i].from \in {Main}
  <2>1. \A i \in 1 .. Len(buffer[Main]) : buffer[Main][i].from \in {Main}
    BY <1>2
  <2>2. Message(w) \in Seq(Item) /\ \A i \in 1 .. Len(Message(w)) : Message(w)[i].from \in {Main}
    BY MessageItem
  <2>3. PICK s, t, P : s = buffer[Main] /\ t = Message(w) /\ P = {Main}
    OBVIOUS
  <2>4. /\ s \in Seq(Item) /\ t \in Seq(Item) /\ A \in Seq(Item) /\ B \in Seq(Item)
        /\ s \o t = A \o B
        /\ \A i \in 1 .. Len(s) : s[i].from \in P
        /\ \A i \in 1 .. Len(t) : t[i].from \in P
    BY <1>1, <1>2, <2>1, <2>2, <2>3
  <2>5. /\ \A i \in 1 .. Len(A) : A[i].from \in P
        /\ \A i \in 1 .. Len(B) : B[i].from \in P
    BY ONLY <2>4, PartsFrom
  <2>6. QED
    BY <2>3, <2>5
<1>5. EchoType'
  <2>1. buffer' \in [Process -> Seq(Item)] /\ output' \in Seq(Item)
    BY <1>0, <1>1 DEF EchoType
  <2>2. QED
    BY <1>0, <1>1, <2>1 DEF EchoType, clients
<1>6. OwnInv'
  <2>1. tty => PlacesOf(Main, B) = {}
    BY <1>3 DEF PlacesOf
  <2>2. \A i \in 1 .. Len(B) : B[i].from \in {Main, Main}
    BY <1>4
  <2>3. \A c \in Client : proc'[c] = "none" => received'[c] = 0
    BY <1>0 DEF OwnInv
  <2>4. QED
    BY <1>0, <1>1, <2>1, <2>2, <2>3, OwnKept
<1>7. ASSUME NEW d \in Client PROVE InOrder(d, output' \o buffer'[d], received'[d])
  <2>1. d # Main /\ \A i \in 1 .. Len(A) : A[i].from \in {Main, Main}
    BY <1>4, EchoAssumption
  <2>2. QED
    BY <1>0, <1>1, <2>1, PrintOrder
<1>8. PICK n : n = Len(output)
  OBVIOUS
<1>9. tty => /\ n \in Nat /\ Len(output') = n + 1 /\ output'[n + 1].what = w
             /\ \A i \in 1 .. n : output'[i] = output[i]
  <2>1. ASSUME tty PROVE /\ n \in Nat /\ Len(output') = n + 1
                         /\ output'[n + 1] = Message(w)[1] /\ \A i \in 1 .. n : output'[i] = output[i]
    <3>1. output' = output \o Message(w)
      BY <1>1, <1>3, <2>1
    <3>2. Message(w) \in Seq(Item) /\ Len(Message(w)) = 1
      BY MessageItem
    <3>3. PICK s, t, u, m : s = output /\ t = Message(w) /\ u = output' /\ m = 1
      OBVIOUS
    <3>4. s \in Seq(Item) /\ t \in Seq(Item) /\ u = s \o t /\ n = Len(s) /\ m = Len(t)
      BY <1>0, <1>8, <3>1, <3>2, <3>3
    <3>5. /\ n \in Nat /\ Len(u) = n + m
          /\ \A i \in 1 .. n : u[i] = s[i]
          /\ \A i \in n + 1 .. n + m : u[i] = t[i - n]
      BY ONLY <3>4, Joined
    <3>6. n + 1 \in n + 1 .. n + m /\ (n + 1) - n = 1
      BY <3>3, <3>5
    <3>7. u[n + 1] = t[1]
      BY <3>5, <3>6
    <3>8. QED
      BY <3>3, <3>5, <3>7
  <2>2. QED
    BY <2>1, MessageItem
<1>10. ASSUME tty, NEW i \in PlacesOf(Main, output')
       PROVE  \/ i = n + 1
              \/ i \in PlacesOf(Main, output) /\ output'[i] = output[i]
  BY <1>8, <1>9, <1>10 DEF PlacesOf
<1>11. tty => \A i \in PlacesOf(Main, output') :
                 \/ output'[i].what = w
                 \/ \E j \in PlacesOf(Main, output) : output'[i] = output[j]
  BY <1>9, <1>10
<1>12. tty => \A i, j \in PlacesOf(Main, output') : output'[i] = output'[j] => i = j
  <2>1. SUFFICES ASSUME tty, NEW i \in PlacesOf(Main, output'), NEW j \in PlacesOf(Main, output'),
                        output'[i] = output'[j]
                 PROVE  i = j
    OBVIOUS
  <2>2. \A k \in PlacesOf(Main, output) : output[k].what # w
    BY <2>1
  <2>3. output'[n + 1].what = w
    BY <1>9, <2>1
  <2>4. QED
    BY <1>0, <1>10, <2>1, <2>2, <2>3 DEF OutputInOrder
<1>13. OutputInOrder'
  BY <1>1, <1>7, <1>12 DEF OutputInOrder, InOrder, PlacesOf
<1>14. QED
  BY <1>1, <1>5, <1>6, <1>11, <1>13

LEMMA OrderKept ==
    ASSUME OutputInOrder, output' = output, buffer' = buffer, received' = received, tty' = tty
    PROVE  OutputInOrder'
<1>1. \A d \in Client : InOrder(d, output' \o buffer'[d], received'[d])
  BY DEF OutputInOrder
<1>2. tty' => \A i, j \in PlacesOf(Main, output') : output'[i] = output'[j] => i = j
  BY DEF OutputInOrder
<1>3. QED
  BY <1>1, <1>2 DEF OutputInOrder, InOrder, PlacesOf

-----------------------------------------------------------------------------
(* The steps of the server *)

LEMMA BootKeeps ==
    ASSUME EchoInv, Boot
    PROVE  EchoInv'
<1>1. ServerInv'
  BY ListeningPreserves DEF EchoInv, Boot
<1>2. /\ printf(Main, Message(WAITING)) /\ UNCHANGED <<clients, received, proc, backlog>>
      /\ main = "boot" /\ main' = "accept" /\ MessageInv
  BY DEF Boot, Listening, EchoInv
<1>3. tty => \A i \in PlacesOf(Main, output) :
          /\ output[i].what \in Client /\ client[output[i].what] # "new"
          /\ \A j \in 1 .. Len(backlog) : backlog[j] # output[i].what
  BY <1>2 DEF MessageInv
<1>4. /\ EchoType' /\ OwnInv' /\ OutputInOrder' /\ tty' = tty
      /\ tty => \A i \in PlacesOf(Main, output') :
                   \/ output'[i].what = WAITING
                   \/ \E j \in PlacesOf(Main, output) : output'[i] = output[j]
  <2>1. tty => \A i \in PlacesOf(Main, output) : output[i].what # WAITING
    BY <1>3, EchoAssumption
  <2>2. UNCHANGED <<clients, received, proc>> /\ WAITING \in Client \cup {WAITING}
    BY <1>2
  <2>3. QED
    BY <1>2, <2>1, <2>2, ParentPrints
<1>5. /\ \A c \in Client : LineInv(c)'
      /\ \A c \in Client : client'[c] = "exited" => input'[c] = << >> \/ IsDoubleEnter(c)'
  BY <1>2, LinesKept DEF clients
<1>6. MessageInv'
  <2>1. client' = client /\ backlog' = backlog
    BY <1>2 DEF clients
  <2>2. \A j \in 1 .. Len(backlog') : client'[backlog'[j]] # "new"
    BY <1>2, <2>1 DEF MessageInv
  <2>3. tty' => \A i \in PlacesOf(Main, output') :
          \/ output'[i].what = WAITING /\ main' # "boot"
          \/ /\ output'[i].what \in Client /\ client'[output'[i].what] # "new"
             /\ \A j \in 1 .. Len(backlog') : backlog'[j] # output'[i].what
    BY <1>2, <1>3, <1>4, <2>1
  <2>4. QED
    BY <2>2, <2>3 DEF MessageInv, PlacesOf
<1>7. QED
  BY <1>1, <1>4, <1>5, <1>6 DEF EchoInv

LEMMA EchoAcceptKeeps ==
    ASSUME EchoInv, EchoAccept
    PROVE  EchoInv'
<1>1. ServerInv'
  BY AcceptPreserves DEF EchoInv, EchoAccept
<1>2. PICK w : w = Head(backlog)
  OBVIOUS
<1>3. /\ printf(Main, Message(w)) /\ UNCHANGED <<clients, received, proc>>
      /\ main = "accept" /\ main' = "fork" /\ MessageInv
  BY <1>2 DEF EchoAccept, Accept, EchoInv, MainAt, printf
<1>4. /\ w = backlog[1] /\ w \in Client /\ Len(backlog) \in Nat /\ Len(backlog) >= 1
      /\ Len(backlog') = Len(backlog) - 1
      /\ \A i \in 1 .. Len(backlog) - 1 : backlog'[i] = backlog[i + 1]
  BY <1>2, TailFacts DEF EchoInv, ServerInv, ServerTypeOK, EchoAccept, Accept
<1>5. 1 \in 1 .. Len(backlog) /\ client[w] # "new"
  BY <1>3, <1>4 DEF MessageInv
<1>6. /\ \A j \in 1 .. Len(backlog') : j + 1 \in 1 .. Len(backlog) /\ backlog'[j] = backlog[j + 1]
      /\ \A j \in 1 .. Len(backlog') : backlog'[j] # w
  <2>1. \A j \in 1 .. Len(backlog') :
           /\ j + 1 \in 1 .. Len(backlog) /\ backlog'[j] = backlog[j + 1] /\ j + 1 # 1
    BY <1>4
  <2>2. \A i, j \in 1 .. Len(backlog) : backlog[i] = backlog[j] => i = j
    BY DEF EchoInv, ServerInv, BacklogFresh
  <2>3. QED
    BY <1>4, <1>5, <2>1, <2>2
<1>7. tty => \A i \in PlacesOf(Main, output) :
          \/ output[i].what = WAITING
          \/ /\ output[i].what \in Client /\ client[output[i].what] # "new"
             /\ \A j \in 1 .. Len(backlog) : backlog[j] # output[i].what
  BY <1>3 DEF MessageInv
<1>8. /\ EchoType' /\ OwnInv' /\ OutputInOrder' /\ tty' = tty
      /\ tty => \A i \in PlacesOf(Main, output') :
                   \/ output'[i].what = w
                   \/ \E j \in PlacesOf(Main, output) : output'[i] = output[j]
  <2>1. tty => \A i \in PlacesOf(Main, output) : output[i].what # w
    BY <1>4, <1>5, <1>7, EchoAssumption
  <2>2. w \in Client \cup {WAITING}
    BY <1>4
  <2>3. QED
    BY <1>3, <2>1, <2>2, ParentPrints
<1>9. /\ \A c \in Client : LineInv(c)'
      /\ \A c \in Client : client'[c] = "exited" => input'[c] = << >> \/ IsDoubleEnter(c)'
  BY <1>3, LinesKept DEF clients
<1>10. MessageInv'
  <2>1. client' = client
    BY <1>3 DEF clients
  <2>2. \A j \in 1 .. Len(backlog') : client'[backlog'[j]] # "new"
    BY <1>3, <1>6, <2>1 DEF MessageInv
  <2>3. tty' => \A i \in PlacesOf(Main, output') :
          \/ output'[i].what = WAITING /\ main' # "boot"
          \/ /\ output'[i].what \in Client /\ client'[output'[i].what] # "new"
             /\ \A j \in 1 .. Len(backlog') : backlog'[j] # output'[i].what
    <3>1. SUFFICES ASSUME tty, NEW i \in PlacesOf(Main, output')
                   PROVE  \/ output'[i].what = WAITING
                          \/ /\ output'[i].what \in Client /\ client[output'[i].what] # "new"
                             /\ \A j \in 1 .. Len(backlog') : backlog'[j] # output'[i].what
      BY <1>3, <1>8, <2>1
    <3>2. CASE output'[i].what = w
      BY <1>4, <1>5, <1>6, <3>2
    <3>3. ASSUME NEW k \in PlacesOf(Main, output), output'[i] = output[k]
          PROVE  \/ output'[i].what = WAITING
                 \/ /\ output'[i].what \in Client /\ client[output'[i].what] # "new"
                    /\ \A j \in 1 .. Len(backlog') : backlog'[j] # output'[i].what
      BY <1>6, <1>7, <3>1, <3>3
    <3>4. QED
      BY <1>8, <3>1, <3>2, <3>3
  <2>4. QED
    BY <2>2, <2>3 DEF MessageInv, PlacesOf
<1>11. QED
  BY <1>1, <1>8, <1>9, <1>10 DEF EchoInv

(* The child starts with what the parent has buffered: nothing of its own. *)
LEMMA EchoForkKeeps ==
    ASSUME EchoInv, EchoFork
    PROVE  EchoInv'
<1>1. ServerInv'
  BY ForkPreserves DEF EchoInv, EchoFork
<1>2. PICK c, B : c = new_fd /\ B = buffer[Main]
  OBVIOUS
<1>3. /\ buffer' = [buffer EXCEPT ![c] = B] /\ UNCHANGED <<clients, received, tty, output, backlog>>
      /\ proc' = [proc EXCEPT ![c] = "running"] /\ main' = "close"
      /\ EchoType /\ OwnInv /\ OutputInOrder
  BY <1>2 DEF EchoFork, Fork, InheritedBuffer, EchoInv
<1>4. c \in Client /\ proc[c] = "none" /\ proc \in [Client -> {"none", "running", "zombie", "reaped"}]
  BY <1>2 DEF EchoInv, ServerInv, NewFdFresh, ServerTypeOK, EchoFork, Fork, MainAt
<1>5. /\ c \in Process /\ Main \in Process /\ c # Main /\ B \in Seq(Item)
      /\ \A i \in 1 .. Len(B) : B[i].from = Main
      /\ tty => PlacesOf(Main, B) = {}
  BY <1>2, <1>3, <1>4, EchoAssumption DEF Process, EchoType, OwnInv
<1>6. EchoType'
  <2>1. buffer' \in [Process -> Seq(Item)]
    BY <1>3, <1>5 DEF EchoType
  <2>2. QED
    BY <1>3, <2>1 DEF EchoType, clients
<1>7. OwnInv'
  <2>1. \A d \in Client : proc'[d] = "none" => received'[d] = 0
    BY <1>3, <1>4 DEF OwnInv
  <2>2. \A i \in 1 .. Len(B) : B[i].from \in {c, Main}
    BY <1>5
  <2>3. QED
    BY <1>3, <1>5, <2>1, <2>2, OwnKept
<1>8. ASSUME NEW d \in Client PROVE InOrder(d, output' \o buffer'[d], received'[d])
  <2>1. CASE d # c
    BY <1>3, <2>1 DEF EchoType, OutputInOrder, Process
  <2>2. CASE d = c
    <3>1. received'[c] = 0 /\ received[c] = 0
      BY <1>3, <1>4 DEF OwnInv
    <3>2. buffer'[c] = B /\ output' = output /\ output \in Seq(Item) /\ buffer[c] \in Seq(Item)
      BY <1>3, <1>5 DEF EchoType
    <3>3. InOrder(c, output \o buffer[c], 0)
      BY <1>3, <1>4, <3>1 DEF OutputInOrder
    <3>4. \A i \in 1 .. Len(B) : B[i].from # c
      BY <1>5
    <3>5. InOrder(c, output \o B, 0)
      BY <1>4, <1>5, <3>2, <3>3, <3>4, NothingYet
    <3>6. QED
      BY <2>2, <3>1, <3>2, <3>5
  <2>3. QED
    BY <2>1, <2>2
<1>9. /\ MessageInv'
      /\ tty' => \A i, j \in PlacesOf(Main, output') : output'[i] = output'[j] => i = j
  <2>1. \A j \in 1 .. Len(backlog') : \E k \in 1 .. Len(backlog) : backlog'[j] = backlog[k]
    BY <1>3
  <2>2. << >> \in Seq(Item) /\ \A i \in 1 .. Len(<< >>) : << >>[i].from # Main
    OBVIOUS
  <2>3. output' = output /\ tty' = tty /\ UNCHANGED clients /\ main' # "boot"
    BY <1>3
  <2>4. QED
    BY <2>1, <2>2, <2>3, MessagesKept
<1>10. OutputInOrder'
  BY <1>8, <1>9 DEF OutputInOrder, InOrder, PlacesOf
<1>11. /\ \A d \in Client : LineInv(d)'
       /\ \A d \in Client : client'[d] = "exited" => input'[d] = << >> \/ IsDoubleEnter(d)'
  BY <1>3, LinesKept DEF clients
<1>12. QED
  BY <1>1, <1>6, <1>7, <1>9, <1>10, <1>11 DEF EchoInv

LEMMA QuietKeeps ==
    ASSUME EchoInv, ServerInv', clients' = clients, received' = received, stdio' = stdio,
           main' = main \/ main' # "boot", backlog' = backlog,
           \A c \in Client : proc'[c] = "none" => proc[c] = "none"
    PROVE  EchoInv'
<1>1. /\ MessageInv'
      /\ tty' => \A i, j \in PlacesOf(Main, output') : output'[i] = output'[j] => i = j
  <2>1. \A j \in 1 .. Len(backlog') : \E k \in 1 .. Len(backlog) : backlog'[j] = backlog[k]
    OBVIOUS
  <2>2. << >> \in Seq(Item) /\ \A i \in 1 .. Len(<< >>) : << >>[i].from # Main
    OBVIOUS
  <2>3. output' = output /\ tty' = tty /\ UNCHANGED clients
    BY DEF stdio
  <2>4. QED
    BY <2>1, <2>2, <2>3, MessagesKept
<1>2. /\ \A d \in Client : LineInv(d)'
      /\ \A d \in Client : client'[d] = "exited" => input'[d] = << >> \/ IsDoubleEnter(d)'
  BY LinesKept DEF clients
<1>3. EchoType'
  BY DEF EchoInv, EchoType, clients, stdio
<1>4. OwnInv'
  BY DEF EchoInv, OwnInv, PlacesOf, stdio
<1>5. OutputInOrder'
  BY OrderKept DEF EchoInv, stdio
<1>6. QED
  BY <1>1, <1>2, <1>3, <1>4, <1>5 DEF EchoInv

LEMMA ParentStepKeeps ==
    ASSUME EchoInv, StartFails \/ ForkFails \/ ParentClose \/ Sigchld,
           UNCHANGED <<clients, received, stdio>>
    PROVE  EchoInv'
<1>1. ServerInv /\ proc \in [Client -> {"none", "running", "zombie", "reaped"}]
  BY DEF EchoInv, ServerInv, ServerTypeOK
<1>2. ServerInv'
  BY <1>1, StartFailsPreserves, ForkPreserves, ParentClosePreserves, SigchldPreserves
<1>3. (main' = main \/ main' # "boot") /\ backlog' = backlog
  BY DEF StartFails, ForkFails, ParentClose, Sigchld, SigchldDelivered, Reap, HandlerReturn, MainAt
<1>4. \A c \in Client : proc'[c] = "none" => proc[c] = "none"
  BY <1>1 DEF StartFails, ForkFails, ParentClose, Sigchld, SigchldDelivered, Reap, HandlerReturn, MainAt
<1>5. /\ EchoInv /\ ServerInv' /\ clients' = clients /\ received' = received /\ stdio' = stdio
      /\ (main' = main \/ main' # "boot") /\ backlog' = backlog
      /\ \A c \in Client : proc'[c] = "none" => proc[c] = "none"
  BY <1>2, <1>3, <1>4
<1>6. QED
  BY ONLY <1>5, QuietKeeps

-----------------------------------------------------------------------------
(* The steps of the clients and of the children *)

(* A client that is new has no message and is not in the backlog yet. *)
LEMMA ConnectKeeps ==
    ASSUME EchoInv, NEW c \in Client, ClientConnect(c)
    PROVE  EchoInv'
<1>1. ServerInv'
  BY ConnectPreserves DEF EchoInv, ClientConnect
<1>2. /\ client[c] = "new" /\ client' = [client EXCEPT ![c] = "reading"]
      /\ UNCHANGED <<input, typed, prev_nl, sent, received, tty, buffer, output, main, proc>>
      /\ EchoType /\ MessageInv
  BY DEF ClientConnect, Connect, stdio, EchoInv
<1>3. /\ client'[c] = "reading" /\ \A d \in Client : d # c => client'[d] = client[d]
      /\ client' \in [Client -> {"new", "reading", "exited"}]
  BY <1>2 DEF EchoType
<1>4. /\ Len(backlog) \in Nat /\ Len(backlog') = Len(backlog) + 1
      /\ \A i \in 1 .. Len(backlog) + 1 : backlog'[i] = IF i <= Len(backlog) THEN backlog[i] ELSE c
      /\ \A i \in 1 .. Len(backlog) : backlog[i] \in Client
  BY AppendFacts DEF EchoInv, ServerInv, ServerTypeOK, ClientConnect, Connect
<1>5. \A j \in 1 .. Len(backlog') :
         (j \in 1 .. Len(backlog) /\ backlog'[j] = backlog[j]) \/ backlog'[j] = c
  BY <1>4
<1>6. EchoType'
  BY <1>2, <1>3 DEF EchoType
<1>7. OwnInv' /\ OutputInOrder'
  <2>1. OwnInv'
    BY <1>2 DEF EchoInv, OwnInv, PlacesOf
  <2>2. OutputInOrder'
    BY <1>2, OrderKept DEF EchoInv
  <2>3. QED
    BY <2>1, <2>2
<1>8. MessageInv'
  <2>1. \A j \in 1 .. Len(backlog') : client'[backlog'[j]] # "new"
    BY <1>2, <1>3, <1>4, <1>5 DEF MessageInv
  <2>2. tty' => \A i \in PlacesOf(Main, output') :
          \/ output'[i].what = WAITING /\ main' # "boot"
          \/ /\ output'[i].what \in Client /\ client'[output'[i].what] # "new"
             /\ \A j \in 1 .. Len(backlog') : backlog'[j] # output'[i].what
    <3>1. SUFFICES ASSUME tty, NEW i \in PlacesOf(Main, output)
                   PROVE  \/ output[i].what = WAITING /\ main # "boot"
                          \/ /\ output[i].what \in Client /\ client'[output[i].what] # "new"
                             /\ \A j \in 1 .. Len(backlog') : backlog'[j] # output[i].what
      BY <1>2
    <3>2. \/ output[i].what = WAITING /\ main # "boot"
          \/ /\ output[i].what \in Client /\ client[output[i].what] # "new"
             /\ \A j \in 1 .. Len(backlog) : backlog[j] # output[i].what
      BY <1>2, <3>1 DEF MessageInv
    <3>3. CASE /\ output[i].what \in Client /\ client[output[i].what] # "new"
               /\ \A j \in 1 .. Len(backlog) : backlog[j] # output[i].what
      BY <1>2, <1>3, <1>5, <3>3
    <3>4. QED
      BY <3>2, <3>3
  <2>3. QED
    BY <2>1, <2>2 DEF MessageInv, PlacesOf
<1>9. /\ \A d \in Client : LineInv(d)'
      /\ \A d \in Client : client'[d] = "exited" => input'[d] = << >> \/ IsDoubleEnter(d)'
  <2>1. \A d \in Client : client'[d] = "exited" => client[d] = "exited"
    BY <1>3
  <2>2. QED
    BY <1>2, <2>1, LinesKept
<1>10. QED
  BY <1>1, <1>6, <1>7, <1>8, <1>9 DEF EchoInv

LEMMA SendLineKeeps ==
    ASSUME EchoInv, NEW c \in Client, SendLine(c)
    PROVE  EchoInv'
<1>1. /\ client[c] = "reading" /\ UNCHANGED <<server, client, received, stdio>>
      /\ input' = [input EXCEPT ![c] = AfterLine(input[c], FirstLine(input[c]))]
      /\ prev_nl' = [prev_nl EXCEPT ![c] = (input[c][FirstLine(input[c])] = NL)]
      /\ EchoType
  BY DEF SendLine, EchoInv
<1>2. /\ typed' = typed /\ \A d \in Client : LineInv(d)'
      /\ sent' \in [Client -> Seq(Char \cup {NL})] /\ input' \in [Client -> Seq(Char \cup {NL})]
      /\ prev_nl' \in [Client -> BOOLEAN]
  BY SentLine
<1>3. ServerInv'
  BY <1>1, ServerStutters DEF EchoInv
<1>4. EchoType'
  BY <1>1, <1>2 DEF EchoType, stdio
<1>5. OwnInv' /\ OutputInOrder' /\ MessageInv'
  <2>1. UNCHANGED <<client, received, tty, buffer, output, proc, backlog, main>>
    BY <1>1 DEF stdio, server
  <2>2. OwnInv'
    BY <2>1 DEF EchoInv, OwnInv, PlacesOf
  <2>3. OutputInOrder'
    BY <2>1, OrderKept DEF EchoInv
  <2>4. MessageInv'
    BY <2>1 DEF EchoInv, MessageInv, PlacesOf
  <2>5. QED
    BY <2>2, <2>3, <2>4
<1>6. ASSUME NEW d \in Client, client'[d] = "exited"
      PROVE  input'[d] = << >> \/ IsDoubleEnter(d)'
  <2>1. d # c /\ client[d] = "exited"
    BY <1>1, <1>6
  <2>2. input'[d] = input[d] /\ prev_nl'[d] = prev_nl[d]
    BY <1>1, <2>1 DEF EchoType
  <2>3. input[d] = << >> \/ IsDoubleEnter(d)
    BY <2>1 DEF EchoInv
  <2>4. QED
    BY <2>2, <2>3 DEF IsDoubleEnter
<1>7. QED
  BY <1>2, <1>3, <1>4, <1>5, <1>6 DEF EchoInv

LEMMA ClientExitKeeps ==
    ASSUME EchoInv, NEW c \in Client, ClientExit(c)
    PROVE  EchoInv'
<1>1. /\ client[c] = "reading" /\ client' = [client EXCEPT ![c] = "exited"]
      /\ UNCHANGED <<server, input, typed, prev_nl, sent, received, stdio>>
      /\ input[c] = << >> \/ IsDoubleEnter(c)
      /\ EchoType
  BY DEF ClientExit, EchoInv
<1>2. ServerInv'
  BY <1>1, ServerStutters DEF EchoInv
<1>3. /\ client'[c] = "exited" /\ \A d \in Client : d # c => client'[d] = client[d]
      /\ client' \in [Client -> {"new", "reading", "exited"}]
  BY <1>1 DEF EchoType
<1>4. EchoType'
  BY <1>1, <1>3 DEF EchoType, stdio
<1>5. OwnInv' /\ OutputInOrder'
  <2>1. UNCHANGED <<received, tty, buffer, output, proc>>
    BY <1>1 DEF stdio, server
  <2>2. OwnInv'
    BY <2>1 DEF EchoInv, OwnInv, PlacesOf
  <2>3. OutputInOrder'
    BY <2>1, OrderKept DEF EchoInv
  <2>4. QED
    BY <2>2, <2>3
<1>6. \A d \in Client : client[d] # "new" => client'[d] # "new"
  BY <1>3
<1>7. MessageInv'
  <2>1. backlog' = backlog /\ main' = main /\ output' = output /\ tty' = tty
    BY <1>1 DEF server, stdio
  <2>2. \A j \in 1 .. Len(backlog) : backlog[j] \in Client
    BY DEF EchoInv, ServerInv, ServerTypeOK
  <2>3. QED
    BY <1>6, <2>1, <2>2 DEF EchoInv, MessageInv, PlacesOf
<1>8. \A d \in Client : LineInv(d)'
  BY <1>1, ZenonT(60) DEF EchoInv, LineInv, DoubleEnters
<1>9. ASSUME NEW d \in Client, client'[d] = "exited"
      PROVE  input'[d] = << >> \/ IsDoubleEnter(d)'
  <2>1. input[d] = << >> \/ IsDoubleEnter(d)
    BY <1>1, <1>3, <1>9 DEF EchoInv
  <2>2. QED
    BY <1>1, <2>1 DEF IsDoubleEnter
<1>10. QED
  BY <1>2, <1>4, <1>5, <1>7, <1>8, <1>9 DEF EchoInv

LEMMA TextItems ==
    ASSUME EchoType, NEW c \in Client, NEW a \in Nat, NEW n \in Nat, a < n, n <= Len(sent[c])
    PROVE  /\ Text(c, a + 1, n) \in Seq(Item) /\ Len(Text(c, a + 1, n)) = n - a
           /\ \A i \in 1 .. n - a : Text(c, a + 1, n)[i].from = c /\ Text(c, a + 1, n)[i].what = a + i
<1>1. /\ n - (a + 1) + 1 = n - a /\ n - a \in Nat
      /\ \A i \in 1 .. n - a : (a + 1) + i - 1 = a + i /\ a + i \in Nat
  OBVIOUS
<1>2. PICK x : x = [i \in 1 .. n - a |-> [from |-> c, what |-> a + i, nl |-> sent[c][a + i] = NL]]
  OBVIOUS
<1>3. Text(c, a + 1, n) = x
  BY <1>1, <1>2 DEF Text
<1>4. ASSUME NEW i \in 1 .. n - a
      PROVE  x[i] \in Item /\ x[i].from = c /\ x[i].what = a + i
  <2>1. x[i] = [from |-> c, what |-> a + i, nl |-> sent[c][a + i] = NL]
    BY <1>2
  <2>2. a + i \in Nat /\ c \in Process /\ (sent[c][a + i] = NL) \in BOOLEAN
    BY <1>1 DEF Process
  <2>3. QED
    BY <2>1, <2>2 DEF Item
<1>5. x \in Seq(Item) /\ Len(x) = n - a
  <2>1. PICK k : k = n - a
    OBVIOUS
  <2>2. k \in Nat /\ x \in [1 .. k -> Item]
    BY <1>1, <1>2, <1>4, <2>1
  <2>3. x \in Seq(Item) /\ Len(x) = k
    BY <2>2
  <2>4. QED
    BY <2>1, <2>3
<1>6. QED
  BY <1>3, <1>4, <1>5

(* A child prints the characters it has received after those it has        *)
(* printed before.                                                         *)
LEMMA EchoChildKeeps ==
    ASSUME EchoInv, NEW c \in Client, EchoChild(c)
    PROVE  EchoInv'
<1>1. PICK n \in received[c] + 1 .. Len(sent[c]) :
          /\ received' = [received EXCEPT ![c] = n]
          /\ printf(c, Text(c, received[c] + 1, n))
  BY DEF EchoChild
<1>2. /\ proc[c] = "running" /\ UNCHANGED <<server, clients>>
      /\ EchoType /\ OwnInv /\ OutputInOrder
  BY DEF EchoChild, EchoInv
<1>3. PICK a, x, s : a = received[c] /\ x = Text(c, a + 1, n) /\ s = buffer[c]
  OBVIOUS
<1>4. /\ a \in Nat /\ n \in Nat /\ a < n /\ n <= Len(sent[c])
      /\ s \in Seq(Item) /\ c \in Process /\ c # Main
  <2>1. a \in Nat /\ s \in Seq(Item) /\ c \in Process /\ Len(sent[c]) \in Nat
    BY <1>2, <1>3 DEF EchoType, Process
  <2>2. QED
    BY <1>1, <1>3, <2>1, EchoAssumption
<1>5. /\ x \in Seq(Item) /\ Len(x) = n - a
      /\ \A i \in 1 .. Len(x) : x[i].from = c /\ x[i].what = a + i
  <2>1. /\ EchoType /\ c \in Client /\ a \in Nat /\ n \in Nat /\ a < n /\ n <= Len(sent[c])
        /\ x = Text(c, a + 1, n)
    BY <1>2, <1>3, <1>4
  <2>2. /\ Text(c, a + 1, n) \in Seq(Item) /\ Len(Text(c, a + 1, n)) = n - a
        /\ \A i \in 1 .. n - a :
              Text(c, a + 1, n)[i].from = c /\ Text(c, a + 1, n)[i].what = a + i
    BY ONLY <2>1, TextItems
  <2>3. QED
    BY <2>1, <2>2
<1>6. PICK A \in Seq(Item), B \in Seq(Item) :
          /\ s \o x = A \o B
          /\ output' = output \o A /\ buffer' = [buffer EXCEPT ![c] = B] /\ tty' = tty
  <2>1. printf(c, x)
    BY <1>1, <1>3 DEF printf
  <2>2. \E F, G \in Seq(Item) :
           /\ buffer[c] \o x = F \o G
           /\ output' = output \o F /\ buffer' = [buffer EXCEPT ![c] = G] /\ tty' = tty
           /\ tty /\ buffer[c] = << >> /\ Len(x) = 1 /\ x[1].nl => F = x /\ G = << >>
    BY <1>2, <1>4, <1>5, <2>1, PrintFacts
  <2>3. QED
    BY <1>3, <2>2
<1>7. /\ \A i \in 1 .. Len(A) : A[i].from \in {c, Main}
      /\ \A i \in 1 .. Len(B) : B[i].from \in {c, Main}
  <2>1. PICK P : P = {c, Main}
    OBVIOUS
  <2>2. /\ s \in Seq(Item) /\ x \in Seq(Item) /\ A \in Seq(Item) /\ B \in Seq(Item)
        /\ s \o x = A \o B
        /\ \A i \in 1 .. Len(s) : s[i].from \in P
        /\ \A i \in 1 .. Len(x) : x[i].from \in P
    BY <1>2, <1>3, <1>4, <1>5, <1>6, <2>1 DEF OwnInv
  <2>3. /\ \A i \in 1 .. Len(A) : A[i].from \in P
        /\ \A i \in 1 .. Len(B) : B[i].from \in P
    BY ONLY <2>2, PartsFrom
  <2>4. QED
    BY <2>1, <2>3
<1>8. tty => /\ \A i \in 1 .. Len(A) : A[i].from # Main
             /\ \A i \in 1 .. Len(B) : B[i].from # Main
  <2>1. SUFFICES ASSUME tty PROVE /\ \A i \in 1 .. Len(A) : A[i].from # Main
                                  /\ \A i \in 1 .. Len(B) : B[i].from # Main
    OBVIOUS
  <2>2. PICK P : P = {c}
    OBVIOUS
  <2>3. \A i \in 1 .. Len(s) : s[i].from = c
    BY <1>2, <1>3, <1>4, <2>1 DEF OwnInv, PlacesOf
  <2>4. /\ s \in Seq(Item) /\ x \in Seq(Item) /\ A \in Seq(Item) /\ B \in Seq(Item)
        /\ s \o x = A \o B
        /\ \A i \in 1 .. Len(s) : s[i].from \in P
        /\ \A i \in 1 .. Len(x) : x[i].from \in P
    BY <1>4, <1>5, <1>6, <2>2, <2>3
  <2>5. /\ \A i \in 1 .. Len(A) : A[i].from \in P
        /\ \A i \in 1 .. Len(B) : B[i].from \in P
    BY ONLY <2>4, PartsFrom
  <2>6. QED
    BY <1>4, <2>2, <2>5
<1>9. output \in Seq(Item) /\ buffer'[c] = B /\ received'[c] = n
      /\ \A d \in Client : d # c => received'[d] = received[d]
  BY <1>1, <1>2, <1>4, <1>6 DEF EchoType
<1>10. InOrder(c, output' \o buffer'[c], received'[c])
  <2>1. InOrder(c, output \o s, a)
    BY <1>2, <1>3 DEF OutputInOrder
  <2>2. PICK y : y = output \o s
    OBVIOUS
  <2>3. /\ c \in Client /\ y \in Seq(Item) /\ x \in Seq(Item) /\ a \in Nat /\ n \in Nat
        /\ InOrder(c, y, a) /\ Len(x) = n - a
        /\ \A i \in 1 .. Len(x) : x[i].from = c /\ x[i].what = a + i
    BY <1>4, <1>5, <1>9, <2>1, <2>2
  <2>4. InOrder(c, y \o x, n)
    BY ONLY <2>3, Appended
  <2>5. y \o x = output \o (s \o x)
    <3>1. PICK o : o = output
      OBVIOUS
    <3>2. o \in Seq(Item) /\ s \in Seq(Item) /\ x \in Seq(Item)
      BY <1>4, <1>5, <1>9, <3>1
    <3>3. (o \o s) \o x = o \o (s \o x)
      BY ONLY <3>2, ConcatAssociative, SMTT(30)
    <3>4. QED
      BY <2>2, <3>1, <3>3
  <2>6. (output \o A) \o B = output \o (A \o B)
    BY <1>6, <1>9, ConcatAssociative, SMTT(30)
  <2>7. output' \o buffer'[c] = y \o x
    BY <1>6, <1>9, <2>5, <2>6
  <2>8. QED
    BY <1>9, <2>4, <2>7
<1>11. ASSUME NEW d \in Client, d # c PROVE InOrder(d, output' \o buffer'[d], received'[d])
  <2>1. InOrder(d, output' \o buffer'[d], received[d])
    BY <1>2, <1>4, <1>6, <1>7, <1>11, PrintOrder
  <2>2. QED
    BY <1>9, <1>11, <2>1
<1>12. EchoType'
  <2>1. buffer' \in [Process -> Seq(Item)] /\ output' \in Seq(Item) /\ received' \in [Client -> Nat]
    BY <1>1, <1>2, <1>4, <1>6, <1>9 DEF EchoType
  <2>2. QED
    BY <1>2, <1>6, <2>1 DEF EchoType, clients
<1>13. OwnInv'
  <2>1. proc' = proc
    BY <1>2 DEF server
  <2>2. \A d \in Client : proc'[d] = "none" => received'[d] = 0
    BY <1>2, <1>9, <2>1 DEF OwnInv
  <2>3. tty => PlacesOf(Main, B) = {}
    BY <1>8 DEF PlacesOf
  <2>4. QED
    BY <1>2, <1>4, <1>6, <1>7, <2>2, <2>3, OwnKept
<1>14. /\ MessageInv'
       /\ tty' => \A i, j \in PlacesOf(Main, output') : output'[i] = output'[j] => i = j
  <2>1. backlog' = backlog /\ main' = main /\ UNCHANGED clients
    BY <1>2 DEF server
  <2>2. \A j \in 1 .. Len(backlog') : \E k \in 1 .. Len(backlog) : backlog'[j] = backlog[k]
    BY <2>1
  <2>3. QED
    BY <1>6, <1>8, <2>1, <2>2, MessagesKept
<1>15. OutputInOrder'
  <2>1. \A d \in Client : InOrder(d, output' \o buffer'[d], received'[d])
    BY <1>10, <1>11
  <2>2. QED
    BY <1>14, <2>1 DEF OutputInOrder, InOrder, PlacesOf
<1>16. /\ \A d \in Client : LineInv(d)'
       /\ \A d \in Client : client'[d] = "exited" => input'[d] = << >> \/ IsDoubleEnter(d)'
  BY <1>2, LinesKept DEF clients
<1>17. ServerInv'
  BY <1>2, ServerStutters DEF EchoInv
<1>18. QED
  BY <1>12, <1>13, <1>14, <1>15, <1>16, <1>17 DEF EchoInv

LEMMA EchoExitKeeps ==
    ASSUME EchoInv, NEW c \in Client, EchoExit(c)
    PROVE  EchoInv'
<1>1. PICK A, B : A = buffer[c] /\ B = << >>
  OBVIOUS
<1>2. /\ proc[c] = "running" /\ ChildExit(c) /\ UNCHANGED <<clients, received, tty>>
      /\ output' = output \o A /\ buffer' = [buffer EXCEPT ![c] = B]
      /\ EchoType /\ OwnInv /\ OutputInOrder
  BY <1>1 DEF EchoExit, WrittenAtExit, EchoInv
<1>3. /\ c \in Process /\ c # Main /\ A \in Seq(Item) /\ B \in Seq(Item) /\ output \in Seq(Item)
      /\ \A i \in 1 .. Len(A) : A[i].from \in {c, Main}
      /\ \A i \in 1 .. Len(B) : B[i].from \in {c, Main}
      /\ tty => \A i \in 1 .. Len(A) : A[i].from # Main
      /\ PlacesOf(Main, B) = {}
  <2>1. c \in Process /\ c # Main /\ A \in Seq(Item) /\ B \in Seq(Item) /\ output \in Seq(Item)
    BY <1>1, <1>2, EchoAssumption DEF Process, EchoType
  <2>2. Len(B) = 0
    BY <1>1
  <2>3. QED
    BY <1>1, <1>2, <2>1, <2>2, SMTT(30) DEF OwnInv, PlacesOf
<1>4. ServerInv'
  BY <1>2, ChildExitPreserves DEF EchoInv
<1>5. EchoType'
  <2>1. buffer' \in [Process -> Seq(Item)] /\ output' \in Seq(Item)
    BY <1>2, <1>3 DEF EchoType
  <2>2. QED
    BY <1>2, <2>1 DEF EchoType, clients
<1>6. OwnInv'
  <2>1. proc \in [Client -> {"none", "running", "zombie", "reaped"}]
        /\ proc' = [proc EXCEPT ![c] = "zombie"]
    BY <1>2 DEF EchoInv, ServerInv, ServerTypeOK, ChildExit
  <2>2. \A d \in Client : proc'[d] = "none" => received'[d] = 0
    BY <1>2, <2>1 DEF OwnInv
  <2>3. QED
    BY <1>2, <1>3, <2>2, OwnKept
<1>7. InOrder(c, output' \o buffer'[c], received'[c])
  <2>1. buffer'[c] = << >> /\ output' \in Seq(Item)
    BY <1>1, <1>2, <1>3 DEF EchoType
  <2>2. output' \o buffer'[c] = output \o buffer[c]
    BY <1>1, <1>2, <2>1, ConcatEmptySeq
  <2>3. QED
    BY <1>2, <2>2 DEF OutputInOrder
<1>8. ASSUME NEW d \in Client, d # c PROVE InOrder(d, output' \o buffer'[d], received'[d])
  <2>1. InOrder(d, output' \o buffer'[d], received[d])
    BY <1>2, <1>3, <1>8, PrintOrder
  <2>2. QED
    BY <1>2, <2>1
<1>9. /\ MessageInv'
      /\ tty' => \A i, j \in PlacesOf(Main, output') : output'[i] = output'[j] => i = j
  <2>1. backlog' = backlog /\ main' = main /\ UNCHANGED clients /\ tty' = tty
    BY <1>2 DEF ChildExit
  <2>2. \A j \in 1 .. Len(backlog') : \E k \in 1 .. Len(backlog) : backlog'[j] = backlog[k]
    BY <2>1
  <2>3. QED
    BY <1>2, <1>3, <2>1, <2>2, MessagesKept
<1>10. OutputInOrder'
  <2>1. \A d \in Client : InOrder(d, output' \o buffer'[d], received'[d])
    BY <1>7, <1>8
  <2>2. QED
    BY <1>9, <2>1 DEF OutputInOrder, InOrder, PlacesOf
<1>11. /\ \A d \in Client : LineInv(d)'
       /\ \A d \in Client : client'[d] = "exited" => input'[d] = << >> \/ IsDoubleEnter(d)'
  BY <1>2, LinesKept DEF clients
<1>12. QED
  BY <1>4, <1>5, <1>6, <1>9, <1>10, <1>11 DEF EchoInv

-----------------------------------------------------------------------------
(* The theorems *)

LEMMA EchoStep == EchoInv /\ [Next]_vars => EchoInv'
<1> SUFFICES ASSUME EchoInv, [Next]_vars PROVE EchoInv'
  OBVIOUS
<1>1. CASE Boot
  BY <1>1, BootKeeps
<1>2. CASE EchoAccept
  BY <1>2, EchoAcceptKeeps
<1>3. CASE EchoFork
  BY <1>3, EchoForkKeeps
<1>4. CASE /\ StartFails \/ ForkFails \/ ParentClose \/ Sigchld
           /\ UNCHANGED <<clients, received, stdio>>
  BY <1>4, ParentStepKeeps
<1>5. ASSUME NEW c \in Client, ClientConnect(c) PROVE EchoInv'
  BY <1>5, ConnectKeeps
<1>6. ASSUME NEW c \in Client, SendLine(c) PROVE EchoInv'
  BY <1>6, SendLineKeeps
<1>7. ASSUME NEW c \in Client, ClientExit(c) PROVE EchoInv'
  BY <1>7, ClientExitKeeps
<1>8. ASSUME NEW c \in Client, EchoChild(c) PROVE EchoInv'
  BY <1>8, EchoChildKeeps
<1>9. ASSUME NEW c \in Client, EchoExit(c) PROVE EchoInv'
  BY <1>9, EchoExitKeeps
<1>10. CASE UNCHANGED vars
  <2>1. /\ clients' = clients /\ received' = received /\ stdio' = stdio
        /\ UNCHANGED server /\ main' = main /\ backlog' = backlog /\ proc' = proc
    BY <1>10 DEF vars, server
  <2>2. ServerInv'
    BY <2>1, ServerStutters DEF EchoInv
  <2>3. \A c \in Client : proc'[c] = "none" => proc[c] = "none"
    BY <2>1
  <2>4. QED
    BY <2>1, <2>2, <2>3, QuietKeeps
<1>11. QED
  BY <1>1, <1>2, <1>3, <1>4, <1>5, <1>6, <1>7, <1>8, <1>9, <1>10 DEF Next, Parent, ClientStep

(* What a client that exits has sent: all of its input, or its input up to *)
(* the first empty line.                                                   *)
LEMMA SentCorrect == EchoInv => SentUpToDoubleEnter
<1> SUFFICES ASSUME EchoInv, NEW c \in Client, client[c] = "exited"
             PROVE  \/ DoubleEnters(typed[c]) = {} /\ sent[c] = typed[c]
                    \/ \E i \in DoubleEnters(typed[c]) :
                          /\ \A j \in DoubleEnters(typed[c]) : i <= j
                          /\ sent[c] = SubSeq(typed[c], 1, i)
                    \/ typed[c][1] = NL /\ sent[c] = << >>
  BY DEF SentUpToDoubleEnter
<1> DEFINE S == Char \cup {NL}
<1>1. PICK s, t, y, a, m : /\ s = input[c] /\ t = typed[c] /\ y = sent[c]
                           /\ a = Len(y) /\ m = Len(t)
  OBVIOUS
<1>2. s \in Seq(S) /\ t \in Seq(S) /\ y \in Seq(S) /\ a \in Nat /\ m \in Nat /\ Len(s) \in Nat
  BY <1>1 DEF EchoInv, EchoType
<1>3. /\ a <= m /\ Len(s) = m - a
      /\ \A i \in 1 .. a : y[i] = t[i]
      /\ \A i \in 1 .. Len(s) : s[i] = t[a + i]
      /\ a > 0 => (prev_nl[c] <=> t[a] = NL)
      /\ \A i \in DoubleEnters(t) : i >= a
  <2>1. LineInv(c)
    BY DEF EchoInv
  <2>2. QED
    BY <1>1, <2>1 DEF LineInv
<1> HIDE DEF S
<1>4. CASE s = << >>
  <2>1. a = m
    BY <1>2, <1>3, <1>4
  <2>2. DoubleEnters(t) = {}
    <3>1. \A i \in DoubleEnters(t) : i \in 1 .. m - 1
      BY <1>1 DEF DoubleEnters
    <3>2. QED
      BY <1>2, <1>3, <2>1, <3>1
  <2>3. y = t
    <3>1. \A i \in 1 .. Len(y) : y[i] = t[i]
      BY <1>1, <1>3
    <3>2. Len(y) = Len(t)
      BY <1>1, <2>1
    <3>3. QED
      BY <1>2, <3>1, <3>2, SeqEqual
  <2>4. QED
    BY <1>1, <2>2, <2>3
<1>5. CASE s # << >> /\ prev_nl[c] /\ Head(s) = NL
  <2>1. Len(s) >= 1 /\ Head(s) = s[1]
    BY <1>2, <1>5
  <2>2. t[a + 1] = NL /\ a + 1 <= m
    <3>1. 1 \in 1 .. Len(s)
      BY <1>2, <2>1
    <3>2. QED
      BY <1>2, <1>3, <1>5, <2>1, <3>1
  <2>3. CASE a = 0
    <3>1. y = << >>
      <4>1. y \in Seq(S) /\ Len(y) = 0
        BY <1>1, <1>2, <2>3
      <4>2. QED
        BY ONLY <4>1, EmptySeq
    <3>2. t[1] = NL
      BY <2>2, <2>3
    <3>3. QED
      BY <1>1, <3>1, <3>2
  <2>4. CASE a > 0
    <3>1. t[a] = NL
      BY <1>3, <1>5, <2>4
    <3>2. a \in DoubleEnters(t)
      <4>1. a \in 1 .. m - 1
        BY <1>2, <2>2, <2>4
      <4>2. QED
        BY <1>1, <2>2, <3>1, <4>1 DEF DoubleEnters
    <3>3. y = SubSeq(t, 1, a)
      <4>1. PICK z : z = SubSeq(t, 1, a)
        OBVIOUS
      <4>2. /\ \A i \in 1 .. a : t[i] \in S
            /\ 1 \in Int /\ a \in Int /\ a - 1 + 1 = a /\ 1 <= a
            /\ \A i \in 1 .. a : 1 + i - 1 = i
        BY <1>1, <1>2, <1>3, <2>4
      <4>3. z \in Seq(S) /\ Len(z) = a /\ \A i \in 1 .. a : z[i] = t[i]
        BY <4>1, <4>2, SubSeqProperties
      <4>4. Len(y) = Len(z) /\ \A i \in 1 .. Len(y) : y[i] = z[i]
        BY <1>1, <1>3, <4>3
      <4>5. QED
        BY <1>2, <4>1, <4>3, <4>4, SeqEqual
    <3>4. \A j \in DoubleEnters(t) : a <= j
      <4>1. \A j \in DoubleEnters(t) : j \in Nat
        BY <1>1, <1>2 DEF DoubleEnters
      <4>2. QED
        BY <1>2, <1>3, <4>1
    <3>5. QED
      BY <1>1, <3>2, <3>3, <3>4
  <2>5. QED
    BY <1>2, <2>3, <2>4
<1>6. QED
  BY <1>1, <1>4, <1>5 DEF EchoInv, IsDoubleEnter

LEMMA EchoAlways == Spec => []EchoInv
  BY EchoStarts, EchoStep, PTL DEF Spec

(* "Double Enter triggers client exit" (client.c): for every input and     *)
(* every size of the line buffer, a client that has exited has sent its    *)
(* input up to the first empty line, or all of it if there is none.        *)
THEOREM SendingCorrect == Spec => []SentUpToDoubleEnter
  BY EchoAlways, SentCorrect, PTL

(* However the processes that server.c forks write, the characters of each *)
(* client come out once and in the order they were sent, and on a terminal *)
(* no message of the server comes out twice.                               *)
THEOREM OutputCorrect == Spec => []OutputInOrder
<1>1. EchoInv => OutputInOrder
  BY DEF EchoInv
<1>2. QED
  BY <1>1, EchoAlways, PTL
=============================================================================
