------------------------- MODULE VnsSession_proofs -------------------------
(***************************************************************************)
(* The router's session with the virtual network server: what it knows of  *)
(* the routing table, of SHA-1 and of the connection, for every script of  *)
(* the server, every table and every way the reads are cut.                *)
(***************************************************************************)
EXTENDS VnsSession, SequenceTheorems, TLAPS

-----------------------------------------------------------------------------
(* The routing table: the lookup is a longest prefix match. *)

(* What the scan knows after entry - 1 entries: the best of them, and its  *)
(* mask.  As long as the table may be loaded no scan has taken place.      *)
ScanSoFar ==
    /\ pc \in {"scan", "found"} =>
          /\ lpmmask = IF lpmentry = NULL THEN 0 ELSE routing_table[lpmentry].mask
          /\ IsBest(lpmentry, entry - 1, ip_dst)
    /\ pc = "found" => entry = Len(routing_table) + 1
    /\ pc \in {"load", "idle"} => entry = 1 /\ lpmentry = NULL

Inv == TypeOK /\ ScanSoFar

LEMMA FilesAreLines == Files \subseteq Seq(Line)
  BY ConstantsAssumption DEF Files

LEMMA ScannedIsEntry ==
  ASSUME fields \in Line, NEW line \in Line, NEW e \in Scanned(line), e # Malformed
  PROVE  e \in Entry
  BY DEF Scanned, Line

LEMMA MasksAreNatural == \A e \in Entry : e.mask \in Mask /\ e.mask \in Nat
<1>1. \A m \in Mask : m \in Nat
  BY ConstantsAssumption
<1>2. \A e \in Entry : e.mask \in Mask
  BY DEF Entry
<1> QED
  BY <1>1, <1>2

LEMMA InitInv == Init => Inv
<1> SUFFICES ASSUME Init PROVE Inv
  OBVIOUS
<1>1. file \in Seq(Line)
  BY FilesAreLines DEF Init
<1>2. 0 \in Ip
  BY ConstantsAssumption DEF Ip
<1>3. fields \in Line /\ clear_routing_table \in BOOLEAN /\ routing_table \in Seq(Entry)
  <2>1. clear_routing_table \in BOOLEAN
    BY Zenon DEF Init
  <2>2. fields \in Line /\ routing_table \in Seq(Entry)
    BY SMT DEF Init, Line
  <2> QED
    BY <2>1, <2>2
<1>4. TypeOK
  <2>1. /\ entry \in 1 .. Len(routing_table) + 1 /\ lpmentry \in 0 .. Len(routing_table)
        /\ lpmmask \in Nat
    BY DEF Init, NULL
  <2>2. pc \in {"load", "idle", "scan", "found", "exited"} /\ ip_dst \in Ip
    BY <1>2 DEF Init
  <2> QED
    BY <1>1, <1>3, <2>1, <2>2 DEF TypeOK
<1>5. ScanSoFar
  BY DEF Init, ScanSoFar
<1> QED
  BY <1>4, <1>5 DEF Inv

(* Each action keeps the invariant; the one that matters is ScanEntry. *)
LEMMA NextInv ==
  ASSUME Inv, [Next]_vars
  PROVE  Inv'
<1> USE DEF Inv, NULL
<1>1. CASE LoadLine
  <2>1. PICK e \in Scanned(Head(file)) :
            e # Malformed /\ fields' = e /\ routing_table' = AddEntry(e)
    BY <1>1 DEF LoadLine
  <2>2. Head(file) \in Line /\ file' \in Seq(Line)
    BY <1>1 DEF LoadLine, TypeOK
  <2>3. e \in Entry
    BY <2>1, <2>2, ScannedIsEntry DEF TypeOK
  <2>4. routing_table' \in Seq(Entry)
    BY <2>1, <2>3 DEF TypeOK, AddEntry
  <2>5. TypeOK'
    BY <1>1, <2>1, <2>2, <2>3, <2>4 DEF LoadLine, TypeOK, ScanSoFar, Line, lookup
  <2>6. ScanSoFar'
    BY <1>1 DEF LoadLine, ScanSoFar, lookup
  <2> QED
    BY <2>5, <2>6
<1>2. CASE LoadError
  BY <1>2 DEF LoadError, TypeOK, ScanSoFar, lookup
<1>3. CASE LoadEnd
  BY <1>3 DEF LoadEnd, TypeOK, ScanSoFar, lookup
<1>4. CASE FindBegin
  BY <1>4 DEF FindBegin, TypeOK, ScanSoFar, IsBest
<1>5. CASE ScanEntry
  <2> DEFINE best == routing_table[entry]
  <2>1. /\ pc = "scan" /\ entry \in 1 .. Len(routing_table)
        /\ best \in Entry /\ best.mask \in Nat
    <3>1. pc = "scan" /\ entry \in 1 .. Len(routing_table)
      BY <1>5 DEF ScanEntry, TypeOK
    <3>2. best \in Entry
      BY <3>1 DEF TypeOK
    <3> QED
      BY <3>1, <3>2, MasksAreNatural
  <2>2. /\ UNCHANGED <<file, fields, clear_routing_table, routing_table, pc, ip_dst>>
        /\ entry' = entry + 1
    BY <1>5 DEF ScanEntry
  <2>3. /\ lpmmask = IF lpmentry = NULL THEN 0 ELSE routing_table[lpmentry].mask
        /\ IsBest(lpmentry, entry - 1, ip_dst)
    BY <2>1 DEF ScanSoFar
  <2>4. \A j \in 1 .. Len(routing_table) : routing_table[j].mask \in Nat
    BY MasksAreNatural DEF TypeOK
  <2>5. CASE IsLongerMatch(best)
    <3>1. lpmentry' = entry /\ lpmmask' = best.mask
      BY <1>5, <2>5 DEF ScanEntry
    <3>2. Candidate(ip_dst, best) /\ best.mask > lpmmask
      BY <2>1, <2>5 DEF IsLongerMatch, Candidate, TypeOK
    <3>3. ASSUME NEW j \in 1 .. entry - 1, Candidate(ip_dst, routing_table[j])
          PROVE  routing_table[j].mask < best.mask
      <4>1. lpmentry # NULL /\ lpmmask = routing_table[lpmentry].mask
        BY <2>3, <3>3 DEF IsBest
      <4>2. /\ lpmentry \in 1 .. entry - 1
            /\ \/ routing_table[j].mask < routing_table[lpmentry].mask
               \/ routing_table[j].mask = routing_table[lpmentry].mask
        BY <2>3, <3>3, <4>1 DEF IsBest
      <4>3. {best.mask, lpmmask, routing_table[j].mask} \subseteq Nat
        BY <2>1, <2>4 DEF TypeOK
      <4> QED
        BY <3>2, <4>1, <4>2, <4>3
    <3>4. IsBest(entry, entry, ip_dst)
      BY <2>1, <2>4, <3>2, <3>3 DEF IsBest
    <3> QED
      BY <2>1, <2>2, <3>1, <3>4 DEF TypeOK, ScanSoFar, IsBest
  <2>6. CASE ~IsLongerMatch(best)
    <3>1. UNCHANGED <<lpmentry, lpmmask>>
      BY <1>5, <2>6 DEF ScanEntry
    <3>2. Candidate(ip_dst, best) => lpmentry # NULL /\ best.mask <= routing_table[lpmentry].mask
      BY <2>1, <2>3, <2>4, <2>6 DEF IsLongerMatch, Candidate, TypeOK
    <3>3. IsBest(lpmentry, entry, ip_dst)
      BY <2>1, <2>3, <2>4, <3>2 DEF IsBest, TypeOK
    <3> QED
      BY <2>1, <2>2, <2>3, <3>1, <3>3 DEF TypeOK, ScanSoFar, IsBest
  <2> QED
    BY <2>5, <2>6
<1>6. CASE ScanEnd
  BY <1>6 DEF ScanEnd, TypeOK, ScanSoFar, lookup, IsBest
<1>7. ASSUME NEW f \in Files, Reload(f) PROVE Inv'
  <2>1. f \in Seq(Line)
    BY FilesAreLines
  <2> QED
    BY <1>7, <2>1 DEF Reload, TypeOK, ScanSoFar, Line, lookup
<1>8. CASE UNCHANGED vars
  BY <1>8 DEF vars, lookup, TypeOK, ScanSoFar, IsBest
<1> QED
  BY <1>1, <1>2, <1>3, <1>4, <1>5, <1>6, <1>7, <1>8 DEF Next

(* sr_findLPMentry(): for every file, every address and every order of the *)
(* table's entries, default routes among them, the scan returns the first  *)
(* of the longest matches that have a mask, and none if there is none.     *)
THEOREM LookupCorrect == Spec => []LongestMatchFound
<1>1. Inv => LongestMatchFound
  BY DEF Inv, TypeOK, ScanSoFar, LongestMatchFound
<1>2. Inv /\ [Next]_vars => Inv'
  BY NextInv
<1> QED
  BY <1>1, <1>2, InitInv, PTL DEF Spec

-----------------------------------------------------------------------------
(* SHA-1 *)

Block == [1 .. BLOCK -> Int]

Context == [Message_Block : Block, Message_Block_Index : 0 .. BLOCK,
            Length_Low : Nat, Length_High : Nat,
            Message_Digest : Seq(Block), Corrupted : BOOLEAN]

(* The context c has taken in the first k places of m: the digest is that  *)
(* of the full blocks, what is left over is in Message_Block, and the two  *)
(* words hold the length in bits.                                          *)
Collected(c, m, k) ==
    LET n == Len(c.Message_Digest) IN
    /\ c.Message_Block_Index < BLOCK
    /\ k = n * BLOCK + c.Message_Block_Index
    /\ \A b \in 1 .. n : \A i \in 1 .. BLOCK :
          c.Message_Digest[b][i] = m[(b - 1) * BLOCK + i]
    /\ \A i \in 1 .. c.Message_Block_Index : c.Message_Block[i] = m[n * BLOCK + i]

(* The length in bits, in two words *)
Counted(c, k) ==
    /\ c.Length_Low < WORD_MOD /\ c.Length_High < WORD_MOD
    /\ c.Length_Low % 8 = 0
    /\ c.Length_High * WORD_MOD + c.Length_Low = 8 * k

LEMMA DivMod ==
    ASSUME NEW b \in Nat \ {0}, NEW q \in Nat, NEW r \in 0 .. b - 1
    PROVE  (q * b + r) % b = r /\ (q * b + r) \div b = q
  OBVIOUS

LEMMA PutFields ==
    ASSUME NEW c \in Context, NEW byte \in Int, c.Message_Block_Index < BLOCK
    PROVE  /\ Put(c, byte) \in Context
           /\ Put(c, byte).Message_Block_Index = c.Message_Block_Index + 1
           /\ Put(c, byte).Message_Block =
                 [c.Message_Block EXCEPT ![c.Message_Block_Index + 1] = byte]
           /\ Put(c, byte).Message_Digest = c.Message_Digest
           /\ Put(c, byte).Length_Low = c.Length_Low
           /\ Put(c, byte).Length_High = c.Length_High
           /\ Put(c, byte).Corrupted = c.Corrupted
<1>1. PICK i, f : i = c.Message_Block_Index + 1 /\ f = [c.Message_Block EXCEPT ![i] = byte]
  OBVIOUS
<1>2. /\ c.Message_Block \in Block /\ c.Message_Block_Index \in 0 .. BLOCK /\ BLOCK \in Nat
      /\ i \in 0 .. BLOCK
  BY <1>1, Sha1Assumption DEF Context
<1>3. f \in Block
  BY <1>1, <1>2 DEF Block
<1>4. Put(c, byte) = [c EXCEPT !.Message_Block = f, !.Message_Block_Index = i]
  BY <1>1 DEF Put
<1>5. QED
  BY <1>1, <1>2, <1>3, <1>4 DEF Context

LEMMA ProcessFields ==
    ASSUME NEW c \in Context
    PROVE  /\ SHA1ProcessMessageBlock(c) \in Context
           /\ SHA1ProcessMessageBlock(c).Message_Block_Index = 0
           /\ SHA1ProcessMessageBlock(c).Message_Block = c.Message_Block
           /\ SHA1ProcessMessageBlock(c).Message_Digest =
                 Append(c.Message_Digest, c.Message_Block)
           /\ SHA1ProcessMessageBlock(c).Length_Low = c.Length_Low
           /\ SHA1ProcessMessageBlock(c).Length_High = c.Length_High
           /\ SHA1ProcessMessageBlock(c).Corrupted = c.Corrupted
<1>1. PICK d : d = Append(c.Message_Digest, c.Message_Block)
  OBVIOUS
<1>2. c.Message_Block \in Block /\ c.Message_Digest \in Seq(Block) /\ BLOCK \in Nat
  BY Sha1Assumption DEF Context
<1>3. d \in Seq(Block)
  BY <1>1, <1>2
<1>4. PICK x : x = [c EXCEPT !.Message_Digest = d]
  OBVIOUS
<1>5. /\ x \in Context /\ x.Message_Block = c.Message_Block /\ x.Message_Digest = d
      /\ x.Length_Low = c.Length_Low /\ x.Length_High = c.Length_High
      /\ x.Corrupted = c.Corrupted
  BY <1>3, <1>4 DEF Context
<1>6. SHA1ProcessMessageBlock(c) = [x EXCEPT !.Message_Block_Index = 0]
  BY <1>1, <1>4 DEF SHA1ProcessMessageBlock
<1>7. PICK y : y = [x EXCEPT !.Message_Block_Index = 0]
  OBVIOUS
<1>8. /\ y \in Context /\ y.Message_Block = x.Message_Block /\ y.Message_Digest = x.Message_Digest
      /\ y.Length_Low = x.Length_Low /\ y.Length_High = x.Length_High
      /\ y.Corrupted = x.Corrupted /\ y.Message_Block_Index = 0
  BY <1>2, <1>5, <1>7 DEF Context
<1>9. QED
  BY <1>1, <1>5, <1>6, <1>7, <1>8

LEMMA ZeroFields ==
    ASSUME NEW c \in Context, NEW n \in 0 .. BLOCK
    PROVE  /\ ZerosUpTo(c, n) \in Context
           /\ ZerosUpTo(c, n).Message_Block_Index = n
           /\ ZerosUpTo(c, n).Message_Block =
                 [i \in 1 .. BLOCK |-> IF c.Message_Block_Index < i /\ i <= n
                                       THEN 0 ELSE c.Message_Block[i]]
           /\ ZerosUpTo(c, n).Message_Digest = c.Message_Digest
           /\ ZerosUpTo(c, n).Length_Low = c.Length_Low
           /\ ZerosUpTo(c, n).Length_High = c.Length_High
<1>1. PICK f : f = [i \in 1 .. BLOCK |-> IF c.Message_Block_Index < i /\ i <= n
                                         THEN 0 ELSE c.Message_Block[i]]
  OBVIOUS
<1>2. c.Message_Block \in Block /\ c.Message_Block_Index \in 0 .. BLOCK /\ BLOCK \in Nat
  BY Sha1Assumption DEF Context
<1>3. f \in Block
  BY <1>1, <1>2 DEF Block
<1>4. ZerosUpTo(c, n) = [c EXCEPT !.Message_Block = f, !.Message_Block_Index = n]
  BY <1>1 DEF ZerosUpTo
<1>5. QED
  BY <1>1, <1>2, <1>3, <1>4 DEF Context

(* What a turn of SHA1Input() stores, before a full block is processed *)
Stored(c, byte, low, high) ==
    [Put(c, byte) EXCEPT !.Length_Low = low, !.Length_High = high,
                         !.Corrupted = low = 0 /\ high = 0]

LEMMA StoredFields ==
    ASSUME NEW c \in Context, NEW byte \in Int, c.Message_Block_Index < BLOCK,
           NEW low \in Nat, NEW high \in Nat, NEW s, s = Stored(c, byte, low, high)
    PROVE  /\ s \in Context
           /\ s.Message_Block_Index = c.Message_Block_Index + 1
           /\ s.Message_Block = [c.Message_Block EXCEPT ![c.Message_Block_Index + 1] = byte]
           /\ s.Message_Digest = c.Message_Digest
           /\ s.Length_Low = low /\ s.Length_High = high
           /\ s.Corrupted <=> low = 0 /\ high = 0
<1>1. PICK p, x, y : /\ p = Put(c, byte) /\ x = [p EXCEPT !.Length_Low = low]
                     /\ y = [x EXCEPT !.Length_High = high]
  OBVIOUS
<1>2. /\ p \in Context /\ p.Message_Block_Index = c.Message_Block_Index + 1
      /\ p.Message_Block = [c.Message_Block EXCEPT ![c.Message_Block_Index + 1] = byte]
      /\ p.Message_Digest = c.Message_Digest
  BY <1>1, PutFields
<1>3. /\ x \in Context /\ x.Message_Block_Index = p.Message_Block_Index
      /\ x.Message_Block = p.Message_Block /\ x.Message_Digest = p.Message_Digest
      /\ x.Length_Low = low
  BY <1>1, <1>2 DEF Context
<1>4. /\ y \in Context /\ y.Message_Block_Index = p.Message_Block_Index
      /\ y.Message_Block = p.Message_Block /\ y.Message_Digest = p.Message_Digest
      /\ y.Length_Low = low /\ y.Length_High = high
  BY <1>1, <1>3 DEF Context
<1>5. s = [y EXCEPT !.Corrupted = (low = 0 /\ high = 0)]
  BY <1>1 DEF Stored
<1>6. QED
  BY <1>2, <1>4, <1>5 DEF Context

(* The length grows by eight bits, with the carry; 2^64 bits are noticed. *)
LEMMA CountStep ==
    ASSUME NEW low \in Nat, NEW high \in Nat, NEW k \in Nat,
           low < WORD_MOD, high < WORD_MOD, low % 8 = 0, high * WORD_MOD + low = 8 * k,
           NEW l, l = (low + 8) % WORD_MOD,
           NEW h, h = IF l = 0 THEN (high + 1) % WORD_MOD ELSE high
    PROVE  /\ l \in Nat /\ h \in Nat /\ l < WORD_MOD /\ h < WORD_MOD /\ l % 8 = 0
           /\ ~(l = 0 /\ h = 0) => h * WORD_MOD + l = 8 * (k + 1)
<1>0. PICK w \in Nat \ {0} : w = WORD_MOD /\ w % 8 = 0
  BY Sha1Assumption
<1>1. low + 8 <= w
  BY <1>0
<1>2. CASE low + 8 < w
  <2>1. l = low + 8
    BY <1>0, <1>2
  <2>2. h = high
    BY <2>1
  <2>3. QED
    BY <1>0, <1>2, <2>1, <2>2
<1>3. CASE low + 8 = w
  <2>1. l = 0
    BY <1>0, <1>3
  <2>2. h = (high + 1) % w
    BY <1>0, <2>1
  <2>3. CASE high + 1 < w
    <3>1. h = high + 1
      BY <1>0, <2>2, <2>3
    <3>2. h * w = high * w + w
      BY <1>0, <3>1
    <3>3. QED
      BY <1>0, <1>3, <2>1, <2>3, <3>1, <3>2
  <2>4. CASE high + 1 = w
    <3>1. h = 0
      BY <1>0, <2>2, <2>4
    <3>2. QED
      BY <1>0, <2>1, <3>1
  <2>5. QED
    BY <1>0, <2>3, <2>4
<1>4. QED
  BY <1>0, <1>1, <1>2, <1>3

(* A turn of SHA1Input(): the next byte is stored, and a full block is     *)
(* processed.                                                              *)
LEMMA InputByte ==
    ASSUME NEW c \in Context, NEW m \in Seq(Int), NEW k \in Nat, k < Len(m),
           ~c.Corrupted, Collected(c, m, k), Counted(c, k)
    PROVE  LET d == SHA1InputByte(c, m[k + 1]) IN
           /\ d \in Context
           /\ ~d.Corrupted => Collected(d, m, k + 1) /\ Counted(d, k + 1)
<1>0. PICK byte, D, x, n, M : /\ byte = m[k + 1] /\ D = c.Message_Digest
                              /\ x = c.Message_Block_Index /\ n = Len(D)
                              /\ M = c.Message_Block
  OBVIOUS
<1>1. /\ byte \in Int /\ BLOCK \in Nat /\ BLOCK > 3 /\ D \in Seq(Block) /\ n \in Nat
      /\ x \in Nat /\ x < BLOCK /\ M \in Block
      /\ c.Length_Low \in Nat /\ c.Length_High \in Nat
  BY <1>0, Sha1Assumption DEF Context, Collected
<1>b. /\ k = n * BLOCK + x /\ n * BLOCK \in Nat
      /\ \A b \in 1 .. n : \A i \in 1 .. BLOCK : D[b][i] = m[(b - 1) * BLOCK + i]
      /\ \A i \in 1 .. x : M[i] = m[n * BLOCK + i]
  <2>1. n * BLOCK \in Nat
    BY <1>1
  <2>2. QED
    BY <1>0, <2>1 DEF Collected
<1>2. PICK l, h : /\ l = (c.Length_Low + 8) % WORD_MOD
                  /\ h = IF l = 0 THEN (c.Length_High + 1) % WORD_MOD ELSE c.Length_High
  OBVIOUS
<1>3. /\ l \in Nat /\ h \in Nat /\ l < WORD_MOD /\ h < WORD_MOD /\ l % 8 = 0
      /\ ~(l = 0 /\ h = 0) => h * WORD_MOD + l = 8 * (k + 1)
  <2>1. PICK low, high : low = c.Length_Low /\ high = c.Length_High
    OBVIOUS
  <2>2. /\ low \in Nat /\ high \in Nat /\ low < WORD_MOD /\ high < WORD_MOD
        /\ low % 8 = 0 /\ high * WORD_MOD + low = 8 * k
    BY <1>1, <2>1 DEF Counted
  <2>3. /\ l = (low + 8) % WORD_MOD
        /\ h = IF l = 0 THEN (high + 1) % WORD_MOD ELSE high
    BY <1>2, <2>1
  <2>4. QED
    BY <2>2, <2>3, CountStep
<1>4. PICK s : s = Stored(c, byte, l, h)
  OBVIOUS
<1>5. /\ s \in Context /\ s.Message_Block_Index = x + 1
      /\ s.Message_Block = [M EXCEPT ![x + 1] = byte]
      /\ s.Message_Digest = D /\ s.Length_Low = l /\ s.Length_High = h
      /\ s.Corrupted <=> l = 0 /\ h = 0
  <2>1. /\ byte \in Int /\ l \in Nat /\ h \in Nat
        /\ c.Message_Block_Index < BLOCK /\ s = Stored(c, byte, l, h)
    BY <1>0, <1>1, <1>3, <1>4
  <2>2. /\ s \in Context /\ s.Message_Block_Index = c.Message_Block_Index + 1
        /\ s.Message_Block = [c.Message_Block EXCEPT ![c.Message_Block_Index + 1] = byte]
        /\ s.Message_Digest = c.Message_Digest
        /\ s.Length_Low = l /\ s.Length_High = h
        /\ s.Corrupted <=> l = 0 /\ h = 0
    BY <2>1, StoredFields
  <2>3. QED
    BY <1>0, <2>2
<1>6. SHA1InputByte(c, byte) = IF s.Message_Block_Index = BLOCK
                               THEN SHA1ProcessMessageBlock(s) ELSE s
  BY <1>2, <1>4 DEF SHA1InputByte, Stored
<1>7. \A i \in 1 .. x + 1 : s.Message_Block[i] = m[n * BLOCK + i]
  <2> SUFFICES ASSUME NEW i \in 1 .. x + 1 PROVE s.Message_Block[i] = m[n * BLOCK + i]
    OBVIOUS
  <2>1. i \in Int
    OBVIOUS
  <2>2. CASE i = x + 1
    <3>1. s.Message_Block[i] = byte
      BY <1>1, <1>5, <2>2 DEF Block
    <3>2. n * BLOCK + i = k + 1
      BY <1>1, <1>b, <2>2
    <3>3. QED
      BY <1>0, <3>1, <3>2
  <2>3. CASE i \in 1 .. x
    <3>1. s.Message_Block[i] = M[i]
      BY <1>1, <1>5, <2>3 DEF Block
    <3>2. QED
      BY <1>b, <2>3, <3>1
  <2>4. QED
    BY <1>1, <2>2, <2>3
<1>8. CASE x + 1 = BLOCK
  <2>1. PICK d : d = SHA1ProcessMessageBlock(s)
    OBVIOUS
  <2>2. /\ d \in Context /\ d.Message_Block_Index = 0
        /\ d.Message_Digest = Append(D, s.Message_Block)
        /\ d.Length_Low = l /\ d.Length_High = h
        /\ d.Corrupted <=> l = 0 /\ h = 0
    BY <1>5, <2>1, ProcessFields
  <2>3. s.Message_Block \in Block
    BY <1>5 DEF Context
  <2>4. /\ Len(d.Message_Digest) = n + 1
        /\ d.Message_Digest[n + 1] = s.Message_Block
        /\ \A b \in 1 .. n : d.Message_Digest[b] = D[b]
    <3>1. PICK f : f = s.Message_Block
      OBVIOUS
    <3>2. f \in Block /\ d.Message_Digest = Append(D, f)
      BY <2>2, <2>3, <3>1
    <3>3. QED
      BY <1>0, <1>1, <3>1, <3>2
  <2>5. \A b \in 1 .. n + 1 : \A i \in 1 .. BLOCK :
           d.Message_Digest[b][i] = m[(b - 1) * BLOCK + i]
    <3> SUFFICES ASSUME NEW b \in 1 .. n + 1, NEW i \in 1 .. BLOCK
                 PROVE  d.Message_Digest[b][i] = m[(b - 1) * BLOCK + i]
      OBVIOUS
    <3>1. CASE b \in 1 .. n
      BY <1>b, <2>4, <3>1
    <3>2. CASE b = n + 1
      <4>1. b - 1 = n
        BY <1>1, <3>2
      <4>2. QED
        BY <1>7, <1>8, <2>4, <3>2, <4>1
    <3>3. QED
      BY <1>1, <3>1, <3>2
  <2>6. k + 1 = (n + 1) * BLOCK
    <3>1. (n + 1) * BLOCK = n * BLOCK + BLOCK
      BY <1>1
    <3>2. QED
      BY <1>1, <1>b, <1>8, <3>1
  <2>7. Collected(d, m, k + 1)
    <3>1. d.Message_Block_Index < BLOCK /\ k + 1 = (n + 1) * BLOCK + d.Message_Block_Index
      BY <1>1, <2>2, <2>6
    <3>2. \A i \in 1 .. d.Message_Block_Index :
             d.Message_Block[i] = m[(n + 1) * BLOCK + i]
      BY <2>2
    <3>3. QED
      BY <2>4, <2>5, <3>1, <3>2 DEF Collected
  <2>8. ~d.Corrupted => Counted(d, k + 1)
    BY <1>3, <1>4, <2>2 DEF Counted
  <2>9. SHA1InputByte(c, byte) = d
    BY <1>5, <1>6, <1>8, <2>1
  <2>10. QED
    BY <1>0, <2>2, <2>7, <2>8, <2>9
<1>9. CASE x + 1 # BLOCK
  <2>1. k + 1 = n * BLOCK + (x + 1) /\ x + 1 < BLOCK
    BY <1>1, <1>b, <1>9
  <2>2. Collected(s, m, k + 1)
    <3>1. \A b \in 1 .. n : \A i \in 1 .. BLOCK :
             s.Message_Digest[b][i] = m[(b - 1) * BLOCK + i]
      BY <1>b, <1>5
    <3>2. QED
      BY <1>0, <1>5, <1>7, <2>1, <3>1 DEF Collected
  <2>3. ~s.Corrupted => Counted(s, k + 1)
    BY <1>3, <1>4, <1>5 DEF Counted
  <2>4. SHA1InputByte(c, byte) = s
    BY <1>5, <1>6, <1>9
  <2>5. QED
    BY <1>0, <1>5, <2>2, <2>3, <2>4
<1>10. QED
  BY <1>8, <1>9

LEMMA Joined ==
    ASSUME NEW s \in Seq(Int), NEW t \in Seq(Int), NEW r, r = s \o t
    PROVE  /\ r \in Seq(Int) /\ Len(r) = Len(s) + Len(t)
           /\ \A i \in 1 .. Len(s) : r[i] = s[i]
           /\ \A i \in 1 .. Len(t) : r[Len(s) + i] = t[i]
<1>1. /\ r \in Seq(Int) /\ Len(r) = Len(s) + Len(t)
      /\ \A i \in 1 .. Len(s) + Len(t) : r[i] = IF i <= Len(s) THEN s[i] ELSE t[i - Len(s)]
  BY ConcatProperties
<1>2. ASSUME NEW i \in 1 .. Len(t) PROVE r[Len(s) + i] = t[i]
  <2>1. /\ Len(s) + i \in 1 .. Len(s) + Len(t) /\ ~(Len(s) + i <= Len(s))
        /\ (Len(s) + i) - Len(s) = i
    OBVIOUS
  <2>2. QED
    BY <1>1, <2>1
<1>3. ASSUME NEW i \in 1 .. Len(s) PROVE r[i] = s[i]
  BY <1>1
<1>4. QED
  BY <1>1, <1>2, <1>3

(* The places of the padded message *)
LEMMA PaddedPlaces ==
    ASSUME NEW m \in Seq(Int), NEW z \in Nat,
           z = (BLOCK - ((Len(m) + 3) % BLOCK)) % BLOCK
    PROVE  LET p == PaddedMessage(m)
               l == Len(m) IN
           /\ p \in Seq(Int) /\ Len(p) = l + z + 3
           /\ \A j \in 1 .. l : p[j] = m[j]
           /\ p[l + 1] = PadMark
           /\ \A j \in l + 2 .. l + z + 1 : p[j] = 0
           /\ p[l + z + 2] = (8 * l) \div WORD_MOD
           /\ p[l + z + 3] = (8 * l) % WORD_MOD
<1>1. PICK l \in Nat : l = Len(m)
  OBVIOUS
<1>2. PICK hi, lo : hi = (8 * l) \div WORD_MOD /\ lo = (8 * l) % WORD_MOD
  OBVIOUS
<1>3. hi \in Int /\ lo \in Int
  BY <1>1, <1>2, Sha1Assumption
<1>4. PICK zs : zs = [i \in 1 .. z |-> 0]
  OBVIOUS
<1>5. zs \in Seq(Int) /\ Len(zs) = z /\ \A i \in 1 .. z : zs[i] = 0
  BY <1>4
<1>6. PaddedMessage(m) = m \o <<PadMark>> \o zs \o <<hi, lo>>
  BY <1>1, <1>2, <1>4 DEF PaddedMessage
<1>7. PICK a : a = m \o <<PadMark>>
  OBVIOUS
<1>8. /\ a \in Seq(Int) /\ Len(a) = l + 1 /\ a[l + 1] = PadMark
      /\ \A j \in 1 .. l : a[j] = m[j]
  BY <1>1, <1>7 DEF PadMark
<1>9. PICK b : b = a \o zs
  OBVIOUS
<1>10. /\ b \in Seq(Int) /\ Len(b) = l + z + 1
       /\ \A j \in 1 .. l + 1 : b[j] = a[j]
       /\ \A j \in l + 2 .. l + z + 1 : b[j] = 0
  <2>1. /\ b \in Seq(Int) /\ Len(b) = Len(a) + Len(zs)
        /\ \A j \in 1 .. Len(a) : b[j] = a[j]
        /\ \A j \in 1 .. Len(zs) : b[Len(a) + j] = zs[j]
    <3>1. a \in Seq(Int) /\ zs \in Seq(Int) /\ b = a \o zs
      BY <1>5, <1>8, <1>9
    <3>2. QED
      BY <3>1, Joined, SMTT(30)
  <2>2. ASSUME NEW j \in l + 2 .. l + z + 1 PROVE b[j] = 0
    <3>1. PICK i \in 1 .. z : j = (l + 1) + i
      <4>1. j - (l + 1) \in 1 .. z /\ j = (l + 1) + (j - (l + 1))
        BY <1>1
      <4>2. QED
        BY <4>1
    <3>2. QED
      BY <1>5, <1>8, <2>1, <3>1
  <2>3. Len(b) = l + z + 1
    BY <1>1, <1>5, <1>8, <2>1
  <2>4. QED
    BY <1>8, <2>1, <2>2, <2>3
<1>11. PICK p, e : e = <<hi, lo>> /\ p = b \o e
  OBVIOUS
<1>12. /\ p \in Seq(Int) /\ Len(p) = l + z + 3
       /\ \A j \in 1 .. l + z + 1 : p[j] = b[j]
       /\ p[l + z + 2] = hi /\ p[l + z + 3] = lo
  <2>1. e \in Seq(Int) /\ Len(e) = 2 /\ e[1] = hi /\ e[2] = lo
    BY <1>3, <1>11
  <2>2. /\ p \in Seq(Int) /\ Len(p) = Len(b) + Len(e)
        /\ \A j \in 1 .. Len(b) : p[j] = b[j]
        /\ \A j \in 1 .. Len(e) : p[Len(b) + j] = e[j]
    <3>1. b \in Seq(Int) /\ e \in Seq(Int) /\ p = b \o e
      BY <1>10, <1>11, <2>1
    <3>2. QED
      BY <3>1, Joined, SMTT(30)
  <2>3. /\ 1 \in 1 .. Len(e) /\ 2 \in 1 .. Len(e)
        /\ Len(b) + 1 = l + z + 2 /\ Len(b) + 2 = l + z + 3
    BY <1>1, <1>10, <2>1
  <2>4. QED
    BY <1>1, <1>10, <2>1, <2>2, <2>3
<1>13. PaddedMessage(m) = p
  BY <1>6, <1>7, <1>9, <1>11
<1>14. /\ \A j \in 1 .. l : p[j] = m[j]
       /\ p[l + 1] = PadMark
       /\ \A j \in l + 2 .. l + z + 1 : p[j] = 0
  <2>1. ASSUME NEW j \in 1 .. l PROVE p[j] = m[j]
    <3>1. j \in 1 .. l + 1 /\ j \in 1 .. l + z + 1
      BY <1>1
    <3>2. QED
      BY <1>8, <1>10, <1>12, <3>1
  <2>2. p[l + 1] = PadMark
    <3>1. l + 1 \in 1 .. l + 1 /\ l + 1 \in 1 .. l + z + 1
      BY <1>1
    <3>2. QED
      BY <1>8, <1>10, <1>12, <3>1
  <2>3. ASSUME NEW j \in l + 2 .. l + z + 1 PROVE p[j] = 0
    <3>1. j \in 1 .. l + z + 1
      BY <1>1
    <3>2. QED
      BY <1>10, <1>12, <3>1
  <2>4. QED
    BY <2>1, <2>2, <2>3
<1>15. QED
  BY <1>1, <1>2, <1>12, <1>13, <1>14

(* Blocks with the places of the padded message are its blocks. *)
LEMMA BlocksEqual ==
    ASSUME NEW m \in Seq(Int), NEW d \in Seq(Block), NEW p \in Seq(Int), p = PaddedMessage(m),
           Len(p) = Len(d) * BLOCK,
           \A b \in 1 .. Len(d) : \A i \in 1 .. BLOCK : d[b][i] = p[(b - 1) * BLOCK + i]
    PROVE  d = Sha1Blocks(m)
<1>1. PICK n \in Nat : n = Len(d)
  OBVIOUS
<1>2. BLOCK \in Nat \ {0} /\ n * BLOCK \in Nat
  BY <1>1, Sha1Assumption
<1>3. Len(p) \div BLOCK = n
  <2>1. 0 \in 0 .. BLOCK - 1 /\ n * BLOCK + 0 = n * BLOCK
    BY <1>2
  <2>2. (n * BLOCK + 0) \div BLOCK = n
    BY <1>1, <1>2, <2>1, DivMod
  <2>3. QED
    BY <1>1, <2>1, <2>2
<1>4. Sha1Blocks(m) = [b \in 1 .. n |-> SubSeq(p, (b - 1) * BLOCK + 1, b * BLOCK)]
  BY <1>3 DEF Sha1Blocks
<1>5. ASSUME NEW b \in 1 .. n
      PROVE  SubSeq(p, (b - 1) * BLOCK + 1, b * BLOCK) = d[b]
  <2>1. PICK q \in Nat : q = (b - 1) * BLOCK
    BY <1>2
  <2>2. b * BLOCK = q + BLOCK /\ q + BLOCK <= n * BLOCK
    <3>1. PICK B \in Nat \ {0}, x \in Nat : B = BLOCK /\ x = n - b
      <4>1. n - b \in Nat
        BY <1>1
      <4>2. QED
        BY <1>2, <4>1
    <3>2. n * B = b * B + x * B /\ x * B \in Nat
      BY <1>1, <3>1
    <3>3. b * B = (b - 1) * B + B
      BY <1>1, <3>1
    <3>4. QED
      BY <2>1, <3>1, <3>2, <3>3
  <2>3. d[b] \in Block
    BY <1>1
  <2>4. PICK s : s = SubSeq(p, q + 1, q + BLOCK)
    OBVIOUS
  <2>5. s = [i \in 1 .. BLOCK |-> p[q + i]]
    <3>1. s \in Seq(Int) /\ Len(s) = BLOCK /\ \A i \in 1 .. BLOCK : s[i] = p[q + i]
      <4>1. \A i \in q + 1 .. q + BLOCK : p[i] \in Int
        <5>1. PICK z \in Nat : z = n * BLOCK /\ z = Len(p)
          BY <1>1, <1>2
        <5>a. q \in Nat /\ BLOCK \in Nat /\ q + BLOCK <= z
          BY <1>2, <2>1, <2>2, <5>1
        <5>2. \A i \in q + 1 .. q + BLOCK : i \in 1 .. z
          BY <5>1, <5>a
        <5>3. QED
          BY <5>1, <5>2
      <4>2. /\ s \in Seq(Int)
            /\ Len(s) = IF q + 1 <= q + BLOCK THEN (q + BLOCK) - (q + 1) + 1 ELSE 0
            /\ \A i \in 1 .. (q + BLOCK) - (q + 1) + 1 : s[i] = p[(q + 1) + i - 1]
        BY <1>2, <2>1, <2>4, <4>1, SubSeqProperties
      <4>3. /\ (q + BLOCK) - (q + 1) + 1 = BLOCK /\ q + 1 <= q + BLOCK
            /\ \A i \in 1 .. BLOCK : (q + 1) + i - 1 = q + i
        BY <1>2, <2>1
      <4>4. QED
        BY <4>2, <4>3
    <3>2. QED
      BY <3>1
  <2>6. d[b] = [i \in 1 .. BLOCK |-> p[q + i]]
    <3>1. \A i \in 1 .. BLOCK : d[b][i] = p[q + i]
      BY <1>1, <2>1
    <3>2. QED
      BY <2>3, <3>1 DEF Block
  <2>7. QED
    BY <2>1, <2>2, <2>4, <2>5, <2>6
<1>6. d = [b \in 1 .. n |-> d[b]]
  BY <1>1
<1>7. QED
  BY <1>4, <1>5, <1>6

LEMMA ModSmall ==
    ASSUME NEW b \in Nat \ {0}, NEW r \in 0 .. b - 1
    PROVE  r % b = r
  OBVIOUS

(* The end of SHA1PadMessage(): the length goes to the last two places *)
Ended(f) ==
    SHA1ProcessMessageBlock([f EXCEPT !.Message_Block[DATA + 1] = f.Length_High,
                                      !.Message_Block[BLOCK] = f.Length_Low])

LEMMA LastBlock ==
    ASSUME NEW f \in Context
    PROVE  \E e \in Block : /\ Ended(f).Message_Digest = Append(f.Message_Digest, e)
                            /\ e[BLOCK - 1] = f.Length_High /\ e[BLOCK] = f.Length_Low
                            /\ \A i \in 1 .. BLOCK - 2 : e[i] = f.Message_Block[i]
<1>1. BLOCK \in Nat /\ BLOCK > 3 /\ DATA + 1 = BLOCK - 1
  BY Sha1Assumption DEF DATA
<1>2. PICK hi, lo, F, G, H : /\ F = f.Message_Block
                     /\ hi = f.Length_High /\ lo = f.Length_Low
                     /\ G = [F EXCEPT ![BLOCK - 1] = hi] /\ H = [G EXCEPT ![BLOCK] = lo]
  OBVIOUS
<1>3. F \in Block /\ hi \in Int /\ lo \in Int
  BY <1>2 DEF Context
<1>4. G \in Block /\ G[BLOCK - 1] = hi /\ \A i \in 1 .. BLOCK - 2 : G[i] = F[i]
  BY <1>1, <1>2, <1>3 DEF Block
<1>5. H \in Block /\ H[BLOCK] = lo /\ \A i \in 1 .. BLOCK - 1 : H[i] = G[i]
  <2>1. BLOCK \in 1 .. BLOCK /\ \A i \in 1 .. BLOCK - 1 : i \in 1 .. BLOCK /\ i # BLOCK
    BY <1>1
  <2>2. H \in Block
    BY <1>2, <1>3, <1>4 DEF Block
  <2>3. QED
    BY <1>2, <1>4, <2>1, <2>2 DEF Block
<1>6. H[BLOCK - 1] = hi /\ \A i \in 1 .. BLOCK - 2 : H[i] = f.Message_Block[i]
  <2>1. /\ BLOCK - 1 \in 1 .. BLOCK - 1
        /\ \A i \in 1 .. BLOCK - 2 : i \in 1 .. BLOCK - 1
    BY <1>1
  <2>2. QED
    BY <1>2, <1>4, <1>5, <2>1
<1>7. PICK u, v : u = [f EXCEPT !.Message_Block = G] /\ v = [u EXCEPT !.Message_Block = H]
  OBVIOUS
<1>8. u \in Context /\ u.Message_Block = G /\ u.Message_Digest = f.Message_Digest
  BY <1>4, <1>7 DEF Context
<1>9. v \in Context /\ v.Message_Block = H /\ v.Message_Digest = f.Message_Digest
  BY <1>5, <1>7, <1>8 DEF Context
<1>10. v = [f EXCEPT !.Message_Block[DATA + 1] = f.Length_High,
                     !.Message_Block[BLOCK] = f.Length_Low]
  <2>1. u = [f EXCEPT !.Message_Block[DATA + 1] = f.Length_High]
    BY <1>1, <1>2, <1>7
  <2>2. v = [u EXCEPT !.Message_Block[BLOCK] = f.Length_Low]
    BY <1>2, <1>7, <1>8
  <2>3. QED
    BY <2>1, <2>2, Zenon
<1>11. Ended(f) = SHA1ProcessMessageBlock(v)
  BY <1>10 DEF Ended
<1>12. Ended(f).Message_Digest = Append(f.Message_Digest, H)
  BY <1>9, <1>11, ProcessFields
<1>13. QED
  BY <1>2, <1>5, <1>6, <1>12

(* The padding of SHA1PadMessage(): one or two more blocks, the ones the   *)
(* standard asks for.                                                      *)
LEMMA PadMessage ==
    ASSUME NEW c \in Context, NEW m \in Seq(Int),
           Collected(c, m, Len(m)), Counted(c, Len(m))
    PROVE  SHA1PadMessage(c).Message_Digest = Sha1Blocks(m)
<1>1. PICK D, x, n, M, l, hi, lo :
          /\ D = c.Message_Digest /\ x = c.Message_Block_Index /\ n = Len(D)
          /\ M = c.Message_Block /\ l = Len(m)
          /\ hi = c.Length_High /\ lo = c.Length_Low
  OBVIOUS
<1>2. /\ BLOCK \in Nat /\ BLOCK > 3 /\ D \in Seq(Block) /\ n \in Nat
      /\ x \in Nat /\ x < BLOCK /\ M \in Block /\ l \in Nat /\ hi \in Nat /\ lo \in Nat
      /\ DATA = BLOCK - 2 /\ DATA \in Nat
  BY <1>1, Sha1Assumption DEF Context, Collected, DATA
<1>3. /\ l = n * BLOCK + x /\ n * BLOCK \in Nat
      /\ \A b \in 1 .. n : \A i \in 1 .. BLOCK : D[b][i] = m[(b - 1) * BLOCK + i]
      /\ \A i \in 1 .. x : M[i] = m[n * BLOCK + i]
  <2>1. n * BLOCK \in Nat
    BY <1>2
  <2>2. QED
    BY <1>1, <2>1 DEF Collected
<1>4. hi = (8 * l) \div WORD_MOD /\ lo = (8 * l) % WORD_MOD
  <2>1. PICK w \in Nat \ {0} : w = WORD_MOD
    BY Sha1Assumption
  <2>2. lo \in 0 .. w - 1 /\ hi * w + lo = 8 * l
    BY <1>1, <1>2, <2>1 DEF Counted
  <2>3. (hi * w + lo) % w = lo /\ (hi * w + lo) \div w = hi
    BY <1>2, <2>1, <2>2, DivMod
  <2>4. QED
    BY <2>1, <2>2, <2>3
<1>5. PICK a : a = Put(c, PadMark)
  OBVIOUS
<1>6. /\ a \in Context /\ a.Message_Block_Index = x + 1 /\ a.Message_Digest = D
      /\ a.Length_High = hi /\ a.Length_Low = lo
      /\ a.Message_Block = [M EXCEPT ![x + 1] = PadMark]
  <2>1. PadMark \in Int /\ c.Message_Block_Index < BLOCK
    BY <1>1, <1>2 DEF PadMark
  <2>2. QED
    BY <1>1, <1>5, <2>1, PutFields
<1>7. PICK A : A = a.Message_Block
  OBVIOUS
<1>8. /\ \A i \in 1 .. x : A[i] = m[n * BLOCK + i]
      /\ A[x + 1] = PadMark
  <2>1. A = [M EXCEPT ![x + 1] = PadMark] /\ M \in Block
    BY <1>2, <1>6, <1>7
  <2>2. x + 1 \in 1 .. BLOCK /\ \A i \in 1 .. x : i \in 1 .. BLOCK /\ i # x + 1
    BY <1>2
  <2>3. A[x + 1] = PadMark /\ \A i \in 1 .. x : A[i] = M[i]
    BY <2>1, <2>2 DEF Block
  <2>4. QED
    BY <1>3, <2>3
<1>9. hi \in Int /\ lo \in Int /\ DATA \in 0 .. BLOCK /\ BLOCK \in 0 .. BLOCK
  BY <1>2
<1>10. PICK p, z, r : p = PaddedMessage(m) /\ r = (l + 3) % BLOCK /\ z = (BLOCK - r) % BLOCK
  OBVIOUS
<1>11. z \in Nat
  BY <1>2, <1>10
<1>12. /\ p \in Seq(Int) /\ Len(p) = l + z + 3
       /\ \A j \in 1 .. l : p[j] = m[j]
       /\ p[l + 1] = PadMark
       /\ \A j \in l + 2 .. l + z + 1 : p[j] = 0
       /\ p[l + z + 2] = hi /\ p[l + z + 3] = lo
  BY <1>1, <1>4, <1>10, <1>11, PaddedPlaces
<1>13. ASSUME NEW b \in 1 .. n, NEW i \in 1 .. BLOCK
       PROVE  D[b][i] = p[(b - 1) * BLOCK + i]
  <2>1. (b - 1) * BLOCK + i \in 1 .. l
    <3>1. PICK B \in Nat \ {0}, y \in Nat, u \in Nat : B = BLOCK /\ y = n - b /\ u = b - 1
      <4>1. n - b \in Nat /\ b - 1 \in Nat /\ BLOCK \in Nat \ {0}
        BY <1>2
      <4>2. QED
        BY <4>1
    <3>2. n = u + 1 + y
      BY <1>2, <3>1
    <3>3. n * B = u * B + B + y * B /\ y * B \in Nat /\ u * B \in Nat
      BY <3>1, <3>2
    <3>4. PICK s, t \in Nat, v \in Nat : s = n * B /\ t = u * B /\ v = y * B
      BY <3>3
    <3>5. s = t + B + v /\ l = s + x /\ i \in 1 .. B
      BY <1>3, <3>1, <3>3, <3>4
    <3>6. t + i \in 1 .. l
      BY <1>2, <3>1, <3>4, <3>5
    <3>7. (b - 1) * BLOCK = t
      BY <3>1, <3>4
    <3>8. QED
      BY <3>6, <3>7
  <2>2. QED
    BY <1>3, <1>12, <2>1
(* One block more, or two: e has the places behind the full blocks *)
<1>14. CASE ~NeedsSecondBlock(c)
  <2>1. x <= BLOCK - 3
    BY <1>1, <1>2, <1>14 DEF NeedsSecondBlock
  <2>2. z = BLOCK - 3 - x
    <3>1. CASE x + 3 < BLOCK
      <4>1. x + 3 \in 0 .. BLOCK - 1 /\ n * BLOCK + (x + 3) = l + 3 /\ BLOCK \in Nat \ {0}
        BY <1>2, <1>3, <3>1
      <4>2. r = x + 3
        BY <1>2, <1>10, <4>1, DivMod
      <4>3. BLOCK - r \in 0 .. BLOCK - 1
        BY <1>2, <3>1, <4>2
      <4>4. (BLOCK - r) % BLOCK = BLOCK - r
        BY <4>1, <4>3, ModSmall
      <4>5. QED
        BY <1>2, <1>10, <4>2, <4>4
    <3>2. CASE x + 3 = BLOCK
      <4>1. /\ 0 \in 0 .. BLOCK - 1 /\ (n + 1) * BLOCK + 0 = l + 3 /\ BLOCK \in Nat \ {0}
            /\ n + 1 \in Nat
        BY <1>2, <1>3, <3>2
      <4>2. r = 0
        BY <1>10, <4>1, DivMod
      <4>3. BLOCK % BLOCK = 0 /\ BLOCK - r = BLOCK
        BY <1>2, <4>2
      <4>4. QED
        BY <1>2, <1>10, <3>2, <4>3
    <3>3. QED
      BY <1>2, <2>1, <3>1, <3>2
  <2>3. PICK f, F : f = ZerosUpTo(a, DATA) /\ F = f.Message_Block
    OBVIOUS
  <2>4. /\ f \in Context /\ f.Message_Digest = D /\ f.Length_High = hi /\ f.Length_Low = lo
        /\ \A i \in 1 .. BLOCK : F[i] = IF x + 1 < i /\ i <= DATA THEN 0 ELSE A[i]
    <3>1. /\ f \in Context /\ f.Message_Digest = a.Message_Digest
          /\ f.Length_High = a.Length_High /\ f.Length_Low = a.Length_Low
          /\ F = [i \in 1 .. BLOCK |->
                     IF a.Message_Block_Index < i /\ i <= DATA THEN 0 ELSE a.Message_Block[i]]
      BY <1>6, <1>9, <2>3, ZeroFields
    <3>2. QED
      BY <1>6, <1>7, <3>1
  <2>5. PICK g : g = Ended(f)
    OBVIOUS
  <2>6. SHA1PadMessage(c) = g
    BY <1>1, <1>5, <1>14, <2>3, <2>4, <2>5 DEF SHA1PadMessage, Ended
  <2>7. PICK e \in Block : /\ g.Message_Digest = Append(f.Message_Digest, e)
                          /\ e[BLOCK - 1] = hi /\ e[BLOCK] = lo
                          /\ \A i \in 1 .. BLOCK - 2 : e[i] = f.Message_Block[i]
    BY <2>4, <2>5, LastBlock
  <2>b. ASSUME NEW i \in 1 .. BLOCK - 2
        PROVE  e[i] = IF x + 1 < i THEN 0 ELSE A[i]
    <3>1. i \in 1 .. BLOCK /\ i <= DATA /\ e[i] = F[i]
      BY <1>2, <2>3, <2>7
    <3>2. QED
      BY <2>4, <3>1
  <2>8. \A i \in 1 .. BLOCK : e[i] = p[n * BLOCK + i]
    <3> SUFFICES ASSUME NEW i \in 1 .. BLOCK PROVE e[i] = p[n * BLOCK + i]
      OBVIOUS
    <3>0. PICK q \in Nat : q = n * BLOCK /\ l = q + x
      BY <1>3
    <3>1. CASE i \in 1 .. x
      <4>1. e[i] = m[q + i]
        <5>1. i \in 1 .. BLOCK - 2 /\ ~(x + 1 < i)
          BY <1>2, <2>1, <3>1
        <5>2. QED
          BY <1>8, <2>b, <3>0, <3>1, <5>1
      <4>2. q + i \in 1 .. l
        BY <1>2, <3>0, <3>1
      <4>3. QED
        BY <1>12, <3>0, <4>1, <4>2
    <3>2. CASE i = x + 1
      <4>1. e[i] = PadMark
        <5>1. i \in 1 .. BLOCK - 2 /\ ~(x + 1 < i)
          BY <1>2, <2>1, <3>2
        <5>2. QED
          BY <1>8, <2>b, <3>2, <5>1
      <4>2. q + i = l + 1
        BY <1>2, <3>0, <3>2
      <4>3. QED
        BY <1>12, <3>0, <4>1, <4>2
    <3>3. CASE i \in x + 2 .. BLOCK - 2
      <4>1. e[i] = 0
        <5>1. i \in 1 .. BLOCK - 2 /\ x + 1 < i
          BY <1>2, <3>3
        <5>2. QED
          BY <2>b, <5>1
      <4>2. q + i \in l + 2 .. l + z + 1
        BY <1>2, <2>2, <3>0, <3>3
      <4>3. QED
        BY <1>12, <3>0, <4>1, <4>2
    <3>4. CASE i = BLOCK - 1
      <4>1. q + i = l + z + 2
        BY <1>2, <2>2, <3>0, <3>4
      <4>2. QED
        BY <1>12, <2>7, <3>0, <3>4, <4>1
    <3>5. CASE i = BLOCK
      <4>1. q + i = l + z + 3
        BY <1>2, <2>2, <3>0, <3>5
      <4>2. QED
        BY <1>12, <2>7, <3>0, <3>5, <4>1
    <3>6. QED
      BY <1>2, <2>1, <3>1, <3>2, <3>3, <3>4, <3>5
  <2>9. PICK E : E = Append(D, e)
    OBVIOUS
  <2>10. /\ E \in Seq(Block) /\ Len(E) = n + 1 /\ E[n + 1] = e
         /\ \A b \in 1 .. n : E[b] = D[b]
    BY <1>1, <1>2, <2>7, <2>9
  <2>11. Len(p) = Len(E) * BLOCK
    <3>1. (n + 1) * BLOCK = n * BLOCK + BLOCK
      BY <1>2
    <3>2. QED
      BY <1>2, <1>3, <1>12, <2>2, <2>10, <3>1
  <2>12. ASSUME NEW b \in 1 .. Len(E), NEW i \in 1 .. BLOCK
         PROVE  E[b][i] = p[(b - 1) * BLOCK + i]
    <3>1. CASE b \in 1 .. n
      BY <1>13, <2>10, <3>1
    <3>2. CASE b = n + 1
      <4>1. b - 1 = n
        BY <1>2, <3>2
      <4>2. QED
        BY <2>8, <2>10, <3>2, <4>1
    <3>3. QED
      BY <1>2, <2>10, <3>1, <3>2
  <2>13. E = Sha1Blocks(m)
    BY <1>10, <1>12, <2>10, <2>11, <2>12, BlocksEqual
  <2>14. QED
    BY <2>4, <2>6, <2>7, <2>9, <2>13
<1>15. CASE NeedsSecondBlock(c)
  <2>1. x >= BLOCK - 2
    BY <1>1, <1>2, <1>15 DEF NeedsSecondBlock
  <2>2. z = 2 * BLOCK - 3 - x
    <3>1. /\ x + 3 - BLOCK \in 0 .. BLOCK - 1
          /\ (n + 1) * BLOCK + (x + 3 - BLOCK) = l + 3 /\ BLOCK \in Nat \ {0}
          /\ n + 1 \in Nat
      <4>1. (n + 1) * BLOCK = n * BLOCK + BLOCK
        BY <1>2
      <4>2. x + 3 - BLOCK \in 0 .. BLOCK - 1 /\ n + 1 \in Nat /\ BLOCK \in Nat \ {0}
        BY <1>2, <2>1
      <4>3. PICK s, t : s = n * BLOCK /\ t = (n + 1) * BLOCK
        OBVIOUS
      <4>4. s \in Nat /\ t = s + BLOCK /\ l = s + x
        BY <1>3, <4>1, <4>3
      <4>5. t + (x + 3 - BLOCK) = l + 3
        BY <1>2, <4>4
      <4>6. QED
        BY <4>2, <4>3, <4>5
    <3>2. r = x + 3 - BLOCK
      BY <1>10, <3>1, DivMod, ZenonT(60)
    <3>3. BLOCK - r \in 0 .. BLOCK - 1
      BY <1>2, <2>1, <3>2
    <3>4. (BLOCK - r) % BLOCK = BLOCK - r
      BY <3>1, <3>3, ModSmall
    <3>5. QED
      BY <1>2, <1>10, <3>2, <3>4
  <2>3. PICK y, v, f, d : /\ y = ZerosUpTo(a, BLOCK) /\ v = SHA1ProcessMessageBlock(y)
                          /\ f = ZerosUpTo(v, DATA) /\ d = y.Message_Block
    OBVIOUS
  <2>4. /\ y \in Context /\ y.Message_Digest = D /\ y.Length_High = hi /\ y.Length_Low = lo
        /\ \A i \in 1 .. BLOCK : d[i] = IF x + 1 < i THEN 0 ELSE A[i]
    <3>1. /\ y \in Context /\ y.Message_Digest = a.Message_Digest
          /\ y.Length_High = a.Length_High /\ y.Length_Low = a.Length_Low
          /\ d = [i \in 1 .. BLOCK |->
                     IF a.Message_Block_Index < i /\ i <= BLOCK THEN 0 ELSE a.Message_Block[i]]
      BY <1>6, <1>9, <2>3, ZeroFields
    <3>2. QED
      BY <1>6, <1>7, <3>1
  <2>5. /\ v \in Context /\ v.Message_Digest = Append(D, d)
        /\ v.Length_High = hi /\ v.Length_Low = lo
        /\ v.Message_Block_Index = 0
    BY <2>3, <2>4, ProcessFields
  <2>6. /\ f \in Context /\ f.Message_Digest = v.Message_Digest
        /\ f.Length_High = hi /\ f.Length_Low = lo
        /\ \A i \in 1 .. BLOCK - 2 : f.Message_Block[i] = 0
    <3>1. /\ f \in Context /\ f.Message_Digest = v.Message_Digest
          /\ f.Length_High = v.Length_High /\ f.Length_Low = v.Length_Low
          /\ f.Message_Block = [i \in 1 .. BLOCK |->
                IF v.Message_Block_Index < i /\ i <= DATA THEN 0 ELSE v.Message_Block[i]]
      BY <1>9, <2>3, <2>5, ZeroFields, SMTT(30)
    <3>2. \A i \in 1 .. BLOCK - 2 : i \in 1 .. BLOCK /\ 0 < i /\ i <= DATA
      BY <1>2
    <3>3. QED
      BY <2>5, <3>1, <3>2
  <2>7. PICK g : g = Ended(f)
    OBVIOUS
  <2>8. SHA1PadMessage(c) = g
    BY <1>1, <1>5, <1>15, <2>3, <2>6, <2>7 DEF SHA1PadMessage, Ended
  <2>9. PICK e \in Block : /\ g.Message_Digest = Append(f.Message_Digest, e)
                          /\ e[BLOCK - 1] = hi /\ e[BLOCK] = lo
                          /\ \A i \in 1 .. BLOCK - 2 : e[i] = f.Message_Block[i]
    BY <2>6, <2>7, LastBlock
  <2>11. d \in Block
    BY <2>3, <2>4 DEF Context
  <2>12. \A i \in 1 .. BLOCK : d[i] = p[n * BLOCK + i]
    <3> SUFFICES ASSUME NEW i \in 1 .. BLOCK PROVE d[i] = p[n * BLOCK + i]
      OBVIOUS
    <3>0. PICK q \in Nat : q = n * BLOCK /\ l = q + x
      BY <1>3
    <3>1. CASE i \in 1 .. x
      <4>1. d[i] = m[q + i]
        <5>1. ~(x + 1 < i)
          BY <1>2, <3>1
        <5>2. QED
          BY <1>8, <2>4, <3>0, <3>1, <5>1
      <4>2. q + i \in 1 .. l
        BY <1>2, <3>0, <3>1
      <4>3. QED
        BY <1>12, <3>0, <4>1, <4>2
    <3>2. CASE i = x + 1
      <4>1. d[i] = PadMark
        <5>1. ~(x + 1 < i)
          BY <1>2, <3>2
        <5>2. QED
          BY <1>8, <2>4, <3>2, <5>1
      <4>2. q + i = l + 1
        BY <1>2, <3>0, <3>2
      <4>3. QED
        BY <1>12, <3>0, <4>1, <4>2
    <3>3. CASE i \in x + 2 .. BLOCK
      <4>1. d[i] = 0
        <5>1. x + 1 < i
          BY <1>2, <3>3
        <5>2. QED
          BY <2>4, <5>1
      <4>2. q + i \in l + 2 .. l + z + 1
        BY <1>2, <2>1, <2>2, <3>0, <3>3
      <4>3. QED
        BY <1>12, <3>0, <4>1, <4>2
    <3>4. QED
      BY <1>2, <3>1, <3>2, <3>3
  <2>13. \A i \in 1 .. BLOCK : e[i] = p[(n + 1) * BLOCK + i]
    <3> SUFFICES ASSUME NEW i \in 1 .. BLOCK PROVE e[i] = p[(n + 1) * BLOCK + i]
      OBVIOUS
    <3>0. PICK q \in Nat : q = (n + 1) * BLOCK /\ l = q - BLOCK + x
      <4>1. (n + 1) * BLOCK = n * BLOCK + BLOCK /\ (n + 1) * BLOCK \in Nat
        BY <1>2
      <4>2. l = (n + 1) * BLOCK - BLOCK + x
        BY <1>2, <1>3, <4>1
      <4>3. QED
        BY <4>1, <4>2
    <3>1. CASE i \in 1 .. BLOCK - 2
      <4>1. e[i] = 0
        BY <2>6, <2>9, <3>1
      <4>2. q + i \in l + 2 .. l + z + 1
        BY <1>2, <2>2, <3>0, <3>1
      <4>3. QED
        BY <1>12, <3>0, <4>1, <4>2
    <3>2. CASE i = BLOCK - 1
      <4>1. q + i = l + z + 2
        BY <1>2, <2>2, <3>0, <3>2
      <4>2. QED
        BY <1>12, <2>9, <3>0, <3>2, <4>1
    <3>3. CASE i = BLOCK
      <4>1. q + i = l + z + 3
        BY <1>2, <2>2, <3>0, <3>3
      <4>2. QED
        BY <1>12, <2>9, <3>0, <3>3, <4>1
    <3>4. QED
      BY <1>2, <3>1, <3>2, <3>3
  <2>14. PICK C, E : C = Append(D, d) /\ E = Append(C, e)
    OBVIOUS
  <2>15. /\ C \in Seq(Block) /\ Len(C) = n + 1 /\ C[n + 1] = d
         /\ \A b \in 1 .. n : C[b] = D[b]
    BY <1>1, <1>2, <2>11, <2>14
  <2>16. /\ E \in Seq(Block) /\ Len(E) = n + 2 /\ E[n + 2] = e
         /\ \A b \in 1 .. n + 1 : E[b] = C[b]
    BY <1>2, <2>9, <2>14, <2>15
  <2>17. Len(p) = Len(E) * BLOCK
    <3>1. (n + 2) * BLOCK = n * BLOCK + 2 * BLOCK
      BY <1>2
    <3>2. QED
      BY <1>2, <1>3, <1>12, <2>2, <2>16, <3>1
  <2>18. ASSUME NEW b \in 1 .. Len(E), NEW i \in 1 .. BLOCK
         PROVE  E[b][i] = p[(b - 1) * BLOCK + i]
    <3>1. CASE b \in 1 .. n
      <4>1. b \in 1 .. n + 1
        BY <1>2, <3>1
      <4>2. QED
        BY <1>13, <2>15, <2>16, <3>1, <4>1
    <3>2. CASE b = n + 1
      <4>1. b - 1 = n /\ b \in 1 .. n + 1
        BY <1>2, <3>2
      <4>2. QED
        BY <2>12, <2>15, <2>16, <3>2, <4>1
    <3>3. CASE b = n + 2
      <4>1. b - 1 = n + 1
        BY <1>2, <3>3
      <4>2. QED
        BY <2>13, <2>16, <3>3, <4>1
    <3>4. QED
      BY <1>2, <2>16, <3>1, <3>2, <3>3
  <2>19. E = Sha1Blocks(m)
    BY <1>10, <1>12, <2>16, <2>17, <2>18, BlocksEqual
  <2>20. g.Message_Digest = E
    BY <2>5, <2>6, <2>9, <2>14
  <2>21. QED
    BY <2>8, <2>19, <2>20
<1>16. QED
  BY <1>14, <1>15

-----------------------------------------------------------------------------
(* The session *)

(* Before the loop of main(), and from which point on it is authenticated *)
StartUp == {"boot", "auth_request", "auth_status", "open", "rtable", "reload", "loading"}
AcceptedPhases == {"open", "rtable", "reload", "loading", "loop"}
OpenedPhases == {"rtable", "reload", "loading", "loop"}

Phases == StartUp \cup {"loop", "spinning", "failed", "ended", "aborted"}

Names == Iface \cup {NoIface}

Interface == [name : Iface, ip : Names, addr : Names]

SessionType ==
    /\ rtable \in Files /\ script \in Scripts
    /\ phase \in Phases
    /\ len \in Nat /\ bytes_read \in Nat /\ taken \in Nat /\ entries \in Nat
    /\ commands \in 0 .. Len(script)
    /\ if_list \in Seq(Interface)
    /\ \E S : out \in Seq(S)

(* The reads keep step with the commands, within the length of a command   *)
(* and within the rest of it.                                              *)
FramingInv ==
    /\ taken <= StreamLength(Len(script))
    /\ Running => IF len = 0
                  THEN /\ taken = StreamLength(commands) + bytes_read
                       /\ bytes_read <= HEADER
                  ELSE /\ commands < Len(script) /\ len = command.len
                       /\ taken = StreamLength(commands) + HEADER + bytes_read
                       /\ bytes_read <= len - HEADER

(* A digest in progress has taken in all but the bytes still to come. *)
HashInv ==
    sha1 # NoHash =>
        /\ Received("auth_request")
        /\ sha1 \in Context
        /\ \E k \in Nat :
              LET m == Salt(command) \o Key IN
              /\ k + Len(message) = Len(m)
              /\ message \in Seq(Int)
              /\ \A i \in 1 .. Len(message) : message[i] = m[k + i]
              /\ ~sha1.Corrupted => Collected(sha1, m, k) /\ Counted(sha1, k)

AuthInv ==
    /\ phase \in AcceptedPhases =>
          \E j \in 1 .. commands : script[j].type = "auth_status" /\ script[j].ok
    /\ phase \in OpenedPhases => \E j \in 1 .. Len(out) : out[j].kind = "open"

HwinfoSeen == \E j \in 1 .. commands : script[j].type = "hwinfo"

(* Between two commands of the loop the interfaces are verified, once      *)
(* there has been hardware information.                                    *)
InterfaceInv ==
    /\ phase \in StartUp => if_list = << >> /\ handled = {} /\ ~HwinfoSeen
    /\ entries > 0 /\ Running => Received("hwinfo") /\ entries <= Len(command.hw)
    /\ phase = "loop" /\ entries = 0 /\ (if_list # << >> \/ HwinfoSeen) => Verified(if_list)
    /\ (\E i \in handled : NeedsInterfaces(i)) => Verified(if_list)

SessionInv ==
    /\ SessionType
    /\ FramingInv
    /\ HashInv
    /\ AuthInv
    /\ InterfaceInv
    /\ AuthReplyCorrect
    /\ AuthenticatedFirst

(* The hypothesis of RoutesUsable: the server lists an interface before    *)
(* its addresses.                                                          *)
InterfaceFirst ==
    \A s \in Scripts : \A n \in 1 .. Len(s) : \A i \in 1 .. Len(s[n].hw) :
        s[n].hw[i][1] \in {"ethip", "ether"} =>
            \E j \in 1 .. i - 1 :
               /\ s[n].hw[j] = <<"interface", s[n].hw[i][2]>>
               /\ \A k \in j + 1 .. i - 1 : s[n].hw[k][1] # "interface"

(* No interface has the address of another one: the last interface of the  *)
(* list is the last one named.                                             *)
AddressInv ==
    /\ \A i \in 1 .. Len(if_list) :
          /\ if_list[i].ip \in {NoIface, if_list[i].name}
          /\ if_list[i].addr \in {NoIface, if_list[i].name}
    /\ entries > 0 /\ Running =>
          \A j \in 1 .. entries :
             /\ command.hw[j][1] = "interface"
             /\ \A k \in j + 1 .. entries : command.hw[k][1] # "interface"
             => if_list # << >> /\ if_list[Len(if_list)].name = command.hw[j][2]

(* Facts about the script *)
LEMMA ScriptFacts ==
    ASSUME SessionType
    PROVE  /\ Len(script) \in Nat /\ Contiguous(script)
           /\ \A i \in 1 .. Len(script) : WellFormed(script[i])
           /\ HEADER \in Nat \ {0}
  BY SessionAssumption DEF SessionType

(* The next command begins where the first n end, and no other one does. *)
LEMMA NextCommand ==
    ASSUME SessionType, NEW n \in Nat, n < Len(script)
    PROVE  /\ StreamLength(n) \in Nat
           /\ script[n + 1].at = StreamLength(n)
           /\ script[n + 1].len \in Nat /\ script[n + 1].len > HEADER
           /\ StreamLength(n + 1) = StreamLength(n) + script[n + 1].len
           /\ \A i \in 1 .. Len(script) : script[i].at = StreamLength(n) => i = n + 1
<1>1. /\ Len(script) \in Nat /\ HEADER \in Nat /\ HEADER > 0
      /\ Contiguous(script)
      /\ \A i \in 1 .. Len(script) :
            script[i].at \in Nat /\ script[i].len \in Nat /\ script[i].len > HEADER
  BY ScriptFacts DEF WellFormed
<1>2. n + 1 \in 1 .. Len(script) /\ (n # 0 => n \in 1 .. Len(script)) /\ (n + 1) - 1 = n
  BY <1>1
<1>3. StreamLength(n) \in Nat /\ script[n + 1].at = StreamLength(n)
  BY <1>1, <1>2 DEF Contiguous, StreamLength
<1>4. StreamLength(n + 1) = StreamLength(n) + script[n + 1].len
  BY <1>1, <1>2, <1>3 DEF StreamLength
<1>5. ASSUME NEW i \in 1 .. Len(script), script[i].at = StreamLength(n)
      PROVE  i = n + 1
  <2>1. CASE i < n + 1
    <3>1. i \in 1 .. (n + 1) - 1
      BY <1>1, <2>1
    <3>2. script[i].at + script[i].len <= script[n + 1].at
      BY <1>1, <1>2, <3>1 DEF Contiguous
    <3>3. QED
      BY <1>1, <1>2, <1>3, <1>5, <3>2
  <2>2. CASE i > n + 1
    <3>1. n + 1 \in 1 .. i - 1
      BY <1>1, <2>2
    <3>2. script[n + 1].at + script[n + 1].len <= script[i].at
      BY <1>1, <1>2, <3>1 DEF Contiguous
    <3>3. QED
      BY <1>1, <1>2, <1>3, <1>5, <3>2
  <2>3. QED
    BY <1>1, <2>1, <2>2
<1>6. QED
  BY <1>1, <1>2, <1>3, <1>4, <1>5

LEMMA StreamNat ==
    ASSUME SessionType, NEW n \in 0 .. Len(script)
    PROVE  StreamLength(n) \in Nat
<1>1. Len(script) \in Nat /\ \A i \in 1 .. Len(script) : script[i].at \in Nat /\ script[i].len \in Nat
  BY ScriptFacts DEF WellFormed
<1>2. QED
  BY <1>1 DEF StreamLength

(* What Return() leads to *)
LEMMA ReturnPhase ==
    ASSUME Reading, NEW r \in {-1, 0, 1}
    PROVE  /\ phase = "loop" => AfterCommand(r) = (IF r = 1 THEN "loop" ELSE "ended")
           /\ phase # "loop" /\ r # 1 => AfterCommand(r) = "failed"
           /\ phase = "auth_request" /\ r = 1 => AfterCommand(r) = "auth_status"
           /\ phase = "auth_status" /\ r = 1 => AfterCommand(r) = "open"
           /\ phase = "rtable" /\ r = 1 => AfterCommand(r) = "reload"
  BY DEF AfterCommand, Reading

-----------------------------------------------------------------------------
(* Initial states *)

LEMMA SessionInitInv == SessionInit => SessionInv
<1> SUFFICES ASSUME SessionInit PROVE SessionInv
  OBVIOUS
<1>1. Len(script) \in Nat
  BY SessionAssumption DEF SessionInit
<1>2. out \in Seq(Int) /\ Len(out) = 0 /\ if_list \in Seq(Interface) /\ if_list = << >>
  BY DEF SessionInit
<1>3. SessionType
  BY <1>1, <1>2 DEF SessionInit, SessionType, Init, Phases, StartUp
<1>4. FramingInv
  <2>1. StreamLength(Len(script)) \in Nat
    BY <1>1, <1>3, StreamNat
  <2>2. QED
    BY <1>1, <2>1, SessionAssumption DEF SessionInit, FramingInv, StreamLength
<1>5. HashInv
  BY DEF SessionInit, HashInv
<1>6. AuthInv
  BY DEF SessionInit, AuthInv, AcceptedPhases, OpenedPhases
<1>7. InterfaceInv
  BY <1>2 DEF SessionInit, InterfaceInv, HwinfoSeen
<1>8. AuthReplyCorrect /\ AuthenticatedFirst
  BY <1>2 DEF AuthReplyCorrect, AuthenticatedFirst
<1>9. QED
  BY <1>3, <1>4, <1>5, <1>6, <1>7, <1>8 DEF SessionInv

-----------------------------------------------------------------------------
(* Types *)

LEMMA AppendOut ==
    ASSUME \E S : out \in Seq(S), NEW o
    PROVE  /\ \E S : Append(out, o) \in Seq(S)
           /\ Len(out) \in Nat /\ Len(Append(out, o)) = Len(out) + 1
           /\ Append(out, o)[Len(out) + 1] = o
           /\ \A i \in 1 .. Len(out) : Append(out, o)[i] = out[i]
<1>1. PICK S : out \in Seq(S)
  OBVIOUS
<1>2. PICK T : T = S \cup {o}
  OBVIOUS
<1>3. out \in Seq(T) /\ o \in T
  <2>1. out \in [1 .. Len(out) -> T] /\ Len(out) \in Nat
    BY <1>1, <1>2
  <2>2. QED
    BY <1>2, <2>1
<1>4. Append(out, o) \in Seq(T)
  BY <1>3
<1>5. QED
  BY <1>3, <1>4

(* Entries keep the names and add no empty interface. *)
LEMMA HwEntryList ==
    ASSUME NEW list \in Seq(Interface), NEW e \in HwKey \X Iface,
           e[1] \in {"ethip", "ether"} => list # << >>
    PROVE  /\ HwEntry(list, e) \in Seq(Interface)
           /\ Len(HwEntry(list, e)) >= Len(list)
           /\ \A i \in 1 .. Len(list) : HwEntry(list, e)[i].name = list[i].name
           /\ e[1] = "interface" => Len(HwEntry(list, e)) = Len(list) + 1
           /\ e[1] # "interface" => Len(HwEntry(list, e)) = Len(list)
<1>1. CASE e[1] = "interface"
  <2>1. PICK x : x = [name |-> e[2], ip |-> NoIface, addr |-> NoIface]
    OBVIOUS
  <2>2. x \in Interface
    BY <2>1 DEF Interface, Names
  <2>3. HwEntry(list, e) = Append(list, x)
    BY <1>1, <2>1 DEF HwEntry, sr_add_interface
  <2>4. QED
    BY <1>1, <2>2, <2>3
<1>2. ASSUME NEW x \in Interface, x.name = list[Len(list)].name, list # << >>,
             HwEntry(list, e) = [list EXCEPT ![Len(list)] = x]
      PROVE  /\ HwEntry(list, e) \in Seq(Interface)
             /\ Len(HwEntry(list, e)) = Len(list)
             /\ \A i \in 1 .. Len(list) : HwEntry(list, e)[i].name = list[i].name
  BY <1>2
<1>3. CASE e[1] = "ethip"
  <2>1. list # << >> /\ Len(list) \in 1 .. Len(list) /\ list[Len(list)] \in Interface
    BY <1>3
  <2>2. PICK x : x = [list[Len(list)] EXCEPT !.ip = e[2]]
    OBVIOUS
  <2>3. x \in Interface /\ x.name = list[Len(list)].name
    BY <2>1, <2>2 DEF Interface, Names
  <2>4. HwEntry(list, e) = [list EXCEPT ![Len(list)] = x]
    BY <1>3, <2>2 DEF HwEntry, LastInterface
  <2>5. QED
    BY <1>2, <1>3, <2>1, <2>3, <2>4
<1>4. CASE e[1] = "ether"
  <2>1. list # << >> /\ Len(list) \in 1 .. Len(list) /\ list[Len(list)] \in Interface
    BY <1>4
  <2>2. PICK x : x = [list[Len(list)] EXCEPT !.addr = e[2]]
    OBVIOUS
  <2>3. x \in Interface /\ x.name = list[Len(list)].name
    BY <2>1, <2>2 DEF Interface, Names
  <2>4. HwEntry(list, e) = [list EXCEPT ![Len(list)] = x]
    BY <1>4, <2>2 DEF HwEntry, LastInterface
  <2>5. QED
    BY <1>2, <1>4, <2>1, <2>3, <2>4
<1>5. CASE e[1] \notin {"interface", "ethip", "ether"}
  BY <1>5 DEF HwEntry
<1>6. QED
  BY <1>1, <1>3, <1>4, <1>5

(* The command that is complete is a command of the script. *)
LEMMA CompleteCommand ==
    ASSUME SessionType, Complete
    PROVE  /\ commands \in Nat /\ commands < Len(script) /\ Len(script) \in Nat
           /\ WellFormed(command)
<1>1. commands + 1 \in 1 .. Len(script)
  BY ScriptFacts DEF SessionType, Complete
<1>2. QED
  BY <1>1, ScriptFacts DEF SessionType, Complete, command

(* After a command the counters and the phase are again in range. *)
LEMMA ReturnType ==
    ASSUME SessionType, Complete, NEW r \in {-1, 0, 1}, Return(r), script' = script
    PROVE  /\ phase' \in Phases /\ len' \in Nat /\ bytes_read' \in Nat /\ taken' \in Nat
           /\ commands' \in 0 .. Len(script')
<1>1. phase' \in Phases
  BY ReturnPhase DEF Complete, Return, Reading, Phases, StartUp
<1>2. QED
  BY <1>1, ScriptFacts DEF SessionType, Complete, Return

LEMMA TypeStep == SessionInv /\ [SessionNext]_all => SessionType'
<1> SUFFICES ASSUME SessionInv, [SessionNext]_all PROVE SessionType'
  OBVIOUS
<1> USE DEF SessionInv
<1>0. SessionType /\ Len(script) \in Nat
  BY ScriptFacts
<1>1. ASSUME Complete, NEW r \in {-1, 0, 1}, Return(r),
             UNCHANGED <<script, interfaces>>, rtable' \in Files, \E S : out' \in Seq(S)
      PROVE  SessionType'
  BY <1>0, <1>1, ReturnType DEF SessionType, interfaces
<1>2. ASSUME phase' \in Phases, UNCHANGED <<startup, reader, commands, interfaces>>,
             \E S : out' \in Seq(S)
      PROVE  SessionType'
  BY <1>0, <1>2 DEF SessionType, startup, reader, interfaces
<1>3. CASE Load
  BY <1>0, <1>2, <1>3 DEF Load, session, Phases, SessionType
<1>4. CASE Connect
  BY <1>0, <1>2, <1>4 DEF Connect, Phases, StartUp, SessionType
<1>5. CASE Open
  BY <1>0, <1>2, <1>5, AppendOut DEF Open, Phases, StartUp, SessionType
<1>6. CASE OpenFails \/ LoadAgain \/ SrInit \/ ReadFails \/ LinkLost \/ Abort
  BY <1>0, <1>2, <1>6 DEF OpenFails, LoadAgain, SrInit, ReadFails, LinkLost, Abort, Phases, StartUp,
     SessionType
<1>7. CASE ReadSome
  BY <1>0, <1>7, SessionAssumption
     DEF ReadSome, SessionType, startup, interfaces, Wanted, RestLength
<1>8. CASE LengthRead
  <2>1. PICK n \in LengthsAt(taken - HEADER) :
           IF n > MAX_LEN
           THEN /\ phase' = IF phase = "loop" THEN "ended" ELSE "failed"
                /\ UNCHANGED len
           ELSE len' = n /\ UNCHANGED phase
    BY <1>8 DEF LengthRead
  <2>2. n \in Nat
    BY <1>0, ScriptFacts, SessionAssumption DEF LengthsAt, WellFormed, SessionType
  <2>3. phase' \in Phases /\ len' \in Nat
    BY <1>0, <2>1, <2>2 DEF SessionType, Phases
  <2>4. QED
    BY <1>0, <1>8, <2>3 DEF LengthRead, SessionType, startup, interfaces
<1>9. CASE Unexpected \/ HandleClose \/ HandleOther \/ AuthRequestFails \/ HandleAuthStatus
           \/ RtableFails
  <2>1. PICK r \in {-1, 0, 1} : Return(r)
    BY <1>9 DEF Unexpected, HandleClose, HandleOther, AuthRequestFails, HandleAuthStatus,
       RtableFails, CloseResult, AuthResult
  <2>2. Complete /\ UNCHANGED <<startup, interfaces, out>>
    BY <1>9 DEF Unexpected, HandleClose, HandleOther, AuthRequestFails, HandleAuthStatus,
       RtableFails, Received
  <2>3. QED
    BY <1>0, <1>1, <2>1, <2>2 DEF SessionType, startup
<1>10. CASE HashBegin \/ HashByte
  BY <1>0, <1>2, <1>10 DEF HashBegin, HashByte, SessionType
<1>11. CASE HandleAuthRequest
  <2>1. Complete /\ Return(1) /\ UNCHANGED <<startup, interfaces>>
    BY <1>11 DEF HandleAuthRequest, HashInv, Received
  <2>2. \E S : out' \in Seq(S)
    BY <1>0, <1>11, AppendOut DEF HandleAuthRequest, SessionType
  <2>3. QED
    BY <1>0, <1>1, <2>1, <2>2 DEF SessionType, startup
<1>12. CASE HandleRtable
  BY <1>0, <1>1, <1>12 DEF HandleRtable, SessionType, Received
<1>13. CASE HwinfoEntry
  <2>1. /\ entries \in Nat /\ commands < Len(script) /\ commands \in Nat
        /\ entries < Len(command.hw) /\ command.hw \in Seq(HwKey \X Iface)
    BY <1>0, <1>13, CompleteCommand DEF HwinfoEntry, Received, WellFormed, SessionType
  <2>2. command.hw[entries + 1] \in HwKey \X Iface
    BY <2>1
  <2>3. if_list' \in Seq(Interface)
    BY <1>0, <1>13, <2>2, HwEntryList DEF HwinfoEntry, AddressFirst, SessionType
  <2>4. QED
    BY <1>0, <1>13, <2>3 DEF HwinfoEntry, SessionType, startup, reader
<1>14. CASE HandleHwinfo
  <2>1. PICK r \in {-1, 0, 1} : Return(r)
    BY <1>14 DEF HandleHwinfo
  <2>2. QED
    BY <1>0, <1>14, <2>1, ReturnType DEF HandleHwinfo, SessionType, Received, startup
<1>15. CASE HandlePacket
  BY <1>0, <1>1, <1>15 DEF HandlePacket, SessionType, Received, startup
<1>16. CASE Lookup \/ UNCHANGED all
  BY <1>0, <1>2, <1>16 DEF Lookup, session, all, SessionType
<1>17. CASE SendPacket
  BY <1>0, <1>2, <1>17, AppendOut DEF SendPacket, SessionType
<1>18. QED
  BY <1>3, <1>4, <1>5, <1>6, <1>7, <1>8, <1>9, <1>10, <1>11, <1>12, <1>13, <1>14, <1>15, <1>16,
     <1>17 DEF SessionNext, Step

-----------------------------------------------------------------------------
(* The framing of the commands *)

LEMMA FramingStep == SessionInv /\ [SessionNext]_all => FramingInv'
<1> SUFFICES ASSUME SessionInv, [SessionNext]_all PROVE FramingInv'
  OBVIOUS
<1> USE DEF SessionInv
<1>0. SessionType /\ FramingInv /\ Len(script) \in Nat /\ HEADER \in Nat /\ HEADER > 0
  BY ScriptFacts
<1>1. ASSUME UNCHANGED <<script, reader, commands>>, Running' => Running PROVE FramingInv'
  BY <1>0, <1>1 DEF FramingInv, reader, StreamLength, command
<1>2. ASSUME Complete, NEW r, Return(r), script' = script PROVE FramingInv'
  <2>1. Running /\ commands \in Nat /\ commands < Len(script)
    BY <1>0, <1>2 DEF Complete, Reading, Running, SessionType
  <2>2. /\ len = command.len /\ bytes_read = len - HEADER
        /\ taken = StreamLength(commands) + HEADER + bytes_read
    BY <1>0, <1>2, <2>1 DEF FramingInv, Complete, RestLength
  <2>3. /\ StreamLength(commands) \in Nat /\ command.len \in Nat
        /\ StreamLength(commands + 1) = StreamLength(commands) + command.len
    BY <1>0, <2>1, NextCommand DEF command
  <2>4. taken = StreamLength(commands + 1)
    BY <1>0, <2>2, <2>3
  <2>5. StreamLength(commands)' = StreamLength(commands + 1)
    BY <1>2 DEF StreamLength, Return
  <2>6. StreamLength(Len(script))' = StreamLength(Len(script))
    BY <1>2 DEF StreamLength
  <2>7. taken \in Nat
    BY <1>0 DEF SessionType
  <2>8. QED
    BY <1>0, <1>2, <2>4, <2>5, <2>6, <2>7 DEF FramingInv, Return
<1>3. CASE Load \/ Connect \/ Open \/ OpenFails \/ LoadAgain \/ SrInit
  BY <1>1, <1>3 DEF Load, Connect, Open, OpenFails, LoadAgain, SrInit, Running, session, startup
<1>4. CASE ReadFails \/ LinkLost \/ Abort \/ HashBegin \/ HashByte \/ HwinfoEntry
  BY <1>1, <1>4 DEF ReadFails, LinkLost, Abort, HashBegin, HashByte, HwinfoEntry, Running, startup,
     Received, Complete, Reading
<1>5. CASE Lookup \/ SendPacket \/ UNCHANGED all
  BY <1>1, <1>5 DEF Lookup, SendPacket, session, all, Running, startup
<1>6. CASE Unexpected \/ HandleClose \/ HandleOther \/ AuthRequestFails \/ HandleAuthStatus
           \/ HandleRtable \/ RtableFails \/ HandleHwinfo \/ HandlePacket
  <2>1. Complete /\ script' = script
    BY <1>6 DEF Unexpected, HandleClose, HandleOther, AuthRequestFails, HandleAuthStatus,
       HandleRtable, RtableFails, HandleHwinfo, HandlePacket, Received, startup
  <2>2. PICK r : Return(r)
    BY <1>6 DEF Unexpected, HandleClose, HandleOther, AuthRequestFails, HandleAuthStatus,
       HandleRtable, RtableFails, HandleHwinfo, HandlePacket
  <2>3. QED
    BY <1>2, <2>1, <2>2
<1>7. CASE HandleAuthRequest
  BY <1>2, <1>7 DEF HandleAuthRequest, HashInv, Received, startup
<1>8. CASE ReadSome
  <2>1. PICK n \in 1 .. Wanted - bytes_read :
          /\ taken + n <= StreamLength(Len(script))
          /\ bytes_read' = bytes_read + n
          /\ taken' = taken + n
    BY <1>8 DEF ReadSome
  <2>2. Running /\ taken \in Nat /\ bytes_read \in Nat /\ len \in Nat /\ Wanted \in Int
    BY <1>0, <1>8 DEF ReadSome, Reading, Running, SessionType, Wanted, RestLength
  <2>3. n \in Nat /\ n <= Wanted - bytes_read
    BY <2>1, <2>2
  <2>4. UNCHANGED <<script, phase, len, commands>>
    BY <1>8 DEF ReadSome, startup
  <2>5. CASE len = 0
    <3>1. taken = StreamLength(commands) + bytes_read /\ Wanted = HEADER
      BY <1>0, <2>2, <2>5 DEF FramingInv, Wanted
    <3>2. StreamLength(commands) \in Nat
      BY <1>0, StreamNat DEF SessionType
    <3>3. taken' = StreamLength(commands) + bytes_read' /\ bytes_read' <= HEADER
      BY <1>0, <2>1, <2>2, <2>3, <3>1, <3>2
    <3>4. QED
      BY <2>1, <2>4, <2>5, <3>3 DEF FramingInv, StreamLength
  <2>6. CASE len # 0
    <3>1. /\ commands < Len(script) /\ len = command.len
          /\ taken = StreamLength(commands) + HEADER + bytes_read
          /\ Wanted = len - HEADER
      BY <1>0, <2>2, <2>6 DEF FramingInv, Wanted, RestLength
    <3>2. StreamLength(commands) \in Nat
      BY <1>0, StreamNat DEF SessionType
    <3>x. PICK s \in Nat : s = StreamLength(commands)
      BY <3>2
    <3>y. taken = s + HEADER + bytes_read /\ Wanted = len - HEADER
      BY <3>1, <3>x
    <3>z. taken' = s + HEADER + bytes_read' /\ bytes_read' <= len - HEADER
      BY <1>0, <2>1, <2>2, <2>3, <3>y
    <3>3. /\ taken' = StreamLength(commands) + HEADER + bytes_read'
          /\ bytes_read' <= len - HEADER
      BY <3>x, <3>z
    <3>4. QED
      BY <2>1, <2>4, <2>6, <3>1, <3>3 DEF FramingInv, StreamLength, command
  <2>7. QED
    BY <2>5, <2>6
<1>9. CASE LengthRead
  <2>1. PICK n \in LengthsAt(taken - HEADER) :
           IF n > MAX_LEN
           THEN /\ phase' = IF phase = "loop" THEN "ended" ELSE "failed"
                /\ UNCHANGED len
           ELSE len' = n /\ UNCHANGED phase
    BY <1>9 DEF LengthRead
  <2>2. /\ Running /\ taken \in Nat /\ bytes_read = HEADER /\ len = 0
        /\ bytes_read' = 0 /\ UNCHANGED <<script, taken, commands>>
    BY <1>0, <1>9 DEF LengthRead, Reading, Running, SessionType, startup
  <2>3. StreamLength(commands) \in Nat /\ commands \in 0 .. Len(script)
    BY <1>0, StreamNat DEF SessionType
  <2>4. /\ taken = StreamLength(commands) + HEADER /\ taken - HEADER = StreamLength(commands)
        /\ taken <= StreamLength(Len(script))
    BY <1>0, <2>2, <2>3 DEF FramingInv
  <2>5. commands \in Nat /\ commands < Len(script)
    <3>1. commands # Len(script)
      BY <1>0, <2>3, <2>4
    <3>2. QED
      BY <1>0, <2>3, <3>1
  <2>6. PICK here : here = {i \in 1 .. Len(script) : script[i].at = taken - HEADER}
    OBVIOUS
  <2>7. here = {commands + 1}
    BY <1>0, <2>4, <2>5, <2>6, NextCommand
  <2>8. n = command.len
    BY <2>1, <2>6, <2>7 DEF LengthsAt, command
  <2>9. command.len \in Nat /\ command.len > HEADER
    BY <1>0, <2>5, NextCommand DEF command
  <2>10. CASE n > MAX_LEN
    BY <2>1, <2>2, <2>4, <2>10 DEF FramingInv, Running, StreamLength
  <2>11. CASE ~(n > MAX_LEN)
    <3>1. len' = n /\ len' # 0 /\ 0 <= n - HEADER
      BY <1>0, <2>1, <2>8, <2>9, <2>11
    <3>2. taken = StreamLength(commands) + HEADER + 0
      BY <1>0, <2>3, <2>4
    <3>3. QED
      BY <2>2, <2>4, <2>5, <2>8, <3>1, <3>2 DEF FramingInv, StreamLength, command
  <2>12. QED
    BY <2>10, <2>11
<1>10. QED
  BY <1>3, <1>4, <1>5, <1>6, <1>7, <1>8, <1>9 DEF SessionNext, Step

-----------------------------------------------------------------------------
(* The digest *)

LEMMA SaltAndKey ==
    ASSUME SessionType, Complete
    PROVE  Salt(command) \o Key \in Seq(Int)
<1>1. command.len - HEADER - 1 \in Nat /\ AUTH_KEY_LEN \in Nat
  BY CompleteCommand, SessionAssumption DEF WellFormed
<1>2. Salt(command) \in Seq(Int)
  BY <1>1 DEF Salt
<1>3. Key \in Seq(Int)
  BY <1>1 DEF Key
<1>4. QED
  BY <1>2, <1>3

LEMMA ResetFields ==
    ASSUME NEW m \in Seq(Int)
    PROVE  /\ SHA1Reset \in Context
           /\ Collected(SHA1Reset, m, 0) /\ Counted(SHA1Reset, 0)
<1>1. BLOCK \in Nat /\ BLOCK > 3 /\ WORD_MOD \in Nat /\ WORD_MOD > 0 /\ Uninitialised \in Int
  BY Sha1Assumption DEF Uninitialised
<1>2. [i \in 1 .. BLOCK |-> Uninitialised] \in Block
  BY <1>1 DEF Block
<1>3. << >> \in Seq(Block) /\ Len(<< >>) = 0
  OBVIOUS
<1>4. SHA1Reset \in Context
  BY <1>1, <1>2, <1>3 DEF SHA1Reset, Context
<1>5. PICK c : c = SHA1Reset
  OBVIOUS
<1>6. /\ c.Message_Block_Index = 0 /\ c.Length_Low = 0 /\ c.Length_High = 0
      /\ Len(c.Message_Digest) = 0
  BY <1>3, <1>5 DEF SHA1Reset
<1>7. Counted(c, 0)
  BY <1>1, <1>6 DEF Counted
<1>8. Collected(c, m, 0)
  BY <1>1, <1>6 DEF Collected
<1>9. QED
  BY <1>4, <1>5, <1>7, <1>8

LEMMA HashStep == SessionInv /\ [SessionNext]_all => HashInv'
<1> SUFFICES ASSUME SessionInv, [SessionNext]_all PROVE HashInv'
  OBVIOUS
<1> USE DEF SessionInv
<1>0. SessionType /\ FramingInv /\ HashInv
  OBVIOUS
<1>1. ASSUME sha1 # NoHash
      PROVE  /\ Reading /\ len # 0 /\ ~(bytes_read < Wanted) /\ Wanted - bytes_read = 0
             /\ Expected /\ command.type = "auth_request" /\ Received("auth_request")
  <2>1. Received("auth_request")
    BY <1>0, <1>1 DEF HashInv
  <2>2. bytes_read = Wanted /\ bytes_read \in Nat
    BY <1>0, <2>1 DEF Received, Complete, Wanted, SessionType
  <2>3. QED
    BY <2>1, <2>2 DEF Received, Complete
<1>2. ASSUME sha1' = NoHash PROVE HashInv'
  BY <1>2 DEF HashInv
<1>3. ASSUME UNCHANGED <<hashing, script, commands, len, bytes_read, phase>> PROVE HashInv'
  BY <1>0, <1>3 DEF HashInv, hashing, Received, Complete, Reading, Expected, RestLength, command,
     Salt, Key
<1>4. CASE Load \/ Connect \/ Open \/ OpenFails \/ LoadAgain \/ SrInit
  BY <1>1, <1>2, <1>4 DEF Load, Connect, Open, OpenFails, LoadAgain, SrInit, session, hashing, Reading
<1>5. CASE ReadSome
  BY <1>1, <1>2, <1>5 DEF ReadSome, hashing
<1>6. CASE LengthRead \/ ReadFails \/ LinkLost
  BY <1>1, <1>2, <1>6 DEF LengthRead, ReadFails, LinkLost, hashing
<1>7. CASE Unexpected \/ HandleClose \/ HandleOther \/ HandleAuthStatus \/ HandleRtable
           \/ RtableFails \/ HwinfoEntry \/ HandleHwinfo \/ Abort \/ HandlePacket
  BY <1>1, <1>2, <1>7 DEF Unexpected, HandleClose, HandleOther, HandleAuthStatus, HandleRtable,
     RtableFails, HwinfoEntry, HandleHwinfo, Abort, HandlePacket, Received, hashing
<1>8. CASE HandleAuthRequest \/ AuthRequestFails
  BY <1>2, <1>8 DEF HandleAuthRequest, AuthRequestFails
<1>9. CASE Lookup \/ SendPacket \/ UNCHANGED all
  BY <1>3, <1>9 DEF Lookup, SendPacket, all, session, startup, reader
<1>10. ASSUME UNCHANGED <<script, commands, len, bytes_read, phase>>, Received("auth_request"),
              NEW k \in Nat, NEW m, m = Salt(command) \o Key, k + Len(message') = Len(m),
              message' \in Seq(Int), sha1' \in Context,
              \A i \in 1 .. Len(message') : message'[i] = m[k + i],
              ~sha1'.Corrupted => Collected(sha1', m, k) /\ Counted(sha1', k)
       PROVE  HashInv'
  <2>1. command' = command /\ (Salt(command) \o Key)' = m
    BY <1>10 DEF command, Salt, Key
  <2>2. Received("auth_request")'
    BY <1>10, <2>1 DEF Received, Complete, Reading, Expected, RestLength
  <2>3. QED
    BY <1>10, <2>1, <2>2 DEF HashInv, Collected, Counted
<1>11. CASE HashBegin
  <2>1. PICK m : m = Salt(command) \o Key
    OBVIOUS
  <2>2. m \in Seq(Int) /\ message' = m /\ sha1' = SHA1Reset
    BY <1>0, <1>11, <2>1, SaltAndKey DEF HashBegin, Received
  <2>3. \A i \in 1 .. Len(m) : m[i] = m[0 + i]
    BY <2>2
  <2>4. 0 + Len(m) = Len(m)
    BY <2>2
  <2>5. QED
    BY <1>10, <1>11, <2>1, <2>2, <2>3, <2>4, ResetFields DEF HashBegin, startup, reader
<1>12. CASE HashByte
  <2>1. PICK m : m = Salt(command) \o Key
    OBVIOUS
  <2>2. Received("auth_request") /\ m \in Seq(Int) /\ sha1 \in Context
    BY <1>0, <1>1, <1>12, <2>1, SaltAndKey DEF HashByte, Received, HashInv
  <2>3. PICK k \in Nat :
          /\ k + Len(message) = Len(m)
          /\ message \in Seq(Int)
          /\ \A i \in 1 .. Len(message) : message[i] = m[k + i]
          /\ ~sha1.Corrupted => Collected(sha1, m, k) /\ Counted(sha1, k)
    BY <1>0, <1>12, <2>1 DEF HashByte, HashInv
  <2>4. message # << >> /\ message' = Tail(message) /\ sha1' = SHA1InputByte(sha1, Head(message))
    BY <1>12 DEF HashByte
  <2>5. /\ message' \in Seq(Int) /\ Len(message') = Len(message) - 1 /\ Len(message) > 0
        /\ \A i \in 1 .. Len(message') : message'[i] = message[i + 1]
        /\ Head(message) = message[1]
    BY <2>3, <2>4
  <2>6. k + 1 \in Nat /\ (k + 1) + Len(message') = Len(m) /\ k < Len(m)
    <3>1. PICK a, b, c : a = Len(message) /\ b = Len(message') /\ c = Len(m)
      OBVIOUS
    <3>2. a \in Nat /\ b = a - 1 /\ a > 0 /\ c \in Nat /\ k + a = c
      BY <2>2, <2>3, <2>5, <3>1
    <3>3. k + 1 \in Nat /\ (k + 1) + b = c /\ k < c
      BY <3>2
    <3>4. QED
      BY <3>1, <3>3
  <2>7. Head(message) = m[k + 1]
    BY <2>3, <2>5
  <2>8. \A i \in 1 .. Len(message') : message'[i] = m[(k + 1) + i]
    <3>1. SUFFICES ASSUME NEW i \in 1 .. Len(message') PROVE message'[i] = m[(k + 1) + i]
      OBVIOUS
    <3>2. i + 1 \in 1 .. Len(message) /\ k + (i + 1) = (k + 1) + i
      BY <2>3, <2>5
    <3>3. QED
      BY <2>3, <2>5, <3>2
  <2>9. sha1' \in Context /\ (~sha1'.Corrupted => Collected(sha1', m, k + 1) /\ Counted(sha1', k + 1))
    <3>1. CASE sha1.Corrupted
      BY <2>2, <2>4, <3>1 DEF SHA1InputByte
    <3>2. CASE ~sha1.Corrupted
      BY <2>2, <2>3, <2>4, <2>6, <2>7, <3>2, InputByte
    <3>3. QED
      BY <3>1, <3>2
  <2>10. QED
    BY <1>10, <1>12, <2>1, <2>2, <2>5, <2>6, <2>8, <2>9 DEF HashByte, startup, reader
<1>13. QED
  BY <1>4, <1>5, <1>6, <1>7, <1>8, <1>9, <1>11, <1>12 DEF SessionNext, Step

-----------------------------------------------------------------------------
(* Authentication *)

(* What has been accepted stays accepted. *)
LEMMA AuthStep == SessionInv /\ [SessionNext]_all => AuthInv'
<1> SUFFICES ASSUME SessionInv, [SessionNext]_all PROVE AuthInv'
  OBVIOUS
<1> USE DEF SessionInv
<1>0. SessionType /\ AuthInv /\ HashInv
  OBVIOUS
<1> DEFINE Auth == \E j \in 1 .. commands : script[j].type = "auth_status" /\ script[j].ok
           IsOpen == \E j \in 1 .. Len(out) : out[j].kind = "open"
<1>1. ASSUME UNCHANGED <<script, commands, out>>,
             phase' = phase \/ phase' \notin AcceptedPhases \/ phase \in OpenedPhases
      PROVE  AuthInv'
  BY <1>0, <1>1 DEF AuthInv, AcceptedPhases, OpenedPhases
<1>2. ASSUME Complete, NEW r \in {-1, 0, 1}, Return(r), script' = script,
             phase' = "open" => command.type = "auth_status" /\ command.ok
      PROVE  phase' \in AcceptedPhases => Auth'
  <2>1. /\ commands \in Nat /\ commands' = commands + 1
    BY <1>2, CompleteCommand DEF Return
  <2>2. CASE phase \in AcceptedPhases
    BY <1>0, <1>2, <2>1, <2>2 DEF AuthInv
  <2>3. CASE phase \notin AcceptedPhases
    <3>1. phase' \in AcceptedPhases => phase' = "open"
      BY <1>2, <2>3, ReturnPhase DEF Complete, Return, Reading, AcceptedPhases
    <3>2. commands + 1 \in 1 .. commands'
      BY <2>1
    <3>3. QED
      BY <1>2, <3>1, <3>2 DEF command
  <2>4. QED
    BY <2>2, <2>3
<1>3. ASSUME Complete, NEW r \in {-1, 0, 1}, Return(r)
      PROVE  phase' \in OpenedPhases => phase \in OpenedPhases
  BY <1>3, ReturnPhase DEF Complete, Return, Reading, OpenedPhases
<1>4. ASSUME Complete, NEW r \in {-1, 0, 1}, Return(r), UNCHANGED <<script, out>>,
             phase' = "open" => command.type = "auth_status" /\ command.ok
      PROVE  AuthInv'
  BY <1>0, <1>2, <1>3, <1>4 DEF AuthInv
<1>5. CASE Load \/ Connect \/ OpenFails \/ LoadAgain \/ SrInit
  BY <1>1, <1>5 DEF Load, Connect, OpenFails, LoadAgain, SrInit, session, startup, AcceptedPhases,
     OpenedPhases
<1>6. CASE Open
  <2>1. Auth'
    BY <1>0, <1>6 DEF Open, AuthInv, AcceptedPhases, startup
  <2>2. IsOpen'
    <3>1. PICK o : o = [kind |-> "open"]
      OBVIOUS
    <3>2. out' = Append(out, o) /\ o.kind = "open" /\ \E S : out \in Seq(S)
      BY <1>0, <1>6, <3>1 DEF Open, SessionType
    <3>3. Len(out) \in Nat /\ Len(out') = Len(out) + 1 /\ out'[Len(out) + 1] = o
      BY <3>2, AppendOut
    <3>4. Len(out) + 1 \in 1 .. Len(out')
      BY <3>3
    <3>5. QED
      BY <3>2, <3>3, <3>4
  <2>3. QED
    BY <2>1, <2>2 DEF AuthInv
<1>7. CASE ReadSome \/ LengthRead \/ ReadFails \/ LinkLost \/ Abort \/ HashBegin \/ HashByte
           \/ HwinfoEntry
  BY <1>1, <1>7 DEF ReadSome, LengthRead, ReadFails, LinkLost, Abort, HashBegin, HashByte,
     HwinfoEntry, startup, AcceptedPhases
<1>8. CASE Lookup \/ UNCHANGED all
  BY <1>1, <1>8 DEF Lookup, session, all, startup
<1>9. CASE HandleAuthStatus
  <2>1. Complete /\ AuthResult \in {-1, 0, 1} /\ Return(AuthResult) /\ UNCHANGED <<script, out>>
    BY <1>9 DEF HandleAuthStatus, Received, AuthResult, startup
  <2>2. phase' = "open" => AuthResult = 1
    BY <2>1, ReturnPhase DEF Complete, Return, Reading
  <2>3. phase' = "open" => command.type = "auth_status" /\ command.ok
    BY <1>9, <2>2 DEF AuthResult, HandleAuthStatus, Received
  <2>4. QED
    BY <1>4, <2>1, <2>3
<1>10. ASSUME Complete, NEW r \in {-1, 0, 1}, Return(r), r # 1 \/ phase # "auth_status"
       PROVE  phase' # "open"
  BY <1>10, ReturnPhase DEF Complete, Return, Reading
<1>11. CASE Unexpected \/ HandleClose \/ AuthRequestFails \/ RtableFails
  <2>1. PICK r \in {-1, 0} : Return(r)
    BY <1>11 DEF Unexpected, HandleClose, AuthRequestFails, RtableFails, CloseResult
  <2>2. Complete /\ UNCHANGED <<script, out>> /\ r # 1
    BY <1>11, <2>1 DEF Unexpected, HandleClose, AuthRequestFails, RtableFails, Received, startup
  <2>3. QED
    BY <1>4, <1>10, <2>1, <2>2
<1>12. CASE HandleOther \/ HandleRtable \/ HandleHwinfo \/ HandlePacket
  <2>1. PICK r \in {-1, 1} : Return(r)
    BY <1>12 DEF HandleOther, HandleRtable, HandleHwinfo, HandlePacket
  <2>2. Complete /\ UNCHANGED <<script, out>> /\ phase # "auth_status"
    BY <1>12 DEF HandleOther, HandleRtable, HandleHwinfo, HandlePacket, Received, Expected, startup
  <2>3. QED
    BY <1>4, <1>10, <2>1, <2>2
<1>13. ASSUME \E S : out \in Seq(S), NEW o, out' = Append(out, o) PROVE IsOpen => IsOpen'
  <2>1. /\ Len(out) \in Nat /\ Len(out') = Len(out) + 1
        /\ \A j \in 1 .. Len(out) : out'[j] = out[j]
    BY <1>13, AppendOut
  <2>2. QED
    BY <2>1
<1>14. CASE HandleAuthRequest
  <2>1. Complete /\ Return(1) /\ script' = script /\ phase # "auth_status"
    BY <1>0, <1>14 DEF HandleAuthRequest, HashInv, Received, Expected, startup
  <2>2. phase' # "open"
    BY <1>10, <2>1
  <2>3. (phase' \in AcceptedPhases => Auth') /\ (phase' \in OpenedPhases => phase \in OpenedPhases)
    BY <1>2, <1>3, <2>1, <2>2
  <2>4. IsOpen => IsOpen'
    BY <1>0, <1>13, <1>14 DEF HandleAuthRequest, SessionType
  <2>5. QED
    BY <1>0, <2>3, <2>4 DEF AuthInv
<1>15. CASE SendPacket
  <2>1. IsOpen => IsOpen'
    BY <1>0, <1>13, <1>15 DEF SendPacket, SessionType
  <2>2. QED
    BY <1>0, <1>15, <2>1 DEF SendPacket, AuthInv, startup
<1>16. QED
  BY <1>5, <1>6, <1>7, <1>8, <1>9, <1>11, <1>12, <1>14, <1>15 DEF SessionNext, Step

(* An output added at the end. *)
LEMMA OutStep ==
    ASSUME SessionInv, NEW o, out' = Append(out, o),
           commands' \in Nat, commands' >= commands, script' = script,
           o.kind = "auth_reply" => o.digest = Sha1Blocks(o.salt \o Key),
           o.kind = "open" =>
              \E j \in 1 .. commands : script[j].type = "auth_status" /\ script[j].ok,
           o.kind = "packet" => \E j \in 1 .. Len(out) : out[j].kind = "open"
    PROVE  AuthReplyCorrect' /\ AuthenticatedFirst'
<1>1. /\ Len(out) \in Nat /\ Len(out') = Len(out) + 1 /\ out'[Len(out) + 1] = o
      /\ \A i \in 1 .. Len(out) : out'[i] = out[i]
      /\ commands \in Nat
  <2>1. SessionType
    BY DEF SessionInv
  <2>2. \E S : out \in Seq(S)
    BY <2>1 DEF SessionType
  <2>3. commands \in Nat
    BY <2>1, ScriptFacts DEF SessionType
  <2>4. QED
    BY <2>2, <2>3, AppendOut
<1>2. AuthReplyCorrect'
  <2>1. SUFFICES ASSUME NEW i \in 1 .. Len(out'), out'[i].kind = "auth_reply"
                 PROVE  out'[i].digest = Sha1Blocks(out'[i].salt \o Key)
    BY DEF AuthReplyCorrect, Sha1Blocks, PaddedMessage, Key
  <2>2. CASE i \in 1 .. Len(out)
    BY <1>1, <2>1, <2>2 DEF SessionInv, AuthReplyCorrect
  <2>3. CASE i = Len(out) + 1
    BY <1>1, <2>1, <2>3
  <2>4. QED
    BY <1>1, <2>2, <2>3
<1>3. AuthenticatedFirst'
  <2>1. SUFFICES ASSUME NEW i \in 1 .. Len(out')
                 PROVE  /\ out'[i].kind = "open" =>
                              \E j \in 1 .. commands' : script[j].type = "auth_status" /\ script[j].ok
                        /\ out'[i].kind = "packet" => \E j \in 1 .. i - 1 : out'[j].kind = "open"
    BY DEF AuthenticatedFirst
  <2>2. (\E j \in 1 .. commands : script[j].type = "auth_status" /\ script[j].ok)
            => \E j \in 1 .. commands' : script[j].type = "auth_status" /\ script[j].ok
    BY <1>1
  <2>3. CASE i \in 1 .. Len(out)
    <3>1. out'[i] = out[i] /\ \A j \in 1 .. i - 1 : j \in 1 .. Len(out)
      BY <1>1, <2>3
    <3>2. QED
      BY <1>1, <2>2, <2>3, <3>1 DEF SessionInv, AuthenticatedFirst
  <2>4. CASE i = Len(out) + 1
    <3>1. i - 1 = Len(out) /\ out'[i] = o
      BY <1>1, <2>4
    <3>2. QED
      BY <1>1, <2>2, <3>1
  <2>5. QED
    BY <1>1, <2>3, <2>4
<1>4. QED
  BY <1>2, <1>3

LEMMA ReplyStep == SessionInv /\ [SessionNext]_all => AuthReplyCorrect' /\ AuthenticatedFirst'
<1> SUFFICES ASSUME SessionInv, [SessionNext]_all PROVE AuthReplyCorrect' /\ AuthenticatedFirst'
  OBVIOUS
<1>0. /\ SessionType /\ HashInv /\ AuthInv /\ AuthReplyCorrect /\ AuthenticatedFirst
      /\ commands \in Nat
  BY ScriptFacts DEF SessionInv, SessionType
<1>1. ASSUME UNCHANGED <<script, out>>, commands' = commands \/ commands' = commands + 1
      PROVE  AuthReplyCorrect' /\ AuthenticatedFirst'
  <2>1. AuthReplyCorrect'
    <3>1. SUFFICES ASSUME NEW i \in 1 .. Len(out'), out'[i].kind = "auth_reply"
                   PROVE  out'[i].digest = Sha1Blocks(out'[i].salt \o Key)
      BY DEF AuthReplyCorrect, Sha1Blocks, PaddedMessage, Key
    <3>2. QED
      BY <1>0, <1>1, <3>1 DEF AuthReplyCorrect
  <2>2. (\E j \in 1 .. commands : script[j].type = "auth_status" /\ script[j].ok)
            => \E j \in 1 .. commands' : script[j].type = "auth_status" /\ script[j].ok
    BY <1>0, <1>1
  <2>3. AuthenticatedFirst'
    BY <1>0, <1>1, <2>2 DEF AuthenticatedFirst
  <2>4. QED
    BY <2>1, <2>3
<1>2. CASE Open
  <2>1. PICK o : o = [kind |-> "open"]
    OBVIOUS
  <2>2. out' = Append(out, o) /\ o.kind = "open" /\ UNCHANGED <<script, commands>>
    BY <1>2, <2>1 DEF Open, startup
  <2>3. \E j \in 1 .. commands : script[j].type = "auth_status" /\ script[j].ok
    BY <1>0, <1>2 DEF Open, AuthInv, AcceptedPhases
  <2>4. QED
    BY <1>0, <2>2, <2>3, OutStep
<1>3. CASE SendPacket
  <2>1. PICK i \in 1 .. Len(if_list) :
           out' = Append(out, [kind |-> "packet", iface |-> if_list[i].name,
                               source |-> if_list[i].addr])
    BY <1>3 DEF SendPacket
  <2>2. PICK o : o = [kind |-> "packet", iface |-> if_list[i].name, source |-> if_list[i].addr]
    OBVIOUS
  <2>3. out' = Append(out, o) /\ o.kind = "packet" /\ UNCHANGED <<script, commands>>
    BY <1>3, <2>1, <2>2 DEF SendPacket, startup
  <2>4. \E j \in 1 .. Len(out) : out[j].kind = "open"
    BY <1>0, <1>3 DEF SendPacket, Busy, AuthInv, OpenedPhases
  <2>5. QED
    BY <1>0, <2>3, <2>4, OutStep
<1>4. CASE HandleAuthRequest
  <2>1. PICK m, o : /\ m = Salt(command) \o Key
                    /\ o = [kind |-> "auth_reply", salt |-> Salt(command),
                            digest |-> SHA1PadMessage(sha1).Message_Digest]
    OBVIOUS
  <2>2. sha1 # NoHash /\ message = << >> /\ ~sha1.Corrupted /\ out' = Append(out, o)
    BY <1>4, <2>1 DEF HandleAuthRequest
  <2>3. /\ o.kind = "auth_reply" /\ o.salt = Salt(command)
        /\ o.digest = SHA1PadMessage(sha1).Message_Digest
    BY <2>1
  <2>4. Received("auth_request") /\ sha1 \in Context /\ m \in Seq(Int)
    BY <1>0, <2>1, <2>2, SaltAndKey DEF HashInv, Received
  <2>5. PICK k \in Nat : /\ k + Len(message) = Len(m)
                         /\ Collected(sha1, m, k) /\ Counted(sha1, k)
    BY <1>0, <2>1, <2>2 DEF HashInv
  <2>6. k = Len(m)
    BY <2>2, <2>4, <2>5
  <2>7. o.digest = Sha1Blocks(o.salt \o Key)
    BY <2>1, <2>3, <2>4, <2>5, <2>6, PadMessage
  <2>8. commands' = commands + 1 /\ script' = script
    BY <1>4 DEF HandleAuthRequest, Return, startup
  <2>9. QED
    BY <1>0, <2>2, <2>3, <2>7, <2>8, OutStep
<1>5. CASE \/ Load \/ Connect \/ OpenFails \/ LoadAgain \/ SrInit \/ ReadSome \/ LengthRead
           \/ HashBegin \/ HashByte \/ HwinfoEntry \/ Abort \/ ReadFails \/ LinkLost \/ Lookup
           \/ UNCHANGED all
  BY <1>1, <1>5 DEF Load, Connect, OpenFails, LoadAgain, SrInit, ReadSome, LengthRead, HashBegin,
     HashByte, HwinfoEntry, Abort, ReadFails, LinkLost, Lookup, session, startup, all
<1>6. CASE \/ Unexpected \/ HandleClose \/ HandleOther \/ AuthRequestFails \/ HandleAuthStatus
           \/ HandleRtable \/ RtableFails \/ HandleHwinfo \/ HandlePacket
  BY <1>1, <1>6 DEF Unexpected, HandleClose, HandleOther, AuthRequestFails, HandleAuthStatus,
     HandleRtable, RtableFails, HandleHwinfo, HandlePacket, Return, startup
<1>7. QED
  BY <1>2, <1>3, <1>4, <1>5, <1>6 DEF SessionNext, Step

-----------------------------------------------------------------------------
(* The interfaces *)

(* Verified() looks at the names only, and entries never take one away. *)
LEMMA StillVerified ==
    ASSUME NEW list \in Seq(Interface), NEW more \in Seq(Interface), Len(more) >= Len(list),
           \A i \in 1 .. Len(list) : more[i].name = list[i].name, Verified(list)
    PROVE  Verified(more)
<1>1. \A n : Named(list, n) # {} => Named(more, n) # {}
  BY DEF Named
<1>2. more # << >>
  <2>1. Len(list) > 0 /\ Len(list) \in Nat /\ Len(more) \in Nat
    BY DEF Verified
  <2>2. QED
    BY <2>1
<1>3. QED
  BY <1>1, <1>2 DEF Verified

(* While its entries are read the hardware information is the command. *)
LEMMA HwinfoBusy ==
    ASSUME SessionInv, entries > 0, Running
    PROVE  /\ Received("hwinfo") /\ phase = "loop" /\ command.type = "hwinfo"
           /\ len # 0 /\ ~(bytes_read < Wanted) /\ Wanted - bytes_read = 0
<1>1. Received("hwinfo")
  BY DEF SessionInv, InterfaceInv
<1>2. bytes_read = Wanted /\ bytes_read \in Nat
  BY <1>1 DEF SessionInv, Received, Complete, Wanted, SessionType
<1>3. QED
  BY <1>1, <1>2 DEF Received, Complete, Expected, Reading

LEMMA InterfaceStep == SessionInv /\ [SessionNext]_all => InterfaceInv'
<1> SUFFICES ASSUME SessionInv, [SessionNext]_all PROVE InterfaceInv'
  OBVIOUS
<1> USE DEF SessionInv
<1>0. SessionType /\ InterfaceInv /\ entries \in Nat
  BY DEF SessionType
<1>1. ASSUME entries > 0, Running
      PROVE  /\ Received("hwinfo") /\ phase = "loop" /\ command.type = "hwinfo"
             /\ len # 0 /\ ~(bytes_read < Wanted) /\ Wanted - bytes_read = 0
  BY <1>1, HwinfoBusy
<1>2. ASSUME entries = 0, entries' = 0, UNCHANGED <<script, if_list, handled, routing_table>>,
             phase' \in StartUp => phase \in StartUp,
             phase' = "loop" => phase \in {"loop", "loading"},
             HwinfoSeen' => HwinfoSeen
      PROVE  InterfaceInv'
  BY <1>0, <1>2 DEF InterfaceInv, Verified, Named, StartUp, NeedsInterfaces
<1>3. ASSUME phase \in StartUp, entries' = entries, UNCHANGED <<script, commands, if_list, handled>>
      PROVE  InterfaceInv'
  <2>1. if_list = << >> /\ handled = {} /\ entries = 0 /\ ~HwinfoSeen
    BY <1>0, <1>1, <1>3 DEF InterfaceInv, StartUp, Running
  <2>2. QED
    BY <1>3, <2>1 DEF InterfaceInv, HwinfoSeen
<1>4. ASSUME UNCHANGED <<script, if_list, entries, handled, routing_table>>,
             phase' \notin StartUp, phase' # "loop", Running' => entries = 0
      PROVE  InterfaceInv'
  BY <1>0, <1>4 DEF InterfaceInv, Verified, Named, NeedsInterfaces
<1>5. ASSUME UNCHANGED <<interfaces, handled, routing_table, phase, script, commands, len, bytes_read>>
      PROVE  InterfaceInv'
  BY <1>0, <1>5 DEF InterfaceInv, interfaces, Verified, Named, Running, Received, Complete,
     Reading, Expected, RestLength, command, HwinfoSeen, NeedsInterfaces
<1>6. CASE Load \/ Connect \/ Open \/ OpenFails \/ LoadAgain \/ SrInit
  BY <1>3, <1>6 DEF Load, Connect, Open, OpenFails, LoadAgain, SrInit, session, startup, interfaces,
     StartUp
<1>7. CASE ReadSome \/ LengthRead
  <2>1. entries = 0 /\ UNCHANGED <<script, commands, if_list, entries, handled, routing_table>>
    BY <1>0, <1>1, <1>7 DEF ReadSome, LengthRead, startup, interfaces, vars, Reading, Running
  <2>2. phase' = phase \/ phase' \in {"ended", "failed"}
    BY <1>7 DEF ReadSome, LengthRead
  <2>3. QED
    BY <1>2, <2>1, <2>2 DEF StartUp, HwinfoSeen
<1>8. CASE ReadFails \/ LinkLost
  <2>1. entries = 0 /\ UNCHANGED <<script, commands, if_list, entries, handled, routing_table>>
    BY <1>0, <1>1, <1>8 DEF ReadFails, LinkLost, startup, interfaces, vars, Reading, Running
  <2>2. phase' \in {"ended", "failed", "spinning"}
    BY <1>8 DEF ReadFails, LinkLost
  <2>3. QED
    BY <1>2, <2>1, <2>2 DEF StartUp, HwinfoSeen
<1>9. CASE Abort
  BY <1>4, <1>9 DEF Abort, startup, interfaces, vars, StartUp, Running
<1>10. CASE HashBegin \/ HashByte \/ Lookup \/ SendPacket \/ UNCHANGED all
  BY <1>5, <1>10 DEF HashBegin, HashByte, Lookup, SendPacket, all, session, startup, reader, vars,
     FindBegin, ScanEntry, ScanEnd
<1>11. ASSUME Complete, command.type # "hwinfo", NEW r \in {-1, 0, 1}, Return(r), script' = script
       PROVE  /\ entries = 0
              /\ phase' \in StartUp => phase \in StartUp
              /\ phase' = "loop" => phase \in {"loop", "loading"}
              /\ HwinfoSeen' => HwinfoSeen
  <2>1. entries = 0
    BY <1>0, <1>1, <1>11 DEF Complete, Reading, Running
  <2>2. HwinfoSeen' => HwinfoSeen
    <3>1. commands' = commands + 1 /\ commands \in Nat
      BY <1>0, <1>11 DEF Return, SessionType
    <3>2. QED
      BY <1>11, <3>1 DEF HwinfoSeen, command
  <2>3. QED
    BY <1>11, <2>1, <2>2, ReturnPhase DEF Complete, Return, Reading, StartUp
<1>12. CASE \/ HandleClose \/ HandleOther \/ AuthRequestFails \/ HandleAuthStatus
            \/ HandleRtable \/ RtableFails
  <2>1. PICK r \in {-1, 0, 1} : Return(r)
    BY <1>12 DEF HandleClose, HandleOther, AuthRequestFails, HandleAuthStatus, HandleRtable,
       RtableFails, CloseResult, AuthResult
  <2>2. Complete /\ command.type # "hwinfo"
    BY <1>12 DEF HandleClose, HandleOther, AuthRequestFails, HandleAuthStatus, HandleRtable,
       RtableFails, Received
  <2>3. UNCHANGED <<script, if_list, entries, handled, routing_table>>
    BY <1>12 DEF HandleClose, HandleOther, AuthRequestFails, HandleAuthStatus, HandleRtable,
       RtableFails, startup, interfaces, vars
  <2>4. QED
    BY <1>2, <1>11, <2>1, <2>2, <2>3
<1>13. CASE Unexpected
  <2>1. /\ Complete /\ Return(-1) /\ phase # "loop"
        /\ UNCHANGED <<script, if_list, entries, handled, routing_table>>
    BY <1>13 DEF Unexpected, startup, interfaces, vars, Expected
  <2>2. entries = 0
    BY <1>0, <1>1, <2>1 DEF Complete, Reading, Running
  <2>3. phase' = "failed"
    BY <2>1, ReturnPhase DEF Complete, Return
  <2>4. QED
    BY <1>4, <2>1, <2>2, <2>3 DEF StartUp
<1>14. CASE HandleAuthRequest
  <2>1. Complete /\ command.type # "hwinfo" /\ Return(1)
    BY <1>14 DEF HandleAuthRequest, HashInv, Received
  <2>2. UNCHANGED <<script, if_list, entries, handled, routing_table>>
    BY <1>14 DEF HandleAuthRequest, startup, interfaces, vars
  <2>3. QED
    BY <1>2, <1>11, <2>1, <2>2
<1>15. CASE HwinfoEntry
  <2>1. Received("hwinfo") /\ phase = "loop" /\ Complete
    BY <1>15 DEF HwinfoEntry, Received, Complete, Expected, Reading
  <2>2. /\ entries < Len(command.hw) /\ command.hw \in Seq(HwKey \X Iface)
    BY <1>0, <1>15, <2>1, CompleteCommand DEF HwinfoEntry, WellFormed
  <2>3. command.hw[entries + 1] \in HwKey \X Iface
    BY <1>0, <2>2
  <2>4. /\ if_list \in Seq(Interface) /\ if_list' \in Seq(Interface) /\ Len(if_list') >= Len(if_list)
        /\ \A i \in 1 .. Len(if_list) : if_list'[i].name = if_list[i].name
    BY <1>0, <1>15, <2>3, HwEntryList DEF HwinfoEntry, AddressFirst, SessionType
  <2>5. entries' = entries + 1 /\ UNCHANGED <<vars, startup, phase, reader, commands, handled>>
    BY <1>15 DEF HwinfoEntry
  <2>6. routing_table' = routing_table
    BY <2>5 DEF vars
  <2>7. Received("hwinfo")' /\ command' = command
    BY <2>1, <2>5 DEF Received, Complete, Reading, Expected, RestLength, command, startup, reader
  <2>8. entries' > 0 /\ entries' <= Len(command.hw)
    BY <1>0, <2>2, <2>5
  <2>9. (\E i \in handled : NeedsInterfaces(i))' => Verified(if_list)'
    <3>1. Verified(if_list)' <=> Verified(if_list')
      BY <2>6 DEF Verified, Named
    <3>2. (\E i \in handled : NeedsInterfaces(i))' => \E i \in handled : NeedsInterfaces(i)
      BY <2>5 DEF NeedsInterfaces, startup
    <3>3. QED
      BY <1>0, <2>4, <3>1, <3>2, StillVerified DEF InterfaceInv
  <2>10. phase' \notin StartUp
    BY <2>1, <2>5 DEF StartUp
  <2>11. QED
    BY <1>0, <2>5, <2>7, <2>8, <2>9, <2>10 DEF InterfaceInv
<1>16. CASE HandleHwinfo
  <2>1. Received("hwinfo") /\ phase = "loop" /\ Complete
    BY <1>16 DEF HandleHwinfo, Received, Complete, Expected, Reading
  <2>2. PICK r \in {-1, 1} : Return(r) /\ (r = 1 => Verified(if_list))
    BY <1>16 DEF HandleHwinfo
  <2>3. phase' = (IF r = 1 THEN "loop" ELSE "ended")
    BY <2>1, <2>2, ReturnPhase DEF Return, Complete
  <2>4. entries' = 0 /\ UNCHANGED <<script, if_list, handled, routing_table>>
    BY <1>16 DEF HandleHwinfo, startup, vars
  <2>5. /\ Verified(if_list)' <=> Verified(if_list)
        /\ \A i : NeedsInterfaces(i)' <=> NeedsInterfaces(i)
    BY <2>4 DEF Verified, Named, NeedsInterfaces
  <2>6. QED
    BY <1>0, <2>2, <2>3, <2>4, <2>5 DEF InterfaceInv, StartUp
<1>17. CASE HandlePacket
  <2>1. /\ Complete /\ command.type # "hwinfo" /\ Return(1) /\ phase = "loop"
        /\ script' = script
    BY <1>17 DEF HandlePacket, Received, Complete, Expected, Reading, startup
  <2>2. entries = 0 /\ phase' = "loop"
    BY <1>11, <2>1, ReturnPhase DEF Return, Complete
  <2>3. UNCHANGED <<script, if_list, entries, routing_table>>
    BY <1>17 DEF HandlePacket, startup, interfaces, vars
  <2>4. /\ Verified(if_list)' <=> Verified(if_list)
        /\ \A i : NeedsInterfaces(i)' <=> NeedsInterfaces(i)
    BY <2>3 DEF Verified, Named, NeedsInterfaces
  <2>5. HwinfoSeen' => HwinfoSeen
    BY <1>11, <2>1, <2>3
  <2>6. NeedsInterfaces(commands + 1) => Verified(if_list)
    <3>1. command.long => if_list # << >>
      BY <1>17 DEF HandlePacket, Named
    <3>2. NeedsInterfaces(commands + 1) => if_list # << >> \/ HwinfoSeen
      BY <1>0, <3>1 DEF NeedsInterfaces, HwinfoSeen, command, SessionType
    <3>3. QED
      BY <1>0, <2>1, <2>2, <3>2 DEF InterfaceInv
  <2>7. (\E i \in handled : NeedsInterfaces(i))' => Verified(if_list)
    <3>1. handled' \subseteq handled \cup {commands + 1}
      BY <1>17 DEF HandlePacket
    <3>2. QED
      BY <1>0, <2>4, <2>6, <3>1 DEF InterfaceInv
  <2>8. QED
    BY <1>0, <2>1, <2>2, <2>3, <2>4, <2>5, <2>7 DEF InterfaceInv, StartUp
<1>18. QED
  BY <1>6, <1>7, <1>8, <1>9, <1>10, <1>12, <1>13, <1>14, <1>15, <1>16, <1>17
     DEF SessionNext, Step

LEMMA SessionStep == SessionInv /\ [SessionNext]_all => SessionInv'
  BY TypeStep, FramingStep, HashStep, AuthStep, ReplyStep, InterfaceStep DEF SessionInv

(* What the entry does to the last interface *)
LEMMA HwEntryLast ==
    ASSUME NEW list \in Seq(Interface), NEW e \in HwKey \X Iface, NEW new,
           e[1] \in {"ethip", "ether"} => list # << >>, new = HwEntry(list, e)
    PROVE  /\ e[1] = "interface" => /\ \A i \in 1 .. Len(list) : new[i] = list[i]
                                    /\ new[Len(list) + 1].name = e[2]
                                    /\ new[Len(list) + 1].ip = NoIface
                                    /\ new[Len(list) + 1].addr = NoIface
           /\ e[1] # "interface" =>
                 \A i \in 1 .. Len(list) :
                    /\ new[i].ip = list[i].ip \/ (new[i].ip = e[2] /\ i = Len(list) /\ e[1] = "ethip")
                    /\ new[i].addr = list[i].addr
                          \/ (new[i].addr = e[2] /\ i = Len(list) /\ e[1] = "ether")
<1>1. CASE e[1] = "interface"
  <2>1. PICK x : x = [name |-> e[2], ip |-> NoIface, addr |-> NoIface]
    OBVIOUS
  <2>2. x \in Interface
    BY <2>1 DEF Interface, Names
  <2>3. new = Append(list, x)
    BY <1>1, <2>1 DEF HwEntry, sr_add_interface
  <2>4. QED
    BY <1>1, <2>1, <2>2, <2>3
<1>2. CASE e[1] = "ethip"
  <2>1. list # << >> /\ Len(list) \in 1 .. Len(list) /\ list[Len(list)] \in Interface
    BY <1>2
  <2>2. PICK x : x = [list[Len(list)] EXCEPT !.ip = e[2]]
    OBVIOUS
  <2>3. x.ip = e[2] /\ x.addr = list[Len(list)].addr
    BY <2>1, <2>2 DEF Interface
  <2>4. new = [list EXCEPT ![Len(list)] = x]
    BY <1>2, <2>2 DEF HwEntry, LastInterface
  <2>5. QED
    BY <1>2, <2>1, <2>3, <2>4
<1>3. CASE e[1] = "ether"
  <2>1. list # << >> /\ Len(list) \in 1 .. Len(list) /\ list[Len(list)] \in Interface
    BY <1>3
  <2>2. PICK x : x = [list[Len(list)] EXCEPT !.addr = e[2]]
    OBVIOUS
  <2>3. x.addr = e[2] /\ x.ip = list[Len(list)].ip
    BY <2>1, <2>2 DEF Interface
  <2>4. new = [list EXCEPT ![Len(list)] = x]
    BY <1>3, <2>2 DEF HwEntry, LastInterface
  <2>5. QED
    BY <1>3, <2>1, <2>3, <2>4
<1>4. CASE e[1] \notin {"interface", "ethip", "ether"}
  BY <1>4 DEF HwEntry
<1>5. QED
  BY <1>1, <1>2, <1>3, <1>4

LEMMA AddressStep ==
    ASSUME InterfaceFirst, SessionInv, AddressInv, [SessionNext]_all
    PROVE  AddressInv'
<1>0. SessionType /\ HashInv /\ entries \in Nat
  BY DEF SessionInv, SessionType
<1>1. ASSUME UNCHANGED if_list, entries' = 0 \/ ~Running' PROVE AddressInv'
  BY <1>1 DEF AddressInv
<1>2. ASSUME UNCHANGED <<interfaces, phase, script, commands>> PROVE AddressInv'
  BY <1>2 DEF AddressInv, interfaces, Running, command
<1>3. ASSUME UNCHANGED interfaces, ~(phase = "loop" /\ command.type = "hwinfo"), Running
      PROVE  AddressInv'
  BY <1>0, <1>1, <1>3, HwinfoBusy DEF interfaces
<1>4. CASE Load \/ Connect \/ Open \/ OpenFails \/ LoadAgain \/ SrInit
  BY <1>3, <1>4 DEF Load, Connect, Open, OpenFails, LoadAgain, SrInit, session, Running
<1>5. CASE ReadSome \/ HashBegin \/ HashByte \/ Lookup \/ SendPacket \/ UNCHANGED all
  BY <1>2, <1>5 DEF ReadSome, HashBegin, HashByte, Lookup, SendPacket, all, session, startup
<1>6. CASE LengthRead \/ ReadFails \/ LinkLost
  BY <1>0, <1>1, <1>6, HwinfoBusy
     DEF LengthRead, ReadFails, LinkLost, interfaces, Reading, Running
<1>7. CASE \/ Unexpected \/ HandleClose \/ HandleOther \/ AuthRequestFails \/ HandleAuthStatus
           \/ HandleRtable \/ RtableFails \/ HandlePacket
  <2>1. Complete /\ ~(phase = "loop" /\ command.type = "hwinfo") /\ UNCHANGED interfaces
    BY <1>7 DEF Unexpected, HandleClose, HandleOther, AuthRequestFails, HandleAuthStatus,
       HandleRtable, RtableFails, HandlePacket, Received, Expected
  <2>2. QED
    BY <1>3, <2>1 DEF Complete, Reading, Running
<1>8. CASE HandleAuthRequest
  <2>1. Complete /\ ~(phase = "loop" /\ command.type = "hwinfo") /\ UNCHANGED interfaces
    BY <1>0, <1>8 DEF HandleAuthRequest, HashInv, Received
  <2>2. QED
    BY <1>3, <2>1 DEF Complete, Reading, Running
<1>9. CASE HandleHwinfo
  BY <1>1, <1>9 DEF HandleHwinfo
<1>10. CASE Abort
  BY <1>1, <1>10 DEF Abort, interfaces, Running
<1>11. CASE HwinfoEntry
  <2>1. Received("hwinfo") /\ Complete /\ Running
    BY <1>11 DEF HwinfoEntry, Received, Complete, Reading, Running
  <2>2. PICK hw, e, new : hw = command.hw /\ e = hw[entries + 1] /\ new = if_list'
    OBVIOUS
  <2>3. entries + 1 \in 1 .. Len(hw) /\ hw \in Seq(HwKey \X Iface) /\ commands + 1 \in 1 .. Len(script)
    BY <1>0, <1>11, <2>1, <2>2, CompleteCommand DEF HwinfoEntry, WellFormed
  <2>4. e \in HwKey \X Iface
    BY <2>2, <2>3
  <2>5. /\ if_list \in Seq(Interface) /\ new = HwEntry(if_list, e)
        /\ e[1] \in {"ethip", "ether"} => if_list # << >>
    BY <1>0, <1>11, <2>2 DEF HwinfoEntry, AddressFirst, SessionType
  <2>6. /\ entries' = entries + 1 /\ command' = command /\ Running' /\ if_list' = new
    BY <1>11, <2>1, <2>2 DEF HwinfoEntry, startup, command, Running
  <2>7. /\ Len(if_list) \in Nat /\ Len(new) \in Nat /\ new \in Seq(Interface)
        /\ \A i \in 1 .. Len(if_list) : new[i].name = if_list[i].name
        /\ e[1] = "interface" => Len(new) = Len(if_list) + 1
        /\ e[1] # "interface" => Len(new) = Len(if_list)
    BY <2>4, <2>5, HwEntryList
  <2>8. ASSUME e[1] \in {"ethip", "ether"}
        PROVE  if_list[Len(if_list)].name = e[2]
    <3>1. PICK j \in 1 .. (entries + 1) - 1 :
             /\ hw[j] = <<"interface", e[2]>>
             /\ \A k \in j + 1 .. (entries + 1) - 1 : hw[k][1] # "interface"
      BY <1>0, <2>2, <2>3, <2>8 DEF InterfaceFirst, SessionType, command
    <3>2. j \in 1 .. entries /\ entries > 0 /\ (entries + 1) - 1 = entries
      BY <1>0, <3>1
    <3>3. hw[j][1] = "interface" /\ hw[j][2] = e[2]
      BY <3>1
    <3>4. QED
      BY <2>1, <2>2, <3>1, <3>2, <3>3 DEF AddressInv
  <2>9. \A i \in 1 .. Len(new) : /\ new[i].ip \in {NoIface, new[i].name}
                                 /\ new[i].addr \in {NoIface, new[i].name}
    <3>1. SUFFICES ASSUME NEW i \in 1 .. Len(new)
                   PROVE  /\ new[i].ip \in {NoIface, new[i].name}
                          /\ new[i].addr \in {NoIface, new[i].name}
      OBVIOUS
    <3>2. CASE e[1] = "interface"
      <4>1. CASE i \in 1 .. Len(if_list)
        BY <2>4, <2>5, <3>2, <4>1, HwEntryLast DEF AddressInv
      <4>2. CASE i = Len(if_list) + 1
        BY <2>4, <2>5, <3>2, <4>2, HwEntryLast
      <4>3. QED
        BY <2>7, <3>2, <4>1, <4>2
    <3>3. CASE e[1] # "interface"
      <4>1. i \in 1 .. Len(if_list) /\ new[i].name = if_list[i].name
        BY <2>7, <3>3
      <4>2. /\ new[i].ip = if_list[i].ip \/ new[i].ip = if_list[i].name
            /\ new[i].addr = if_list[i].addr \/ new[i].addr = if_list[i].name
        BY <2>4, <2>5, <2>8, <3>3, <4>1, HwEntryLast
      <4>3. QED
        BY <4>1, <4>2 DEF AddressInv
    <3>4. QED
      BY <3>2, <3>3
  <2>10. ASSUME NEW j \in 1 .. entries + 1, hw[j][1] = "interface",
                \A k \in j + 1 .. entries + 1 : hw[k][1] # "interface"
         PROVE  new # << >> /\ new[Len(new)].name = hw[j][2]
    <3>1. CASE j = entries + 1
      <4>1. e[1] = "interface"
        BY <2>2, <2>10, <3>1
      <4>2. new[Len(new)].name = e[2] /\ Len(new) > 0
        BY <2>4, <2>5, <2>7, <4>1, HwEntryLast
      <4>3. QED
        BY <2>2, <2>7, <3>1, <4>2
    <3>2. CASE j # entries + 1
      <4>1. j \in 1 .. entries /\ entries + 1 \in j + 1 .. entries + 1 /\ entries > 0
        BY <1>0, <3>2
      <4>2. e[1] # "interface"
        BY <2>2, <2>10, <4>1
      <4>3. \A k \in j + 1 .. entries : hw[k][1] # "interface"
        BY <1>0, <2>10
      <4>4. if_list # << >> /\ if_list[Len(if_list)].name = hw[j][2]
        BY <2>1, <2>2, <2>10, <4>1, <4>3 DEF AddressInv
      <4>5. Len(if_list) \in 1 .. Len(if_list)
        BY <2>5, <4>4
      <4>6. QED
        BY <2>7, <4>2, <4>4, <4>5
    <3>3. QED
      BY <3>1, <3>2
  <2>11. QED
    BY <2>2, <2>6, <2>9, <2>10 DEF AddressInv
<1>12. QED
  BY <1>4, <1>5, <1>6, <1>7, <1>8, <1>9, <1>10, <1>11 DEF SessionNext, Step

-----------------------------------------------------------------------------
(* Theorems *)

LEMMA SessionInductive == SessionSpec => []SessionInv
  BY SessionInitInv, SessionStep, PTL DEF SessionSpec

(* sr_read_from_server_expect(): for every script, every length of its     *)
(* commands and every way the reads cut the stream, the router is between  *)
(* two commands when it believes to be.                                    *)
THEOREM FramingCorrect == SessionSpec => []FramedInStep
<1>1. SessionInv => FramedInStep
  BY DEF SessionInv, FramingInv, FramedInStep
<1>2. QED
  BY <1>1, SessionInductive, PTL

(* sr_handle_auth_request(): the digest sent is that of the standard's     *)
(* padding of salt and key, for every size of the salt, of the key and of  *)
(* the hash function's block.                                              *)
THEOREM DigestCorrect == SessionSpec => []AuthReplyCorrect
<1>1. SessionInv => AuthReplyCorrect
  BY DEF SessionInv
<1>2. QED
  BY <1>1, SessionInductive, PTL

(* sr_connect_to_server() and main(): nothing is opened before the server  *)
(* has accepted the router, and no packet is sent before that.             *)
THEOREM AuthenticationFirst == SessionSpec => []AuthenticatedFirst
<1>1. SessionInv => AuthenticatedFirst
  BY DEF SessionInv
<1>2. QED
  BY <1>1, SessionInductive, PTL

(* sr_verify_routing_table() and sr_handle_hwinfo(): once a packet is      *)
(* handled that is long enough for ARP or follows hardware information,    *)
(* every route has its interface and every interface its own addresses, if *)
(* the server lists each interface before its addresses.                   *)
THEOREM RoutesCorrect ==
  ASSUME InterfaceFirst
  PROVE  SessionSpec => []RoutesUsable
<1>1. SessionInit => AddressInv
  BY DEF SessionInit, AddressInv
<1>2. SessionInv /\ AddressInv /\ [SessionNext]_all => AddressInv'
  BY AddressStep
<1>3. SessionInv /\ AddressInv => RoutesUsable
  BY DEF SessionInv, InterfaceInv, AddressInv, RoutesUsable, Verified
<1>4. QED
  BY <1>1, <1>2, <1>3, SessionInductive, PTL DEF SessionSpec

(* main() and the handlers use the routing table as RoutingTable says: a   *)
(* step of the session is a step of the table's specification, or leaves   *)
(* the table and the lookup alone.                                         *)
LEMMA UsesTheTable == SessionSpec => Spec
<1>1. SessionInit => Init
  BY DEF SessionInit
<1>2. SessionInv /\ [SessionNext]_all => [Next]_vars
  <2>1. SUFFICES ASSUME SessionInv, [SessionNext]_all PROVE [Next]_vars
    OBVIOUS
  <2>2. CASE Load \/ Lookup
    BY <2>2 DEF Load, Lookup, Next
  <2>3. CASE LoadAgain
    <3>1. rtable \in Files /\ Reload(rtable)
      BY <2>1, <2>3 DEF LoadAgain, SessionInv, SessionType
    <3>2. \E f \in Files : Reload(f)
      BY <3>1, Zenon
    <3>3. QED
      BY <3>2 DEF Next
  <2>4. CASE HandleRtable
    BY <2>4 DEF HandleRtable, vars
  <2>5. CASE \/ Connect \/ Open \/ OpenFails \/ SrInit \/ ReadSome \/ LengthRead \/ ReadFails
             \/ LinkLost \/ Unexpected \/ HandleClose \/ HandleOther \/ HashBegin \/ HashByte
             \/ HandleAuthRequest \/ AuthRequestFails \/ HandleAuthStatus
    BY <2>5 DEF Connect, Open, OpenFails, SrInit, ReadSome, LengthRead, ReadFails, LinkLost,
       Unexpected, HandleClose, HandleOther, HashBegin, HashByte, HandleAuthRequest,
       AuthRequestFails, HandleAuthStatus
  <2>6. CASE RtableFails \/ HwinfoEntry \/ HandleHwinfo \/ Abort \/ HandlePacket \/ SendPacket
    BY <2>6 DEF RtableFails, HwinfoEntry, HandleHwinfo, Abort, HandlePacket, SendPacket
  <2>7. CASE UNCHANGED all
    BY <2>7 DEF all
  <2>8. QED
    BY <2>1, <2>2, <2>3, <2>4, <2>5, <2>6, <2>7 DEF SessionNext, Step
<1>3. QED
  BY <1>1, <1>2, SessionInductive, PTL DEF SessionSpec, Spec

(* sr_findLPMentry() in the running router: what holds of the table alone  *)
(* holds of every lookup of a session.                                     *)
THEOREM SessionLookupCorrect == SessionSpec => []LongestMatchFound
  BY LookupCorrect, UsesTheTable
=============================================================================
