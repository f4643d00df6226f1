-------------------------------- MODULE Sha1 --------------------------------
(***************************************************************************)
(* The message scheduling of SHA-1 (sha1.c): bytes are collected in        *)
(* Message_Block, full blocks are processed, and the last one or two are   *)
(* padded.  The compression of a block is a free function: Message_Digest  *)
(* is the sequence of the blocks it was computed from, so that two digests *)
(* are equal if and only if the same blocks were processed.                *)
(*                                                                         *)
(* The length of the message is kept in two words.  In the last block each *)
(* takes one place of Message_Block instead of four.  A context is used    *)
(* for one message: the flag Computed, which refuses input behind a        *)
(* result, is left out.                                                    *)
(***************************************************************************)
EXTENDS Integers, Sequences

CONSTANTS
    BLOCK,     \* places of Message_Block (64)
    WORD_MOD   \* a word of the length is below this (2^32)

ASSUME Sha1Assumption ==
    /\ BLOCK \in Nat /\ BLOCK > 3
    /\ WORD_MOD \in Nat /\ WORD_MOD % 8 = 0 /\ WORD_MOD > 0

Uninitialised == -1
PadMark == 128

(* Places of the last block that come before the length. *)
DATA == BLOCK - 2

SHA1Reset == [Message_Block |-> [i \in 1 .. BLOCK |-> Uninitialised],
              Message_Block_Index |-> 0,
              Length_Low |-> 0, Length_High |-> 0,
              Message_Digest |-> << >>,
              Corrupted |-> FALSE]

SHA1ProcessMessageBlock(context) ==
    [context EXCEPT !.Message_Digest = Append(@, context.Message_Block),
                    !.Message_Block_Index = 0]

(* Message_Block[Message_Block_Index++] = byte *)
Put(context, byte) ==
    [context EXCEPT !.Message_Block[context.Message_Block_Index + 1] = byte,
                    !.Message_Block_Index = @ + 1]

(* One turn of the loop of SHA1Input(), with the carry between the words.  *)
(* A context whose length has overflowed takes no more bytes.              *)
SHA1InputByte(context, byte) ==
    LET low    == (context.Length_Low + 8) % WORD_MOD
        high   == IF low = 0 THEN (context.Length_High + 1) % WORD_MOD
                  ELSE context.Length_High
        stored == [Put(context, byte) EXCEPT
                      !.Length_Low = low, !.Length_High = high,
                      !.Corrupted = low = 0 /\ high = 0]
    IN  IF context.Corrupted THEN context
        ELSE IF stored.Message_Block_Index = BLOCK
             THEN SHA1ProcessMessageBlock(stored)
             ELSE stored

(* The loops that write 0 up to place n. *)
ZerosUpTo(context, n) ==
    [context EXCEPT
        !.Message_Block = [i \in 1 .. BLOCK |->
                              IF context.Message_Block_Index < i /\ i <= n
                              THEN 0 ELSE @[i]],
        !.Message_Block_Index = n]

(* Mutant: the place of the mark is forgotten. *)
MarkForgotten(context) == context.Message_Block_Index > DATA

(* The mark and the length do not both fit into the block (index > 55). *)
NeedsSecondBlock(context) == context.Message_Block_Index > DATA - 1

SHA1PadMessage(context) ==
    LET marked == Put(context, PadMark)
        filled == IF NeedsSecondBlock(context)
                  THEN ZerosUpTo(SHA1ProcessMessageBlock(ZerosUpTo(marked, BLOCK)), DATA)
                  ELSE ZerosUpTo(marked, DATA)
    IN  SHA1ProcessMessageBlock(
            [filled EXCEPT !.Message_Block[DATA + 1] = context.Length_High,
                           !.Message_Block[BLOCK] = context.Length_Low])

-----------------------------------------------------------------------------
(* The standard's definition (FIPS 180-1), for comparison: the message,    *)
(* the mark, the fewest zeros that fill up a block, and the length in      *)
(* bits, cut into blocks.                                                  *)
PaddedMessage(message) ==
    LET unpadded == Len(message) + 3
        zeros    == (BLOCK - (unpadded % BLOCK)) % BLOCK
        bits     == 8 * Len(message)
    IN  message \o <<PadMark>> \o [i \in 1 .. zeros |-> 0]
                \o <<bits \div WORD_MOD, bits % WORD_MOD>>

Sha1Blocks(message) ==
    LET padded == PaddedMessage(message)
    IN  [b \in 1 .. Len(padded) \div BLOCK |->
            SubSeq(padded, (b - 1) * BLOCK + 1, b * BLOCK)]
=============================================================================
