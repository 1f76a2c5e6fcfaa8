----------------------------- MODULE HashStream -----------------------------
(***************************************************************************)
(* The three streaming hashes of zpkg: MD5, sha (SHA-1 and SHA-256, after  *)
(* ffmpeg) and SHA1.  Each takes a message in pieces of any size, hands    *)
(* whole blocks to its transform, keeps the rest in a buffer and, at the   *)
(* end, pads the message to a whole number of blocks.                      *)
(*                                                                         *)
(* A transform folds one block into the state, so the sequence of blocks   *)
(* stands for the state.  The i-th byte of the message is i: what matters  *)
(* is which byte lands where.                                              *)
(***************************************************************************)
EXTENDS Integers, Sequences, SequencesExt

CONSTANTS
  BlockSize,     (* 64                                                      *)
  LengthSize,    (* 8: the bytes of the message's length                    *)
  WordSpan,      (* 2^32: the words of MD5's bit count are taken modulo it  *)
  MaxChunk,      (* bound: bytes of one update                              *)
  MaxBytes,      (* bound: bytes of a message                               *)
  MaxMessages    (* bound: messages hashed with the same objects            *)

ASSUME HashAssumption ==
  /\ {BlockSize, LengthSize, WordSpan} \subseteq Nat \ {0}
  /\ LengthSize < BlockSize /\ WordSpan % (8 * BlockSize) = 0
  /\ {MaxChunk, MaxBytes, MaxMessages} \subseteq Nat

Zero == 0
Mark == -1      (* 0x80, the first byte of the padding                      *)
Junk == -2      (* a byte of memory nobody wrote                            *)
LengthBytes(bits) == [i \in 1 .. LengthSize |-> -3 - bits]

VARIABLES
  fed,       (* bytes of the message so far                                 *)
  md5,       (* MD5: buffer, count (lo, hi), blocks                         *)
  sha,       (* sha: buffer, count, blocks                                  *)
  sha1,      (* SHA1: buffer, transforms, blocks                            *)
  answer,    (* the blocks behind each digest, <<>> while streaming         *)
  messages   (* messages begun                                              *)

hashVars == <<fed, md5, sha, sha1, answer, messages>>

-----------------------------------------------------------------------------

Fill(token) == [i \in 1 .. BlockSize |-> token]

Message(n) == [i \in 1 .. n |-> i]

(* memcpy(&buffer[at], bytes, size) *)
Overlay(buffer, at, bytes) ==
  [i \in 1 .. BlockSize |->
     IF i \in at + 1 .. at + Len(bytes) THEN bytes[i - at] ELSE buffer[i]]

(* The whole blocks of a sequence of bytes, and what is left behind them. *)
Blocks(bytes) ==
  [k \in 1 .. Len(bytes) \div BlockSize |->
     SubSeq(bytes, (k - 1) * BlockSize + 1, k * BlockSize)]

Rest(bytes) == SubSeq(bytes, BlockSize * (Len(bytes) \div BlockSize) + 1, Len(bytes))

-----------------------------------------------------------------------------
(* The operations of the three classes. *)

(* Seeded fault: the rest is written behind the old rest. *)
FaultyAbsorb(h, index, bytes) ==
  LET filled == Overlay(h.buffer, index, SubSeq(bytes, 1, BlockSize - index))
      more == SubSeq(bytes, BlockSize - index + 1, Len(bytes))
  IN  IF index + Len(bytes) < BlockSize
      THEN [h EXCEPT !.buffer = Overlay(@, index, bytes)]
      ELSE [h EXCEPT !.blocks = @ \o <<filled>> \o Blocks(more),
                     !.buffer = Overlay(filled, index, Rest(more))]

(* The body of sha::update and MD5::update behind their counts: fill the    *)
(* buffer and transform it, transform whole blocks from the input, keep the *)
(* rest.                                                                    *)
Absorb(h, index, bytes) ==
  LET filled == Overlay(h.buffer, index, SubSeq(bytes, 1, BlockSize - index))
      more == SubSeq(bytes, BlockSize - index + 1, Len(bytes))
  IN  IF index + Len(bytes) < BlockSize
      THEN [h EXCEPT !.buffer = Overlay(@, index, bytes)]
      ELSE [h EXCEPT !.blocks = @ \o <<filled>> \o Blocks(more),
                     !.buffer = Overlay(filled, 0, Rest(more))]

(* MD5 counts bits in two words, with a carry. *)
md5_index(h) == (h.lo \div 8) % BlockSize

md5_update(h, bytes) ==
  LET bits == 8 * Len(bytes)
      lo == (h.lo + bits) % WordSpan
      carry == IF lo < bits % WordSpan THEN 1 ELSE 0
  IN  [Absorb(h, md5_index(h), bytes) EXCEPT
         !.lo = lo,
         !.hi = (@ + carry + bits \div WordSpan) % WordSpan]

(* The length is the one before the padding. *)
md5_finalize(h) ==
  LET index == md5_index(h)
      padLen == (IF index < BlockSize - LengthSize THEN BlockSize ELSE 2 * BlockSize)
                  - LengthSize - index
      padded == md5_update(h, <<Mark>> \o [i \in 1 .. padLen - 1 |-> Zero])
  IN  md5_update(padded, LengthBytes(h.hi * WordSpan + h.lo))

sha_update(h, bytes) ==
  [Absorb(h, h.count % BlockSize, bytes) EXCEPT !.count = @ + Len(bytes)]

(* hash_bin pads with zeros one by one until the length fits. *)
sha_pad(h) ==
  LET marked == sha_update(h, <<Mark>>)
      zeros == (2 * BlockSize - LengthSize - (marked.count % BlockSize)) % BlockSize
      padded == FoldLeft(LAMBDA g, i : sha_update(g, <<Zero>>), marked,
                         [i \in 1 .. zeros |-> i])
  IN  sha_update(padded, LengthBytes(8 * h.count))

sha1_update(h, bytes) ==
  LET all == h.buffer \o bytes
  IN  [buffer |-> Rest(all),
       transforms |-> h.transforms + Len(all) \div BlockSize,
       blocks |-> h.blocks \o Blocks(all)]

sha1_last(buffer, total_bits) ==
  SubSeq(buffer, 1, BlockSize - LengthSize) \o LengthBytes(total_bits)

(* Seeded fault: a mark that just leaves room for the length is taken for   *)
(* one that does not.                                                       *)
faulty_sha1_pad(h) ==
  LET total_bits == 8 * (h.transforms * BlockSize + Len(h.buffer))
      marked == Overlay(Fill(Zero), 0, Append(h.buffer, Mark))
  IN  h.blocks \o
        (IF Len(h.buffer) + 1 >= BlockSize - LengthSize
         THEN <<marked, sha1_last(Fill(Zero), total_bits)>>
         ELSE <<sha1_last(marked, total_bits)>>)

(* final_bin: a block of its own for the length if the mark leaves no room. *)
sha1_pad(h) ==
  LET total_bits == 8 * (h.transforms * BlockSize + Len(h.buffer))
      marked == Overlay(Fill(Zero), 0, Append(h.buffer, Mark))
  IN  h.blocks \o
        (IF Len(h.buffer) + 1 > BlockSize - LengthSize
         THEN <<marked, sha1_last(Fill(Zero), total_bits)>>
         ELSE <<sha1_last(marked, total_bits)>>)

sha1_reset == [buffer |-> <<>>, transforms |-> 0, blocks |-> <<>>]

-----------------------------------------------------------------------------
(* A program that hashes messages with an object of each class. *)

md5_init == [buffer |-> Fill(Junk), lo |-> 0, hi |-> 0, blocks |-> <<>>]

HashInit ==
  /\ fed = 0
  /\ md5 = md5_init
  /\ sha = [buffer |-> Fill(Zero), count |-> 0, blocks |-> <<>>]
  /\ sha1 = sha1_reset
  /\ answer = <<>>
  /\ messages = 1

HashUpdate(n) ==
  LET bytes == [i \in 1 .. n |-> fed + i]
  IN  /\ answer = <<>>
      /\ fed + n <= MaxBytes
      /\ fed' = fed + n
      /\ md5' = md5_update(md5, bytes)
      /\ sha' = sha_update(sha, bytes)
      /\ sha1' = sha1_update(sha1, bytes)
      /\ UNCHANGED <<answer, messages>>

(* MD5::finalize clears its buffer and count, SHA1 resets itself, sha is    *)
(* left padded.                                                             *)
HashFinish ==
  LET md5_done == md5_finalize(md5)
      sha_done == sha_pad(sha)
  IN  /\ answer = <<>>
      /\ answer' = <<md5_done.blocks, sha_done.blocks, sha1_pad(sha1)>>
      /\ md5' = [md5_done EXCEPT !.buffer = Fill(Zero), !.lo = 0, !.hi = 0]
      /\ sha' = sha_done
      /\ sha1' = sha1_reset
      /\ UNCHANGED <<fed, messages>>

(* A new MD5 and sha::reset, which keeps the buffer as it is. *)
HashReset ==
  /\ answer # <<>>
  /\ messages < MaxMessages
  /\ messages' = messages + 1
  /\ fed' = 0
  /\ md5' = md5_init
  /\ sha' = [sha EXCEPT !.count = 0, !.blocks = <<>>]
  /\ answer' = <<>>
  /\ UNCHANGED sha1

HashNext ==
  \/ \E n \in 0 .. MaxChunk : HashUpdate(n)
  \/ HashFinish
  \/ HashReset

HashSpec == HashInit /\ [][HashNext]_hashVars

-----------------------------------------------------------------------------
(* Properties. *)

(* RFC 1321 and FIPS 180: the mark, the fewest zeros that fit, the length.  *)
Padded(n) ==
  LET zeros == CHOOSE k \in 0 .. BlockSize - 1 : (n + 1 + k + LengthSize) % BlockSize = 0
  IN  Message(n) \o <<Mark>> \o [i \in 1 .. zeros |-> Zero] \o LengthBytes(8 * n)

(* However a message is cut into updates, all three classes hash the padded *)
(* message, and nothing of the memory or of the message hashed before: with *)
(* the same transform they agree.                                           *)
HashesPaddedMessage ==
  \A i \in DOMAIN answer : FlattenSeq(answer[i]) = Padded(fed)

=============================================================================
