------------------------------ MODULE NalScan ------------------------------
(***************************************************************************)
(* The Annex B scanners of zav's h26x: where the next start code (0 0 1)   *)
(* is, where the unit behind it ends, and which unit is the first one the  *)
(* decoder supports.  A pointer is the index of a byte; 0 is the null      *)
(* pointer.  The memory behind the bytes is not modelled, so a buffer      *)
(* that goes to find_next_nalu begins with a start code.                   *)
(***************************************************************************)
EXTENDS Integers, Sequences, SequencesExt

CONSTANTS
  Byte,        (* the values bytes may have                                 *)
  Skipped,     (* unit headers that annexb_skip_unsupported_nalu skips      *)
  MaxBuffer    (* bound: bytes of a buffer                                 *)

ASSUME NalAssumption == {0, 1} \subseteq Byte /\ Byte \subseteq 0 .. 255

VARIABLE bytes

-----------------------------------------------------------------------------
(* A scanner compares at p and goes on by Jump(b, p), or has found it: 0.   *)

Scan(b, Jump(_, _)) ==
  LET at[p \in 1 .. Len(b) + 3] ==
        IF p + 2 > Len(b) THEN 0
        ELSE IF Jump(b, p) = 0 THEN p
        ELSE at[p + Jump(b, p)]
  IN  at[1]

memcmp_jump(b, p) == IF SubSeq(b, p, p + 2) = <<0, 0, 1>> THEN 0 ELSE 1

(* Seeded fault: the second byte is not looked at again. *)
faulty_seq_jump(b, p) ==
  IF b[p] # 0 THEN 1
  ELSE IF b[p + 1] # 0 THEN 2
  ELSE IF b[p + 2] = 1 THEN 0 ELSE 3

seq_jump(b, p) ==
  IF b[p] # 0 THEN 1
  ELSE IF b[p + 1] # 0 THEN 2
  ELSE CASE b[p + 2] > 1 -> 3
         [] b[p + 2] = 0 -> 1
         [] OTHER        -> 0

sbm_jump(b, p) ==
  CASE b[p + 2] > 1 -> 3
    [] b[p + 2] = 0 -> 1
    [] OTHER        -> IF b[p] = 0 /\ b[p + 1] = 0 THEN 0 ELSE 3

find_start_memcmp(b) == Scan(b, memcmp_jump)
find_start_seq(b) == Scan(b, seq_jump)
find_start_sbm(b) == Scan(b, sbm_jump)

(* A zero before the code belongs to it, unless p is the first byte looked  *)
(* at.                                                                      *)
find_next_nalu_start(b) ==
  LET p == find_start_sbm(b)
  IN  IF p > 1 /\ b[p - 1] = 0
      THEN [found |-> p - 1, prefix |-> 4]
      ELSE [found |-> p, prefix |-> 3]

NoNalu == [start |-> 0, prefix |-> 0, end |-> 0]

(* The first unit of b from the index at on. *)
find_next_nalu(b, at) ==
  LET tail == SubSeq(b, at, Len(b))
      first == find_next_nalu_start(tail)
      body == SubSeq(tail, first.found + first.prefix, Len(tail))
      next == find_next_nalu_start(body)
      start == at - 1 + first.found
  IN  IF Len(tail) < 4 \/ first.found = 0 THEN NoNalu
      ELSE [start |-> start, prefix |-> first.prefix,
            end |-> IF next.found = 0 THEN Len(b)
                    ELSE start + first.prefix + next.found - 2]

(* Seeded fault: a unit of one byte is taken. *)
faulty_taken(b, nalu) ==
  /\ nalu.end >= nalu.start + nalu.prefix
  /\ b[nalu.start + nalu.prefix] \notin Skipped

taken(b, nalu) ==
  /\ nalu.end > nalu.start + nalu.prefix
  /\ b[nalu.start + nalu.prefix] \notin Skipped

skip_unsupported_nalu(b) ==
  LET support[at \in 1 .. Len(b) + 1] ==
        LET nalu == find_next_nalu(b, at)
        IN  IF nalu = NoNalu THEN 0
            ELSE IF taken(b, nalu) THEN nalu.start
            ELSE support[nalu.end + 1]
  IN  support[1]

-----------------------------------------------------------------------------
(* Every buffer, byte by byte. *)

NalInit == bytes = <<>>

NalNext ==
  /\ Len(bytes) < MaxBuffer
  /\ \E v \in Byte : bytes' = Append(bytes, v)

NalSpec == NalInit /\ [][NalNext]_bytes

-----------------------------------------------------------------------------
(* Properties. *)

Codes == {p \in 1 .. Len(bytes) - 2 : SubSeq(bytes, p, p + 2) = <<0, 0, 1>>}

(* However far a scanner jumps, it misses no start code and finds the first.*)
ScannersFindFirst ==
  \A p \in {find_start_memcmp(bytes), find_start_seq(bytes), find_start_sbm(bytes)} :
    IF Codes = {} THEN p = 0 ELSE p \in Codes /\ \A q \in Codes : p <= q

(* The units of a buffer: from behind a code up to the next one, with the   *)
(* zero that makes it a long one.                                           *)
Begin(p) == IF p > 1 /\ bytes[p - 1] = 0 THEN p - 1 ELSE p
UnitEnd(p) ==
  IF \A q \in Codes : q <= p THEN Len(bytes)
  ELSE Begin(CHOOSE q \in Codes : q > p /\ \A r \in Codes : r > p => q <= r) - 1

(* The unit found is the first one that the decoder supports and that has a *)
(* byte behind its header, whatever units were skipped before it.           *)
FirstSupported ==
  LET good == {p \in Codes : UnitEnd(p) > p + 3 /\ bytes[p + 3] \notin Skipped}
      first == CHOOSE p \in good : \A q \in good : p <= q
  IN  (1 \in Codes \/ (2 \in Codes /\ bytes[1] = 0)) =>
        skip_unsupported_nalu(bytes) = IF good = {} THEN 0 ELSE Begin(first)

(* Codes and units are found where they are. *)
UnitsFound == ScannersFindFirst /\ FirstSupported

=============================================================================
