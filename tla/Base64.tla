------------------------------- MODULE Base64 -------------------------------
(***************************************************************************)
(* base64_encode and base64_decode of zpkg.  A character of the alphabet   *)
(* is its index, Pad the "=" behind it and any other number a character    *)
(* outside.                                                                *)
(***************************************************************************)
EXTENDS Integers, Sequences, SequencesExt

CONSTANTS
  Octets,      (* the bytes that are encoded                                *)
  MaxOctets    (* bound: bytes of an input                                  *)

ASSUME Base64Assumption == Octets \subseteq 0 .. 255 /\ MaxOctets \in Nat

VARIABLE octets

Pad == 64

-----------------------------------------------------------------------------

Sextets(a, b, c) ==
  <<a \div 4, 16 * (a % 4) + b \div 16, 4 * (b % 16) + c \div 64, c % 64>>

(* The k-th three bytes, or what is left of them at the end: the characters *)
(* no byte reaches are padding.                                             *)
EncodeGroup(in, k) ==
  LET rest == Len(in) - 3 * k
      byte(i) == IF i <= rest THEN in[3 * k + i] ELSE 0
      all == Sextets(byte(1), byte(2), byte(3))
  IN  [i \in 1 .. 4 |-> IF i <= rest + 1 THEN all[i] ELSE Pad]

encoded_size(n) == 4 * ((n + 2) \div 3)
decoded_size(n) == (n \div 4) * 3

base64_encode(in) ==
  FlattenSeq([k \in 1 .. encoded_size(Len(in)) \div 4 |-> EncodeGroup(in, k - 1)])

Triple(c) == <<((4 * c[1]) % 256) + ((c[2] \div 16) % 4),
               16 * (c[2] % 16) + ((c[3] \div 4) % 16),
               64 * (c[3] % 4) + c[4]>>

(* Seeded fault: a character too many gives a byte too many. *)
faulty_tail(i) == i

(* The bytes that i characters left at the end give. *)
tail(i) == IF i = 0 THEN 0 ELSE i - 1

(* The decoder stops at padding, at a character outside the alphabet and at *)
(* the end.                                                                 *)
base64_decode(text) ==
  LET stop == CHOOSE n \in 0 .. Len(text) :
                /\ n = Len(text) \/ text[n + 1] \notin 0 .. 63
                /\ \A i \in 1 .. n : text[i] \in 0 .. 63
      char(i) == IF i <= stop THEN text[i] ELSE 0
      group(k) == Triple([i \in 1 .. 4 |-> char(4 * k + i)])
  IN  FlattenSeq([k \in 1 .. stop \div 4 |-> group(k - 1)])
        \o SubSeq(group(stop \div 4), 1, tail(stop % 4))

-----------------------------------------------------------------------------
(* Every input, byte by byte. *)

Base64Init == octets = <<>>

Base64Next ==
  /\ Len(octets) < MaxOctets
  /\ \E v \in Octets : octets' = Append(octets, v)

Base64Spec == Base64Init /\ [][Base64Next]_octets

-----------------------------------------------------------------------------
(* Properties. *)

(* What was encoded is decoded, whatever the length leaves for the last     *)
(* group and whatever text follows the padding; the memory of either result *)
(* is sized before it is written, and is large enough.                      *)
Base64RoundTrip ==
  LET text == base64_encode(octets)
  IN  /\ base64_decode(text) = octets
      /\ Len(octets) % 3 # 0 => base64_decode(text \o text) = octets
      /\ Len(text) = encoded_size(Len(octets))
      /\ Len(octets) <= decoded_size(Len(text))
      /\ \A i \in DOMAIN text : text[i] \in 0 .. Pad

=============================================================================
