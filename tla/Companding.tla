----------------------------- MODULE Companding -----------------------------
(***************************************************************************)
(* The A-law and u-law conversions of avm's G.711 codec: 16-bit samples to *)
(* 8-bit codes and back, over every sample and every code.                 *)
(***************************************************************************)
EXTENDS Integers, Bitwise

VARIABLE code    (* the code looked at, -1 at first; with it a 256th of the   *)
                 (* samples                                                   *)

(* The conversion to int16_t, of a number it is off by at most once.        *)
Int16(v) == CASE v > 32767 -> v - 65536 [] v < -32768 -> v + 65536 [] OTHER -> v

(* top_bit(v | 0xFF) - 7 of an int: a negative one has bit 31 set.          *)
SegmentOf(v) ==
  IF v < 0 THEN 24
  ELSE CHOOSE s \in 0 .. 24 :
         v < 2 ^ (s + 8) /\ (s > 0 => 2 ^ (s + 7) <= v)

-----------------------------------------------------------------------------

(* Seeded fault: the magnitude of a negative sample is -linear, which is no *)
(* int16_t for the lowest.                                                  *)
faulty_alaw_magnitude(linear) == IF linear >= 0 THEN linear ELSE Int16(-linear)

alaw_magnitude(linear) == IF linear >= 0 THEN linear ELSE Int16(-linear - 1)

(* Seeded fault: the lowest segment is taken for one half as wide, as in    *)
(* u-law.                                                                   *)
faulty_alaw_shift(seg) == seg + 3

alaw_shift(seg) == IF seg = 0 THEN 4 ELSE seg + 3

linear2alaw(linear) ==
  LET v == alaw_magnitude(linear)
      mask == IF linear >= 0 THEN 85 + 128 ELSE 85
      seg == SegmentOf(v)
      q == (v \div 2 ^ alaw_shift(seg)) % 16
  IN  IF seg >= 8 THEN (IF v >= 0 THEN 127 ELSE 0) ^^ mask
      ELSE (16 * seg + q) ^^ mask

alaw2linear(alaw) ==
  LET a == alaw ^^ 85
      seg == (a \div 16) % 8
      i == IF seg = 0 THEN 16 * (a % 16) + 8
           ELSE (16 * (a % 16) + 264) * 2 ^ (seg - 1)
  IN  IF a >= 128 THEN i ELSE -i

ULAW_BIAS == 132

linear2ulaw(linear) ==
  LET v == Int16(ULAW_BIAS + (IF linear < 0 THEN -linear - 1 ELSE linear))
      mask == IF linear < 0 THEN 127 ELSE 255
      seg == SegmentOf(v)
      q == (v \div 2 ^ (seg + 3)) % 16
  IN  IF seg >= 8 THEN 127 ^^ mask ELSE (16 * seg + q) ^^ mask

ulaw2linear(ulaw) ==
  LET u == 255 - ulaw
      t == (8 * (u % 16) + ULAW_BIAS) * 2 ^ ((u \div 16) % 8)
  IN  IF u >= 128 THEN ULAW_BIAS - t ELSE t - ULAW_BIAS

-----------------------------------------------------------------------------

CompandingInit == code = -1

CompandingNext == code < 255 /\ code' = code + 1

CompandingSpec == CompandingInit /\ [][CompandingNext]_code

-----------------------------------------------------------------------------
(* Properties. *)

Abs(v) == IF v < 0 THEN -v ELSE v
ThroughAlaw(sample) == alaw2linear(linear2alaw(sample))
ThroughUlaw(sample) == ulaw2linear(linear2ulaw(sample))

(* A code is a fixed point, except for u-law's second zero: a sample is not *)
(* worn by being coded again.                                               *)
CodesRoundTrip ==
  code >= 0 =>
    /\ linear2alaw(alaw2linear(code)) = code
    /\ linear2ulaw(ulaw2linear(code)) = IF code = 127 THEN 255 ELSE code

(* No sample, the extremes included, decodes further away than half a step  *)
(* of its segment (u-law clips what lies above 32635), and none decodes to  *)
(* more than a higher one does.                                             *)
SamplesKept ==
  code >= 0 => \A low \in 0 .. 255 :
    LET s == 256 * code + low - 32768
        a == ThroughAlaw(s)
        u == ThroughUlaw(s)
        alaw_step == 2 ^ alaw_shift(SegmentOf(Abs(a)))
        ulaw_step == 2 ^ (3 + SegmentOf(Abs(u) + ULAW_BIAS))
    IN  /\ 2 * Abs(a - s) <= alaw_step
        /\ 2 * Abs(u - s) <= ulaw_step \/ Abs(s) > 32635
        /\ s < 32767 => a <= ThroughAlaw(s + 1) /\ u <= ThroughUlaw(s + 1)

=============================================================================
