----------------------------- MODULE ByteStream -----------------------------
(***************************************************************************)
(* byte_stream of zpkg: a cursor over a fixed range of memory.  Positions  *)
(* count from start_; what is read or written is left out.                 *)
(*                                                                         *)
(* left() and lapped() are size_t: differences taken modulo Span, and an   *)
(* int compared with one of them is converted first.                       *)
(***************************************************************************)
EXTENDS Integers

CONSTANTS
  Size,       (* bytes in the stream                                        *)
  Span,       (* 2^64                                                       *)
  MaxStep     (* bound: bytes of one call                                   *)

ASSUME StreamAssumption ==
  /\ Size \in Nat /\ MaxStep \in Nat
  /\ Span \in Nat /\ 2 * (Size + MaxStep) < Span

VARIABLES
  pos,        (* pos_                                                       *)
  returned    (* what the last call returned                                *)

streamVars == <<pos, returned>>

-----------------------------------------------------------------------------

(* The conversion to size_t, of a number above -Span. *)
SizeT(k) == IF k < 0 THEN k + Span ELSE k

eof == pos >= Size
left == SizeT(Size - pos)
lapped == SizeT(pos)

(* -1 * lapped(), in size_t. *)
minusLapped == IF lapped = 0 THEN 0 ELSE Span - lapped

Least(a, b) == IF a < b THEN a ELSE b

(* peek, read and write share the clamping; peek does not move.             *)
Clamped(size) == IF eof THEN 0 ELSE Least(size, left)

peek(size) == returned' = Clamped(size) /\ UNCHANGED pos

(* Seeded fault: a size beyond the end is not cut. *)
FaultyTransfer(size) ==
  /\ returned' = IF eof THEN 0 ELSE size
  /\ pos' = pos + returned'

(* read and write *)
Transfer(size) ==
  /\ returned' = Clamped(size)
  /\ pos' = pos + returned'

Forward(step) == Least(step, left)

(* Seeded fault: the comparison is the wrong way round. *)
FaultyBackward(step) == IF minusLapped < SizeT(step) THEN minusLapped - Span ELSE step

(* A step cut to -1 * lapped() is converted back to int. *)
Backward(step) == IF SizeT(step) < minusLapped THEN minusLapped - Span ELSE step

skip(step) ==
  /\ returned' = CASE step > 0 -> Forward(step)
                   [] step < 0 -> Backward(step)
                   [] OTHER -> 0
  /\ pos' = pos + returned'

StreamInit == pos = 0 /\ returned = 0

StreamNext ==
  \/ \E size \in 0 .. MaxStep : peek(size) \/ Transfer(size)
  \/ \E step \in -MaxStep .. MaxStep : pos >= -MaxStep /\ skip(step)

StreamSpec == StreamInit /\ [][StreamNext]_streamVars

-----------------------------------------------------------------------------
(* Properties. *)

(* The cursor is in the stream: what peek copies is inside it.  buffers.h  *)
(* lets the step of a skip be any value, but lapped() is 0 at the head,     *)
(* where nothing is cut from a step backwards.                              *)
PosInStream == pos \in 0 .. Size

SkipGoesOn ==
  \A step \in -MaxStep .. MaxStep :
    skip(step) => \/ pos' = pos + step
                  \/ pos + step > Size /\ pos' = Size
                  \/ pos + step < 0 /\ pos' = 0

(* Nothing is read or written past the end, even from before the head.  A   *)
(* call leaves the stream only as a skip backwards that begins at the head; *)
(* every other skip in the stream goes all the way it is asked to or to the *)
(* edge on its way.                                                         *)
SkipReachesEdge ==
  [][/\ pos' <= Size
     /\ PosInStream => /\ PosInStream' \/ (pos = 0 /\ pos' < 0)
                       /\ SkipGoesOn]_streamVars

=============================================================================
