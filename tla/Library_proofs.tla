--------------------------- MODULE Library_proofs ---------------------------
(***************************************************************************)
(* The parts of the library that no other part calls and that have proofs. *)
(*                                                                         *)
(* ByteStream: the cursor of a byte_stream never passes its end, leaves    *)
(* its range only by a skip backwards at the head, and a skip reaches what *)
(* it was asked for or the edge, for every size and every step.            *)
(*                                                                         *)
(* LogCounter: the counter of LOG_COUNTER_C does not drift and does not    *)
(* silence its place, for any number of threads and any COUNTER.  Without  *)
(* the pending take-backs, mod is at most COUNTER.  A thread whose         *)
(* increment goes above COUNTER while u others wait to take back pulls it  *)
(* down to no less than 1 - COUNTER * u, and there are fewer others than   *)
(* threads.  From there threads that pass alone count up to 1, where they  *)
(* log, and from 1 at most COUNTER passes to the next line.                *)
(*                                                                         *)
(* LogInterval: a burst of T racing threads logs at most T(T+1)/2 lines of *)
(* one period, for any T and any period.  Nobody passes while the time of  *)
(* the last line is in the period.  Only a thread that came before it and  *)
(* stores late sets that time back, once, and then there is one late       *)
(* thread less and one more that can pass.                                 *)
(*                                                                         *)
(* DtsGen: the decoding times of a regular stream increase and none is     *)
(* cut, for any time between two frames and any order of the B frames, as  *)
(* long as a group has at most three.  From the second group on the sorter *)
(* and the frames to come form a chain, one frame apart, that reaches back *)
(* a group and as many frames as are to come: what leaves the sorter is    *)
(* the smallest of all of them, and early enough for the offset.           *)
(*                                                                         *)
(* NalScan: the three scanners agree on the first start code, and the unit *)
(* found is the first that the decoder takes, for every buffer.  A scanner *)
(* jumps over no code and stops at one only: the function it is, given by  *)
(* its jumps, has one value, the smallest code that is not behind.  No two *)
(* codes overlap, so the rest of a buffer has the codes of the buffer that *)
(* are in it, and the search from the end of a unit goes on with what it   *)
(* would have met.                                                         *)
(*                                                                         *)
(* HashStream: however a message is cut into updates, the three classes    *)
(* hash the padded message, for every size of blocks and length.  What an  *)
(* object holds is a message when its blocks, joined, and the bytes of its *)
(* buffer up to the message's length modulo the block are the message.  An *)
(* update adds its bytes to what the object holds, the padding is updates, *)
(* and with it the length is a whole number of blocks.                     *)
(***************************************************************************)
EXTENDS ByteStream, LogCounter, LogInterval, DtsGen, NalScan, HashStream, SeqLemmas,
        FiniteSetTheorems, SequenceTheorems, WellFoundedInduction, TLAPS

-----------------------------------------------------------------------------
(* ByteStream *)

(* Inside the range the differences in size_t are the true ones.            *)
LEMMA Distances ==
  ASSUME StreamAssumption, PosInStream
  PROVE  /\ left = Size - pos
         /\ minusLapped = IF pos = 0 THEN 0 ELSE Span - pos
         /\ eof <=> pos = Size
  BY DEF StreamAssumption, PosInStream, left, lapped, minusLapped, eof, SizeT

(* What peek copies and read or write moves over is there.                  *)
LEMMA ClampedFits ==
  ASSUME StreamAssumption, PosInStream, NEW size \in 0 .. MaxStep
  PROVE  Clamped(size) \in 0 .. Size - pos
  BY Distances DEF StreamAssumption, PosInStream, Clamped, Least

LEMMA ForwardFits ==
  ASSUME StreamAssumption, PosInStream, NEW by \in 1 .. MaxStep
  PROVE  \/ Forward(by) = by /\ pos + by <= Size
         \/ Forward(by) = Size - pos /\ pos + by > Size
  BY Distances DEF StreamAssumption, PosInStream, Forward, Least

(* The comparison in size_t takes a step for too long exactly when it is.   *)
LEMMA BackwardFits ==
  ASSUME StreamAssumption, PosInStream, pos > 0, NEW by \in -MaxStep .. -1
  PROVE  \/ Backward(by) = by /\ pos + by >= 0
         \/ Backward(by) = -pos /\ pos + by < 0
  BY Distances DEF StreamAssumption, PosInStream, Backward, SizeT

-----------------------------------------------------------------------------

(* What is left and what is cut, wherever before the end the cursor is.     *)
LEMMA Leaving ==
  ASSUME StreamAssumption, pos \in Int, -(2 * MaxStep) <= pos, pos <= Size
  PROVE  left = Size - pos
  BY DEF StreamAssumption, left, SizeT

(* The end holds the cursor wherever it comes from, and the head holds it   *)
(* unless it begins there.                                                  *)
CursorBound == pos \in -(2 * MaxStep) .. Size

Inside == PosInStream' \/ (pos = 0 /\ pos' < 0)

LEMMA BoundKept ==
  ASSUME StreamAssumption, CursorBound, [StreamNext]_streamVars
  PROVE  CursorBound'
<1>1. CASE UNCHANGED streamVars
  BY <1>1 DEF streamVars, CursorBound
<1>2. ASSUME NEW size \in 0 .. MaxStep, peek(size) \/ Transfer(size)
      PROVE  CursorBound'
  BY <1>2, Leaving DEF peek, Transfer, Clamped, Least, eof, CursorBound, StreamAssumption
<1>3. ASSUME NEW by \in -MaxStep .. MaxStep, pos >= -MaxStep, skip(by)
      PROVE  CursorBound'
  <2>1. CASE by > 0
    BY <1>3, <2>1, Leaving DEF skip, Forward, Least, CursorBound, StreamAssumption
  <2>2. CASE by < 0
    <3>1. pos' = pos + Backward(by)
      BY <1>3, <2>2 DEF skip, StreamAssumption
    <3>2. Backward(by) \in by .. 0
      <4>1. CASE pos > 0
        BY <2>2, <4>1, BackwardFits DEF CursorBound, PosInStream, StreamAssumption
      <4>2. CASE pos <= 0
        BY <1>3, <2>2, <4>2
        DEF Backward, minusLapped, lapped, SizeT, CursorBound, StreamAssumption
      <4> QED
        BY <4>1, <4>2 DEF CursorBound
    <3> QED
      BY <1>3, <2>2, <3>1, <3>2 DEF CursorBound, StreamAssumption
  <2>3. CASE by = 0
    BY <1>3, <2>3 DEF skip, CursorBound, StreamAssumption
  <2> QED
    BY <2>1, <2>2, <2>3 DEF StreamAssumption
<1> QED
  BY <1>1, <1>2, <1>3 DEF StreamNext

LEMMA StepStaysInside ==
  ASSUME StreamAssumption, PosInStream, [StreamNext]_streamVars
  PROVE  Inside
<1>1. CASE UNCHANGED streamVars
  BY <1>1 DEF streamVars, PosInStream, Inside
<1>2. ASSUME NEW size \in 0 .. MaxStep, peek(size) \/ Transfer(size)
      PROVE  Inside
  BY <1>2, ClampedFits DEF peek, Transfer, PosInStream, Inside, StreamAssumption
<1>3. ASSUME NEW by \in -MaxStep .. MaxStep, skip(by)
      PROVE  Inside
  <2>1. CASE by > 0
    BY <1>3, <2>1, ForwardFits DEF skip, PosInStream, Inside, StreamAssumption
  <2>2. CASE by < 0
    <3>1. pos' = pos + Backward(by)
      BY <1>3, <2>2 DEF skip, StreamAssumption
    <3>2. CASE pos > 0
      BY <2>2, <3>1, <3>2, BackwardFits DEF PosInStream, Inside, StreamAssumption
    <3>3. CASE pos = 0
      <4>1. Backward(by) = by
        BY <2>2, <3>3, Distances DEF Backward, SizeT, StreamAssumption
      <4> QED
        BY <2>2, <3>1, <3>3, <4>1 DEF Inside, StreamAssumption
    <3> QED
      BY <3>2, <3>3 DEF PosInStream, StreamAssumption
  <2>3. CASE by = 0
    BY <1>3, <2>3 DEF skip, PosInStream, Inside, StreamAssumption
  <2> QED
    BY <2>1, <2>2, <2>3 DEF StreamAssumption
<1> QED
  BY <1>1, <1>2, <1>3 DEF StreamNext

LEMMA SkipsGoOn ==
  ASSUME StreamAssumption, PosInStream
  PROVE  SkipGoesOn
<1> SUFFICES ASSUME NEW by \in -MaxStep .. MaxStep, skip(by)
             PROVE  \/ pos' = pos + by
                    \/ pos + by > Size /\ pos' = Size
                    \/ pos + by < 0 /\ pos' = 0
  BY DEF SkipGoesOn
<1>1. CASE by > 0
  BY <1>1, ForwardFits DEF skip, PosInStream, StreamAssumption
<1>2. CASE by < 0
  <2>1. pos' = pos + Backward(by)
    BY <1>2 DEF skip, StreamAssumption
  <2>2. CASE pos > 0
    BY <1>2, <2>1, <2>2, BackwardFits DEF PosInStream, StreamAssumption
  <2>3. CASE pos = 0
    <3>1. Backward(by) = by
      BY <1>2, <2>3, Distances DEF Backward, SizeT, StreamAssumption
    <3> QED
      BY <2>1, <3>1
  <2> QED
    BY <2>2, <2>3 DEF PosInStream, StreamAssumption
<1>3. CASE by = 0
  BY <1>3 DEF skip, PosInStream, StreamAssumption
<1> QED
  BY <1>1, <1>2, <1>3 DEF StreamAssumption

(* No call reads, writes or moves past the end; a call leaves the stream    *)
(* only by a skip backwards at the head, where nothing is cut; any other    *)
(* skip goes as far as it was asked to or to the edge on its way.           *)
THEOREM SkipGoesToTheEdge == StreamSpec => SkipReachesEdge
<1>1. StreamInit => CursorBound
  BY StreamAssumption DEF StreamInit, CursorBound, StreamAssumption
<1>2. CursorBound /\ [StreamNext]_streamVars => CursorBound'
  BY StreamAssumption, BoundKept
<1>3. CursorBound /\ CursorBound' /\ [StreamNext]_streamVars
        => /\ pos' <= Size
           /\ PosInStream => /\ PosInStream' \/ (pos = 0 /\ pos' < 0)
                             /\ SkipGoesOn
  BY StreamAssumption, StepStaysInside, SkipsGoOn DEF CursorBound, Inside
<1> QED
  BY <1>1, <1>2, <1>3, PTL DEF StreamSpec, SkipReachesEdge

-----------------------------------------------------------------------------
(* LogCounter *)

Threads == Cardinality(Passers)

(* The threads that are to take back. *)
Over == {t \in Passers : place[t] = "over"}

(* Threads that meet in the macro take back too much, but never more than   *)
(* once each: the counter does not drift away, and without the pending      *)
(* take-backs it is at most COUNTER.                                        *)
CounterDrift ==
  mod - COUNTER * Cardinality(Over)
    \in 1 - COUNTER * Cardinality(Passers) .. COUNTER

CounterType ==
  /\ mod \in Int
  /\ place \in [Passers -> {"idle", "over", "check"}]
  /\ quiet \in Nat

(* Passes in silence belong to threads that met nobody: how far mod has     *)
(* come since says how many there were.                                     *)
QuietInv ==
  quiet > 0 =>
    /\ \A t, u \in Passers : place[t] # "idle" /\ place[u] # "idle" => t = u
    /\ Over # {} => mod = COUNTER + 1 /\ quiet <= COUNTER
    /\ Over = {} =>
         \/ quiet <= mod - 1
         \/ /\ quiet <= mod - 1 + COUNTER * Threads
            /\ mod < 1 \/ (mod = 1 /\ \E t \in Passers : place[t] = "check")

CounterInv == CounterType /\ CounterDrift /\ QuietInv

-----------------------------------------------------------------------------
(* How many threads there are, and how many wait to take back. *)

LEMMA ThreadsBound == Threads \in Nat \ {0} /\ COUNTER * Threads \in Nat
                      /\ COUNTER <= COUNTER * Threads
<1>1. Threads \in Nat /\ Threads # 0
  BY CounterAssumption, FS_CardinalityType, FS_EmptySet DEF Threads
<1>2. \A c, t \in Nat \ {0} : c * t \in Nat /\ c <= c * t
  BY SMT
<1> QED
  BY <1>1, <1>2, CounterAssumption

LEMMA OverFinite == IsFiniteSet(Over) /\ Cardinality(Over) \in Nat
  BY CounterAssumption, FS_Subset, FS_CardinalityType DEF Over

LEMMA OverKept ==
  ASSUME CounterType, NEW t \in Passers, place[t] # "over",
         NEW p, p # "over", place' = [place EXCEPT ![t] = p]
  PROVE  Over' = Over
  BY DEF CounterType, Over

LEMMA OverGrows ==
  ASSUME CounterType, NEW t \in Passers, place[t] = "idle",
         place' = [place EXCEPT ![t] = "over"]
  PROVE  /\ Over' # {}
         /\ Cardinality(Over') = Cardinality(Over) + 1
         /\ Cardinality(Over) <= Threads - 1
<1>1. t \notin Over /\ Over' = Over \cup {t}
  BY DEF CounterType, Over
<1>2. Cardinality(Over') = Cardinality(Over) + 1
  BY <1>1, OverFinite, FS_AddElement
<1>3. Cardinality(Over \cup {t}) <= Cardinality(Passers)
  BY CounterAssumption, FS_Subset DEF Over
<1> QED
  BY <1>1, <1>2, <1>3, OverFinite, ThreadsBound DEF Threads

LEMMA OverShrinks ==
  ASSUME CounterType, NEW t \in Passers, place[t] = "over",
         place' = [place EXCEPT ![t] = "check"]
  PROVE  /\ Cardinality(Over') = Cardinality(Over) - 1
         /\ Cardinality(Over) >= 1
<1>1. t \in Over /\ Over' = Over \ {t}
  BY DEF CounterType, Over
<1>2. Cardinality(Over') = Cardinality(Over) - 1
  BY <1>1, OverFinite, FS_RemoveElement
<1>3. Cardinality(Over) # 0
  BY <1>1, OverFinite, FS_EmptySet
<1> QED
  BY <1>2, <1>3, OverFinite

-----------------------------------------------------------------------------
(* One lemma per invariant. *)

LEMMA InitInv == CounterInit => CounterInv
<1> SUFFICES ASSUME CounterInit PROVE CounterInv
  OBVIOUS
<1>1. Over = {}
  BY DEF CounterInit, Over
<1>2. Cardinality(Over) = 0
  BY <1>1, FS_EmptySet
<1>3. CounterDrift
  BY <1>2, ThreadsBound, CounterAssumption DEF CounterInit, CounterDrift, Threads
<1> QED
  BY <1>3 DEF CounterInit, CounterInv, CounterType, QuietInv

LEMMA TypeKept ==
  ASSUME CounterType, [CounterNext]_counterVars
  PROVE  CounterType'
  BY CounterAssumption
  DEF CounterType, CounterNext, Occur, TakeBack, Check, counterVars

LEMMA DriftKept ==
  ASSUME CounterType, CounterDrift, [CounterNext]_counterVars
  PROVE  CounterDrift'
<1> DEFINE pending == Cardinality(Over)
<1>0. /\ pending \in Nat /\ COUNTER \in Nat \ {0} /\ mod \in Int
      /\ COUNTER * Threads \in Nat /\ COUNTER <= COUNTER * Threads
  BY OverFinite, ThreadsBound, CounterAssumption DEF CounterType
<1>1. CASE UNCHANGED counterVars
  BY <1>1 DEF counterVars, CounterDrift, Over
<1>2. ASSUME NEW t \in Passers, Occur(t)
      PROVE  CounterDrift'
  <2>1. mod' = mod + 1
    BY <1>2 DEF Occur
  <2>2. CASE mod' > COUNTER
    <3>1. pending' = pending + 1 /\ pending <= Threads - 1
      BY <1>2, <2>2, OverGrows DEF Occur
    <3>2. COUNTER * (pending + 1) = COUNTER * pending + COUNTER
      BY <1>0
    <3>3. COUNTER * (pending + 1) <= COUNTER * Threads
      <4>1. \A c, k, m \in Nat : k <= m => c * k <= c * m
        BY SMT
      <4> QED
        BY <1>0, <3>1, <4>1, ThreadsBound
    <3>4. COUNTER * pending \in Nat
      BY <1>0
    <3> HIDE DEF pending
    <3> QED
      BY <1>0, <2>1, <2>2, <3>1, <3>2, <3>3, <3>4 DEF CounterDrift, Threads, pending
  <2>3. CASE ~(mod' > COUNTER)
    <3>1. Over' = Over
      BY <1>2, <2>3, OverKept DEF Occur
    <3>2. COUNTER * pending \in Nat
      BY <1>0
    <3> QED
      BY <1>0, <2>1, <2>3, <3>1, <3>2 DEF CounterDrift, Threads
  <2> QED
    BY <2>2, <2>3
<1>3. ASSUME NEW t \in Passers, TakeBack(t)
      PROVE  CounterDrift'
  <2>1. pending' = pending - 1 /\ pending >= 1
    BY <1>3, OverShrinks DEF TakeBack
  <2>2. COUNTER * (pending - 1) = COUNTER * pending - COUNTER
    BY <1>0
  <2>3. COUNTER * pending \in Nat /\ mod' = mod - COUNTER
    BY <1>0, <1>3 DEF TakeBack
  <2> HIDE DEF pending
  <2> QED
    BY <1>0, <2>1, <2>2, <2>3 DEF CounterDrift, Threads, pending
<1>4. ASSUME NEW t \in Passers, Check(t)
      PROVE  CounterDrift'
  <2>1. Over' = Over /\ mod' = mod
    BY <1>4, OverKept DEF Check
  <2> QED
    BY <2>1 DEF CounterDrift
<1> QED
  BY <1>1, <1>2, <1>3, <1>4 DEF CounterNext

(* Nobody waits to take back: what CounterDrift says of mod alone.          *)
LEMMA AloneRange ==
  ASSUME CounterType, CounterDrift, Over = {}
  PROVE  1 - COUNTER * Threads <= mod /\ mod <= COUNTER
<1>1. Cardinality(Over) = 0
  BY FS_EmptySet
<1> QED
  BY <1>1, ThreadsBound, CounterAssumption DEF CounterType, CounterDrift, Threads

LEMMA QuietKept ==
  ASSUME CounterType, CounterDrift, QuietInv, [CounterNext]_counterVars
  PROVE  QuietInv'
<1>0. /\ COUNTER \in Nat \ {0} /\ mod \in Int /\ quiet \in Nat
      /\ COUNTER * Threads \in Nat /\ COUNTER <= COUNTER * Threads
  BY ThreadsBound, CounterAssumption DEF CounterType
<1>1. CASE UNCHANGED counterVars
  BY <1>1 DEF counterVars, QuietInv, Over
<1>2. ASSUME NEW t \in Passers, Occur(t)
      PROVE  QuietInv'
  <2>1. CASE \A u \in Passers : place[u] = "idle"
    <3>1. Over = {} /\ ~\E u \in Passers : place[u] = "check"
      BY <2>1 DEF Over
    <3>2. \A u \in Passers : place'[u] # "idle" => u = t
      BY <1>2, <2>1 DEF Occur, CounterType
    <3>3. mod' = mod + 1 /\ quiet' = quiet + 1
      BY <1>2, <2>1 DEF Occur
    <3>4. \/ quiet <= mod - 1
          \/ quiet <= mod - 1 + COUNTER * Threads /\ mod < 1
      BY <1>0, <3>1, AloneRange DEF QuietInv
    <3>5. CASE mod' > COUNTER
      <4>1. Over' # {}
        BY <1>2, <3>5, OverGrows DEF Occur
      <4>2. mod' = COUNTER + 1 /\ quiet' <= COUNTER
        BY <1>0, <3>1, <3>3, <3>4, <3>5, AloneRange
      <4> QED
        BY <3>2, <4>1, <4>2 DEF QuietInv
    <3>6. CASE ~(mod' > COUNTER)
      <4>1. Over' = {} /\ place'[t] = "check"
        BY <1>2, <3>1, <3>6, OverKept DEF Occur, CounterType
      <4>2. \/ quiet' <= mod' - 1
            \/ quiet' <= mod' - 1 + COUNTER * Threads /\ mod' <= 1
        BY <1>0, <3>3, <3>4
      <4>3. mod' \in Int
        BY <1>0, <3>3
      <4> QED
        BY <3>2, <4>1, <4>2, <4>3 DEF QuietInv, Threads
    <3> QED
      BY <3>5, <3>6
  <2>2. CASE ~\A u \in Passers : place[u] = "idle"
    BY <1>2, <2>2 DEF Occur, QuietInv
  <2> QED
    BY <2>1, <2>2
<1>3. ASSUME NEW t \in Passers, TakeBack(t), quiet > 0
      PROVE  QuietInv'
  <2>1. t \in Over
    BY <1>3 DEF TakeBack, Over
  <2>2. /\ \A u \in Passers : place[u] # "idle" => u = t
        /\ mod = COUNTER + 1 /\ quiet <= COUNTER
    BY <1>3, <2>1 DEF QuietInv, Over
  <2>3. place'[t] = "check" /\ \A u \in Passers : place'[u] # "idle" => u = t
    BY <1>3, <2>2 DEF TakeBack, CounterType
  <2>4. Over' = {}
    BY <2>3 DEF Over
  <2>5. mod' = 1 /\ quiet' <= mod' - 1 + COUNTER * Threads
    BY <1>0, <1>3, <2>2 DEF TakeBack
  <2> QED
    BY <2>3, <2>4, <2>5 DEF QuietInv, Threads
<1>4. ASSUME NEW t \in Passers, Check(t), quiet > 0
      PROVE  QuietInv'
  <2>1. CASE mod = 1
    BY <1>4, <2>1 DEF Check, QuietInv
  <2>2. CASE mod # 1
    <3>1. \A u \in Passers : place[u] # "idle" => u = t
      BY <1>4 DEF QuietInv, Check
    <3>2. \A u \in Passers : place'[u] = "idle"
      BY <1>4, <3>1 DEF Check, CounterType
    <3>3. Over = {} /\ Over' = {}
      BY <1>4, <3>1, <3>2 DEF Over, Check
    <3>4. quiet' = quiet /\ mod' = mod
      BY <1>4, <2>2 DEF Check
    <3> QED
      BY <1>4, <2>2, <3>2, <3>3, <3>4 DEF QuietInv, Threads
  <2> QED
    BY <2>1, <2>2
<1>5. ASSUME quiet' = 0 PROVE QuietInv'
  BY <1>5 DEF QuietInv
<1>6. ASSUME NEW t \in Passers, TakeBack(t) \/ Check(t), quiet = 0
      PROVE  quiet' = 0
  BY <1>6 DEF TakeBack, Check
<1> QED
  BY <1>0, <1>1, <1>2, <1>3, <1>4, <1>5, <1>6 DEF CounterNext

-----------------------------------------------------------------------------

LEMMA QuietBound == CounterInv => SilenceIsBounded
<1> SUFFICES ASSUME CounterInv PROVE SilenceIsBounded
  OBVIOUS
<1>1. /\ COUNTER \in Nat \ {0} /\ mod \in Int /\ quiet \in Nat
      /\ COUNTER * Threads \in Nat /\ COUNTER <= COUNTER * Threads
  BY ThreadsBound, CounterAssumption DEF CounterInv, CounterType
<1>2. Over = {} => mod <= COUNTER
  BY AloneRange DEF CounterInv
<1>3. quiet <= COUNTER * Threads
  BY <1>1, <1>2 DEF CounterInv, QuietInv
<1> QED
  BY <1>3 DEF SilenceIsBounded, Threads

LEMMA CounterInvariant == CounterSpec => []CounterInv
<1>1. CounterInv /\ [CounterNext]_counterVars => CounterInv'
  BY TypeKept, DriftKept, QuietKept DEF CounterInv
<1> QED
  BY InitInv, <1>1, PTL DEF CounterSpec

(* Threads that meet in the macro take back at most once each.              *)
THEOREM CounterStaysClose == CounterSpec => []CounterDrift
<1>1. CounterInv => CounterDrift
  BY DEF CounterInv
<1> QED
  BY CounterInvariant, <1>1, PTL

(* However threads met before, the place logs again.                        *)
THEOREM SilenceEnds == CounterSpec => []SilenceIsBounded
  BY CounterInvariant, QuietBound, PTL

-----------------------------------------------------------------------------
(* Sets with one element more or less. *)

LEMMA OneMore ==
  ASSUME NEW S, IsFiniteSet(S), NEW x, x \notin S
  PROVE  IsFiniteSet(S \cup {x}) /\ Cardinality(S \cup {x}) = Cardinality(S) + 1
  BY FS_AddElement

LEMMA OneLess ==
  ASSUME NEW S, IsFiniteSet(S), NEW x, x \in S
  PROVE  IsFiniteSet(S \ {x}) /\ Cardinality(S \ {x}) = Cardinality(S) - 1
  BY FS_RemoveElement

-----------------------------------------------------------------------------
(* LogInterval *)

IntervalTypes ==
  /\ clock \in 0 .. MaxTime /\ previous \in 0 .. clock
  /\ step \in [Reporters -> {"idle", "load", "store"}]
  /\ current \in [Reporters -> 0 .. clock]
  /\ lines \in [0 .. MaxTime -> Nat]
  /\ \A w \in 0 .. MaxTime : w > clock => lines[w] = 0

(* The threads that came before the period, and those about to log in it. *)
Old(w) == {t \in Reporters : step[t] # "idle" /\ current[t] < w}
Storing(w) ==
  {t \in Reporters : step[t] = "store" /\ w <= current[t] /\ current[t] <= w + LOG_TIME_PERIOD}

Racers == Cardinality(Reporters)
Printed(w) == LinesIn(w, w + LOG_TIME_PERIOD)

(* Twice the sum of the n greatest numbers up to the number of threads. *)
Stairs(n) == n * (2 * Racers - n + 1)

(* A late thread sets the time back once and lets the threads of the period *)
(* pass once more: one more thread each time.                               *)
BurstOf(w) ==
  /\ IsFiniteSet(Printed(w))
  /\ IF previous >= w
     THEN 2 * (Cardinality(Printed(w)) + Cardinality(Storing(w))) + Stairs(Cardinality(Old(w)))
            <= Racers * (Racers + 1)
     ELSE 2 * Cardinality(Printed(w)) + Stairs(Cardinality(Old(w)) + 1) <= Racers * (Racers + 1)

-----------------------------------------------------------------------------

LEMMA RacersCounted == Racers \in Nat
  BY IntervalAssumption, FS_CardinalityType DEF Racers

LEMMA StairsUp ==
  ASSUME NEW n \in 0 .. Racers
  PROVE  /\ Stairs(n) \in Int /\ Stairs(n) >= 0
         /\ Stairs(n + 1) \in Int
         /\ Stairs(n + 1) = Stairs(n) + 2 * (Racers - n)
         /\ Stairs(n + 1) <= Racers * (Racers + 1)
         /\ Racers * (Racers + 1) \in Int
<1> PICK m \in Nat : m = Racers
  BY RacersCounted
<1>1. /\ n * (2 * m - n + 1) \in Int /\ (n + 1) * (2 * m - (n + 1) + 1) \in Int
      /\ m * (m + 1) \in Int
  OBVIOUS
<1>2. (n + 1) * (2 * m - (n + 1) + 1) = n * (2 * m - n + 1) + 2 * (m - n)
  OBVIOUS
<1>3. n * (2 * m - n + 1) >= 0
  <2>1. n >= 0 /\ 2 * m - n + 1 >= 0
    OBVIOUS
  <2> QED
    BY <2>1
<1>4. (n + 1) * (2 * m - (n + 1) + 1) <= m * (m + 1)
  <2>1. PICK d \in Nat : d = m - n
    OBVIOUS
  <2>2. d * (d - 1) >= 0
    <3>1. CASE d = 0
      BY <3>1
    <3>2. CASE d >= 1
      BY <3>2
    <3> QED
      BY <2>1, <3>1, <3>2
  <2>3. m * (m + 1) - (n + 1) * (2 * m - (n + 1) + 1) = (m - n) * ((m - n) - 1)
    OBVIOUS
  <2>4. m * (m + 1) - (n + 1) * (2 * m - (n + 1) + 1) >= 0
    BY <2>1, <2>2, <2>3
  <2> QED
    BY <1>1, <2>4
<1> QED
  BY <1>1, <1>2, <1>3, <1>4 DEF Stairs

(* Threads counted for a period are different ones. *)
LEMMA CountsFinite ==
  ASSUME NEW w
  PROVE  /\ IsFiniteSet(Old(w)) /\ Cardinality(Old(w)) \in 0 .. Racers
         /\ IsFiniteSet(Storing(w)) /\ Cardinality(Storing(w)) \in Nat
  BY IntervalAssumption, FS_Subset, FS_CardinalityType, RacersCounted DEF Old, Storing, Racers

LEMMA ApartTogether ==
  ASSUME IntervalTypes, NEW w \in 0 .. MaxTime
  PROVE  Cardinality(Old(w)) + Cardinality(Storing(w)) <= Racers
<1>1. Old(w) \cap Storing(w) = {}
  <2>1. \A t \in Reporters : current[t] \in Int
    BY IntervalAssumption DEF IntervalTypes
  <2> QED
    BY <2>1 DEF Old, Storing
<1>2. IsFiniteSet(Old(w)) /\ IsFiniteSet(Storing(w))
  BY CountsFinite
<1>3. Cardinality(Old(w) \cup Storing(w)) = Cardinality(Old(w)) + Cardinality(Storing(w))
  <2>1. Cardinality(Old(w) \cap Storing(w)) = 0
    BY <1>1, FS_EmptySet, Zenon
  <2>2. Cardinality(Old(w) \cup Storing(w)) =
          Cardinality(Old(w)) + Cardinality(Storing(w)) - Cardinality(Old(w) \cap Storing(w))
    BY <1>2, FS_Union, Zenon
  <2> QED
    BY <2>1, <2>2, CountsFinite
<1>4. Old(w) \cup Storing(w) \subseteq Reporters
  BY DEF Old, Storing
<1> QED
  BY <1>3, <1>4, IntervalAssumption, FS_Subset DEF Racers

(* A line is one more in every period its time lies in. *)
LEMMA PrintedGrows ==
  ASSUME NEW l \in [0 .. MaxTime -> Nat], lines = l, NEW c \in 0 .. MaxTime,
         lines' = [lines EXCEPT ![c] = @ + 1], NEW w \in 0 .. MaxTime - LOG_TIME_PERIOD
  PROVE  /\ c \in w .. w + LOG_TIME_PERIOD =>
              /\ Printed(w)' = Printed(w) \cup {<<c, l[c] + 1>>}
              /\ <<c, l[c] + 1>> \notin Printed(w)
         /\ c \notin w .. w + LOG_TIME_PERIOD => Printed(w)' = Printed(w)
<1> DEFINE W == w .. w + LOG_TIME_PERIOD
<1>1. W \subseteq 0 .. MaxTime /\ \A u \in W : l[u] \in Nat
  BY IntervalAssumption
<1>2. /\ Printed(w) = UNION {{u} \X (1 .. l[u]) : u \in W}
      /\ Printed(w)' = UNION {{u} \X (1 .. lines'[u]) : u \in W}
  BY DEF Printed, LinesIn
<1>3. \A u \in W : lines'[u] = IF u = c THEN l[c] + 1 ELSE l[u]
  BY <1>1
<1>4. \A x : x \in Printed(w) <=> \E u \in W : \E k \in 1 .. l[u] : x = <<u, k>>
  BY <1>2
<1>5. \A x : x \in Printed(w)' <=> \E u \in W : \E k \in 1 .. lines'[u] : x = <<u, k>>
  BY <1>2
<1>6. ASSUME c \notin W PROVE Printed(w)' = Printed(w)
  <2>1. \A u \in W : lines'[u] = l[u]
    BY <1>3, <1>6
  <2>2. Printed(w)' = UNION {{u} \X (1 .. l[u]) : u \in W}
    BY <1>2, <2>1
  <2> QED
    BY <1>2, <2>2, Zenon
<1>7. ASSUME c \in W
      PROVE  /\ Printed(w)' = Printed(w) \cup {<<c, l[c] + 1>>}
             /\ <<c, l[c] + 1>> \notin Printed(w)
  <2>1. 1 .. l[c] + 1 = 1 .. l[c] \cup {l[c] + 1} /\ l[c] + 1 \notin 1 .. l[c]
    BY <1>1, <1>7
  <2>2. <<c, l[c] + 1>> \notin Printed(w)
    BY <1>4, <2>1
  <2>3. ASSUME NEW x \in Printed(w)' PROVE x \in Printed(w) \cup {<<c, l[c] + 1>>}
    <3>1. PICK u \in W : \E k \in 1 .. lines'[u] : x = <<u, k>>
      BY <1>5, <2>3
    <3> QED
      BY <1>3, <1>4, <2>1, <3>1
  <2>4. ASSUME NEW x \in Printed(w) PROVE x \in Printed(w)'
    <3>1. PICK u \in W : \E k \in 1 .. l[u] : x = <<u, k>>
      BY <1>4, <2>4
    <3>2. 1 .. l[u] \subseteq 1 .. lines'[u]
      BY <1>3, <2>1, <3>1
    <3> QED
      BY <1>5, <3>1, <3>2
  <2>5. <<c, l[c] + 1>> \in Printed(w)'
    BY <1>3, <1>5, <1>7, <2>1
  <2> QED
    BY <2>2, <2>3, <2>4, <2>5
<1> QED
  BY <1>6, <1>7

-----------------------------------------------------------------------------
(* The steps. *)

LEMMA TypesKept ==
  ASSUME IntervalTypes, [IntervalNext]_intervalVars
  PROVE  IntervalTypes'
<1> USE DEF IntervalTypes
<1>0. MaxTime \in Nat
  BY IntervalAssumption
<1>1. CASE Elapse
  <2>1. clock' \in 0 .. MaxTime /\ previous' \in 0 .. clock' /\ clock' > clock
    BY <1>0, <1>1 DEF Elapse
  <2>2. current' \in [Reporters -> 0 .. clock']
    BY <1>0, <1>1 DEF Elapse
  <2> QED
    BY <1>0, <1>1, <2>1, <2>2 DEF Elapse
<1>2. ASSUME NEW t \in Reporters, Sample(t) PROVE IntervalTypes'
  BY <1>0, <1>2 DEF Sample
<1>3. ASSUME NEW t \in Reporters, Load(t) PROVE IntervalTypes'
  BY <1>0, <1>3 DEF Load
<1>4. ASSUME NEW t \in Reporters, Store(t) PROVE IntervalTypes'
  <2>1. current[t] \in 0 .. clock /\ current[t] \in 0 .. MaxTime /\ lines[current[t]] \in Nat
    BY <1>0
  <2> QED
    BY <1>0, <1>4, <2>1 DEF Store
<1>5. CASE UNCHANGED intervalVars
  BY <1>5 DEF intervalVars
<1> QED
  BY <1>1, <1>2, <1>3, <1>4, <1>5 DEF IntervalNext

(* Fewer late threads and fewer about to log leave more room. *)
LEMMA RoomStays ==
  ASSUME NEW o \in 0 .. Racers, NEW n \in 0 .. o
  PROVE  Stairs(n) <= Stairs(o) /\ Stairs(n + 1) <= Stairs(o + 1)
<1> PICK m \in Nat : m = Racers
  BY RacersCounted
<1>1. PICK d \in Nat : d = o - n
  OBVIOUS
<1>2. o * (2 * m - o + 1) - n * (2 * m - n + 1) = d * (2 * m - o - n + 1)
  <2>1. o = n + d
    BY <1>1
  <2> QED
    BY <2>1
<1>3. (o + 1) * (2 * m - (o + 1) + 1) - (n + 1) * (2 * m - (n + 1) + 1) = d * (2 * m - o - n - 1)
  <2>1. o = n + d
    BY <1>1
  <2> QED
    BY <2>1
<1>4. d * (2 * m - o - n + 1) >= 0
  BY <1>1
<1>5. d * (2 * m - o - n - 1) >= 0
  <2>1. CASE d = 0
    BY <2>1
  <2>2. CASE d > 0
    <3>1. 2 * m - o - n - 1 >= 0
      BY <1>1, <2>2
    <3> QED
      BY <1>1, <3>1
  <2> QED
    BY <1>1, <2>1, <2>2
<1> QED
  BY <1>2, <1>3, <1>4, <1>5 DEF Stairs

(* Nothing is printed of a period, and fewer threads count.                 *)
LEMMA SampleKeeps ==
  ASSUME IntervalTypes, NEW w \in 0 .. MaxTime - LOG_TIME_PERIOD, BurstOf(w),
         NEW t \in Reporters, Sample(t)
  PROVE  BurstOf(w)'
<1>1. /\ step[t] = "idle" /\ step' = [step EXCEPT ![t] = "load"]
      /\ current' = [current EXCEPT ![t] = clock]
      /\ clock' = clock /\ previous' = previous /\ lines' = lines
  BY DEF Sample
<1>2. Printed(w)' = Printed(w)
  BY <1>1 DEF Printed, LinesIn
<1>3. Storing(w)' = Storing(w)
  BY <1>1 DEF Storing, IntervalTypes
<1>4. CASE clock >= w
  <2>1. Old(w)' = Old(w)
    BY <1>1, <1>4, IntervalAssumption DEF Old, IntervalTypes
  <2> QED
    BY <1>1, <1>2, <1>3, <2>1 DEF BurstOf
<1>5. CASE clock < w
  <2>1. ~ (previous >= w)
    BY <1>5, IntervalAssumption DEF IntervalTypes
  <2>2. Printed(w) = {}
    <3>1. \A u \in w .. w + LOG_TIME_PERIOD : lines[u] = 0
      BY <1>5, IntervalAssumption DEF IntervalTypes
    <3>2. \A u \in w .. w + LOG_TIME_PERIOD : 1 .. lines[u] = {}
      BY <3>1
    <3> QED
      BY <3>2 DEF Printed, LinesIn
  <2>3. IsFiniteSet(Printed(w)') /\ Cardinality(Printed(w)') = 0
    BY <1>2, <2>2, FS_EmptySet, Zenon
  <2>4. Cardinality(Old(w)') \in 0 .. Racers
    <3>1. Old(w)' \subseteq Reporters
      BY DEF Old
    <3> QED
      BY <3>1, IntervalAssumption, FS_Subset, FS_CardinalityType, RacersCounted DEF Racers
  <2>5. PICK o \in 0 .. Racers : o = Cardinality(Old(w)')
    BY <2>4
  <2>6. 2 * 0 + Stairs(o + 1) <= Racers * (Racers + 1)
    BY StairsUp
  <2> QED
    BY <1>1, <2>1, <2>3, <2>5, <2>6, Zenon DEF BurstOf
<1> QED
  BY <1>4, <1>5, IntervalAssumption DEF IntervalTypes

(* Who stores in the period when its time has come is one of those before.  *)
LEMMA FewerCount ==
  ASSUME NEW w, BurstOf(w), UNCHANGED previous, Printed(w)' = Printed(w),
         Old(w)' \subseteq Old(w), previous >= w => Storing(w)' \subseteq Storing(w)
  PROVE  BurstOf(w)'
<1>1. /\ IsFiniteSet(Old(w)) /\ Cardinality(Old(w)) \in 0 .. Racers
      /\ IsFiniteSet(Storing(w)) /\ Cardinality(Storing(w)) \in Nat
      /\ IsFiniteSet(Printed(w)) /\ Cardinality(Printed(w)) \in Nat
  BY CountsFinite, FS_CardinalityType DEF BurstOf
<1>2. PICK o \in 0 .. Racers, n \in Nat : n <= o /\ o = Cardinality(Old(w)) /\ n = Cardinality(Old(w)')
  <2>1. Cardinality(Old(w)') \in Nat /\ Cardinality(Old(w)') <= Cardinality(Old(w))
    BY <1>1, FS_Subset, FS_CardinalityType
  <2> QED
    BY <1>1, <2>1
<1>3. PICK l \in Nat : l = Cardinality(Printed(w))
  BY <1>1
<1>4. n \in 0 .. o /\ Stairs(n) <= Stairs(o) /\ Stairs(n + 1) <= Stairs(o + 1)
  <2>1. n \in 0 .. o
    BY <1>2
  <2> QED
    BY <1>2, <2>1, RoomStays
<1>5. /\ Stairs(n) \in Int /\ Stairs(o) \in Int /\ Stairs(n + 1) \in Int /\ Stairs(o + 1) \in Int
      /\ Racers * (Racers + 1) \in Int
  <2>1. n \in 0 .. Racers
    BY <1>2, RacersCounted
  <2> QED
    BY <1>2, <2>1, StairsUp, RacersCounted
<1>6. CASE previous >= w
  <2>1. PICK s \in Nat, r \in Nat : r <= s /\ s = Cardinality(Storing(w)) /\ r = Cardinality(Storing(w)')
    <3>1. Cardinality(Storing(w)') \in Nat /\ Cardinality(Storing(w)') <= Cardinality(Storing(w))
      BY <1>1, <1>6, FS_Subset, FS_CardinalityType
    <3> QED
      BY <1>1, <3>1
  <2>2. 2 * (l + s) + Stairs(o) <= Racers * (Racers + 1)
    BY <1>2, <1>3, <1>6, <2>1 DEF BurstOf
  <2>3. 2 * (l + r) + Stairs(n) <= Racers * (Racers + 1)
    BY <1>3, <1>4, <1>5, <2>1, <2>2
  <2> QED
    BY <1>1, <1>2, <1>3, <1>6, <2>1, <2>3, Zenon DEF BurstOf
<1>7. CASE ~ (previous >= w)
  <2>1. 2 * l + Stairs(o + 1) <= Racers * (Racers + 1)
    BY <1>2, <1>3, <1>7 DEF BurstOf
  <2>2. 2 * l + Stairs(n + 1) <= Racers * (Racers + 1)
    BY <1>3, <1>4, <1>5, <2>1
  <2> QED
    BY <1>1, <1>2, <1>3, <1>7, <2>2, Zenon DEF BurstOf
<1> QED
  BY <1>6, <1>7

LEMMA LoadKeeps ==
  ASSUME IntervalTypes, NEW w \in 0 .. MaxTime - LOG_TIME_PERIOD, BurstOf(w),
         NEW t \in Reporters, Load(t)
  PROVE  BurstOf(w)'
<1>1. /\ step[t] = "load"
      /\ step' = [step EXCEPT ![t] = IF current[t] - previous > LOG_TIME_PERIOD
                                     THEN "store" ELSE "idle"]
      /\ current' = current /\ previous' = previous /\ lines' = lines
  BY DEF Load
<1>2. Printed(w)' = Printed(w)
  BY <1>1 DEF Printed, LinesIn
<1>3. Old(w)' \subseteq Old(w)
  BY <1>1 DEF Old, IntervalTypes
<1>4. ASSUME previous >= w PROVE Storing(w)' \subseteq Storing(w)
  <2>1. /\ LOG_TIME_PERIOD \in Nat /\ w \in Int /\ previous \in Int /\ current[t] \in Int
    BY IntervalAssumption DEF IntervalTypes
  <2>2. current[t] - previous > LOG_TIME_PERIOD => ~ (current[t] <= w + LOG_TIME_PERIOD)
    BY <1>4, <2>1
  <2> QED
    BY <1>1, <2>2 DEF Storing, IntervalTypes
<1> QED
  BY <1>1, <1>2, <1>3, <1>4, FewerCount

LEMMA StoreKeeps ==
  ASSUME IntervalTypes, NEW w \in 0 .. MaxTime - LOG_TIME_PERIOD, BurstOf(w),
         NEW t \in Reporters, Store(t)
  PROVE  BurstOf(w)'
<1>1. /\ step[t] = "store" /\ step' = [step EXCEPT ![t] = "idle"]
      /\ current' = current /\ previous' = current[t]
      /\ lines' = [lines EXCEPT ![current[t]] = @ + 1]
  BY DEF Store
<1>2. PICK c \in 0 .. MaxTime : c = current[t]
  BY IntervalAssumption DEF IntervalTypes
<1>3. PICK end \in w .. w + LOG_TIME_PERIOD : end = w + LOG_TIME_PERIOD
  BY IntervalAssumption
<1>4. w \in Nat /\ end \in Nat /\ LOG_TIME_PERIOD \in Nat /\ previous \in Nat /\ end <= MaxTime
  BY <1>3, IntervalAssumption DEF IntervalTypes
<1>5. PICK l \in Nat : l = Cardinality(Printed(w)) /\ IsFiniteSet(Printed(w))
  BY FS_CardinalityType DEF BurstOf
<1>6. /\ IsFiniteSet(Old(w)) /\ Cardinality(Old(w)) \in 0 .. Racers
      /\ IsFiniteSet(Storing(w)) /\ Cardinality(Storing(w)) \in Nat
  BY CountsFinite
<1>7. PICK o \in 0 .. Racers, s \in Nat : o = Cardinality(Old(w)) /\ s = Cardinality(Storing(w))
  BY <1>6
<1>8. o + s <= Racers
  BY <1>4, <1>7, ApartTogether, IntervalAssumption
<1>9. /\ Racers \in Nat /\ Racers * (Racers + 1) \in Int
      /\ Stairs(o) \in Int /\ Stairs(o) >= 0 /\ Stairs(o + 1) \in Int
      /\ Stairs(o + 1) = Stairs(o) + 2 * (Racers - o)
  BY StairsUp, RacersCounted
<1>10. 2 * l + Stairs(o) <= Racers * (Racers + 1)
  <2>1. CASE previous >= w
    <3>1. 2 * (l + s) + Stairs(o) <= Racers * (Racers + 1)
      BY <1>5, <1>7, <2>1 DEF BurstOf
    <3> QED
      BY <1>7, <1>9, <3>1
  <2>2. CASE ~ (previous >= w)
    <3>1. 2 * l + Stairs(o + 1) <= Racers * (Racers + 1)
      BY <1>5, <1>7, <2>2 DEF BurstOf
    <3> QED
      BY <1>7, <1>9, <3>1
  <2> QED
    BY <2>1, <2>2
<1>11. 2 * (l + s) + Stairs(o) <= Racers * (Racers + 1)
  <2>1. CASE previous >= w
    BY <1>5, <1>7, <2>1 DEF BurstOf
  <2>2. CASE ~ (previous >= w)
    <3>1. 2 * l + Stairs(o + 1) <= Racers * (Racers + 1)
      BY <1>5, <1>7, <2>2 DEF BurstOf
    <3> QED
      BY <1>7, <1>8, <1>9, <3>1
  <2> QED
    BY <2>1, <2>2
<1>12. lines \in [0 .. MaxTime -> Nat] /\ lines' = [lines EXCEPT ![c] = @ + 1]
  BY <1>1, <1>2 DEF IntervalTypes
(* A late thread sets the time back. *)
<1>13. CASE c < w
  <2>1. Printed(w)' = Printed(w)
    <3>1. c \notin w .. w + LOG_TIME_PERIOD
      BY <1>4, <1>13
    <3> QED
      BY <1>12, <3>1, PrintedGrows
  <2>2. t \in Old(w) /\ Old(w)' = Old(w) \ {t}
    BY <1>1, <1>2, <1>13 DEF Old, IntervalTypes
  <2>3. Cardinality(Old(w)') = o - 1
    BY <1>6, <1>7, <2>2, OneLess
  <2>4. Stairs(Cardinality(Old(w)') + 1) = Stairs(o)
    <3>1. Cardinality(Old(w)') + 1 = o
      BY <1>7, <2>3
    <3> QED
      BY <3>1, Zenon
  <2>5. ~ (previous' >= w)
    BY <1>1, <1>2, <1>4, <1>13
  <2> QED
    BY <1>5, <1>10, <2>1, <2>4, <2>5, Zenon DEF BurstOf
<1>14. ASSUME ~ (c < w) PROVE Old(w)' = Old(w) /\ previous' >= w
  BY <1>1, <1>2, <1>4, <1>14 DEF Old, IntervalTypes
(* A line of the period. *)
<1>15. CASE c \in w .. end
  <2>1. PICK x : Printed(w)' = Printed(w) \cup {x} /\ x \notin Printed(w)
    BY <1>3, <1>12, <1>15, PrintedGrows
  <2>2. IsFiniteSet(Printed(w)') /\ Cardinality(Printed(w)') = l + 1
    BY <1>5, <2>1, OneMore
  <2>3. t \in Storing(w) /\ Storing(w)' = Storing(w) \ {t}
    BY <1>1, <1>2, <1>3, <1>4, <1>15 DEF Storing, IntervalTypes
  <2>4. Cardinality(Storing(w)') = s - 1
    BY <1>6, <1>7, <2>3, OneLess
  <2>5. Old(w)' = Old(w) /\ previous' >= w
    BY <1>4, <1>14, <1>15
  <2>6. 2 * (Cardinality(Printed(w)') + Cardinality(Storing(w)')) = 2 * (l + s)
    BY <1>7, <2>2, <2>4
  <2> QED
    BY <1>7, <1>11, <2>2, <2>5, <2>6, Zenon DEF BurstOf
(* A line of a later time. *)
<1>16. CASE c > end
  <2>1. Printed(w)' = Printed(w)
    <3>1. c \notin w .. w + LOG_TIME_PERIOD
      BY <1>3, <1>4, <1>16
    <3> QED
      BY <1>12, <3>1, PrintedGrows
  <2>2. Storing(w)' = Storing(w)
    BY <1>1, <1>2, <1>3, <1>4, <1>16 DEF Storing, IntervalTypes
  <2>3. Old(w)' = Old(w) /\ previous' >= w
    BY <1>3, <1>4, <1>14, <1>16
  <2> QED
    BY <1>5, <1>7, <1>11, <2>1, <2>2, <2>3, Zenon DEF BurstOf
<1> QED
  BY <1>4, <1>13, <1>15, <1>16

LEMMA BurstKept ==
  ASSUME IntervalTypes, NEW w \in 0 .. MaxTime - LOG_TIME_PERIOD, BurstOf(w),
         [IntervalNext]_intervalVars
  PROVE  BurstOf(w)'
<1>1. ASSUME UNCHANGED <<previous, step, current, lines>> PROVE BurstOf(w)'
  BY <1>1 DEF BurstOf, Printed, LinesIn, Storing, Old
<1>2. Elapse \/ UNCHANGED intervalVars => UNCHANGED <<previous, step, current, lines>>
  BY DEF Elapse, intervalVars
<1> QED
  BY <1>1, <1>2, SampleKeeps, LoadKeeps, StoreKeeps DEF IntervalNext

LEMMA BurstAtFirst ==
  ASSUME IntervalInit, NEW w \in 0 .. MaxTime - LOG_TIME_PERIOD
  PROVE  BurstOf(w)
<1>1. w \in Nat /\ LOG_TIME_PERIOD \in Nat
  BY IntervalAssumption
<1>2. Printed(w) = {}
  <2>1. \A u \in w .. w + LOG_TIME_PERIOD : 1 .. lines[u] = {}
    BY IntervalAssumption DEF IntervalInit
  <2> QED
    BY <2>1 DEF Printed, LinesIn
<1>3. Old(w) = {} /\ Storing(w) = {}
  BY DEF Old, Storing, IntervalInit
<1>4. /\ IsFiniteSet(Printed(w)) /\ Cardinality(Printed(w)) = 0
      /\ Cardinality(Old(w)) = 0 /\ Cardinality(Storing(w)) = 0
  BY <1>2, <1>3, FS_EmptySet, Zenon
<1>5. /\ 0 \in 0 .. Racers /\ Stairs(0) \in Int /\ Stairs(0 + 1) \in Int
      /\ Racers * (Racers + 1) \in Int /\ Stairs(0 + 1) <= Racers * (Racers + 1)
      /\ Stairs(0 + 1) = Stairs(0) + 2 * (Racers - 0) /\ Racers \in Nat
  BY RacersCounted, StairsUp
<1>6. 2 * (0 + 0) + Stairs(0) <= Racers * (Racers + 1)
  BY <1>5
<1>7. 2 * 0 + Stairs(0 + 1) <= Racers * (Racers + 1)
  BY <1>5
<1> QED
  BY <1>4, <1>6, <1>7, Zenon DEF BurstOf

(* Of the passes whose times lie within one period T threads log at most    *)
(* T(T+1)/2 lines: for any number of threads and any period.                *)
THEOREM BurstsAreBounded == IntervalSpec => []LinesPerPeriod
<1> DEFINE Inv == /\ IntervalTypes
                  /\ \A w \in 0 .. MaxTime - LOG_TIME_PERIOD : BurstOf(w)
<1>1. IntervalInit => Inv
  <2>1. IntervalInit => IntervalTypes
    BY IntervalAssumption DEF IntervalInit, IntervalTypes
  <2> QED
    BY <2>1, BurstAtFirst
<1>2. Inv /\ [IntervalNext]_intervalVars => Inv'
  BY TypesKept, BurstKept
<1>3. Inv => LinesPerPeriod
  <2> SUFFICES ASSUME NEW w \in 0 .. MaxTime - LOG_TIME_PERIOD, BurstOf(w)
               PROVE  Cardinality(LinesIn(w, w + LOG_TIME_PERIOD)) <= (Racers * (Racers + 1)) \div 2
    BY DEF LinesPerPeriod, Racers
  <2>1. PICK l \in Nat : l = Cardinality(Printed(w))
    BY FS_CardinalityType DEF BurstOf
  <2>2. PICK o \in 0 .. Racers, s \in Nat : o = Cardinality(Old(w)) /\ s = Cardinality(Storing(w))
    BY CountsFinite
  <2>3. /\ Racers * (Racers + 1) \in Int /\ Racers \in Nat
        /\ Stairs(o) \in Int /\ Stairs(o) >= 0 /\ Stairs(o + 1) \in Int
        /\ Stairs(o + 1) = Stairs(o) + 2 * (Racers - o)
    BY StairsUp, RacersCounted
  <2>4. 2 * (l + s) + Stairs(o) <= Racers * (Racers + 1) \/ 2 * l + Stairs(o + 1) <= Racers * (Racers + 1)
    BY <2>1, <2>2 DEF BurstOf
  <2>5. 2 * l <= Racers * (Racers + 1)
    BY <2>1, <2>2, <2>3, <2>4
  <2>6. PICK m \in Int : m = Racers * (Racers + 1)
    BY <2>3
  <2>7. l <= m \div 2
    BY <2>5, <2>6
  <2> QED
    BY <2>1, <2>6, <2>7, Zenon DEF Printed
<1> QED
  BY <1>1, <1>2, <1>3, PTL DEF IntervalSpec

-----------------------------------------------------------------------------
(* DtsGen *)

(* The length of a group, and the frames that are in the sorter or to come. *)
GroupSize == groups[1] + 1
Known == gen.pts_sorter \cup coming

Object ==
  [offset : Nat, last_dts : Nat, last_pts : Nat, last_max_pts : Nat,
   frames_since : Nat, sorter_max_size : Nat, count : Nat, pts_sorter : SUBSET Nat]

(* Before the first frame, and between it and the first group. *)
NoFrame ==
  /\ pts = -1 /\ groups = <<>> /\ coming = {} /\ ~sure
  /\ gen = [offset |-> 0, last_dts |-> 0, last_pts |-> 0, last_max_pts |-> 0,
            frames_since |-> 0, sorter_max_size |-> 0, count |-> 0, pts_sorter |-> {}]

OneFrame ==
  /\ pts \in Nat /\ groups = <<>> /\ coming = {} /\ last = pts /\ ~sure
  /\ gen = [offset |-> 0, last_dts |-> 0, last_pts |-> pts, last_max_pts |-> pts,
            frames_since |-> IF pts = 0 THEN 0 ELSE 1, sorter_max_size |-> 0, count |-> 0,
            pts_sorter |-> IF pts = 0 THEN {} ELSE {pts}]

(* The frames to come are shown before the last P frame, behind the others, *)
(* and from each frame known the next one shown is known.                   *)
FramesInv ==
  /\ gen \in Object
  /\ last \in Nat /\ pts \in 0 .. last /\ pts \notin coming /\ gen.last_pts = pts
  /\ coming \in SUBSET (Nat \ {0}) /\ IsFiniteSet(coming) /\ Cardinality(coming) < GroupSize
  /\ \A t \in coming : last - (GroupSize - 1) * Frame <= t /\ t < last

SorterInv ==
  /\ gen.pts_sorter \in SUBSET (Nat \ {0}) /\ IsFiniteSet(gen.pts_sorter)
  /\ gen.pts_sorter \cap coming = {}
  /\ \A t \in gen.pts_sorter : t <= last
  /\ \A t \in Known : t = last \/ t + Frame \in Known

(* Something is in the sorter that is this far behind the last P frame. *)
Behind(k) == \E t \in gen.pts_sorter : t <= last - k * Frame

(* The B frames are being counted. *)
Counting ==
  /\ FramesInv /\ SorterInv /\ ~sure
  /\ gen.sorter_max_size = 0 /\ gen.last_dts = 0 /\ gen.last_max_pts = last
  /\ gen.count \in {0, 1} /\ gen.frames_since = GroupSize - Cardinality(coming)
  /\ Cardinality(gen.pts_sorter) >= gen.frames_since + gen.count
  /\ \E t \in Known : t <= last - (GroupSize - 1 + gen.count) * Frame

(* Times are generated. *)
Generating ==
  /\ FramesInv /\ sure
  /\ gen.sorter_max_size = GroupSize
  /\ gen.last_dts = dts /\ dts \in 1 .. pts
  /\ GroupSize > 1 =>
       /\ SorterInv
       /\ gen.offset = (GroupSize * Frame) \div 2
       /\ Cardinality(gen.pts_sorter) >= GroupSize
       /\ Behind(GroupSize + Cardinality(coming))
       /\ \A t \in Known : t + gen.offset > dts

DtsInv ==
  /\ groups \in Seq(0 .. MaxB)
  /\ Regular => \/ NoFrame \/ OneFrame
                \/ groups # <<>> /\ (Counting \/ Generating)
-----------------------------------------------------------------------------
(* What a call of GenDts does. *)

LEMMA SmallestIs ==
  ASSUME NEW T \in SUBSET Nat, T # {}
  PROVE  Smallest(T) \in T /\ \A u \in T : Smallest(T) <= u
  BY SmallestElement DEF Smallest

(* A frame whose time is no repetition, and is not below the guess. *)
LEMMA GenDtsSets ==
  ASSUME gen \in Object, NEW p \in Nat, p # gen.last_pts, GenDts(p),
         NEW s \in BOOLEAN, NEW d \in Nat, NEW g \in Object,
         GenDts_l(gen, p) = <<s, d, g>>, d <= p
  PROVE  /\ pts' = p /\ sure' = s /\ dts' = d
         /\ s => gen' = [g EXCEPT !.last_pts = p, !.last_dts = d]
         /\ ~s => gen' = [g EXCEPT !.last_pts = p]
         /\ CutUnreached
<1> DEFINE guess == GenDts_l(gen, p)
<1>1. guess[1] = s /\ guess[2] = d /\ guess[3] = g /\ ~ (d > p)
  OBVIOUS
<1>2. pts' = p /\ sure' = s /\ dts' = d
  BY <1>1 DEF GenDts
<1>3. gen' = [g EXCEPT !.last_pts = p, !.last_dts = IF s THEN d ELSE @]
  BY <1>1 DEF GenDts
<1>4. CutUnreached
  BY <1>1, <1>2 DEF CutUnreached
<1>5. ~s => [g EXCEPT !.last_pts = p, !.last_dts = IF s THEN d ELSE @] = [g EXCEPT !.last_pts = p]
  BY DEF Object
<1> QED
  BY <1>2, <1>3, <1>4, <1>5

LEMMA GenDtsRepeats ==
  ASSUME GenDts(gen.last_pts)
  PROVE  /\ pts' = gen.last_pts /\ UNCHANGED gen
         /\ sure' = (gen.last_dts # 0)
         /\ sure' => dts' = gen.last_dts
  BY DEF GenDts

(* Without an answer yet. *)
LEMMA NoAnswer ==
  ASSUME gen \in Object, NEW p \in Nat, NEW h \in Object, h = Counted(gen, p),
         gen.sorter_max_size = 0, h.sorter_max_size = 0, h.pts_sorter = gen.pts_sorter
  PROVE  GenDts_l(gen, p) = <<FALSE, p, [h EXCEPT !.pts_sorter = gen.pts_sorter \cup {p}]>>
<1>1. gen.sorter_max_size # 1 /\ ~ (h.sorter_max_size > 0)
  OBVIOUS
<1> QED
  BY <1>1, Zenon DEF GenDts_l

(* The smallest time leaves the sorter. *)
LEMMA Answer ==
  ASSUME gen \in Object, NEW p \in Nat, NEW h \in Object, NEW first,
         h = IF gen.sorter_max_size = 0 THEN Counted(gen, p) ELSE gen,
         gen.sorter_max_size # 1, h.sorter_max_size > 0, h.pts_sorter = gen.pts_sorter,
         Cardinality(gen.pts_sorter \cup {p}) > h.sorter_max_size,
         first = Smallest(gen.pts_sorter \cup {p})
  PROVE  GenDts_l(gen, p) =
           <<TRUE, first + h.offset, [h EXCEPT !.pts_sorter = (gen.pts_sorter \cup {p}) \ {first}]>>
  BY DEF GenDts_l

(* What counting changes. *)
LEMMA CountedB ==
  ASSUME gen \in Object, NEW p \in Nat, p <= gen.last_max_pts
  PROVE  Counted(gen, p) = [gen EXCEPT !.frames_since = gen.frames_since + 1]
  BY DEF Counted, Object

LEMMA CountedP ==
  ASSUME gen \in Object, NEW p \in Nat, p > gen.last_max_pts, gen.frames_since > 0, gen.count = 0
  PROVE  Counted(gen, p) = [gen EXCEPT !.count = 1, !.last_max_pts = p, !.frames_since = 1]
<1>1. Counted(gen, p) =
        [gen EXCEPT !.count = 1, !.sorter_max_size = gen.sorter_max_size,
                    !.offset = gen.offset, !.last_max_pts = p, !.frames_since = 1]
  BY DEF Counted, Object
<1>2. [gen EXCEPT !.count = 1, !.sorter_max_size = gen.sorter_max_size,
                  !.offset = gen.offset, !.last_max_pts = p, !.frames_since = 1] =
        [gen EXCEPT !.count = 1, !.last_max_pts = p, !.frames_since = 1]
  BY DEF Object
<1> QED
  BY <1>1, <1>2

LEMMA CountedFirst ==
  ASSUME gen \in Object, NEW p \in Nat, p > gen.last_max_pts, gen.frames_since = 0
  PROVE  Counted(gen, p) = [gen EXCEPT !.last_max_pts = p, !.frames_since = 1]
<1>1. Counted(gen, p) =
        [gen EXCEPT !.count = gen.count, !.sorter_max_size = gen.sorter_max_size,
                    !.offset = gen.offset, !.last_max_pts = p, !.frames_since = 1]
  BY DEF Counted, Object
<1>2. [gen EXCEPT !.count = gen.count, !.sorter_max_size = gen.sorter_max_size,
                  !.offset = gen.offset, !.last_max_pts = p, !.frames_since = 1] =
        [gen EXCEPT !.last_max_pts = p, !.frames_since = 1]
  BY DEF Object
<1> QED
  BY <1>1, <1>2

LEMMA CountedLast ==
  ASSUME gen \in Object, NEW p \in Nat, p > gen.last_max_pts, gen.frames_since > 0, gen.count = 1
  PROVE  Counted(gen, p) =
           [gen EXCEPT !.count = 2, !.sorter_max_size = gen.frames_since,
                       !.offset = (p - gen.last_max_pts) \div 2,
                       !.last_max_pts = p, !.frames_since = 1]
  BY DEF Counted, Object

-----------------------------------------------------------------------------
(* The frames of a new group. *)

Shown(from, b) == {from + i * Frame : i \in 1 .. b}

LEMMA NewGroup ==
  ASSUME MaxB <= 3, NEW b \in 0 .. MaxB, NEW from \in Nat
  PROVE  /\ IsFiniteSet(Shown(from, b)) /\ Cardinality(Shown(from, b)) = b
         /\ Shown(from, b) \in SUBSET (Nat \ {0})
         /\ \A t \in Shown(from, b) : from + Frame <= t /\ t < from + (b + 1) * Frame
         /\ \A t \in Shown(from, b) \cup {from} :
              t + Frame \in Shown(from, b) \cup {from + (b + 1) * Frame}
<1> PICK c : c = {from + i * Frame : i \in 1 .. b} /\ c = Shown(from, b)
  BY DEF Shown
<1> SUFFICES
         /\ IsFiniteSet(c) /\ Cardinality(c) = b /\ c \in SUBSET (Nat \ {0})
         /\ \A t \in c : from + Frame <= t /\ t < from + (b + 1) * Frame
         /\ \A t \in c \cup {from} : t + Frame \in c \cup {from + (b + 1) * Frame}
  BY Zenon
<1>0. Frame \in Nat \ {0} /\ b \in 0 .. 3
  BY DtsAssumption
<1> DEFINE p1 == from + Frame
           p2 == p1 + Frame
           p3 == p2 + Frame
<1>a. /\ 1 * Frame = Frame /\ 2 * Frame = Frame + Frame /\ 3 * Frame = Frame + Frame + Frame
      /\ 4 * Frame = Frame + Frame + Frame + Frame
      /\ p1 = from + 1 * Frame /\ p2 = from + 2 * Frame /\ p3 = from + 3 * Frame
  BY <1>0
<1>b. /\ from < p1 /\ p1 < p2 /\ p2 < p3 /\ p1 \in Nat /\ p2 \in Nat /\ p3 \in Nat
  BY <1>0
<1> HIDE DEF p1, p2, p3
<1>1. CASE b = 0
  <2>1. c = {}
    BY <1>0, <1>1
  <2>2. IsFiniteSet(c) /\ Cardinality(c) = b
    BY <2>1, <1>1, FS_EmptySet, Zenon
  <2> QED
    BY <1>0, <1>1, <2>1, <2>2, <1>a
<1>2. CASE b = 1
  <2>1. 1 .. b = {1}
    BY <1>2
  <2>2. c = {p1}
    BY <2>1, <1>a, Zenon
  <2>3. IsFiniteSet(c) /\ Cardinality(c) = b
    BY <2>2, <1>2, FS_Singleton, Zenon
  <2> QED
    BY <1>0, <1>2, <2>2, <2>3, <1>a, <1>b DEF p1, p2, p3
<1>3. CASE b = 2
  <2>1. 1 .. b = {1, 2}
    BY <1>3
  <2>2. c = {p1} \cup {p2}
    BY <2>1, <1>a, Zenon
  <2>3. IsFiniteSet({p1}) /\ Cardinality({p1}) = 1
    BY FS_Singleton, Zenon
  <2>4. p2 \notin {p1}
    BY <1>b
  <2>5. IsFiniteSet(c) /\ Cardinality(c) = 1 + 1
    <3>1. IsFiniteSet({p1} \cup {p2}) /\ Cardinality({p1} \cup {p2}) = Cardinality({p1}) + 1
      BY <2>3, <2>4, OneMore, Zenon
    <3> QED
      BY <3>1, <2>2, <2>3, Zenon
  <2> QED
    BY <1>0, <1>3, <2>2, <2>5, <1>a, <1>b DEF p1, p2, p3
<1>4. CASE b = 3
  <2>1. 1 .. b = {1, 2, 3}
    BY <1>4
  <2>2. c = ({p1} \cup {p2}) \cup {p3}
    BY <2>1, <1>a, Zenon
  <2>3. IsFiniteSet({p1}) /\ Cardinality({p1}) = 1
    BY FS_Singleton, Zenon
  <2>4. p2 \notin {p1} /\ p3 \notin {p1} \cup {p2}
    BY <1>b
  <2>5. IsFiniteSet({p1} \cup {p2}) /\ Cardinality({p1} \cup {p2}) = 1 + 1
    BY <2>3, <2>4, OneMore, Zenon
  <2>6. IsFiniteSet(c) /\ Cardinality(c) = 1 + 1 + 1
    <3>1. IsFiniteSet(({p1} \cup {p2}) \cup {p3}) /\ Cardinality(({p1} \cup {p2}) \cup {p3}) = Cardinality({p1} \cup {p2}) + 1
      BY <2>5, <2>4, OneMore, Zenon
    <3> QED
      BY <3>1, <2>2, <2>5, Zenon
  <2> QED
    BY <1>0, <1>4, <2>2, <2>6, <1>a, <1>b DEF p1, p2, p3
<1> QED
  BY <1>0, <1>1, <1>2, <1>3, <1>4

LEMMA Sizes ==
  ASSUME groups \in Seq(0 .. MaxB), groups # <<>>
  PROVE  GroupSize \in 1 .. MaxB + 1
  BY DtsAssumption DEF GroupSize

-----------------------------------------------------------------------------
(* The calls, one by one. *)

LEMMA FirstCall ==
  ASSUME NoFrame, NEW p \in Starts, FirstFrame(p)
  PROVE  OneFrame' /\ Increases /\ CutUnreached
<1>1. p \in Nat /\ GenDts(p) /\ groups' = <<>> /\ coming' = {} /\ last' = p /\ ~sure
  BY DtsAssumption DEF FirstFrame, NoFrame
<1>2. gen \in Object /\ gen.last_pts = 0
  BY DEF NoFrame, Object
<1>3. Increases
  BY <1>1 DEF Increases
<1>4. CASE p = 0
  <2>1. GenDts(gen.last_pts)
    BY <1>1, <1>2, <1>4
  <2>2. pts' = 0 /\ gen' = gen /\ ~sure'
    BY <2>1, <1>2, GenDtsRepeats DEF NoFrame
  <2> QED
    BY <1>1, <1>2, <1>3, <1>4, <2>2 DEF OneFrame, CutUnreached, NoFrame
<1>5. CASE p # 0
  <2> DEFINE h == [gen EXCEPT !.last_max_pts = p, !.frames_since = 1]
             g == [h EXCEPT !.pts_sorter = {p}]
  <2>1. Counted(gen, p) = h
    <3>1. p > gen.last_max_pts /\ gen.frames_since = 0
      BY <1>1, <1>5 DEF NoFrame
    <3> QED
      BY <1>1, <1>2, <3>1, CountedFirst
  <2>2. /\ h \in Object /\ g \in Object /\ h.sorter_max_size = 0 /\ gen.sorter_max_size = 0
        /\ h.pts_sorter = gen.pts_sorter /\ gen.pts_sorter \cup {p} = {p}
    BY <1>1, <1>2 DEF Object, NoFrame
  <2>3. GenDts_l(gen, p) = <<FALSE, p, g>>
    BY <1>1, <1>2, <2>1, <2>2, NoAnswer
  <2> HIDE DEF g, h
  <2>4. pts' = p /\ ~sure' /\ CutUnreached /\ gen' = [g EXCEPT !.last_pts = p]
    <3>1. FALSE \in BOOLEAN /\ p <= p /\ p # gen.last_pts
      BY <1>1, <1>2, <1>5
    <3> QED
      BY <1>1, <1>2, <2>2, <2>3, <3>1, GenDtsSets, Zenon
  <2>5. gen' = [offset |-> 0, last_dts |-> 0, last_pts |-> p, last_max_pts |-> p,
                frames_since |-> 1, sorter_max_size |-> 0, count |-> 0, pts_sorter |-> {p}]
    BY <2>4 DEF NoFrame, g, h
  <2> QED
    BY <1>1, <1>3, <1>5, <2>4, <2>5 DEF OneFrame
<1> QED
  BY <1>4, <1>5

(* Another piece of a frame changes nothing but dts, before any was known.  *)
LEMMA SamePtsCall ==
  ASSUME OneFrame \/ Counting \/ Generating, SamePts
  PROVE  /\ OneFrame => OneFrame'
         /\ Counting => Counting'
         /\ Generating => Generating'
         /\ Increases /\ CutUnreached
<1>1. gen.last_pts = pts
  BY DEF OneFrame, Counting, Generating, FramesInv
<1>2. GenDts(gen.last_pts) /\ coming' = coming /\ last' = last /\ groups' = groups
  BY <1>1 DEF SamePts
<1>3. /\ pts' = pts /\ gen' = gen
      /\ sure' = (gen.last_dts # 0)
      /\ sure' => dts' = gen.last_dts
  BY <1>1, <1>2, GenDtsRepeats
<1>4. CutUnreached
  BY <1>1, <1>3 DEF CutUnreached
<1>5. ASSUME OneFrame PROVE OneFrame' /\ ~sure
  BY <1>2, <1>3, <1>5 DEF OneFrame
<1>6. ASSUME Counting PROVE Counting' /\ ~sure
  <2>1. ~sure' /\ ~sure
    BY <1>3, <1>6 DEF Counting
  <2> QED
    BY <1>2, <1>3, <1>6, <2>1 DEF Counting, FramesInv, SorterInv, Known, GroupSize
<1>7. ASSUME Generating PROVE Generating' /\ sure' /\ dts' = dts
  <2>1. gen.last_dts = dts /\ dts # 0
    BY <1>7 DEF Generating
  <2>2. sure' /\ dts' = dts
    BY <1>3, <2>1
  <2> QED
    BY <1>2, <1>3, <1>7, <2>2 DEF Generating, FramesInv, SorterInv, Known, GroupSize, Behind
<1>8. Increases
  BY <1>3, <1>5, <1>6, <1>7 DEF Increases
<1> QED
  BY <1>4, <1>5, <1>6, <1>7, <1>8

LEMMA Product ==
  ASSUME NEW k \in Int
  PROVE  /\ k * Frame \in Int /\ (k + 1) * Frame = k * Frame + Frame
         /\ (k - 1) * Frame = k * Frame - Frame
         /\ k >= 0 => k * Frame >= 0
         /\ k >= 1 => k * Frame >= Frame
  BY DtsAssumption

(* The frames of the group a P frame begins.                                *)
LEMMA Begins ==
  ASSUME MaxB <= 3, last \in Nat, groups \in Seq(0 .. MaxB), NEW b \in 0 .. MaxB, PFrame(b),
         GroupSize' = b + 1
  PROVE  /\ last' \in Nat /\ last' = last + GroupSize' * Frame /\ last' >= last + Frame
         /\ IsFiniteSet(coming') /\ Cardinality(coming') = GroupSize' - 1
         /\ coming' \in SUBSET (Nat \ {0}) /\ last' \notin coming' /\ last \notin coming'
         /\ \A t \in coming' : last' - (GroupSize' - 1) * Frame <= t /\ t < last' /\ t > last
         /\ \A t \in coming' \cup {last} : t + Frame \in coming' \cup {last'}
         /\ GenDts(last')
<1>1. /\ last' = last + (b + 1) * Frame /\ coming' = {last + i * Frame : i \in 1 .. b}
      /\ GenDts(last') /\ b \in Nat /\ Frame \in Nat \ {0}
  BY DtsAssumption DEF PFrame
<1>2. /\ IsFiniteSet(coming') /\ Cardinality(coming') = b /\ coming' \in SUBSET (Nat \ {0})
      /\ \A t \in coming' : last + Frame <= t /\ t < last + (b + 1) * Frame
      /\ \A t \in coming' \cup {last} : t + Frame \in coming' \cup {last + (b + 1) * Frame}
  <2>1. coming' = Shown(last, b)
    BY <1>1 DEF Shown
  <2> QED
    BY <2>1, NewGroup
<1>3. PICK q \in Nat : q = b * Frame /\ (b + 1) * Frame = q + Frame
  BY <1>1, Product
<1>4. GroupSize' * Frame = (b + 1) * Frame /\ (GroupSize' - 1) * Frame = q
  <2>1. GroupSize' - 1 = b
    BY <1>1
  <2> QED
    BY <1>3, <2>1
<1>5. last' = last + GroupSize' * Frame /\ last' = last + q + Frame
  BY <1>1, <1>3, <1>4
<1>6. \A t \in coming' : last' - q <= t /\ t < last' /\ t > last
  <2>1. \A t \in coming' : last + Frame <= t /\ t < last + (q + Frame) /\ t \in Nat
    BY <1>2, <1>3, Zenon
  <2> QED
    BY <1>1, <1>3, <1>5, <2>1
<1>7. last' \in Nat /\ last' >= last + Frame
  BY <1>1, <1>3, <1>5
<1>8. last' \notin coming' /\ last \notin coming'
  BY <1>6, <1>7
<1>9. \A t \in coming' : last' - (GroupSize' - 1) * Frame <= t /\ t < last' /\ t > last
  BY <1>4, <1>6, Zenon
<1>10. Cardinality(coming') = GroupSize' - 1
  BY <1>1, <1>2
<1>11. \A t \in coming' \cup {last} : t + Frame \in coming' \cup {last'}
  BY <1>1, <1>2, Zenon
<1> QED
  BY <1>1, <1>2, <1>5, <1>7, <1>8, <1>9, <1>10, <1>11, Zenon

LEMMA FirstCount ==
  ASSUME OneFrame, NEW p \in Nat, p > pts
  PROVE  Counted(gen, p) =
           [offset |-> 0, last_dts |-> 0, last_pts |-> pts, last_max_pts |-> p,
            frames_since |-> 1, sorter_max_size |-> 0, count |-> IF pts = 0 THEN 0 ELSE 1,
            pts_sorter |-> gen.pts_sorter]
<1>1. gen \in Object /\ p > gen.last_max_pts
  BY DEF OneFrame, Object
<1>2. CASE pts = 0
  <2>1. gen.frames_since = 0
    BY <1>2 DEF OneFrame
  <2>2. Counted(gen, p) = [gen EXCEPT !.last_max_pts = p, !.frames_since = 1]
    BY <1>1, <2>1, CountedFirst
  <2> QED
    BY <1>2, <2>2 DEF OneFrame
<1>3. CASE pts # 0
  <2>1. gen.frames_since > 0 /\ gen.count = 0
    BY <1>3 DEF OneFrame
  <2>2. Counted(gen, p) = [gen EXCEPT !.count = 1, !.last_max_pts = p, !.frames_since = 1]
    BY <1>1, <2>1, CountedP
  <2> QED
    BY <1>3, <2>2 DEF OneFrame
<1> QED
  BY <1>2, <1>3

LEMMA FirstGroup ==
  ASSUME MaxB <= 3, OneFrame, NEW b \in 0 .. MaxB, PFrame(b)
  PROVE  Counting' /\ Increases /\ CutUnreached
<1>1. /\ pts \in Nat /\ last = pts /\ gen \in Object /\ gen.last_pts = pts /\ ~sure
      /\ groups = <<>> /\ groups' = <<b>>
  BY DEF OneFrame, Object, PFrame
<1>2. GroupSize' = b + 1 /\ GroupSize' \in Nat /\ groups \in Seq(0 .. MaxB)
  BY <1>1, DtsAssumption DEF GroupSize
<1>3. /\ last' \in Nat /\ last' = last + GroupSize' * Frame /\ last' >= last + Frame
      /\ IsFiniteSet(coming') /\ Cardinality(coming') = GroupSize' - 1
      /\ coming' \in SUBSET (Nat \ {0}) /\ last' \notin coming' /\ last \notin coming'
      /\ \A t \in coming' : last' - (GroupSize' - 1) * Frame <= t /\ t < last' /\ t > last
      /\ \A t \in coming' \cup {last} : t + Frame \in coming' \cup {last'}
      /\ GenDts(last')
  BY <1>1, <1>2, Begins
<1>4. Frame \in Nat \ {0} /\ last' > pts /\ last' # 0
  BY <1>1, <1>3, DtsAssumption
<1>5. Increases
  BY <1>1 DEF Increases
<1> DEFINE n == IF pts = 0 THEN 0 ELSE 1
<1>6. PICK p \in Nat : p = last'
  BY <1>3
<1>7. GenDts(p) /\ p > pts /\ p # gen.last_pts
  <2>1. GenDts(p)
    BY <1>3, <1>6, Zenon
  <2> QED
    BY <1>1, <1>4, <1>6, <2>1
<1> DEFINE h == Counted(gen, p)
           g == [h EXCEPT !.pts_sorter = gen.pts_sorter \cup {p}]
<1>8. /\ h \in Object /\ h.sorter_max_size = 0 /\ h.pts_sorter = gen.pts_sorter
      /\ h.last_dts = 0 /\ h.last_max_pts = p /\ h.frames_since = 1 /\ h.count = n
  BY <1>1, <1>7, FirstCount DEF Object
<1>9. g \in Object /\ GenDts_l(gen, p) = <<FALSE, p, g>>
  <2>1. gen.sorter_max_size = 0
    BY DEF OneFrame
  <2>2. GenDts_l(gen, p) = <<FALSE, p, g>>
    BY <1>1, <1>8, <2>1, NoAnswer
  <2> HIDE DEF h
  <2>3. g \in Object
    BY <1>1, <1>8 DEF Object
  <2> QED
    BY <2>2, <2>3
<1> HIDE DEF h
<1>10. pts' = p /\ ~sure' /\ CutUnreached /\ gen' = [g EXCEPT !.last_pts = p]
  <2> HIDE DEF g
  <2>1. FALSE \in BOOLEAN /\ p <= p
    OBVIOUS
  <2> QED
    BY <1>1, <1>7, <1>9, <2>1, GenDtsSets, Zenon
<1>11. /\ gen' \in Object /\ gen'.last_pts = p /\ gen'.sorter_max_size = 0 /\ gen'.last_dts = 0
       /\ gen'.last_max_pts = p /\ gen'.frames_since = 1 /\ gen'.count = n
       /\ gen'.pts_sorter = gen.pts_sorter \cup {p}
  BY <1>8, <1>10 DEF Object
<1>12. FramesInv'
  BY <1>2, <1>3, <1>6, <1>10, <1>11 DEF FramesInv
<1>13. /\ IsFiniteSet(gen'.pts_sorter) /\ Cardinality(gen'.pts_sorter) = n + 1
       /\ gen'.pts_sorter = IF pts = 0 THEN {p} ELSE {pts} \cup {p}
  <2>1. gen.pts_sorter = IF pts = 0 THEN {} ELSE {pts}
    BY DEF OneFrame
  <2>2. CASE pts = 0
    <3>1. gen'.pts_sorter = {p}
      BY <1>11, <2>1, <2>2
    <3>2. IsFiniteSet({p}) /\ Cardinality({p}) = 1
      BY FS_Singleton, Zenon
    <3> QED
      BY <2>2, <3>1, <3>2
  <2>3. CASE pts # 0
    <3>1. gen'.pts_sorter = {pts} \cup {p}
      BY <1>11, <2>1, <2>3
    <3>2. IsFiniteSet({pts}) /\ Cardinality({pts}) = 1
      BY FS_Singleton, Zenon
    <3>3. p \notin {pts}
      BY <1>4, <1>6
    <3>4. IsFiniteSet({pts} \cup {p}) /\ Cardinality({pts} \cup {p}) = Cardinality({pts}) + 1
      BY <3>2, <3>3, OneMore, Zenon
    <3> QED
      BY <2>3, <3>1, <3>2, <3>4
  <2> QED
    BY <2>2, <2>3
<1>14. SorterInv'
  <2>1. \A t \in gen'.pts_sorter : t = pts \/ t = p
    BY <1>13
  <2>2. gen'.pts_sorter \in SUBSET (Nat \ {0})
    BY <1>1, <1>7, <1>13
  <2>3. gen'.pts_sorter \cap coming' = {}
    BY <1>1, <1>3, <1>6, <2>1
  <2>4. \A t \in gen'.pts_sorter : t <= last'
    BY <1>1, <1>7, <1>6, <2>1
  <2>5. ASSUME NEW t \in Known' PROVE t = last' \/ t + Frame \in Known'
    <3>1. t = last' \/ t \in coming' \cup {last}
      BY <1>1, <1>6, <2>1, <2>5 DEF Known
    <3>2. coming' \cup {last'} \subseteq Known'
      BY <1>6, <1>13 DEF Known
    <3> QED
      BY <1>3, <3>1, <3>2
  <2> QED
    BY <1>13, <2>2, <2>3, <2>4, <2>5 DEF SorterInv
<1>15. \E t \in Known' : t <= last' - (GroupSize' - 1 + gen'.count) * Frame
  <2>1. /\ (GroupSize' - 1) * Frame = GroupSize' * Frame - Frame
        /\ (GroupSize' - 1 + 1) * Frame = GroupSize' * Frame /\ GroupSize' * Frame \in Int
    BY <1>2, Product
  <2>2. CASE pts = 0
    <3>1. last + Frame \in coming' \cup {last'}
      BY <1>3
    <3>2. last + Frame \in Known'
      BY <3>1, <1>6, <1>13, <2>2 DEF Known
    <3>3. last + Frame <= last' - (GroupSize' - 1 + gen'.count) * Frame
      BY <1>1, <1>2, <1>3, <1>4, <1>11, <2>1, <2>2
    <3> QED
      BY <3>2, <3>3
  <2>3. CASE pts # 0
    <3>1. pts \in Known'
      BY <1>13, <2>3 DEF Known
    <3>2. GroupSize' - 1 + gen'.count = GroupSize' - 1 + 1
      BY <1>2, <1>11, <2>3
    <3>3. (GroupSize' - 1 + gen'.count) * Frame = GroupSize' * Frame
      BY <2>1, <3>2
    <3>4. pts <= last' - (GroupSize' - 1 + gen'.count) * Frame
      BY <1>1, <1>3, <2>1, <3>3
    <3> QED
      BY <3>1, <3>4
  <2> QED
    BY <2>2, <2>3
<1> QED
  <2>1. n \in {0, 1} /\ gen'.frames_since = GroupSize' - Cardinality(coming')
    BY <1>2, <1>3, <1>11
  <2>2. Cardinality(gen'.pts_sorter) >= gen'.frames_since + gen'.count
    BY <1>11, <1>13
  <2>3. gen'.last_max_pts = last' /\ gen'.count \in {0, 1}
    BY <1>6, <1>11, <2>1
  <2> HIDE DEF n
  <2> QED
    BY <1>5, <1>10, <1>11, <1>12, <1>14, <1>15, <2>1, <2>2, <2>3 DEF Counting

(* A B frame while they are counted.                                        *)
LEMMA CountB ==
  ASSUME groups \in Seq(0 .. MaxB), groups # <<>>, Counting, BFrame
  PROVE  Counting' /\ Increases /\ CutUnreached
<1>1. PICK p \in coming : GenDts(p) /\ coming' = coming \ {p} /\ last' = last /\ groups' = groups
  BY DEF BFrame
<1>2. /\ GroupSize' = GroupSize /\ GroupSize \in 1 .. MaxB + 1
      /\ FramesInv /\ SorterInv /\ ~sure
  BY <1>1, Sizes DEF GroupSize, Counting
<1>3. /\ p \in Nat \ {0} /\ p < last /\ p # pts /\ p # gen.last_pts /\ gen \in Object
      /\ p \notin gen.pts_sorter /\ last \in Nat
  BY <1>2 DEF FramesInv, SorterInv
<1>4. /\ IsFiniteSet(coming') /\ Cardinality(coming') = Cardinality(coming) - 1
      /\ Cardinality(coming) \in Nat
  <2>1. IsFiniteSet(coming)
    BY <1>2 DEF FramesInv
  <2>2. Cardinality(coming) \in Nat
    BY <2>1, FS_CardinalityType
  <2> QED
    BY <1>1, <2>1, <2>2, OneLess
<1>5. /\ IsFiniteSet(gen.pts_sorter \cup {p})
      /\ Cardinality(gen.pts_sorter \cup {p}) = Cardinality(gen.pts_sorter) + 1
      /\ Cardinality(gen.pts_sorter) \in Nat
  <2>1. IsFiniteSet(gen.pts_sorter)
    BY <1>2 DEF SorterInv
  <2>2. Cardinality(gen.pts_sorter) \in Nat
    BY <2>1, FS_CardinalityType
  <2> QED
    BY <1>3, <2>1, <2>2, OneMore
<1> DEFINE h == Counted(gen, p)
           g == [h EXCEPT !.pts_sorter = gen.pts_sorter \cup {p}]
<1>6. h = [gen EXCEPT !.frames_since = gen.frames_since + 1]
  BY <1>3, CountedB DEF Counting
<1>7. /\ h \in Object /\ h.sorter_max_size = 0 /\ h.pts_sorter = gen.pts_sorter
      /\ h.last_dts = 0 /\ h.last_max_pts = last /\ h.count = gen.count
      /\ h.frames_since = gen.frames_since + 1 /\ gen.sorter_max_size = 0
  <2> HIDE DEF h
  <2> QED
    BY <1>3, <1>6 DEF Object, Counting
<1>8. GenDts_l(gen, p) = <<FALSE, p, g>>
  BY <1>3, <1>7, NoAnswer
<1> HIDE DEF h
<1>9. g \in Object
  BY <1>3, <1>7 DEF Object
<1>10. pts' = p /\ ~sure' /\ CutUnreached /\ gen' = [g EXCEPT !.last_pts = p]
  <2> HIDE DEF g
  <2>1. FALSE \in BOOLEAN /\ p <= p /\ p \in Nat
    BY <1>3
  <2> QED
    BY <1>1, <1>3, <1>8, <1>9, <2>1, GenDtsSets, Zenon
<1>11. /\ gen' \in Object /\ gen'.last_pts = p /\ gen'.sorter_max_size = 0 /\ gen'.last_dts = 0
       /\ gen'.last_max_pts = last /\ gen'.frames_since = gen.frames_since + 1
       /\ gen'.count = gen.count /\ gen'.pts_sorter = gen.pts_sorter \cup {p}
  BY <1>3, <1>7, <1>9, <1>10 DEF Object
<1>12. FramesInv'
  BY <1>1, <1>2, <1>3, <1>4, <1>10, <1>11 DEF FramesInv
<1>13. Known' = Known
  BY <1>1, <1>11 DEF Known
<1>14. SorterInv'
  BY <1>1, <1>2, <1>3, <1>5, <1>11, <1>13 DEF SorterInv
<1>15. \E t \in Known' : t <= last' - (GroupSize' - 1 + gen'.count) * Frame
  BY <1>1, <1>2, <1>11, <1>13 DEF Counting
<1>16. /\ gen'.frames_since = GroupSize' - Cardinality(coming')
       /\ Cardinality(gen'.pts_sorter) >= gen'.frames_since + gen'.count
  BY <1>2, <1>4, <1>5, <1>11 DEF Counting
<1>17. Increases
  BY <1>2 DEF Increases
<1> QED
  BY <1>1, <1>10, <1>11, <1>12, <1>14, <1>15, <1>16, <1>17 DEF Counting

(* The second P frame after which frames are counted in full.               *)
LEMMA CountP ==
  ASSUME MaxB <= 3, groups \in Seq(0 .. MaxB), groups # <<>>, Counting, gen.count = 0,
         NEW b \in 0 .. MaxB, PFrame(b), GroupSize' = GroupSize, GroupSize = b + 1
  PROVE  Counting' /\ Increases /\ CutUnreached
<1>1. GroupSize \in Nat \ {0} /\ Frame \in Nat \ {0} /\ FramesInv /\ SorterInv /\ ~sure /\ coming = {}
  BY Sizes, DtsAssumption DEF Counting, PFrame
<1>2. /\ last' \in Nat /\ last' = last + GroupSize' * Frame /\ last' >= last + Frame
      /\ IsFiniteSet(coming') /\ Cardinality(coming') = GroupSize' - 1
      /\ coming' \in SUBSET (Nat \ {0}) /\ last' \notin coming' /\ last \notin coming'
      /\ \A t \in coming' : last' - (GroupSize' - 1) * Frame <= t /\ t < last' /\ t > last
      /\ \A t \in coming' \cup {last} : t + Frame \in coming' \cup {last'}
      /\ GenDts(last')
  BY <1>1, Begins DEF FramesInv
<1>3. PICK p \in Nat : p = last'
  BY <1>2
<1>4. GenDts(p)
  BY <1>2, <1>3, Zenon
<1>5. /\ last \in Nat /\ pts \in 0 .. last /\ gen \in Object /\ gen.last_pts = pts
      /\ gen.pts_sorter \in SUBSET (Nat \ {0}) /\ IsFiniteSet(gen.pts_sorter)
      /\ \A t \in gen.pts_sorter : t <= last
      /\ \A t \in gen.pts_sorter : t = last \/ t + Frame \in gen.pts_sorter
      /\ Known = gen.pts_sorter
  BY <1>1 DEF FramesInv, SorterInv, Known
<1>6. p > last /\ p # gen.last_pts /\ p \notin gen.pts_sorter
  BY <1>1, <1>2, <1>3, <1>5
<1>7. Cardinality({}) = 0 /\ Cardinality(coming) = 0
  BY <1>1, FS_EmptySet, Zenon
<1>8. /\ gen.frames_since = GroupSize /\ Cardinality(gen.pts_sorter) >= GroupSize
      /\ Cardinality(gen.pts_sorter) \in Nat
  <2>1. Cardinality(gen.pts_sorter) \in Nat
    BY <1>5, FS_CardinalityType
  <2> QED
    BY <1>1, <1>7, <2>1 DEF Counting
<1>9. /\ IsFiniteSet(gen.pts_sorter \cup {p})
      /\ Cardinality(gen.pts_sorter \cup {p}) = Cardinality(gen.pts_sorter) + 1
  BY <1>5, <1>6, OneMore
<1> DEFINE h == Counted(gen, p)
           g == [h EXCEPT !.pts_sorter = gen.pts_sorter \cup {p}]
<1>10. h = [gen EXCEPT !.count = 1, !.last_max_pts = p, !.frames_since = 1]
  <2>1. p > gen.last_max_pts /\ gen.frames_since > 0
    BY <1>1, <1>6, <1>8 DEF Counting
  <2> QED
    BY <1>5, <2>1, CountedP
<1>11. /\ h \in Object /\ h.sorter_max_size = 0 /\ h.pts_sorter = gen.pts_sorter
      /\ h.last_dts = 0 /\ h.last_max_pts = p /\ h.count = 1
      /\ h.frames_since = 1 /\ gen.sorter_max_size = 0
  <2> HIDE DEF h
  <2> QED
    BY <1>5, <1>10 DEF Object, Counting
<1>12. GenDts_l(gen, p) = <<FALSE, p, g>>
  BY <1>5, <1>11, NoAnswer
<1> HIDE DEF h
<1>13. g \in Object
  BY <1>5, <1>11 DEF Object
<1>14. pts' = p /\ ~sure' /\ CutUnreached /\ gen' = [g EXCEPT !.last_pts = p]
  <2> HIDE DEF g
  <2>1. FALSE \in BOOLEAN /\ p <= p
    OBVIOUS
  <2> QED
    BY <1>4, <1>5, <1>6, <1>12, <1>13, <2>1, GenDtsSets, Zenon
<1>15. /\ gen' \in Object /\ gen'.last_pts = p /\ gen'.sorter_max_size = 0 /\ gen'.last_dts = 0
       /\ gen'.last_max_pts = p /\ gen'.frames_since = 1
       /\ gen'.count = 1 /\ gen'.pts_sorter = gen.pts_sorter \cup {p}
  BY <1>5, <1>11, <1>13, <1>14 DEF Object
<1>16. FramesInv'
  BY <1>1, <1>2, <1>3, <1>14, <1>15 DEF FramesInv
<1>17. SorterInv'
  <2>1. gen'.pts_sorter \in SUBSET (Nat \ {0})
    BY <1>5, <1>6, <1>15
  <2>2. gen'.pts_sorter \cap coming' = {}
    BY <1>2, <1>3, <1>5, <1>15
  <2>3. \A t \in gen'.pts_sorter : t <= last'
    BY <1>3, <1>5, <1>6, <1>15
  <2>4. Known' = gen.pts_sorter \cup (coming' \cup {last'})
    BY <1>3, <1>15 DEF Known
  <2>5. \A t \in Known' : t = last' \/ t + Frame \in Known'
    BY <1>2, <1>5, <2>4
  <2> QED
    BY <1>9, <1>15, <2>1, <2>2, <2>3, <2>5 DEF SorterInv
<1>18. \E t \in Known' : t <= last' - (GroupSize' - 1 + gen'.count) * Frame
  <2>1. GroupSize' - 1 + gen'.count = GroupSize'
    BY <1>1, <1>15
  <2>2. GroupSize' * Frame \in Int
    BY <1>1, Product
  <2>3. PICK t \in Known : TRUE
    BY DEF Counting
  <2>4. t \in Known' /\ t <= last
    BY <1>5, <1>15, <2>3 DEF Known
  <2>5. last' - (GroupSize' - 1 + gen'.count) * Frame = last
    BY <1>2, <1>5, <2>1, <2>2
  <2> QED
    BY <2>4, <2>5
<1>19. /\ gen'.frames_since = GroupSize' - Cardinality(coming')
       /\ Cardinality(gen'.pts_sorter) >= gen'.frames_since + gen'.count
  BY <1>1, <1>2, <1>8, <1>9, <1>15
<1>20. Increases
  BY <1>1 DEF Increases
<1> QED
  BY <1>3, <1>14, <1>15, <1>16, <1>17, <1>18, <1>19, <1>20 DEF Counting

(* The smallest of the times leaves for the one that comes.                 *)
LEMMA Leaves ==
  ASSUME NEW S, S \in SUBSET (Nat \ {0}), IsFiniteSet(S), NEW p, p \in Nat \ {0}, p \notin S
  PROVE  /\ Smallest(S \cup {p}) \in S \cup {p}
         /\ \A u \in S \cup {p} : Smallest(S \cup {p}) <= u
         /\ Cardinality(S) \in Nat /\ Cardinality(S \cup {p}) = Cardinality(S) + 1
         /\ IsFiniteSet((S \cup {p}) \ {Smallest(S \cup {p})})
         /\ Cardinality((S \cup {p}) \ {Smallest(S \cup {p})}) = Cardinality(S)
<1> PICK first : first = Smallest(S \cup {p})
  OBVIOUS
<1>1. first \in S \cup {p} /\ \A u \in S \cup {p} : first <= u
  <2>1. S \cup {p} \in SUBSET Nat /\ S \cup {p} # {}
    OBVIOUS
  <2> QED
    BY <2>1, SmallestIs, Zenon
<1>2. IsFiniteSet(S \cup {p}) /\ Cardinality(S \cup {p}) = Cardinality(S) + 1
  BY OneMore
<1>3. /\ IsFiniteSet((S \cup {p}) \ {first})
      /\ Cardinality((S \cup {p}) \ {first}) = Cardinality(S \cup {p}) - 1
  BY <1>1, <1>2, OneLess, Zenon
<1>4. Cardinality(S) \in Nat
  BY FS_CardinalityType
<1>5. Cardinality((S \cup {p}) \ {first}) = Cardinality(S)
  BY <1>2, <1>3, <1>4
<1> QED
  BY <1>1, <1>2, <1>3, <1>4, <1>5, Zenon

Below(t, top, k) == t <= top - k * Frame

LEMMA GroupTimes ==
  ASSUME NEW n \in Nat \ {0}, NEW c \in Nat
  PROVE  \E far \in Int, rest \in Int :
           /\ far = (n + c) * Frame /\ rest = (n - 1) * Frame
           /\ far > rest /\ (n + c + 1) * Frame = far + Frame
<1>1. Frame \in Nat \ {0}
  BY DtsAssumption
<1> DEFINE far == (n + c) * Frame
           rest == (n - 1) * Frame
<1>2. far \in Int /\ rest \in Int /\ (n + c + 1) * Frame = far + Frame
  BY <1>1
<1>3. far = n * Frame + c * Frame /\ rest = n * Frame - Frame /\ n * Frame \in Int /\ c * Frame \in Int
  BY <1>1
<1>4. c * Frame >= 0
  BY Product
<1>5. far > rest
  <2> HIDE DEF far, rest
  <2> QED
    BY <1>1, <1>3, <1>4
<1> QED
  BY <1>2, <1>5

(* The next time after the one that left is in the sorter: the frames to    *)
(* come are shown less than a group before the last P frame.                *)
LEMMA Generated ==
  ASSUME FramesInv', sure', GroupSize' \in Nat \ {0}, gen'.sorter_max_size = GroupSize',
         gen'.offset = (GroupSize' * Frame) \div 2,
         gen'.last_dts = dts', dts' \in 1 .. pts',
         gen'.pts_sorter \in SUBSET (Nat \ {0}), IsFiniteSet(gen'.pts_sorter),
         Cardinality(gen'.pts_sorter) >= GroupSize', gen'.pts_sorter \cap coming' = {},
         \A t \in gen'.pts_sorter : t <= last',
         NEW first, first \in Nat \ {0}, first \notin Known', dts' = first + gen'.offset,
         \A t \in Known' : first <= t,
         \A t \in Known' \cup {first} : t = last' \/ t + Frame \in Known' \cup {first},
         Below(first, last', GroupSize' + Cardinality(coming') + 1)
  PROVE  Generating'
<1> PICK n \in Nat \ {0} : n = GroupSize'
  OBVIOUS
<1> PICK c \in Nat : c = Cardinality(coming')
  BY FS_CardinalityType DEF FramesInv
<1> PICK top \in Nat : top = last'
  BY DEF FramesInv
<1>1. Frame \in Nat \ {0} /\ Known' \in SUBSET Nat
  BY DtsAssumption DEF FramesInv, Known
<1>2. PICK far \in Int, rest \in Int :
        /\ far = (n + c) * Frame /\ rest = (n - 1) * Frame
        /\ far > rest /\ (n + c + 1) * Frame = far + Frame
  BY GroupTimes
<1>3. first <= top - far - Frame
  <2>1. first <= top - (n + c + 1) * Frame
    BY Zenon DEF Below
  <2>2. first <= top - (far + Frame)
    BY <1>2, <2>1, Zenon
  <2> QED
    BY <1>1, <1>2, <2>2
<1>4. \A t \in coming' : t > top - far
  <2>1. \A t \in coming' : top - (n - 1) * Frame <= t /\ t \in Nat
    BY DEF FramesInv
  <2>2. \A t \in coming' : top - rest <= t /\ t \in Nat
    BY <1>2, <2>1, Zenon
  <2> QED
    BY <1>2, <2>2
<1>5. \A t \in Known' : t = last' \/ t + Frame \in Known'
  BY <1>1
<1>6. SorterInv'
  BY <1>5 DEF SorterInv
<1>7. Behind(GroupSize + Cardinality(coming))'
  <2>1. first # top /\ first + Frame # first
    BY <1>1, <1>2, <1>3
  <2>2. first + Frame \in Known' /\ first + Frame <= top - far
    BY <1>1, <1>2, <1>3, <2>1
  <2>3. first + Frame \in gen'.pts_sorter
    BY <1>1, <1>4, <2>2 DEF Known
  <2>4. first + Frame <= last' - (GroupSize' + Cardinality(coming')) * Frame
    BY <1>2, <2>2, Zenon
  <2> QED
    BY <2>3, <2>4 DEF Behind
<1>8. \A t \in Known' : t + gen'.offset > dts'
  <2>1. PICK o \in Nat : o = gen'.offset
    BY DEF FramesInv, Object
  <2> TAKE t \in Known'
  <2>2. t \in Nat /\ t # first /\ first <= t
    BY <1>1, Zenon
  <2>3. t + o > first + o
    BY <2>2
  <2> QED
    BY <2>1, <2>3, Zenon
<1> QED
  BY <1>6, <1>7, <1>8 DEF Generating

(* The second group is complete: the first time is generated.               *)
LEMMA CountLast ==
  ASSUME MaxB <= 3, groups \in Seq(0 .. MaxB), groups # <<>>, Counting, gen.count = 1,
         NEW b \in 0 .. MaxB, PFrame(b), GroupSize' = GroupSize, GroupSize = b + 1
  PROVE  Generating' /\ Increases /\ CutUnreached
<1>1. GroupSize \in Nat \ {0} /\ Frame \in Nat \ {0} /\ FramesInv /\ SorterInv /\ ~sure /\ coming = {}
  BY Sizes, DtsAssumption DEF Counting, PFrame
<1>2. /\ last' \in Nat /\ last' = last + GroupSize' * Frame /\ last' >= last + Frame
      /\ IsFiniteSet(coming') /\ Cardinality(coming') = GroupSize' - 1
      /\ coming' \in SUBSET (Nat \ {0}) /\ last' \notin coming' /\ last \notin coming'
      /\ \A t \in coming' : last' - (GroupSize' - 1) * Frame <= t /\ t < last' /\ t > last
      /\ \A t \in coming' \cup {last} : t + Frame \in coming' \cup {last'}
      /\ GenDts(last')
  BY <1>1, Begins DEF FramesInv
<1>3. PICK p \in Nat : p = last'
  BY <1>2
<1>4. GenDts(p)
  BY <1>2, <1>3, Zenon
<1>5. /\ last \in Nat /\ pts \in 0 .. last /\ gen \in Object /\ gen.last_pts = pts
      /\ gen.pts_sorter \in SUBSET (Nat \ {0}) /\ IsFiniteSet(gen.pts_sorter)
      /\ \A t \in gen.pts_sorter : t <= last
      /\ \A t \in gen.pts_sorter : t = last \/ t + Frame \in gen.pts_sorter
      /\ Known = gen.pts_sorter
  BY <1>1 DEF FramesInv, SorterInv, Known
<1>6. p > last /\ p # gen.last_pts /\ p \notin gen.pts_sorter /\ p # 0
  BY <1>1, <1>2, <1>3, <1>5
<1>7. Cardinality({}) = 0 /\ Cardinality(coming) = 0
  BY <1>1, FS_EmptySet, Zenon
<1> DEFINE N == GroupSize
           far == N * Frame
           off == far \div 2
           S == gen.pts_sorter
           first == Smallest(S \cup {p})
<1>8. far \in Nat /\ far >= Frame /\ off \in Nat /\ off <= far /\ p = last + far
  <2>1. far \in Int /\ far >= Frame
    BY <1>1, Product
  <2>2. p = last + far
    BY <1>2, <1>3
  <2> HIDE DEF far
  <2> QED
    BY <1>1, <2>1, <2>2
<1>9. /\ first \in S \cup {p} /\ \A u \in S \cup {p} : first <= u
      /\ Cardinality(S) \in Nat /\ Cardinality(S \cup {p}) = Cardinality(S) + 1
      /\ IsFiniteSet((S \cup {p}) \ {first})
      /\ Cardinality((S \cup {p}) \ {first}) = Cardinality(S)
  <2>1. p \in Nat \ {0} /\ S \in SUBSET (Nat \ {0}) /\ IsFiniteSet(S) /\ p \notin S
    BY <1>5, <1>6
  <2> HIDE DEF S
  <2> QED
    BY <2>1, Leaves, Zenon
<1>10. gen.frames_since = N /\ Cardinality(S) >= N + 1
  BY <1>1, <1>7, <1>9 DEF Counting
<1>11. first \in S /\ first \in Nat \ {0} /\ first <= last - far
  <2>1. PICK t \in Known : t <= last - (N - 1 + gen.count) * Frame
    BY DEF Counting
  <2>2. N - 1 + gen.count = N
    BY <1>1
  <2>3. t \in S /\ t <= last - far
    BY <1>5, <2>1, <2>2
  <2> HIDE DEF first, S, far
  <2>4. first <= t
    BY <1>9, <2>3
  <2>5. first \in Nat \ {0} /\ t \in Nat
    BY <1>5, <1>6, <1>9, <2>3 DEF S
  <2>6. first <= last - far
    BY <1>5, <1>8, <2>3, <2>4, <2>5
  <2> QED
    BY <1>1, <1>5, <1>6, <1>8, <1>9, <2>5, <2>6
<1> DEFINE h == Counted(gen, p)
           g == [h EXCEPT !.pts_sorter = (S \cup {p}) \ {first}]
           d == first + off
<1>12. h = [gen EXCEPT !.count = 2, !.sorter_max_size = N, !.offset = off,
                       !.last_max_pts = p, !.frames_since = 1]
  <2>1. p > gen.last_max_pts /\ gen.frames_since > 0
    BY <1>1, <1>6, <1>10 DEF Counting
  <2>2. p - gen.last_max_pts = far
    BY <1>5, <1>8 DEF Counting
  <2> HIDE DEF far
  <2> QED
    BY <1>5, <1>10, <2>1, <2>2, CountedLast
<1>13. /\ h \in Object /\ h.sorter_max_size = N /\ h.pts_sorter = S /\ h.offset = off
       /\ gen.sorter_max_size = 0
  <2> HIDE DEF h, off
  <2> QED
    BY <1>1, <1>5, <1>8, <1>12 DEF Object, Counting
<1> HIDE DEF first, off, far
<1>14. GenDts_l(gen, p) = <<TRUE, d, g>>
  <2>1. h = IF gen.sorter_max_size = 0 THEN Counted(gen, p) ELSE gen
    BY <1>13
  <2> HIDE DEF h
  <2>2. h.sorter_max_size > 0 /\ Cardinality(S \cup {p}) > h.sorter_max_size /\ gen.sorter_max_size # 1
    BY <1>1, <1>9, <1>10, <1>13
  <2>3. first = Smallest(gen.pts_sorter \cup {p})
    BY DEF first
  <2>4. GenDts_l(gen, p) = <<TRUE, first + h.offset, [h EXCEPT !.pts_sorter = (gen.pts_sorter \cup {p}) \ {first}]>>
    BY <1>5, <1>13, <2>1, <2>2, <2>3, Answer
  <2> QED
    BY <1>13, <2>4
<1> HIDE DEF h
<1>15. g \in Object /\ d \in Nat /\ d <= p /\ d >= 1
  <2>1. g \in Object
    BY <1>5, <1>8, <1>13 DEF Object
  <2> HIDE DEF S
  <2>2. d \in Nat /\ d <= p /\ d >= 1
    BY <1>5, <1>8, <1>11
  <2> QED
    BY <2>1, <2>2
<1>16. pts' = p /\ sure' /\ dts' = d /\ CutUnreached /\ gen' = [g EXCEPT !.last_pts = p, !.last_dts = d]
  <2> HIDE DEF g, d
  <2>1. TRUE \in BOOLEAN
    OBVIOUS
  <2> QED
    BY <1>4, <1>5, <1>6, <1>14, <1>15, <2>1, GenDtsSets, Zenon
<1>17. /\ gen' \in Object /\ gen'.last_pts = p /\ gen'.sorter_max_size = N /\ gen'.last_dts = d
       /\ gen'.offset = off /\ gen'.pts_sorter = (S \cup {p}) \ {first}
  <2> HIDE DEF d, N
  <2> QED
    BY <1>13, <1>15, <1>16 DEF Object
<1>18. FramesInv'
  BY <1>1, <1>2, <1>3, <1>16, <1>17 DEF FramesInv
<1>19. Increases
  BY <1>1 DEF Increases
<1>20. /\ gen'.pts_sorter \in SUBSET (Nat \ {0}) /\ gen'.pts_sorter \cap coming' = {}
       /\ \A t \in gen'.pts_sorter : t <= last'
  BY <1>2, <1>3, <1>5, <1>6, <1>17
<1>21. Known' \cup {first} = S \cup (coming' \cup {last'})
  BY <1>3, <1>9, <1>17 DEF Known
<1>22. \A t \in S \cup (coming' \cup {last'}) : first <= t
  <2>1. \A t \in coming' \cup {last'} : t > last /\ t \in Nat
    BY <1>2, <1>3, <1>6
  <2>2. \A t \in S : first <= t
    BY <1>9
  <2>3. first <= last /\ last \in Nat /\ first \in Nat
    BY <1>5, <1>8, <1>11
  <2>4. \A t \in coming' \cup {last'} : first <= t
    BY <2>1, <2>3
  <2> QED
    BY <2>2, <2>4, Zenon
<1>23. first \notin Known'
  BY <1>2, <1>5, <1>8, <1>11, <1>17 DEF Known
<1>24. \A t \in S \cup (coming' \cup {last'}) : t = last' \/ t + Frame \in S \cup (coming' \cup {last'})
  BY <1>2, <1>5
<1>25. Below(first, last', GroupSize' + Cardinality(coming') + 1)
  <2>1. GroupSize' + Cardinality(coming') + 1 = N + N
    BY <1>1, <1>2
  <2>2. (N + N) * Frame = far + far
    BY <1>1 DEF far
  <2>3. last' - (far + far) = last - far
    BY <1>3, <1>5, <1>8
  <2>4. last' - (GroupSize' + Cardinality(coming') + 1) * Frame = last - far
    BY <2>1, <2>2, <2>3, Zenon
  <2> QED
    BY <1>11, <2>4 DEF Below
<1>26. gen'.sorter_max_size = GroupSize' /\ GroupSize' \in Nat \ {0}
  BY <1>1, <1>17
<1>27. /\ gen'.offset = (GroupSize' * Frame) \div 2
       /\ Cardinality(gen'.pts_sorter) >= GroupSize'
  BY <1>9, <1>10, <1>17 DEF off, far
<1>28. gen'.last_dts = dts' /\ dts' \in 1 .. pts' /\ dts' = first + gen'.offset
  BY <1>3, <1>15, <1>16, <1>17
<1>29. IsFiniteSet(gen'.pts_sorter)
  BY <1>9, <1>17
<1> HIDE DEF S, N, d
<1>30. \A t \in Known' : first <= t
  BY <1>21, <1>22, Zenon
<1>31. \A t \in Known' \cup {first} : t = last' \/ t + Frame \in Known' \cup {first}
  BY <1>21, <1>24, Zenon
<1>32. Generating'
  BY <1>11, <1>16, <1>18, <1>20, <1>23, <1>25, <1>26, <1>27, <1>28, <1>29, <1>30, <1>31,
     Generated, Zenon
<1> QED
  BY <1>16, <1>19, <1>32

(* The time that leaves is at least two frames behind the next B frame, and *)
(* with four frames in a group the offset is two frames.                    *)
LEMMA GenerateB ==
  ASSUME MaxB <= 3, groups \in Seq(0 .. MaxB), groups # <<>>, Generating, BFrame
  PROVE  Generating' /\ Increases /\ CutUnreached
<1>1. PICK p \in coming : GenDts(p) /\ coming' = coming \ {p} /\ last' = last /\ groups' = groups
  BY DEF BFrame
<1>2. /\ GroupSize' = GroupSize /\ GroupSize \in 1 .. 4 /\ Frame \in Nat \ {0}
      /\ FramesInv /\ sure
  <2>1. GroupSize' = GroupSize /\ GroupSize \in 1 .. MaxB + 1
    BY <1>1, Sizes DEF GroupSize
  <2> QED
    BY <2>1, DtsAssumption DEF Generating
<1>3. /\ IsFiniteSet(coming') /\ Cardinality(coming') = Cardinality(coming) - 1
      /\ Cardinality(coming) \in Nat /\ Cardinality(coming') \in Nat
      /\ Cardinality(coming) < GroupSize
  <2>1. IsFiniteSet(coming)
    BY <1>2 DEF FramesInv
  <2>2. Cardinality(coming) \in Nat
    BY <2>1, FS_CardinalityType
  <2>3. IsFiniteSet(coming') /\ Cardinality(coming') = Cardinality(coming) - 1
    BY <1>1, <2>1, <2>2, OneLess
  <2> QED
    BY <1>2, <2>2, <2>3, FS_CardinalityType DEF FramesInv
<1>4. GroupSize \in 2 .. 4 /\ SorterInv
  <2>1. GroupSize \in 2 .. 4
    BY <1>2, <1>3
  <2> QED
    BY <2>1 DEF Generating
<1>5. /\ p \in Nat \ {0} /\ p < last /\ p # pts /\ p # gen.last_pts /\ gen \in Object
      /\ p \notin gen.pts_sorter /\ last \in Nat
      /\ gen.pts_sorter \in SUBSET (Nat \ {0}) /\ IsFiniteSet(gen.pts_sorter)
      /\ \A t \in gen.pts_sorter : t <= last
      /\ \A t \in Known : t = last \/ t + Frame \in Known
      /\ coming \in SUBSET (Nat \ {0}) /\ gen.pts_sorter \cap coming = {}
      /\ Known = gen.pts_sorter \cup coming
  BY <1>2, <1>4 DEF FramesInv, SorterInv, Known
<1> DEFINE N == GroupSize
           c == Cardinality(coming)
           far == N * Frame
           off == far \div 2
           S == gen.pts_sorter
           first == Smallest(S \cup {p})
<1>6. /\ far \in Nat /\ far >= Frame /\ off \in Nat /\ off <= Frame + Frame
      /\ \A t \in coming : last - far + Frame <= t
  <2>1. far = Frame + Frame \/ far = Frame + Frame + Frame \/ far = Frame + Frame + Frame + Frame
    BY <1>2, <1>4
  <2>2. (N - 1) * Frame = far - Frame
    BY <1>2, Product
  <2>3. \A t \in coming : last - (N - 1) * Frame <= t
    BY <1>2 DEF FramesInv
  <2> HIDE DEF far, N
  <2>4. \A t \in coming : last - (far - Frame) <= t /\ t \in Nat
    BY <1>5, <2>2, <2>3
  <2>5. far \in Nat /\ far >= Frame
    BY <1>2, <2>1
  <2>6. off \in Nat /\ off <= Frame + Frame
    BY <1>2, <2>1
  <2>7. \A t \in coming : last - far + Frame <= t
    BY <1>2, <1>5, <2>4, <2>5
  <2> QED
    BY <2>5, <2>6, <2>7
<1>7. /\ first \in S \cup {p} /\ \A u \in S \cup {p} : first <= u
      /\ Cardinality(S) \in Nat /\ Cardinality(S \cup {p}) = Cardinality(S) + 1
      /\ IsFiniteSet((S \cup {p}) \ {first})
      /\ Cardinality((S \cup {p}) \ {first}) = Cardinality(S)
  <2>1. p \in Nat \ {0} /\ S \in SUBSET (Nat \ {0}) /\ IsFiniteSet(S) /\ p \notin S
    BY <1>5
  <2> HIDE DEF S
  <2> QED
    BY <2>1, Leaves, Zenon
<1>8. Cardinality(S) >= N /\ gen.sorter_max_size = N /\ gen.offset = off
  BY <1>2, <1>4 DEF Generating
<1>9. /\ first \in S /\ first \in Nat \ {0} /\ first <= last - (N + c) * Frame
      /\ first <= last - far - Frame
  <2>1. PICK t \in S : t <= last - (N + c) * Frame
    BY <1>4 DEF Generating, Behind
  <2>2. (N + c) * Frame = far + c * Frame /\ c * Frame \in Int
    BY <1>2, <1>3
  <2>3. c * Frame >= Frame
    BY <1>3, Product
  <2>4. PICK extra \in Int : extra = c * Frame
    BY <2>2
  <2> HIDE DEF first, far, S, c, N
  <2>5. first <= t /\ t \in Nat /\ first \in Nat \ {0}
    BY <1>5, <1>7, <2>1 DEF S
  <2>6. first <= last - far - extra /\ extra >= Frame
    BY <1>5, <1>6, <2>1, <2>2, <2>3, <2>4, <2>5
  <2>7. first <= last - far - Frame
    BY <1>2, <1>5, <1>6, <2>5, <2>6
  <2>8. first # p
    BY <1>1, <1>2, <1>5, <1>6, <2>5, <2>7
  <2>9. first <= last - (N + c) * Frame
    BY <1>5, <1>6, <2>2, <2>4, <2>5, <2>6
  <2> QED
    BY <1>7, <2>5, <2>7, <2>8, <2>9
<1> DEFINE g == [gen EXCEPT !.pts_sorter = (S \cup {p}) \ {first}]
           d == first + off
<1> HIDE DEF first, off, far
<1>10. GenDts_l(gen, p) = <<TRUE, d, g>>
  <2>1. gen = IF gen.sorter_max_size = 0 THEN Counted(gen, p) ELSE gen
    BY <1>4, <1>8
  <2>2. gen.sorter_max_size > 0 /\ Cardinality(S \cup {p}) > gen.sorter_max_size /\ gen.sorter_max_size # 1
    BY <1>4, <1>7, <1>8
  <2>3. first = Smallest(gen.pts_sorter \cup {p})
    BY DEF first
  <2>4. GenDts_l(gen, p) = <<TRUE, first + gen.offset, [gen EXCEPT !.pts_sorter = (gen.pts_sorter \cup {p}) \ {first}]>>
    BY <1>5, <2>1, <2>2, <2>3, Answer
  <2> QED
    BY <1>8, <2>4
<1>11. g \in Object /\ d \in Nat /\ d <= p /\ d >= 1 /\ d > dts
  <2>1. g \in Object
    BY <1>5 DEF Object
  <2>2. first + off > dts
    BY <1>4, <1>5, <1>8, <1>9 DEF Generating
  <2>3. last - far + Frame <= p
    BY <1>1, <1>6
  <2> HIDE DEF S
  <2>4. d \in Nat /\ d <= p /\ d >= 1
    BY <1>2, <1>5, <1>6, <1>9, <2>3
  <2> QED
    BY <2>1, <2>2, <2>4
<1>12. pts' = p /\ sure' /\ dts' = d /\ CutUnreached /\ gen' = [g EXCEPT !.last_pts = p, !.last_dts = d]
  <2> HIDE DEF g, d
  <2>1. TRUE \in BOOLEAN /\ p \in Nat
    BY <1>5
  <2> QED
    BY <1>1, <1>5, <1>10, <1>11, <2>1, GenDtsSets, Zenon
<1>13. /\ gen' \in Object /\ gen'.last_pts = p /\ gen'.sorter_max_size = N /\ gen'.last_dts = d
       /\ gen'.offset = off /\ gen'.pts_sorter = (S \cup {p}) \ {first}
  <2> HIDE DEF d
  <2> QED
    BY <1>5, <1>8, <1>11, <1>12 DEF Object
<1>14. FramesInv'
  BY <1>1, <1>2, <1>3, <1>5, <1>12, <1>13 DEF FramesInv
<1>15. Increases
  BY <1>2, <1>5, <1>11, <1>12 DEF Increases
<1>16. /\ gen'.pts_sorter \in SUBSET (Nat \ {0}) /\ gen'.pts_sorter \cap coming' = {}
       /\ \A t \in gen'.pts_sorter : t <= last'
  BY <1>1, <1>5, <1>13
<1>17. first \notin coming
  BY <1>2, <1>5, <1>6, <1>9
<1>18. Known' = Known \ {first} /\ first \in Known
  BY <1>1, <1>5, <1>9, <1>13, <1>17 DEF Known
<1>19. \A t \in Known : first <= t
  <2>1. \A t \in coming : first <= t
    BY <1>2, <1>5, <1>6, <1>9
  <2>2. \A t \in S : first <= t
    BY <1>7
  <2> QED
    BY <1>5, <2>1, <2>2, Zenon
<1>20. Below(first, last', GroupSize' + Cardinality(coming') + 1)
  <2>1. GroupSize' + Cardinality(coming') + 1 = N + c
    BY <1>2, <1>3
  <2> QED
    BY <1>1, <1>9, <2>1, Zenon DEF Below
<1>21. gen'.sorter_max_size = GroupSize' /\ GroupSize' \in Nat \ {0}
  BY <1>2, <1>13
<1>22. /\ gen'.offset = (GroupSize' * Frame) \div 2
       /\ Cardinality(gen'.pts_sorter) >= GroupSize'
  BY <1>2, <1>7, <1>8, <1>13 DEF off, far
<1>23. gen'.last_dts = dts' /\ dts' \in 1 .. pts' /\ dts' = first + gen'.offset
  BY <1>5, <1>11, <1>12, <1>13
<1>24. IsFiniteSet(gen'.pts_sorter)
  BY <1>7, <1>13
<1>25. Known' \cup {first} = Known /\ first \notin Known' /\ \A t \in Known' : first <= t
  BY <1>18, <1>19, Zenon
<1>26. \A t \in Known' \cup {first} : t = last' \/ t + Frame \in Known' \cup {first}
  BY <1>1, <1>5, <1>25, Zenon
<1>27. Generating'
  <2> HIDE DEF S, N, d
  <2> QED
    BY <1>9, <1>12, <1>14, <1>16, <1>20, <1>21, <1>22, <1>23, <1>24, <1>25, <1>26,
       Generated, Zenon
<1> QED
  BY <1>12, <1>15, <1>27

(* Without B frames every time is the one shown.                            *)
LEMMA GenerateSingle ==
  ASSUME MaxB <= 3, groups \in Seq(0 .. MaxB), groups # <<>>, Generating, GroupSize = 1,
         NEW b \in 0 .. MaxB, PFrame(b), GroupSize' = GroupSize, GroupSize = b + 1
  PROVE  Generating' /\ Increases /\ CutUnreached
<1>1. Frame \in Nat \ {0} /\ FramesInv /\ sure /\ gen.sorter_max_size = 1 /\ dts \in 1 .. pts
  BY DtsAssumption DEF Generating
<1>2. /\ last' \in Nat /\ last' >= last + Frame
      /\ IsFiniteSet(coming') /\ Cardinality(coming') = GroupSize' - 1
      /\ coming' \in SUBSET (Nat \ {0}) /\ last' \notin coming'
      /\ \A t \in coming' : last' - (GroupSize' - 1) * Frame <= t /\ t < last' /\ t > last
      /\ GenDts(last')
  BY <1>1, Begins DEF FramesInv
<1>3. PICK p \in Nat : p = last'
  BY <1>2
<1>4. GenDts(p)
  BY <1>2, <1>3, Zenon
<1>5. gen \in Object /\ p # gen.last_pts /\ p > pts /\ pts \in Nat
  BY <1>1, <1>2, <1>3 DEF FramesInv
<1>6. GenDts_l(gen, p) = <<TRUE, p, gen>>
  BY <1>1, Zenon DEF GenDts_l
<1>7. pts' = p /\ sure' /\ dts' = p /\ CutUnreached /\ gen' = [gen EXCEPT !.last_pts = p, !.last_dts = p]
  <2>1. TRUE \in BOOLEAN /\ p <= p
    OBVIOUS
  <2> QED
    BY <1>4, <1>5, <1>6, <2>1, GenDtsSets, Zenon
<1>8. gen' \in Object /\ gen'.last_pts = p /\ gen'.sorter_max_size = 1 /\ gen'.last_dts = p
  BY <1>1, <1>5, <1>7 DEF Object
<1>9. FramesInv'
  BY <1>2, <1>3, <1>7, <1>8 DEF FramesInv
<1>10. Increases
  BY <1>1, <1>5, <1>7 DEF Increases
<1>11. dts' \in 1 .. pts'
  BY <1>1, <1>5, <1>7
<1> QED
  BY <1>7, <1>8, <1>9, <1>10, <1>11 DEF Generating

(* A P frame while times are generated.                                    *)
LEMMA GenerateP ==
  ASSUME MaxB <= 3, groups \in Seq(0 .. MaxB), groups # <<>>, Generating, GroupSize > 1,
         NEW b \in 0 .. MaxB, PFrame(b), GroupSize' = GroupSize, GroupSize = b + 1
  PROVE  Generating' /\ Increases /\ CutUnreached
<1>1. GroupSize \in Nat \ {0} /\ Frame \in Nat \ {0} /\ FramesInv /\ SorterInv /\ sure /\ coming = {}
  BY Sizes, DtsAssumption DEF Generating, PFrame
<1>2. /\ last' \in Nat /\ last' = last + GroupSize' * Frame /\ last' >= last + Frame
      /\ IsFiniteSet(coming') /\ Cardinality(coming') = GroupSize' - 1
      /\ coming' \in SUBSET (Nat \ {0}) /\ last' \notin coming' /\ last \notin coming'
      /\ \A t \in coming' : last' - (GroupSize' - 1) * Frame <= t /\ t < last' /\ t > last
      /\ \A t \in coming' \cup {last} : t + Frame \in coming' \cup {last'}
      /\ GenDts(last')
  BY <1>1, Begins DEF FramesInv
<1>3. PICK p \in Nat : p = last'
  BY <1>2
<1>4. GenDts(p)
  BY <1>2, <1>3, Zenon
<1>5. /\ last \in Nat /\ pts \in 0 .. last /\ gen \in Object /\ gen.last_pts = pts
      /\ gen.pts_sorter \in SUBSET (Nat \ {0}) /\ IsFiniteSet(gen.pts_sorter)
      /\ \A t \in gen.pts_sorter : t <= last
      /\ \A t \in gen.pts_sorter : t = last \/ t + Frame \in gen.pts_sorter
      /\ Known = gen.pts_sorter
  BY <1>1 DEF FramesInv, SorterInv, Known
<1>6. p > last /\ p # gen.last_pts /\ p \notin gen.pts_sorter /\ p # 0
  BY <1>1, <1>2, <1>3, <1>5
<1>7. Cardinality({}) = 0 /\ Cardinality(coming) = 0
  BY <1>1, FS_EmptySet, Zenon
<1> DEFINE N == GroupSize
           far == N * Frame
           off == far \div 2
           S == gen.pts_sorter
           first == Smallest(S \cup {p})
<1>8. far \in Nat /\ far >= Frame /\ off \in Nat /\ off <= far /\ p = last + far
  <2>1. far \in Int /\ far >= Frame
    BY <1>1, Product
  <2>2. p = last + far
    BY <1>2, <1>3
  <2> HIDE DEF far
  <2> QED
    BY <1>1, <2>1, <2>2
<1>9. /\ first \in S \cup {p} /\ \A u \in S \cup {p} : first <= u
      /\ Cardinality(S) \in Nat /\ Cardinality(S \cup {p}) = Cardinality(S) + 1
      /\ IsFiniteSet((S \cup {p}) \ {first})
      /\ Cardinality((S \cup {p}) \ {first}) = Cardinality(S)
  <2>1. p \in Nat \ {0} /\ S \in SUBSET (Nat \ {0}) /\ IsFiniteSet(S) /\ p \notin S
    BY <1>5, <1>6
  <2> HIDE DEF S
  <2> QED
    BY <2>1, Leaves, Zenon
<1>10. Cardinality(S) >= N /\ gen.sorter_max_size = N /\ gen.offset = off
  BY <1>1 DEF Generating
<1>11. first \in S /\ first \in Nat \ {0} /\ first <= last - far
  <2>1. PICK t \in S : t <= last - (N + Cardinality(coming)) * Frame
    BY <1>1 DEF Generating, Behind
  <2>2. N + Cardinality(coming) = N
    BY <1>1, <1>7
  <2>3. t \in S /\ t <= last - far
    BY <2>1, <2>2, Zenon
  <2> HIDE DEF first, S, far
  <2>4. first <= t
    BY <1>9, <2>3
  <2>5. first \in Nat \ {0} /\ t \in Nat
    BY <1>5, <1>6, <1>9, <2>3 DEF S
  <2>6. first <= last - far
    BY <1>5, <1>8, <2>3, <2>4, <2>5
  <2> QED
    BY <1>1, <1>5, <1>6, <1>8, <1>9, <2>5, <2>6
<1> DEFINE g == [gen EXCEPT !.pts_sorter = (S \cup {p}) \ {first}]
           d == first + off
<1> HIDE DEF first, off, far
<1>12. GenDts_l(gen, p) = <<TRUE, d, g>>
  <2>1. gen = IF gen.sorter_max_size = 0 THEN Counted(gen, p) ELSE gen
    BY <1>1, <1>10
  <2>2. gen.sorter_max_size > 0 /\ Cardinality(S \cup {p}) > gen.sorter_max_size /\ gen.sorter_max_size # 1
    BY <1>1, <1>9, <1>10
  <2>3. first = Smallest(gen.pts_sorter \cup {p})
    BY DEF first
  <2>4. GenDts_l(gen, p) = <<TRUE, first + gen.offset, [gen EXCEPT !.pts_sorter = (gen.pts_sorter \cup {p}) \ {first}]>>
    BY <1>5, <2>1, <2>2, <2>3, Answer
  <2> QED
    BY <1>10, <2>4
<1>13. g \in Object /\ d \in Nat /\ d <= p /\ d >= 1 /\ d > dts
  <2>1. g \in Object
    BY <1>5 DEF Object
  <2>3. first + off > dts
    BY <1>1, <1>5, <1>10, <1>11 DEF Generating
  <2> HIDE DEF S
  <2>2. d \in Nat /\ d <= p /\ d >= 1
    BY <1>5, <1>8, <1>11
  <2> QED
    BY <2>1, <2>2, <2>3
<1>14. pts' = p /\ sure' /\ dts' = d /\ CutUnreached /\ gen' = [g EXCEPT !.last_pts = p, !.last_dts = d]
  <2> HIDE DEF g, d
  <2>1. TRUE \in BOOLEAN /\ p \in Nat /\ p # gen.last_pts /\ gen \in Object
    BY <1>3, <1>5, <1>6
  <2>2. g \in Object /\ d \in Nat /\ d <= p
    BY <1>13
  <2> QED
    BY <1>4, <1>12, <2>1, <2>2, GenDtsSets, Zenon
<1>15. /\ gen' \in Object /\ gen'.last_pts = p /\ gen'.sorter_max_size = N /\ gen'.last_dts = d
       /\ gen'.offset = off /\ gen'.pts_sorter = (S \cup {p}) \ {first}
  <2> HIDE DEF d, N
  <2> QED
    BY <1>5, <1>10, <1>13, <1>14 DEF Object
<1>16. FramesInv'
  BY <1>1, <1>2, <1>3, <1>14, <1>15 DEF FramesInv
<1>17. Increases
  BY <1>1, <1>5, <1>6, <1>13, <1>14 DEF Increases
<1>18. /\ gen'.pts_sorter \in SUBSET (Nat \ {0}) /\ gen'.pts_sorter \cap coming' = {}
       /\ \A t \in gen'.pts_sorter : t <= last'
  BY <1>2, <1>3, <1>5, <1>6, <1>15
<1>19. Known' \cup {first} = S \cup (coming' \cup {last'})
  BY <1>3, <1>9, <1>15 DEF Known
<1>20. \A t \in S \cup (coming' \cup {last'}) : first <= t
  <2>1. \A t \in coming' \cup {last'} : t > last /\ t \in Nat
    BY <1>2, <1>3, <1>6
  <2>2. \A t \in S : first <= t
    BY <1>9
  <2>3. first <= last /\ last \in Nat /\ first \in Nat
    BY <1>5, <1>8, <1>11
  <2>4. \A t \in coming' \cup {last'} : first <= t
    BY <2>1, <2>3
  <2> QED
    BY <2>2, <2>4, Zenon
<1>21. first \notin Known'
  BY <1>2, <1>5, <1>8, <1>11, <1>15 DEF Known
<1>22. \A t \in S \cup (coming' \cup {last'}) : t = last' \/ t + Frame \in S \cup (coming' \cup {last'})
  BY <1>2, <1>5
<1>23. Below(first, last', GroupSize' + Cardinality(coming') + 1)
  <2>1. GroupSize' + Cardinality(coming') + 1 = N + N
    BY <1>1, <1>2
  <2>2. (N + N) * Frame = far + far
    BY <1>1 DEF far
  <2>3. last' - (far + far) = last - far
    BY <1>3, <1>5, <1>8
  <2>4. last' - (GroupSize' + Cardinality(coming') + 1) * Frame = last - far
    BY <2>1, <2>2, <2>3, Zenon
  <2> QED
    BY <1>11, <2>4 DEF Below
<1>24. gen'.sorter_max_size = GroupSize' /\ GroupSize' \in Nat \ {0}
  BY <1>1, <1>15
<1>25. /\ gen'.offset = (GroupSize' * Frame) \div 2
       /\ Cardinality(gen'.pts_sorter) >= GroupSize'
  BY <1>9, <1>10, <1>15 DEF off, far
<1>26. gen'.last_dts = dts' /\ dts' \in 1 .. pts' /\ dts' = first + gen'.offset
  BY <1>3, <1>13, <1>14, <1>15
<1>27. IsFiniteSet(gen'.pts_sorter)
  BY <1>9, <1>15
<1> HIDE DEF S, N, d
<1>28. \A t \in Known' : first <= t
  BY <1>19, <1>20, Zenon
<1>29. \A t \in Known' \cup {first} : t = last' \/ t + Frame \in Known' \cup {first}
  BY <1>19, <1>22, Zenon
<1>30. Generating'
  BY <1>11, <1>14, <1>16, <1>18, <1>21, <1>23, <1>24, <1>25, <1>26, <1>27, <1>28, <1>29,
     Generated, Zenon
<1> QED
  BY <1>14, <1>17, <1>30


-----------------------------------------------------------------------------

LEMMA DtsStep ==
  ASSUME MaxB <= 3, DtsInv, DtsNext
  PROVE  DtsInv' /\ (Regular' => Increases /\ CutUnreached)
<1>1. ASSUME NEW p \in Starts, FirstFrame(p)
      PROVE  DtsInv' /\ (Regular' => Increases /\ CutUnreached)
  <2>1. groups' = groups /\ pts = -1
    BY <1>1 DEF FirstFrame
  <2>2. ASSUME Regular PROVE NoFrame
    BY <2>1, <2>2 DEF DtsInv, OneFrame, Counting, Generating, FramesInv
  <2>3. Regular' => Regular
    BY <2>1 DEF Regular
  <2>4. groups' \in Seq(0 .. MaxB)
    BY <2>1 DEF DtsInv
  <2>5. ASSUME Regular' PROVE OneFrame' /\ Increases /\ CutUnreached
    BY <1>1, <2>2, <2>3, <2>5, FirstCall
  <2> QED
    BY <2>4, <2>5 DEF DtsInv
<1>2. ASSUME NEW b \in 0 .. MaxB, PFrame(b)
      PROVE  DtsInv' /\ (Regular' => Increases /\ CutUnreached)
  <2>1. groups' = Append(groups, b) /\ pts # -1 /\ groups \in Seq(0 .. MaxB)
    BY <1>2 DEF PFrame, DtsInv
  <2>2. groups' \in Seq(0 .. MaxB) /\ groups' # <<>>
    BY <2>1
  <2>3. ASSUME Regular'
        PROVE  /\ Regular /\ GroupSize' = b + 1
               /\ groups # <<>> => GroupSize' = GroupSize
    <3>1. \A i \in DOMAIN groups : i \in DOMAIN groups' /\ groups'[i] = groups[i]
      BY <2>1
    <3>2. Regular
      BY <2>3, <3>1 DEF Regular
    <3>3. Len(groups) + 1 \in DOMAIN groups' /\ groups'[Len(groups) + 1] = b /\ 1 \in DOMAIN groups'
      BY <2>1
    <3>4. groups'[1] = b
      BY <2>3, <3>3 DEF Regular
    <3>5. groups # <<>> => groups[1] = groups'[1]
      BY <2>1
    <3> QED
      BY <3>2, <3>4, <3>5 DEF GroupSize
  <2>4. ASSUME Regular'
        PROVE  (Counting' \/ Generating') /\ Increases /\ CutUnreached
    <3>1. OneFrame \/ (groups # <<>> /\ (Counting \/ Generating))
      BY <2>1, <2>3, <2>4 DEF DtsInv, NoFrame
    <3>2. CASE OneFrame
      BY <1>2, <3>2, FirstGroup
    <3>3. CASE groups # <<>> /\ Counting
      <4>1. GroupSize' = GroupSize /\ GroupSize = b + 1
        BY <2>3, <2>4, <3>3
      <4>2. gen.count = 0 \/ gen.count = 1
        BY <3>3 DEF Counting
      <4> QED
        BY <1>2, <2>1, <3>3, <4>1, <4>2, CountP, CountLast
    <3>4. CASE groups # <<>> /\ Generating
      <4>1. GroupSize' = GroupSize /\ GroupSize = b + 1
        BY <2>3, <2>4, <3>4
      <4>2. GroupSize = 1 \/ GroupSize > 1
        BY <4>1
      <4> QED
        BY <1>2, <2>1, <3>4, <4>1, <4>2, GenerateSingle, GenerateP
    <3> QED
      BY <3>1, <3>2, <3>3, <3>4
  <2> QED
    BY <2>2, <2>4 DEF DtsInv
<1>3. ASSUME BFrame
      PROVE  DtsInv' /\ (Regular' => Increases /\ CutUnreached)
  <2>1. groups' = groups /\ groups \in Seq(0 .. MaxB) /\ coming # {}
    BY <1>3 DEF BFrame, DtsInv
  <2>2. Regular' => Regular
    BY <2>1 DEF Regular
  <2>3. ASSUME Regular'
        PROVE  groups # <<>> /\ (Counting' \/ Generating') /\ Increases /\ CutUnreached
    <3>1. groups # <<>> /\ (Counting \/ Generating)
      BY <2>1, <2>2, <2>3 DEF DtsInv, NoFrame, OneFrame
    <3> QED
      BY <1>3, <2>1, <3>1, CountB, GenerateB
  <2> QED
    BY <2>1, <2>3 DEF DtsInv
<1>4. ASSUME SamePts
      PROVE  DtsInv' /\ (Regular' => Increases /\ CutUnreached)
  <2>1. groups' = groups /\ groups \in Seq(0 .. MaxB) /\ pts # -1
    BY <1>4 DEF SamePts, DtsInv
  <2>2. Regular' => Regular
    BY <2>1 DEF Regular
  <2>3. ASSUME Regular'
        PROVE  /\ OneFrame' \/ (groups # <<>> /\ (Counting' \/ Generating'))
               /\ Increases /\ CutUnreached
    <3>1. OneFrame \/ (groups # <<>> /\ (Counting \/ Generating))
      BY <2>1, <2>2, <2>3 DEF DtsInv, NoFrame
    <3> QED
      BY <1>4, <3>1, SamePtsCall
  <2> QED
    BY <2>1, <2>3 DEF DtsInv
<1> QED
  BY <1>1, <1>2, <1>3, <1>4 DEF DtsNext

LEMMA DtsStutters ==
  ASSUME DtsInv, UNCHANGED dtsVars
  PROVE  DtsInv'
  BY DEF DtsInv, dtsVars, Regular, NoFrame, OneFrame, Counting, Generating, FramesInv,
         SorterInv, Known, Behind, GroupSize

(* With groups of at most three B frames, alike in number, decoding times   *)
(* increase and none is cut: for any time between two frames, in any order  *)
(* of the B frames of a group and with any repetition.                      *)
THEOREM DtsAlwaysIncreases ==
  ASSUME MaxB <= 3
  PROVE  DtsSpec => DtsIncreases
<1>1. DtsInit => DtsInv
  BY DEF DtsInit, DtsInv, NoFrame
<1>2. DtsInv /\ [DtsNext]_dtsVars => DtsInv'
  BY DtsStep, DtsStutters
<1>3. DtsInv /\ [DtsNext]_dtsVars => [Regular' => Increases /\ CutUnreached]_dtsVars
  BY DtsStep
<1> QED
  BY <1>1, <1>2, <1>3, PTL DEF DtsSpec, DtsIncreases

-----------------------------------------------------------------------------
(* NalScan: the scanners. *)

CodeAt(b, p) == b[p] = 0 /\ b[p + 1] = 0 /\ b[p + 2] = 1
CodesOf(b) == {p \in 1 .. Len(b) - 2 : CodeAt(b, p)}

(* r is the first code from p on, or null. *)
IsFirst(b, p, r) ==
  IF \A q \in CodesOf(b) : q < p THEN r = 0
  ELSE r \in CodesOf(b) /\ r >= p /\ \A q \in CodesOf(b) : q >= p => r <= q

(* What a scanner may do at p: stop at a code and only there, jump over none. *)
JumpFits(b, p, j) ==
  /\ j \in 0 .. 3 /\ (j = 0 <=> p \in CodesOf(b))
  /\ \A q \in CodesOf(b) : q < p \/ q >= p + j

LEMMA ScanStep ==
  ASSUME NEW S, NEW b \in Seq(S), NEW p \in 1 .. Len(b) - 2, NEW j,
         JumpFits(b, p, j), NEW r
  PROVE  /\ j = 0 => (IsFirst(b, p, r) <=> r = p)
         /\ j # 0 => (IsFirst(b, p, r) <=> IsFirst(b, p + j, r))
<1>1. \A q \in CodesOf(b) : q \in Nat
  BY DEF CodesOf
<1>2. Len(b) \in Nat
  OBVIOUS
<1>3. CASE j = 0
  BY <1>1, <1>2, <1>3 DEF JumpFits, IsFirst
<1>4. CASE j # 0
  BY <1>1, <1>2, <1>4 DEF JumpFits, IsFirst
<1> QED BY <1>3, <1>4

LEMMA ScanBehind ==
  ASSUME NEW S, NEW b \in Seq(S), NEW p \in Nat, p + 2 > Len(b), NEW r
  PROVE  IsFirst(b, p, r) <=> r = 0
  BY DEF IsFirst, CodesOf

(* J is where a scanner goes on from p. *)
Halts(b, J) == {p \in 1 .. Len(b) + 3 : p + 2 > Len(b) \/ J[p] = p}
Halted(b) == [p \in 1 .. Len(b) + 3 |-> IF p + 2 > Len(b) THEN 0 ELSE p]

LEMMA ScanFinds ==
  ASSUME NEW S, NEW b \in Seq(S), NEW J, \A p \in 1 .. Len(b) - 2 : JumpFits(b, p, J[p] - p) /\ J[p] \in Nat
  PROVE  /\ \E h : Searches(h, Len(b) + 3, Halts(b, J), Halted(b), J)
         /\ \A h : Searches(h, Len(b) + 3, Halts(b, J), Halted(b), J) => IsFirst(b, 1, h[1])
<1> DEFINE n == Len(b) + 3
           R == [p \in 1 .. n |-> {r \in Nat : IsFirst(b, p, r)}]
<1>1. Len(b) \in Nat /\ n \in Nat
  OBVIOUS
<1>2. ASSUME NEW p \in 1 .. n, p \in Halts(b, J) PROVE Halted(b)[p] \in R[p]
  <2>1. CASE p + 2 > Len(b)
    BY <2>1, <1>1, ScanBehind DEF Halted
  <2>2. CASE ~ (p + 2 > Len(b))
    <3>1. p \in 1 .. Len(b) - 2 /\ JumpFits(b, p, J[p] - p) /\ J[p] - p = 0 /\ Halted(b)[p] = p
      BY <2>2, <1>1, <1>2 DEF Halts, Halted
    <3> QED
      BY <3>1, ScanStep
  <2> QED BY <2>1, <2>2
<1>3. ASSUME NEW p \in 1 .. n, p \notin Halts(b, J)
      PROVE  J[p] \in p + 1 .. n /\ R[J[p]] \subseteq R[p]
  <2>1. p \in 1 .. Len(b) - 2 /\ J[p] # p
    BY <1>1, <1>3 DEF Halts
  <2>2. JumpFits(b, p, J[p] - p) /\ J[p] - p # 0 /\ p + (J[p] - p) = J[p]
    BY <2>1
  <2>3. J[p] \in p + 1 .. n
    BY <1>1, <2>1, <2>2 DEF JumpFits
  <2>4. \A r : IsFirst(b, J[p], r) => IsFirst(b, p, r)
    BY <2>1, <2>2, ScanStep
  <2> QED
    BY <2>3, <2>4
<1>4. \E h : Searches(h, n, Halts(b, J), Halted(b), J)
  <2> HIDE DEF n
  <2> QED BY <1>1, <1>3, SearchExists
<1>5. ASSUME NEW h, Searches(h, n, Halts(b, J), Halted(b), J) PROVE IsFirst(b, 1, h[1])
  <2>1. \A p \in 1 .. n : h[p] \in R[p]
    <3> HIDE DEF n, R
    <3> QED BY <1>1, <1>2, <1>3, <1>5, SearchKeeps
  <2>2. 1 \in 1 .. n
    BY <1>1
  <2> QED BY <2>1, <2>2
<1> QED BY <1>4, <1>5

LEMMA SubSeqCode ==
  ASSUME NEW b \in Seq(Nat), NEW p \in 1 .. Len(b) - 2
  PROVE  SubSeq(b, p, p + 2) = <<0, 0, 1>> <=> CodeAt(b, p)
<1> DEFINE s == SubSeq(b, p, p + 2)
<1>1. /\ s \in Seq(Nat) /\ Len(s) = 3
      /\ s[1] = b[p] /\ s[2] = b[p + 1] /\ s[3] = b[p + 2]
  <2>1. Len(b) \in Nat /\ p + 2 \in 1 .. Len(b) /\ p \in 1 .. Len(b) /\ (p + 2) - p + 1 = 3
    OBVIOUS
  <2>2. s \in Seq(Nat) /\ Len(s) = 3
    BY <2>1
  <2>3. \A i \in 1 .. 3 : s[i] = b[i + p - 1]
    BY <2>1
  <2>4. 1 + p - 1 = p /\ 2 + p - 1 = p + 1 /\ 3 + p - 1 = p + 2
    OBVIOUS
  <2> HIDE DEF s
  <2> QED BY <2>2, <2>3, <2>4
<1>2. /\ <<0, 0, 1>> \in Seq(Nat) /\ Len(<<0, 0, 1>>) = 3
      /\ <<0, 0, 1>>[1] = 0 /\ <<0, 0, 1>>[2] = 0 /\ <<0, 0, 1>>[3] = 1
  OBVIOUS
<1>3. ASSUME CodeAt(b, p) PROVE s = <<0, 0, 1>>
  <2> DEFINE t == <<0, 0, 1>>
  <2> HIDE DEF s
  <2>0. s[1] = t[1] /\ s[2] = t[2] /\ s[3] = t[3]
    BY <1>1, <1>2, <1>3 DEF CodeAt
  <2>1. s \in Seq(Nat) /\ t \in Seq(Nat) /\ Len(s) = 3 /\ Len(t) = 3
    BY <1>1, <1>2
  <2> HIDE DEF t
  <2>2. Len(s) = Len(t) /\ \A i \in 1 .. Len(s) : s[i] = t[i]
    BY <2>0, <2>1
  <2>3. s = t
    BY <2>1, <2>2, SameElements
  <2> QED BY <2>3 DEF t
<1>4. ASSUME s = <<0, 0, 1>> PROVE CodeAt(b, p)
  BY <1>1, <1>2, <1>4 DEF CodeAt
<1> QED BY <1>3, <1>4

LEMMA BytesAt ==
  ASSUME NEW b \in Seq(Nat), NEW p \in 1 .. Len(b) - 2
  PROVE  /\ b[p] \in Nat /\ b[p + 1] \in Nat /\ b[p + 2] \in Nat /\ Len(b) \in Nat
         /\ p \in CodesOf(b) <=> b[p] = 0 /\ b[p + 1] = 0 /\ b[p + 2] = 1
         /\ \A q \in CodesOf(b) : q \in Nat /\ b[q] = 0 /\ b[q + 1] = 0 /\ b[q + 2] = 1
         /\ (p + 1) + 1 = p + 2
  BY DEF CodesOf, CodeAt

LEMMA MemcmpFits ==
  ASSUME NEW b \in Seq(Nat), NEW p \in 1 .. Len(b) - 2
  PROVE  JumpFits(b, p, memcmp_jump(b, p))
<1>1. p \in CodesOf(b) <=> SubSeq(b, p, p + 2) = <<0, 0, 1>>
  BY SubSeqCode DEF CodesOf
<1>2. \A q \in CodesOf(b) : q \in Nat
  BY BytesAt
<1> QED BY <1>1, <1>2 DEF JumpFits, memcmp_jump

LEMMA SeqFits ==
  ASSUME NEW b \in Seq(Nat), NEW p \in 1 .. Len(b) - 2
  PROVE  JumpFits(b, p, seq_jump(b, p))
<1> DEFINE j == seq_jump(b, p)
<1>0. /\ b[p] \in Nat /\ b[p + 1] \in Nat /\ b[p + 2] \in Nat
      /\ p \in CodesOf(b) <=> b[p] = 0 /\ b[p + 1] = 0 /\ b[p + 2] = 1
  BY BytesAt
<1>1. j \in 0 .. 3 /\ (j = 0 <=> p \in CodesOf(b))
  <2>1. CASE b[p] # 0 \/ b[p + 1] # 0
    <3>1. p \notin CodesOf(b)
      BY <1>0, <2>1
    <3>2. j \in 1 .. 2
      BY <2>1 DEF seq_jump
    <3> QED
      BY <3>1, <3>2
  <2>2. CASE b[p] = 0 /\ b[p + 1] = 0
    <3>1. p \in CodesOf(b) <=> b[p + 2] = 1
      BY <1>0, <2>2
    <3>2. j = CASE b[p + 2] > 1 -> 3 [] b[p + 2] = 0 -> 1 [] OTHER -> 0
      BY <2>2 DEF seq_jump
    <3> HIDE DEF j
    <3>3. CASE b[p + 2] > 1
      <4>1. j = 3
        BY <3>2, <3>3
      <4> QED
        BY <3>1, <3>3, <4>1
    <3>4. CASE b[p + 2] = 0
      <4>1. j = 1
        BY <3>2, <3>4
      <4> QED
        BY <3>1, <3>4, <4>1
    <3>5. CASE b[p + 2] = 1
      <4>1. j = 0
        BY <3>2, <3>5
      <4> QED
        BY <3>1, <3>5, <4>1
    <3> QED
      BY <1>0, <3>3, <3>4, <3>5
  <2> QED
    BY <2>1, <2>2
<1>2. ASSUME NEW q \in CodesOf(b), p <= q, q < p + j PROVE FALSE
  <2>1. q \in Nat /\ (q = p \/ q = p + 1 \/ q = p + 2)
    BY <1>1, <1>2, BytesAt
  <2>2. b[q] = 0 /\ b[q + 1] = 0 /\ b[q + 2] = 1 /\ (p + 1) + 1 = p + 2
    BY BytesAt
  <2>3. CASE q = p
    <3>1. j = 0
      BY <2>3, <1>1
    <3> HIDE DEF j
    <3> QED BY <3>1, <2>3, <1>2
  <2>4. CASE q = p + 1
    BY <2>2, <2>4, <1>0, <1>2 DEF seq_jump
  <2>5. CASE q = p + 2
    <3>1. b[p + 2] = 0
      BY <2>2, <2>5
    <3> QED BY <3>1, <2>5, <1>0, <1>2 DEF seq_jump
  <2> QED BY <2>1, <2>3, <2>4, <2>5
<1>3. \A q \in CodesOf(b) : q \in Nat
  BY BytesAt
<1> HIDE DEF j
<1>4. JumpFits(b, p, j)
  BY <1>1, <1>2, <1>3 DEF JumpFits
<1> QED BY <1>4 DEF j

LEMMA SbmFits ==
  ASSUME NEW b \in Seq(Nat), NEW p \in 1 .. Len(b) - 2
  PROVE  JumpFits(b, p, sbm_jump(b, p))
<1> DEFINE j == sbm_jump(b, p)
<1>0. /\ b[p] \in Nat /\ b[p + 1] \in Nat /\ b[p + 2] \in Nat
      /\ p \in CodesOf(b) <=> b[p] = 0 /\ b[p + 1] = 0 /\ b[p + 2] = 1
  BY BytesAt
<1>1. j \in 0 .. 3 /\ (j = 0 <=> p \in CodesOf(b))
  BY <1>0 DEF sbm_jump
<1>2. ASSUME NEW q \in CodesOf(b), p <= q, q < p + j PROVE FALSE
  <2>1. q \in Nat /\ (q = p \/ q = p + 1 \/ q = p + 2)
    BY <1>1, <1>2, BytesAt
  <2>2. b[q] = 0 /\ b[q + 1] = 0 /\ b[q + 2] = 1 /\ (p + 1) + 1 = p + 2
    BY BytesAt
  <2>3. CASE q = p
    <3>1. j = 0
      BY <2>3, <1>1
    <3> HIDE DEF j
    <3> QED BY <3>1, <2>3, <1>2
  <2>4. CASE q = p + 1
    BY <2>2, <2>4, <1>0, <1>2 DEF sbm_jump
  <2>5. CASE q = p + 2
    <3>1. b[p + 2] = 0
      BY <2>2, <2>5
    <3> QED BY <3>1, <2>5, <1>0, <1>2 DEF sbm_jump
  <2> QED BY <2>1, <2>3, <2>4, <2>5
<1>3. \A q \in CodesOf(b) : q \in Nat
  BY BytesAt
<1> HIDE DEF j
<1>4. JumpFits(b, p, j)
  BY <1>1, <1>2, <1>3 DEF JumpFits
<1> QED BY <1>4 DEF j

LEMMA MemcmpFinds ==
  ASSUME NEW b \in Seq(Nat)
  PROVE  IsFirst(b, 1, find_start_memcmp(b))
<1> DEFINE J == [p \in 1 .. Len(b) - 2 |-> p + memcmp_jump(b, p)]
           Body(h) == [p \in 1 .. Len(b) + 3 |->
              IF p + 2 > Len(b) THEN 0
              ELSE IF memcmp_jump(b, p) = 0 THEN p ELSE h[p + memcmp_jump(b, p)]]
           c == CHOOSE h : h = Body(h)
<1>1. ASSUME NEW p \in 1 .. Len(b) - 2
      PROVE  /\ JumpFits(b, p, J[p] - p) /\ J[p] \in Nat
             /\ J[p] = p + memcmp_jump(b, p) /\ (J[p] = p <=> memcmp_jump(b, p) = 0)
  <2>1. JumpFits(b, p, memcmp_jump(b, p))
    BY MemcmpFits
  <2> DEFINE j == memcmp_jump(b, p)
  <2>2. j \in Nat
    BY <2>1 DEF JumpFits
  <2>3. J[p] = p + j
    OBVIOUS
  <2> HIDE DEF J, j
  <2>4. J[p] - p = j
    BY <2>2, <2>3
  <2> QED BY <2>1, <2>2, <2>3, <2>4 DEF j
<1>2. ASSUME NEW h
      PROVE  Searches(h, Len(b) + 3, Halts(b, J), Halted(b), J) <=> h = Body(h)
  <2> DEFINE One(p) == IF p \in Halts(b, J) THEN Halted(b)[p] ELSE h[J[p]]
             Other(p) == IF p + 2 > Len(b) THEN 0
                         ELSE IF memcmp_jump(b, p) = 0 THEN p ELSE h[p + memcmp_jump(b, p)]
  <2>1. ASSUME NEW p \in 1 .. Len(b) + 3 PROVE One(p) = Other(p)
    <3>1. p + 2 > Len(b) \/ p \in 1 .. Len(b) - 2
      BY Len(b) \in Nat
    <3> HIDE DEF J
    <3> QED BY <3>1, <1>1 DEF Halts, Halted
  <2>2. [p \in 1 .. Len(b) + 3 |-> One(p)] = [p \in 1 .. Len(b) + 3 |-> Other(p)]
    <3> HIDE DEF One, Other
    <3> QED BY <2>1
  <2> QED BY <2>2 DEF Searches
<1>3. find_start_memcmp(b) = c[1]
  BY DEF find_start_memcmp, Scan
<1> HIDE DEF J, Body
<1>4. c = Body(c)
  BY <1>1, <1>2, ScanFinds
<1> HIDE DEF c
<1>5. IsFirst(b, 1, c[1])
  BY <1>1, <1>2, <1>4, ScanFinds
<1> QED BY <1>3, <1>5

LEMMA SeqFinds ==
  ASSUME NEW b \in Seq(Nat)
  PROVE  IsFirst(b, 1, find_start_seq(b))
<1> DEFINE J == [p \in 1 .. Len(b) - 2 |-> p + seq_jump(b, p)]
           Body(h) == [p \in 1 .. Len(b) + 3 |->
              IF p + 2 > Len(b) THEN 0
              ELSE IF seq_jump(b, p) = 0 THEN p ELSE h[p + seq_jump(b, p)]]
           c == CHOOSE h : h = Body(h)
<1>1. ASSUME NEW p \in 1 .. Len(b) - 2
      PROVE  /\ JumpFits(b, p, J[p] - p) /\ J[p] \in Nat
             /\ J[p] = p + seq_jump(b, p) /\ (J[p] = p <=> seq_jump(b, p) = 0)
  <2>1. JumpFits(b, p, seq_jump(b, p))
    BY SeqFits
  <2> DEFINE j == seq_jump(b, p)
  <2>2. j \in Nat
    BY <2>1 DEF JumpFits
  <2>3. J[p] = p + j
    OBVIOUS
  <2> HIDE DEF J, j
  <2>4. J[p] - p = j
    BY <2>2, <2>3
  <2> QED BY <2>1, <2>2, <2>3, <2>4 DEF j
<1>2. ASSUME NEW h
      PROVE  Searches(h, Len(b) + 3, Halts(b, J), Halted(b), J) <=> h = Body(h)
  <2> DEFINE One(p) == IF p \in Halts(b, J) THEN Halted(b)[p] ELSE h[J[p]]
             Other(p) == IF p + 2 > Len(b) THEN 0
                         ELSE IF seq_jump(b, p) = 0 THEN p ELSE h[p + seq_jump(b, p)]
  <2>1. ASSUME NEW p \in 1 .. Len(b) + 3 PROVE One(p) = Other(p)
    <3>1. p + 2 > Len(b) \/ p \in 1 .. Len(b) - 2
      BY Len(b) \in Nat
    <3> HIDE DEF J
    <3> QED BY <3>1, <1>1 DEF Halts, Halted
  <2>2. [p \in 1 .. Len(b) + 3 |-> One(p)] = [p \in 1 .. Len(b) + 3 |-> Other(p)]
    <3> HIDE DEF One, Other
    <3> QED BY <2>1
  <2> QED BY <2>2 DEF Searches
<1>3. find_start_seq(b) = c[1]
  BY DEF find_start_seq, Scan
<1> HIDE DEF J, Body
<1>4. c = Body(c)
  BY <1>1, <1>2, ScanFinds
<1> HIDE DEF c
<1>5. IsFirst(b, 1, c[1])
  BY <1>1, <1>2, <1>4, ScanFinds
<1> QED BY <1>3, <1>5

LEMMA SbmFinds ==
  ASSUME NEW b \in Seq(Nat)
  PROVE  IsFirst(b, 1, find_start_sbm(b))
<1> DEFINE J == [p \in 1 .. Len(b) - 2 |-> p + sbm_jump(b, p)]
           Body(h) == [p \in 1 .. Len(b) + 3 |->
              IF p + 2 > Len(b) THEN 0
              ELSE IF sbm_jump(b, p) = 0 THEN p ELSE h[p + sbm_jump(b, p)]]
           c == CHOOSE h : h = Body(h)
<1>1. ASSUME NEW p \in 1 .. Len(b) - 2
      PROVE  /\ JumpFits(b, p, J[p] - p) /\ J[p] \in Nat
             /\ J[p] = p + sbm_jump(b, p) /\ (J[p] = p <=> sbm_jump(b, p) = 0)
  <2>1. JumpFits(b, p, sbm_jump(b, p))
    BY SbmFits
  <2> DEFINE j == sbm_jump(b, p)
  <2>2. j \in Nat
    BY <2>1 DEF JumpFits
  <2>3. J[p] = p + j
    OBVIOUS
  <2> HIDE DEF J, j
  <2>4. J[p] - p = j
    BY <2>2, <2>3
  <2> QED BY <2>1, <2>2, <2>3, <2>4 DEF j
<1>2. ASSUME NEW h
      PROVE  Searches(h, Len(b) + 3, Halts(b, J), Halted(b), J) <=> h = Body(h)
  <2> DEFINE One(p) == IF p \in Halts(b, J) THEN Halted(b)[p] ELSE h[J[p]]
             Other(p) == IF p + 2 > Len(b) THEN 0
                         ELSE IF sbm_jump(b, p) = 0 THEN p ELSE h[p + sbm_jump(b, p)]
  <2>1. ASSUME NEW p \in 1 .. Len(b) + 3 PROVE One(p) = Other(p)
    <3>1. p + 2 > Len(b) \/ p \in 1 .. Len(b) - 2
      BY Len(b) \in Nat
    <3> HIDE DEF J
    <3> QED BY <3>1, <1>1 DEF Halts, Halted
  <2>2. [p \in 1 .. Len(b) + 3 |-> One(p)] = [p \in 1 .. Len(b) + 3 |-> Other(p)]
    <3> HIDE DEF One, Other
    <3> QED BY <2>1
  <2> QED BY <2>2 DEF Searches
<1>3. find_start_sbm(b) = c[1]
  BY DEF find_start_sbm, Scan
<1> HIDE DEF J, Body
<1>4. c = Body(c)
  BY <1>1, <1>2, ScanFinds
<1> HIDE DEF c
<1>5. IsFirst(b, 1, c[1])
  BY <1>1, <1>2, <1>4, ScanFinds
<1> QED BY <1>3, <1>5

(* In every buffer the three scanners find the first start code.            *)
THEOREM ScannersAgree ==
  ASSUME bytes \in Seq(Nat)
  PROVE  ScannersFindFirst
<1>1. Codes = CodesOf(bytes)
  BY SubSeqCode DEF Codes, CodesOf
<1>2. ASSUME NEW p, IsFirst(bytes, 1, p)
      PROVE  IF Codes = {} THEN p = 0 ELSE p \in Codes /\ \A q \in Codes : p <= q
  <2>1. \A q \in CodesOf(bytes) : q \in Nat /\ q >= 1
    BY DEF CodesOf
  <2>2. CASE Codes = {}
    BY <1>1, <1>2, <2>2 DEF IsFirst
  <2>3. CASE Codes # {}
    <3>1. ~ \A q \in CodesOf(bytes) : q < 1
      BY <1>1, <2>1, <2>3
    <3> QED
      BY <1>1, <1>2, <2>1, <2>3, <3>1 DEF IsFirst
  <2> QED BY <2>2, <2>3
<1> QED BY <1>2, MemcmpFinds, SeqFinds, SbmFinds DEF ScannersFindFirst

-----------------------------------------------------------------------------
(* Units *)

(* Where the code at c begins when nothing before the index from is looked at. *)
From(b, from, c) == IF c > from /\ b[c - 1] = 0 THEN c - 1 ELSE c

LEMMA CodesApart ==
  ASSUME NEW b \in Seq(Nat), NEW c \in CodesOf(b), NEW d \in CodesOf(b), d > c
  PROVE  d >= c + 3
<1>1. c \in Nat /\ d \in Nat /\ b[c + 2] = 1 /\ b[d] = 0 /\ b[d + 1] = 0
  BY DEF CodesOf, CodeAt
<1>2. d # c + 1
  BY <1>1
<1>3. d # c + 2
  BY <1>1
<1> QED BY <1>1, <1>2, <1>3

LEMMA NotInside ==
  ASSUME NEW b \in Seq(Nat), NEW from \in Nat \ {0}, NEW c \in CodesOf(b), c >= from
  PROVE  /\ From(b, from, c) \in Nat /\ From(b, from, c) <= c /\ From(b, from, c) >= c - 1
         /\ From(b, from, c) >= from
         /\ From(b, from, c) >= 1
         /\ \A q \in CodesOf(b) : q >= From(b, from, c) <=> q >= c
<1>1. \A q \in CodesOf(b) : q \in 1 .. Len(b) - 2 /\ b[q] = 0 /\ b[q + 1] = 0 /\ b[q + 2] = 1
  BY DEF CodesOf, CodeAt
<1>2. c \in Nat /\ c - 1 \notin CodesOf(b)
  <2>1. c \in Nat /\ c > c - 1 /\ ~ (c >= (c - 1) + 3)
    BY <1>1
  <2> QED BY <2>1, CodesApart
<1>3. From(b, from, c) \in {c, c - 1} /\ (From(b, from, c) = c - 1 => c > from)
  BY <1>2 DEF From
<1>5. CASE From(b, from, c) = c
  BY <1>1, <1>5
<1>6. CASE From(b, from, c) = c - 1
  <2>1. c > from
    BY <1>3, <1>6, <1>1
  <2>2. \A q \in CodesOf(b) : q \in Nat /\ q # c - 1
    BY <1>1, <1>2
  <2> QED BY <1>2, <1>6, <2>1, <2>2
<1> QED BY <1>3, <1>5, <1>6

LEMMA NextStart ==
  ASSUME NEW b \in Seq(Nat), NEW p, IsFirst(b, 1, p)
  PROVE  LET n == find_next_nalu_start(b)
         IN  /\ n.prefix \in Nat
             /\ p = 0 => n.found = 0
             /\ p # 0 => /\ p \in CodesOf(b) /\ n.found = From(b, 1, p)
                         /\ n.found + n.prefix = p + 3
<1> DEFINE q == find_start_sbm(b)
<1>1. IsFirst(b, 1, q)
  BY SbmFinds
<1>2. q = p
  <2> HIDE DEF q
  <2>1. \A r \in CodesOf(b) : r \in Nat
    BY DEF CodesOf
  <2> QED BY <1>1, <2>1 DEF IsFirst
<1>3. find_next_nalu_start(b) =
        IF q > 1 /\ b[q - 1] = 0 THEN [found |-> q - 1, prefix |-> 4]
                                 ELSE [found |-> q, prefix |-> 3]
  BY DEF find_next_nalu_start
<1>4. CASE p = 0
  <2>1. find_next_nalu_start(b) = [found |-> 0, prefix |-> 3]
    BY <1>2, <1>3, <1>4
  <2> QED BY <2>1, <1>4
<1>5. CASE p # 0
  <2>1. p \in CodesOf(b) /\ p \in Nat
    BY <1>5 DEF IsFirst, CodesOf
  <2>2. CASE p > 1 /\ b[p - 1] = 0
    <3>1. find_next_nalu_start(b) = [found |-> p - 1, prefix |-> 4] /\ From(b, 1, p) = p - 1
      BY <1>2, <1>3, <2>2 DEF From
    <3> QED BY <3>1, <2>1, <1>5
  <2>3. CASE ~ (p > 1 /\ b[p - 1] = 0)
    <3>1. find_next_nalu_start(b) = [found |-> p, prefix |-> 3] /\ From(b, 1, p) = p
      BY <1>2, <1>3, <2>3 DEF From
    <3> QED BY <3>1, <2>1, <1>5
  <2> QED BY <2>2, <2>3
<1> QED BY <1>4, <1>5

BytesFrom(b, at) == SubSeq(b, at, Len(b))

(* The bytes from an index on, and the codes in them.                       *)
IsTail(t, b, at) ==
  /\ t \in Seq(Nat) /\ Len(t) = Len(b) + 1 - at
  /\ \A i \in 1 .. Len(t) : t[i] = b[i + at - 1]
  /\ \A p : p \in CodesOf(t) <=> p \in Nat \ {0} /\ p + at - 1 \in CodesOf(b)

LEMMA TailCodes ==
  ASSUME NEW b \in Seq(Nat), NEW at \in 1 .. Len(b) + 1
  PROVE  IsTail(BytesFrom(b, at), b, at)
<1> DEFINE t == BytesFrom(b, at)
<1>1. Len(b) \in Nat
  OBVIOUS
<1>2. t \in Seq(Nat) /\ Len(t) = Len(b) + 1 - at /\ \A i \in 1 .. Len(t) : t[i] = b[i + at - 1]
  BY DEF BytesFrom
<1>3. ASSUME NEW p \in 1 .. Len(t) - 2
      PROVE  p \in CodesOf(t) <=> p + at - 1 \in CodesOf(b)
  <2>1. t[p] = b[p + at - 1] /\ t[p + 1] = b[p + 1 + at - 1] /\ t[p + 2] = b[p + 2 + at - 1]
    <3>0. Len(t) \in Nat
      BY <1>2
    <3>1. p \in 1 .. Len(t) /\ p + 1 \in 1 .. Len(t) /\ p + 2 \in 1 .. Len(t)
      BY <3>0
    <3> QED BY <3>1, <1>2
  <2>2. /\ p + 1 + at - 1 = (p + at - 1) + 1 /\ p + 2 + at - 1 = (p + at - 1) + 2
        /\ p + at - 1 \in 1 .. Len(b) - 2
    BY <1>1, <1>2
  <2> QED BY <2>1, <2>2 DEF CodesOf, CodeAt
<1>4. \A p : p \in CodesOf(t) => p \in 1 .. Len(t) - 2
  BY DEF CodesOf
<1>5. \A p \in Nat \ {0} : p + at - 1 \in CodesOf(b) => p \in 1 .. Len(t) - 2
  BY <1>1, <1>2 DEF CodesOf
<1>6. \A p : p \in 1 .. Len(t) - 2 => p \in Nat \ {0}
  OBVIOUS
<1> HIDE DEF t
<1>7. IsTail(t, b, at)
  BY <1>2, <1>3, <1>4, <1>5, <1>6 DEF IsTail
<1> QED BY <1>7 DEF t

LEMMA TailFirst ==
  ASSUME NEW b \in Seq(Nat), NEW at \in 1 .. Len(b) + 1, NEW t, IsTail(t, b, at),
         NEW c, IsFirst(b, at, c)
  PROVE  /\ c = 0 => IsFirst(t, 1, 0)
         /\ c # 0 => /\ c \in CodesOf(b) /\ c >= at
                     /\ IsFirst(t, 1, c + 1 - at)
                     /\ From(t, 1, c + 1 - at) = From(b, at, c) + 1 - at
<1>1. \A q \in CodesOf(b) : q \in 1 .. Len(b) - 2
  BY DEF CodesOf
<1>2. /\ t \in Seq(Nat) /\ Len(t) = Len(b) + 1 - at
      /\ \A i \in 1 .. Len(t) : t[i] = b[i + at - 1]
      /\ \A p : p \in CodesOf(t) <=> p \in Nat \ {0} /\ p + at - 1 \in CodesOf(b)
  BY DEF IsTail
<1>3. CASE \A q \in CodesOf(b) : q < at
  <2>1. CodesOf(t) = {}
    BY <1>1, <1>2, <1>3
  <2> QED BY <1>3, <2>1 DEF IsFirst
<1>4. CASE ~ \A q \in CodesOf(b) : q < at
  <2>1. c \in CodesOf(b) /\ c >= at /\ \A q \in CodesOf(b) : q >= at => c <= q
    BY <1>4 DEF IsFirst
  <2>2. c \in Nat /\ c # 0 /\ Len(b) \in Nat
    BY <2>1, <1>1
  <2>3. c + 1 - at \in CodesOf(t)
    <3>1. c + 1 - at \in Nat \ {0} /\ (c + 1 - at) + at - 1 = c
      BY <2>1, <2>2
    <3> QED BY <3>1, <2>1, <1>2
  <2>4. ASSUME NEW q \in CodesOf(t) PROVE c + 1 - at <= q /\ ~ (q < 1)
    <3>1. q \in Nat \ {0} /\ q + at - 1 \in CodesOf(b) /\ q + at - 1 >= at
      BY <1>2
    <3>2. c <= q + at - 1
      BY <2>1, <3>1
    <3> QED BY <3>1, <3>2, <2>2
  <2>5. IsFirst(t, 1, c + 1 - at)
    BY <2>1, <2>2, <2>3, <2>4 DEF IsFirst
  <2>6. From(t, 1, c + 1 - at) = From(b, at, c) + 1 - at
    <3>1. CASE c > at
      <4>1. c - at \in 1 .. Len(t) /\ (c + 1 - at) - 1 = c - at /\ (c - at) + at - 1 = c - 1
        BY <3>1, <2>2, <2>1, <1>1, <1>2
      <4>2. t[(c + 1 - at) - 1] = b[c - 1]
        BY <4>1, <1>2
      <4> QED BY <4>1, <4>2, <3>1, <2>2 DEF From
    <3>2. CASE c = at
      BY <3>2, <2>2 DEF From
    <3> QED BY <3>1, <3>2, <2>1, <2>2
  <2> QED BY <2>1, <2>2, <2>5, <2>6
<1> QED BY <1>3, <1>4

(* The last byte of the unit behind the code at c, d being the next code.   *)
EndBefore(b, c, d) == IF d = 0 THEN Len(b) ELSE From(b, c + 3, d) - 1

LEMMA NextUnit ==
  ASSUME NEW b \in Seq(Nat), NEW at \in 1 .. Len(b) + 1, NEW c, IsFirst(b, at, c),
         NEW d, c # 0 => IsFirst(b, c + 3, d)
  PROVE  LET n == find_next_nalu(b, at)
         IN  IF c = 0 \/ Len(b) + 1 - at < 4 THEN n = NoNalu
             ELSE /\ n # NoNalu /\ n.start = From(b, at, c)
                  /\ n.start + n.prefix = c + 3 /\ n.end = EndBefore(b, c, d)
<1> DEFINE t == BytesFrom(b, at)
           first == find_next_nalu_start(t)
           body == BytesFrom(t, first.found + first.prefix)
           next == find_next_nalu_start(body)
           start == at - 1 + first.found
<1>1. find_next_nalu(b, at) =
        IF Len(t) < 4 \/ first.found = 0 THEN NoNalu
        ELSE [start |-> start, prefix |-> first.prefix,
              end |-> IF next.found = 0 THEN Len(b)
                      ELSE start + first.prefix + next.found - 2]
  BY DEF find_next_nalu, BytesFrom
<1>0. IsTail(t, b, at)
  BY TailCodes
<1>2. t \in Seq(Nat) /\ Len(t) = Len(b) + 1 - at /\ Len(b) \in Nat
  BY <1>0 DEF IsTail
<1>3. CASE c = 0
  <2>1. IsFirst(t, 1, 0)
    BY <1>0, <1>3, TailFirst
  <2>2. first.found = 0
    <3> HIDE DEF t
    <3> QED BY <2>1, <1>2, NextStart
  <2> HIDE DEF t, first, next, body, start
  <2> QED BY <1>1, <1>3, <2>2
<1>4. CASE c # 0 /\ Len(b) + 1 - at < 4
  <2> HIDE DEF t, first, next, body, start
  <2> QED BY <1>1, <1>2, <1>4
<1>5. CASE c # 0 /\ ~ (Len(b) + 1 - at < 4)
  <2>1. /\ c \in CodesOf(b) /\ c >= at /\ IsFirst(t, 1, c + 1 - at)
        /\ From(t, 1, c + 1 - at) = From(b, at, c) + 1 - at
    BY <1>0, <1>5, TailFirst
  <2>2. c \in 1 .. Len(b) - 2
    BY <2>1 DEF CodesOf
  <2>3. c + 1 - at # 0
    BY <2>1, <2>2
  <2>4. /\ first.found = From(b, at, c) + 1 - at
        /\ first.found + first.prefix = c + 1 - at + 3 /\ first.prefix \in Nat
    <3> HIDE DEF t
    <3> QED BY <2>1, <2>3, <1>2, NextStart
  <2>5. /\ From(b, at, c) \in Nat /\ From(b, at, c) >= at /\ From(b, at, c) <= c
        /\ From(b, at, c) >= 1
    BY <2>1, NotInside
  <2>6. first.found # 0 /\ start = From(b, at, c)
    <3> HIDE DEF first
    <3> QED BY <2>4, <2>5
  <2>7. body = BytesFrom(b, c + 3)
    <3> DEFINE u == BytesFrom(t, c + 4 - at)
               v == BytesFrom(b, c + 3)
    <3>1. c + 4 - at \in 1 .. Len(t) + 1 /\ c + 3 \in 1 .. Len(b) + 1 /\ c + 1 - at + 3 = c + 4 - at
      BY <1>2, <2>1, <2>2
    <3>2. IsTail(u, t, c + 4 - at) /\ IsTail(v, b, c + 3)
      <4> HIDE DEF t
      <4> QED BY <1>2, <3>1, TailCodes
    <3>3. /\ u \in Seq(Nat) /\ v \in Seq(Nat)
          /\ Len(u) = Len(t) + 1 - (c + 4 - at) /\ Len(v) = Len(b) + 1 - (c + 3)
          /\ \A i \in 1 .. Len(u) : u[i] = t[i + (c + 4 - at) - 1]
          /\ \A i \in 1 .. Len(v) : v[i] = b[i + (c + 3) - 1]
          /\ \A i \in 1 .. Len(t) : t[i] = b[i + at - 1]
      BY <1>0, <3>2 DEF IsTail
    <3> HIDE DEF t, u, v
    <3>5. Len(u) = Len(v)
      BY <3>3, <1>2, <2>2
    <3>6. ASSUME NEW i \in 1 .. Len(u) PROVE u[i] = v[i]
      <4>0. Len(t) \in Int /\ Len(u) = Len(t) + 1 - (c + 4 - at) /\ c \in Int /\ c >= at
        BY <3>3, <1>2, <2>1, <2>2
      <4>1. /\ i + (c + 4 - at) - 1 \in 1 .. Len(t)
            /\ (i + (c + 4 - at) - 1) + at - 1 = i + (c + 3) - 1
        BY <4>0
      <4> QED BY <4>1, <3>3, <3>5
    <3>7. u = v
      BY <3>3, <3>5, <3>6, SameElements
    <3> QED BY <3>1, <3>7, <2>4 DEF u, v
  <2>8. c + 3 \in 1 .. Len(b) + 1 /\ IsTail(body, b, c + 3) /\ body \in Seq(Nat)
    <3>1. c + 3 \in 1 .. Len(b) + 1
      BY <2>2
    <3> HIDE DEF body
    <3>2. IsTail(body, b, c + 3)
      BY <2>7, <3>1, TailCodes
    <3> QED BY <3>1, <3>2 DEF IsTail
  <2>9. d = 0 => next.found = 0
    <3> HIDE DEF body
    <3>1. d = 0 => IsFirst(body, 1, 0)
      BY <1>5, <2>8, TailFirst
    <3> QED BY <3>1, <2>8, NextStart
  <2>10. d # 0 => /\ next.found = From(b, c + 3, d) + 1 - (c + 3) /\ next.found # 0
                  /\ From(b, c + 3, d) \in Nat
    <3> HIDE DEF body
    <3> SUFFICES ASSUME d # 0
                 PROVE  /\ next.found = From(b, c + 3, d) + 1 - (c + 3) /\ next.found # 0
                        /\ From(b, c + 3, d) \in Nat
      OBVIOUS
    <3>1. /\ d \in CodesOf(b) /\ d >= c + 3 /\ IsFirst(body, 1, d + 1 - (c + 3))
          /\ From(body, 1, d + 1 - (c + 3)) = From(b, c + 3, d) + 1 - (c + 3)
      BY <1>5, <2>8, TailFirst
    <3>2. From(b, c + 3, d) \in Nat /\ From(b, c + 3, d) >= c + 3 /\ d \in Nat
      <4>1. c + 3 \in Nat \ {0} /\ d \in Nat
        BY <3>1, <2>2 DEF CodesOf
      <4> QED BY <3>1, <4>1, NotInside
    <3>3. d + 1 - (c + 3) # 0 /\ From(b, c + 3, d) + 1 - (c + 3) # 0
      BY <3>1, <3>2, <2>2
    <3> QED BY <3>1, <3>2, <3>3, <2>8, NextStart
  <2> DEFINE n == [start |-> start, prefix |-> first.prefix,
                   end |-> IF next.found = 0 THEN Len(b)
                           ELSE start + first.prefix + next.found - 2]
  <2>11. find_next_nalu(b, at) = n
    <3> HIDE DEF t, first, next, body, start
    <3> QED BY <1>1, <1>2, <1>5, <2>6
  <2>12. n.start = start /\ n.prefix = first.prefix /\ n.end = (IF next.found = 0 THEN Len(b)
                           ELSE start + first.prefix + next.found - 2)
    OBVIOUS
  <2> HIDE DEF t, first, next, body, n
  <2>13. start + first.prefix = c + 3
    <3> DEFINE f == first.found
               x == first.prefix
    <3>1. start = at - 1 + f /\ f + x = c + 1 - at + 3 /\ f = From(b, at, c) + 1 - at
      BY <2>4
    <3>2. f \in Int /\ x \in Nat
      BY <2>4, <2>5
    <3> HIDE DEF f, x
    <3>3. (at - 1 + f) + x = c + 3
      BY <3>1, <3>2, <2>2
    <3> QED BY <3>1, <3>3 DEF x
  <2> HIDE DEF start
  <2>14. n.end = EndBefore(b, c, d)
    BY <2>9, <2>10, <2>12, <2>13, <2>2 DEF EndBefore
  <2>15. n # NoNalu
    BY <2>12, <2>6, <2>5 DEF NoNalu
  <2> QED BY <2>6, <2>11, <2>12, <2>13, <2>14, <2>15, <1>5
<1> QED BY <1>3, <1>4, <1>5

LEMMA FirstExists ==
  ASSUME NEW b \in Seq(Nat), NEW p \in Nat
  PROVE  \E r : IsFirst(b, p, r)
<1> DEFINE T == {q \in CodesOf(b) : q >= p}
<1>1. T \in SUBSET Nat /\ \A q \in CodesOf(b) : q \in Nat
  BY DEF CodesOf
<1>2. CASE T = {}
  <2>1. \A q \in CodesOf(b) : q < p
    BY <1>1, <1>2
  <2> QED BY <2>1 DEF IsFirst
<1>3. CASE T # {}
  <2>1. PICK t \in T : \A u \in T : t <= u
    <3> HIDE DEF T
    <3> QED BY <1>1, <1>3, SmallestElement
  <2>2. IsFirst(b, p, t)
    BY <2>1, <1>1 DEF IsFirst
  <2> QED BY <2>2
<1> QED BY <1>2, <1>3

-----------------------------------------------------------------------------

LEMMA CodesAre ==
  ASSUME bytes \in Seq(Nat)
  PROVE  Codes = CodesOf(bytes)
  BY SubSeqCode DEF Codes, CodesOf

LEMMA BeginIs ==
  ASSUME bytes \in Seq(Nat), NEW c \in Codes
  PROVE  /\ Begin(c) = From(bytes, 1, c)
         /\ Begin(c) \in Nat /\ Begin(c) >= 1 /\ Begin(c) >= c - 1 /\ Begin(c) <= c
         /\ \A q \in Codes : q >= Begin(c) <=> q >= c
         /\ c \in 1 .. Len(bytes) - 2 /\ Len(bytes) \in Nat
<1>1. c \in CodesOf(bytes) /\ c >= 1 /\ c \in 1 .. Len(bytes) - 2 /\ Len(bytes) \in Nat
  BY CodesAre DEF CodesOf
<1>2. Begin(c) = From(bytes, 1, c)
  BY DEF Begin, From
<1> QED BY <1>1, <1>2, CodesAre, NotInside

(* Behind a code the next begins where it would if all were looked at. *)
LEMMA BeginBehind ==
  ASSUME bytes \in Seq(Nat), NEW c \in Codes, NEW d \in Codes, d > c
  PROVE  d >= c + 3 /\ Begin(d) = From(bytes, c + 3, d)
<1>0. c \in CodesOf(bytes) /\ d \in CodesOf(bytes)
  BY CodesAre
<1>1. c \in Nat /\ d \in Nat /\ bytes[c + 2] = 1 /\ d >= c + 3
  <2>1. c \in Nat /\ d \in Nat /\ bytes[c + 2] = 1
    BY <1>0 DEF CodesOf, CodeAt
  <2> QED BY <1>0, <2>1, CodesApart
<1>2. CASE d = c + 3
  <2>1. d - 1 = c + 2 /\ bytes[d - 1] # 0
    BY <1>1, <1>2
  <2> QED BY <2>1, <1>1, <1>2 DEF Begin, From
<1>3. CASE d > c + 3
  BY <1>1, <1>3 DEF Begin, From
<1> QED BY <1>1, <1>2, <1>3

LEMMA UnitEndIs ==
  ASSUME bytes \in Seq(Nat), NEW c \in Codes
  PROVE  \E d : /\ IsFirst(bytes, c + 3, d)
                /\ UnitEnd(c) = EndBefore(bytes, c, d)
                /\ d = 0 => UnitEnd(c) = Len(bytes) /\ \A q \in Codes : q <= c
                /\ d # 0 => /\ d \in Codes /\ d > c /\ UnitEnd(c) = Begin(d) - 1
                            /\ \A q \in Codes : q > c => q >= d
<1>0. Codes = CodesOf(bytes) /\ c \in Nat /\ \A q \in Codes : q \in Nat
  BY CodesAre DEF CodesOf
<1>1. PICK d : IsFirst(bytes, c + 3, d)
  BY <1>0, FirstExists
<1>2. \A q \in Codes : q > c => q >= c + 3
  BY BeginBehind
<1>3. CASE \A q \in Codes : q < c + 3
  <2>1. d = 0 /\ \A q \in Codes : q <= c
    BY <1>0, <1>1, <1>2, <1>3 DEF IsFirst
  <2>2. UnitEnd(c) = Len(bytes)
    BY <2>1 DEF UnitEnd
  <2> QED BY <1>1, <2>1, <2>2 DEF EndBefore
<1>4. CASE ~ \A q \in Codes : q < c + 3
  <2>1. d \in Codes /\ d >= c + 3 /\ \A q \in Codes : q >= c + 3 => d <= q
    BY <1>0, <1>1, <1>4 DEF IsFirst
  <2>2. d \in Nat /\ d # 0 /\ d > c /\ \A q \in Codes : q > c => d <= q
    BY <1>0, <1>2, <2>1
  <2> DEFINE e == CHOOSE q \in Codes : q > c /\ \A r \in Codes : r > c => q <= r
  <2>3. e \in Codes /\ e > c /\ \A r \in Codes : r > c => e <= r
    BY <2>1, <2>2
  <2> HIDE DEF e
  <2>4. e = d
    BY <2>1, <2>2, <2>3, <1>0
  <2>5. UnitEnd(c) = Begin(e) - 1
    BY <2>1, <2>2, <1>0 DEF UnitEnd, e
  <2>6. Begin(d) = From(bytes, c + 3, d)
    BY <2>1, <2>2, BeginBehind
  <2> QED BY <1>1, <2>1, <2>2, <2>4, <2>5, <2>6, <1>0 DEF EndBefore
<1> QED BY <1>3, <1>4

-----------------------------------------------------------------------------
(* The unit found from at on is one of the codes', and the next begins      *)
(* behind it.                                                               *)
LEMMA UnitFrom ==
  ASSUME bytes \in Seq(Nat), NEW at \in 1 .. Len(bytes) + 1, NEW c, IsFirst(bytes, at, c)
  PROVE  LET n == find_next_nalu(bytes, at)
         IN  /\ c = 0 \/ Len(bytes) + 1 - at < 4 <=> n = NoNalu
             /\ n # NoNalu => /\ c \in Codes /\ c >= at /\ n.start = From(bytes, at, c)
                              /\ n.start + n.prefix = c + 3 /\ n.end = UnitEnd(c)
<1> DEFINE n == find_next_nalu(bytes, at)
<1>1. CASE c = 0
  <2>1. n = NoNalu
    BY <1>1, NextUnit
  <2> QED BY <1>1, <2>1
<1>2. CASE c # 0
  <2>1. c \in Codes /\ c >= at
    BY <1>2, CodesAre DEF IsFirst
  <2>2. PICK d : IsFirst(bytes, c + 3, d) /\ UnitEnd(c) = EndBefore(bytes, c, d)
    BY <2>1, UnitEndIs
  <2>3. IF c = 0 \/ Len(bytes) + 1 - at < 4 THEN n = NoNalu
        ELSE /\ n # NoNalu /\ n.start = From(bytes, at, c)
             /\ n.start + n.prefix = c + 3 /\ n.end = EndBefore(bytes, c, d)
    BY <2>2, NextUnit
  <2> HIDE DEF n
  <2>4. /\ c = 0 \/ Len(bytes) + 1 - at < 4 <=> n = NoNalu
        /\ n # NoNalu => /\ c \in Codes /\ c >= at /\ n.start = From(bytes, at, c)
                         /\ n.start + n.prefix = c + 3 /\ n.end = UnitEnd(c)
    BY <2>1, <2>2, <2>3
  <2> QED BY <2>4 DEF n
<1> QED BY <1>1, <1>2

LEMMA UnitEndFits ==
  ASSUME bytes \in Seq(Nat), NEW c \in Codes
  PROVE  UnitEnd(c) \in c + 2 .. Len(bytes)
<1>1. PICK d : /\ d = 0 => UnitEnd(c) = Len(bytes)
               /\ d # 0 => d \in Codes /\ d > c /\ UnitEnd(c) = Begin(d) - 1
  BY UnitEndIs
<1>2. c \in 1 .. Len(bytes) - 2 /\ Len(bytes) \in Nat
  BY BeginIs
<1>3. CASE d = 0
  BY <1>1, <1>2, <1>3
<1>4. CASE d # 0
  <2>1. d >= c + 3 /\ Begin(d) = From(bytes, c + 3, d) /\ d \in CodesOf(bytes)
    BY <1>1, <1>4, BeginBehind, CodesAre
  <2>2. c + 3 \in Nat \ {0}
    BY <1>2
  <2>3. Begin(d) \in Nat /\ Begin(d) >= c + 3 /\ Begin(d) <= d
    BY <2>1, <2>2, NotInside
  <2>4. d \in 1 .. Len(bytes) - 2
    BY <2>1 DEF CodesOf
  <2> QED BY <1>1, <1>2, <1>4, <2>3, <2>4
<1> QED BY <1>3, <1>4

-----------------------------------------------------------------------------
(* The codes of the units that the decoder takes.                           *)
Good == {p \in Codes : UnitEnd(p) > p + 3 /\ bytes[p + 3] \notin Skipped}

(* The search from the index at on answers v: where the first of them       *)
(* begins.                                                                  *)
FirstGoodFrom(at, v) ==
  IF \A q \in Good : q < at THEN v = 0
  ELSE \E m \in Good : /\ m >= at /\ v = Begin(m)
                       /\ \A q \in Good : q >= at => m <= q

(* The search goes on where a unit begins, or stops behind the last byte.   *)
IsBoundary(at) == at = Len(bytes) + 1 \/ \E c \in Codes : Begin(c) = at

LEMMA UnitAhead ==
  ASSUME bytes \in Seq(Nat), NEW at \in 1 .. Len(bytes) + 1,
         find_next_nalu(bytes, at) # NoNalu
  PROVE  /\ find_next_nalu(bytes, at).end + 1 \in at + 1 .. Len(bytes) + 1
         /\ find_next_nalu(bytes, at).start \in Nat
<1> DEFINE n == find_next_nalu(bytes, at)
<1>1. PICK c : IsFirst(bytes, at, c)
  BY FirstExists
<1>2. c \in Codes /\ c >= at /\ n.start = From(bytes, at, c) /\ n.end = UnitEnd(c)
  BY <1>1, UnitFrom
<1> HIDE DEF n
<1>3. UnitEnd(c) \in c + 2 .. Len(bytes)
  BY <1>2, UnitEndFits
<1>4. c \in CodesOf(bytes) /\ c \in Nat /\ Len(bytes) \in Nat
  BY <1>2, CodesAre, BeginIs
<1>5. n.start \in Nat
  BY <1>2, <1>4, NotInside
<1>6. n.end + 1 \in at + 1 .. Len(bytes) + 1
  BY <1>2, <1>3, <1>4
<1> QED BY <1>5, <1>6 DEF n

LEMMA GoodFits ==
  ASSUME bytes \in Seq(Nat), NEW q \in Good
  PROVE  q \in Codes /\ q \in Nat /\ q >= 1 /\ q + 4 <= Len(bytes) /\ Len(bytes) \in Nat
<1>1. q \in Codes /\ UnitEnd(q) > q + 3
  BY DEF Good
<1>2. q \in 1 .. Len(bytes) - 2 /\ Len(bytes) \in Nat
  BY <1>1, BeginIs
<1>3. UnitEnd(q) \in q + 2 .. Len(bytes)
  BY <1>1, UnitEndFits
<1> QED BY <1>1, <1>2, <1>3

(* Behind a unit begins the next one, or nothing does.                      *)
LEMMA BehindUnit ==
  ASSUME bytes \in Seq(Nat), NEW c \in Codes
  PROVE  /\ IsBoundary(UnitEnd(c) + 1)
         /\ \A q \in Codes : q > c <=> q >= UnitEnd(c) + 1
<1>1. PICK d : /\ d = 0 => UnitEnd(c) = Len(bytes) /\ \A q \in Codes : q <= c
               /\ d # 0 => /\ d \in Codes /\ d > c /\ UnitEnd(c) = Begin(d) - 1
                           /\ \A q \in Codes : q > c => q >= d
  BY UnitEndIs
<1>2. \A q \in Codes : q \in 1 .. Len(bytes) - 2 /\ q \in Nat /\ Len(bytes) \in Nat
  BY BeginIs
<1>3. CASE d = 0
  <2>1. UnitEnd(c) + 1 = Len(bytes) + 1 /\ \A q \in Codes : q <= c
    BY <1>1, <1>3
  <2>2. \A q \in Codes : ~ (q > c) /\ ~ (q >= UnitEnd(c) + 1)
    BY <2>1, <1>2
  <2> QED BY <2>1, <2>2 DEF IsBoundary
<1>4. CASE d # 0
  <2>1. d \in Codes /\ d > c /\ UnitEnd(c) = Begin(d) - 1 /\ \A q \in Codes : q > c => q >= d
    BY <1>1, <1>4
  <2>2. Begin(d) \in Nat /\ \A q \in Codes : q >= Begin(d) <=> q >= d
    BY <2>1, BeginIs
  <2>3. UnitEnd(c) + 1 = Begin(d)
    BY <2>1, <2>2
  <2>4. \A q \in Codes : q >= d => q > c
    BY <2>1, <1>2
  <2> QED BY <2>1, <2>2, <2>3, <2>4 DEF IsBoundary
<1> QED BY <1>3, <1>4

(* At the beginning of a unit that unit is looked at.                       *)
LEMMA UnitAt ==
  ASSUME bytes \in Seq(Nat), NEW c \in Codes
  PROVE  LET n == find_next_nalu(bytes, Begin(c))
         IN  /\ Len(bytes) + 1 - Begin(c) < 4 <=> n = NoNalu
             /\ n # NoNalu => /\ n.start = Begin(c) /\ n.end = UnitEnd(c)
                              /\ taken(bytes, n) <=> c \in Good
<1> DEFINE at == Begin(c)
           n == find_next_nalu(bytes, at)
<1>1. /\ at \in Nat /\ at >= 1 /\ at >= c - 1 /\ at <= c
      /\ \A q \in Codes : q >= at <=> q >= c
      /\ c \in 1 .. Len(bytes) - 2 /\ Len(bytes) \in Nat
  BY BeginIs
<1>2. at \in 1 .. Len(bytes) + 1 /\ c # 0
  <2> HIDE DEF at
  <2> QED BY <1>1
<1>3. Codes = CodesOf(bytes) /\ \A q \in Codes : q \in Nat
  BY CodesAre DEF CodesOf
<1>4. IsFirst(bytes, at, c)
  <2> HIDE DEF at
  <2> QED BY <1>1, <1>3 DEF IsFirst
<1>5. From(bytes, at, c) = at
  BY <1>1 DEF From, Begin
<1> HIDE DEF at
<1>6. /\ c = 0 \/ Len(bytes) + 1 - at < 4 <=> n = NoNalu
      /\ n # NoNalu => /\ n.start = at /\ n.start + n.prefix = c + 3 /\ n.end = UnitEnd(c)
  BY <1>2, <1>4, <1>5, UnitFrom
<1> HIDE DEF n
<1>7. n # NoNalu => (taken(bytes, n) <=> c \in Good)
  BY <1>6 DEF taken, Good
<1> QED BY <1>2, <1>6, <1>7 DEF n, at

(* A unit that is not taken has no part in the answer.                      *)
LEMMA SkipKeeps ==
  ASSUME bytes \in Seq(Nat), NEW c \in Codes, c \notin Good, NEW v,
         FirstGoodFrom(UnitEnd(c) + 1, v)
  PROVE  FirstGoodFrom(Begin(c), v)
<1>1. \A q \in Codes : q >= Begin(c) <=> q >= c
  BY BeginIs
<1>2. \A q \in Codes : q > c <=> q >= UnitEnd(c) + 1
  BY BehindUnit
<1>3. \A q \in Good : q \in Codes /\ q \in Nat /\ q # c /\ q >= 1
  BY GoodFits
<1>4. c \in Nat /\ Begin(c) \in Nat
  BY BeginIs
<1>5. UnitEnd(c) \in Nat
  BY UnitEndFits, BeginIs
<1>6. \A q \in Good : q >= Begin(c) <=> q >= UnitEnd(c) + 1
  BY <1>1, <1>2, <1>3, <1>4
<1>7. \A q \in Good : q < Begin(c) <=> q < UnitEnd(c) + 1
  BY <1>3, <1>4, <1>5, <1>6
<1> QED BY <1>6, <1>7 DEF FirstGoodFrom

LEMMA TakenFirst ==
  ASSUME bytes \in Seq(Nat), NEW c \in Good
  PROVE  FirstGoodFrom(Begin(c), Begin(c))
<1>1. c \in Codes /\ c \in Nat
  BY GoodFits
<1>2. Begin(c) \in Nat /\ c >= Begin(c) /\ \A q \in Codes : q >= Begin(c) <=> q >= c
  BY <1>1, BeginIs
<1>3. \A q \in Good : q >= Begin(c) => c <= q
  BY <1>2, GoodFits
<1>4. ~ \A q \in Good : q < Begin(c)
  BY <1>1, <1>2
<1> QED BY <1>2, <1>3, <1>4 DEF FirstGoodFrom

(* Less than four bytes have no unit, and no code the decoder would take.   *)
LEMMA NoneLeft ==
  ASSUME bytes \in Seq(Nat), NEW at \in Nat, Len(bytes) + 1 - at < 4
  PROVE  FirstGoodFrom(at, 0)
<1>1. \A q \in Good : q < at
  BY GoodFits
<1> QED BY <1>1 DEF FirstGoodFrom

LEMMA SupportFinds ==
  ASSUME bytes \in Seq(Nat), IsBoundary(1)
  PROVE  FirstGoodFrom(1, skip_unsupported_nalu(bytes))
<1> DEFINE N == Len(bytes) + 1
           nalu(at) == find_next_nalu(bytes, at)
           Stop == {at \in 1 .. N : nalu(at) = NoNalu \/ taken(bytes, nalu(at))}
           val == [at \in 1 .. N |-> IF nalu(at) = NoNalu THEN 0 ELSE nalu(at).start]
           next == [at \in 1 .. N |-> nalu(at).end + 1]
           Turn(h, at) == IF at \in Stop THEN val[at] ELSE h[next[at]]
           Body(h) == [at \in 1 .. N |->
                        IF nalu(at) = NoNalu THEN 0
                        ELSE IF taken(bytes, nalu(at)) THEN nalu(at).start
                        ELSE h[nalu(at).end + 1]]
           R == [at \in 1 .. N |-> {v \in Nat : IsBoundary(at) => FirstGoodFrom(at, v)}]
           s == CHOOSE h : h = Body(h)
<1>0. N \in Nat /\ 1 \in 1 .. N
  OBVIOUS
<1>1. \A at \in 1 .. N : /\ at \in Stop <=> nalu(at) = NoNalu \/ taken(bytes, nalu(at))
                         /\ val[at] = IF nalu(at) = NoNalu THEN 0 ELSE nalu(at).start
                         /\ next[at] = nalu(at).end + 1
                         /\ R[at] = {v \in Nat : IsBoundary(at) => FirstGoodFrom(at, v)}
  OBVIOUS
<1>2. \A at \in 1 .. N : nalu(at) # NoNalu => nalu(at).end + 1 \in at + 1 .. N /\ nalu(at).start \in Nat
  BY UnitAhead
<1>3. skip_unsupported_nalu(bytes) = s[1]
  BY DEF skip_unsupported_nalu
<1> HIDE DEF nalu, Stop, val, next, R
<1>4. ASSUME NEW h PROVE Searches(h, N, Stop, val, next) <=> h = Body(h)
  <2> DEFINE One(at) == IF at \in Stop THEN val[at] ELSE h[next[at]]
             Other(at) == IF nalu(at) = NoNalu THEN 0
                          ELSE IF taken(bytes, nalu(at)) THEN nalu(at).start
                          ELSE h[nalu(at).end + 1]
  <2>1. ASSUME NEW at \in 1 .. N PROVE One(at) = Other(at)
    BY <1>1
  <2>2. [at \in 1 .. N |-> One(at)] = [at \in 1 .. N |-> Other(at)]
    <3> HIDE DEF One, Other, N
    <3> QED BY <2>1
  <2> QED BY <2>2 DEF Searches
<1>5. \A at \in 1 .. N : at \in Stop \/ next[at] \in at + 1 .. N
  BY <1>1, <1>2
<1>6. \A at \in 1 .. N : at \in Stop => val[at] \in R[at]
  <2> SUFFICES ASSUME NEW at \in 1 .. N, at \in Stop PROVE val[at] \in R[at]
    OBVIOUS
  <2>0. /\ nalu(at) = NoNalu \/ taken(bytes, nalu(at))
        /\ val[at] = IF nalu(at) = NoNalu THEN 0 ELSE nalu(at).start
    BY <1>1
  <2>1. val[at] \in Nat
    BY <1>2, <2>0
  <2>2. ASSUME at = N PROVE FirstGoodFrom(at, val[at])
    <3>1. at \in Nat /\ Len(bytes) + 1 - at < 4
      BY <2>2
    <3>2. FirstGoodFrom(at, 0)
      BY <3>1, NoneLeft
    <3>3. nalu(at) = NoNalu
      BY <1>2, <2>2
    <3> QED BY <3>2, <3>3, <2>0
  <2>3. ASSUME NEW c \in Codes, Begin(c) = at PROVE FirstGoodFrom(at, val[at])
    <3>1. /\ Len(bytes) + 1 - at < 4 <=> nalu(at) = NoNalu
          /\ nalu(at) # NoNalu => nalu(at).start = at /\ (taken(bytes, nalu(at)) <=> c \in Good)
      BY <2>3, UnitAt DEF nalu
    <3>2. CASE nalu(at) = NoNalu
      BY <3>1, <3>2, <2>0, NoneLeft
    <3>3. CASE nalu(at) # NoNalu
      BY <3>1, <3>3, <2>0, <2>3, TakenFirst
    <3> QED BY <3>2, <3>3
  <2>4. IsBoundary(at) => FirstGoodFrom(at, val[at])
    BY <2>2, <2>3 DEF IsBoundary
  <2> QED BY <1>1, <2>1, <2>4
<1>7. \A at \in 1 .. N : at \notin Stop => next[at] \in at + 1 .. N /\ R[next[at]] \subseteq R[at]
  <2> SUFFICES ASSUME NEW at \in 1 .. N, at \notin Stop
               PROVE  next[at] \in at + 1 .. N /\ R[next[at]] \subseteq R[at]
    OBVIOUS
  <2>1. nalu(at) # NoNalu /\ ~ taken(bytes, nalu(at)) /\ next[at] = nalu(at).end + 1
    BY <1>1
  <2>2. next[at] \in at + 1 .. N /\ next[at] \in 1 .. N
    BY <1>2, <2>1
  <2>3. at # N
    BY <2>2
  <2>4. ASSUME NEW c \in Codes, Begin(c) = at, NEW v, IsBoundary(next[at]) => FirstGoodFrom(next[at], v)
        PROVE  FirstGoodFrom(at, v)
    <3>1. c \notin Good /\ nalu(at).end = UnitEnd(c)
      BY <2>1, <2>4, UnitAt DEF nalu
    <3>2. IsBoundary(next[at])
      BY <3>1, <2>1, BehindUnit
    <3>3. FirstGoodFrom(UnitEnd(c) + 1, v)
      BY <3>1, <3>2, <2>1, <2>4
    <3> QED BY <3>1, <3>3, <2>4, SkipKeeps
  <2>5. \A v : (IsBoundary(next[at]) => FirstGoodFrom(next[at], v))
                 => (IsBoundary(at) => FirstGoodFrom(at, v))
    BY <2>3, <2>4 DEF IsBoundary
  <2> QED BY <1>1, <2>2, <2>5
<1> HIDE DEF Body, N
<1>8. \E h : Searches(h, N, Stop, val, next)
  BY <1>0, <1>5, SearchExists
<1>9. s = Body(s)
  BY <1>4, <1>8
<1> HIDE DEF s
<1>10. Searches(s, N, Stop, val, next)
  BY <1>4, <1>9
<1>11. s[1] \in R[1]
  BY <1>0, <1>6, <1>7, <1>10, SearchKeeps
<1> QED BY <1>0, <1>1, <1>3, <1>11

(* The unit found is the first that the decoder takes, in every buffer that *)
(* begins with a unit.                                                      *)
THEOREM FirstUnitTaken ==
  ASSUME bytes \in Seq(Nat)
  PROVE  FirstSupported
<1> SUFFICES ASSUME 1 \in Codes \/ (2 \in Codes /\ bytes[1] = 0)
             PROVE  skip_unsupported_nalu(bytes) =
                      IF Good = {} THEN 0 ELSE Begin(CHOOSE p \in Good : \A q \in Good : p <= q)
  BY DEF FirstSupported, Good
<1>1. IsBoundary(1)
  <2>1. 1 \in Codes => Begin(1) = 1
    BY DEF Begin
  <2>2. 2 \in Codes /\ bytes[1] = 0 => Begin(2) = 1
    BY DEF Begin
  <2> QED BY <2>1, <2>2 DEF IsBoundary
<1> DEFINE v == skip_unsupported_nalu(bytes)
<1>2. FirstGoodFrom(1, v)
  BY <1>1, SupportFinds
<1>3. \A q \in Good : q \in Nat /\ q >= 1 /\ ~ (q < 1)
  BY GoodFits
<1> HIDE DEF v
<1>4. CASE Good = {}
  BY <1>2, <1>4 DEF FirstGoodFrom, v
<1>5. CASE Good # {}
  <2>1. PICK m \in Good : v = Begin(m) /\ \A q \in Good : m <= q
    BY <1>2, <1>3, <1>5 DEF FirstGoodFrom
  <2> DEFINE f == CHOOSE p \in Good : \A q \in Good : p <= q
  <2>2. f \in Good /\ \A q \in Good : f <= q
    BY <2>1
  <2> HIDE DEF f
  <2>3. f = m
    BY <2>1, <2>2, <1>3
  <2> QED BY <1>5, <2>1, <2>3 DEF f, v
<1> QED BY <1>4, <1>5

(* Whatever bytes a buffer has, the scanners agree on the first start code  *)
(* and the unit found is the first that the decoder takes.                  *)
THEOREM UnitsAreFound == NalSpec => []UnitsFound
<1> DEFINE Inv == bytes \in Seq(Byte)
<1>1. NalInit => Inv
  BY DEF NalInit
<1>2. Inv /\ [NalNext]_bytes => Inv'
  BY DEF NalNext
<1>3. Inv => UnitsFound
  <2> SUFFICES ASSUME Inv PROVE UnitsFound
    OBVIOUS
  <2>1. bytes \in Seq(Nat)
    <3>1. Byte \subseteq Nat
      BY NalAssumption
    <3> QED BY <3>1, SeqMonotonic
  <2> QED BY <2>1, ScannersAgree, FirstUnitTaken DEF UnitsFound
<1> QED BY <1>1, <1>2, <1>3, PTL DEF NalSpec

-----------------------------------------------------------------------------
(* HashStream: bytes, and the operators on them. *)

IsBuffer(buffer) == buffer \in Seq(Int) /\ Len(buffer) = BlockSize

LEMMA SizesAre ==
  /\ BlockSize \in Nat \ {0} /\ LengthSize \in Nat \ {0} /\ WordSpan \in Nat \ {0}
  /\ LengthSize < BlockSize
  BY HashAssumption

(* SubSeq, as a sequence and by its elements.                               *)
LEMMA SubSeqIs ==
  ASSUME NEW S, NEW s \in Seq(S), NEW a \in Nat \ {0}, NEW b \in Nat, a <= b + 1, b <= Len(s)
  PROVE  /\ SubSeq(s, a, b) \in Seq(S) /\ Len(SubSeq(s, a, b)) = b - a + 1
         /\ \A i \in 1 .. b - a + 1 : SubSeq(s, a, b)[i] = s[i + a - 1]
  OBVIOUS

LEMMA ConcatIs ==
  ASSUME NEW S, NEW s \in Seq(S), NEW t \in Seq(S)
  PROVE  /\ s \o t \in Seq(S) /\ Len(s \o t) = Len(s) + Len(t)
         /\ \A i \in 1 .. Len(s) + Len(t) : (s \o t)[i] = IF i <= Len(s) THEN s[i] ELSE t[i - Len(s)]
  OBVIOUS

(* Two pieces that lie side by side.                                        *)
LEMMA SubSeqConcat ==
  ASSUME NEW S, NEW s \in Seq(S), NEW a \in Nat \ {0}, NEW m \in Nat, NEW b \in Nat,
         a <= m + 1, m <= b, b <= Len(s)
  PROVE  SubSeq(s, a, m) \o SubSeq(s, m + 1, b) = SubSeq(s, a, b)
<1> DEFINE l == SubSeq(s, a, m)
           r == SubSeq(s, m + 1, b)
           w == SubSeq(s, a, b)
<1>0. Len(s) \in Nat
  OBVIOUS
<1>1. l \in Seq(S) /\ Len(l) = m - a + 1 /\ \A i \in 1 .. m - a + 1 : l[i] = s[i + a - 1]
  BY SubSeqIs, <1>0
<1>2. r \in Seq(S) /\ Len(r) = b - m /\ \A i \in 1 .. b - m : r[i] = s[i + m]
  <2>1. /\ r \in Seq(S) /\ Len(r) = b - (m + 1) + 1
        /\ \A i \in 1 .. b - (m + 1) + 1 : r[i] = s[i + (m + 1) - 1]
    <3>1. m + 1 \in Nat \ {0} /\ m + 1 <= b + 1
      OBVIOUS
    <3> QED BY <3>1, SubSeqIs
  <2>2. b - (m + 1) + 1 = b - m
    OBVIOUS
  <2>3. \A i \in 1 .. b - m : i + (m + 1) - 1 = i + m
    OBVIOUS
  <2> HIDE DEF r
  <2> QED BY <2>1, <2>2, <2>3
<1>3. w \in Seq(S) /\ Len(w) = b - a + 1 /\ \A i \in 1 .. b - a + 1 : w[i] = s[i + a - 1]
  <2>1. a <= b + 1
    OBVIOUS
  <2> QED BY <2>1, SubSeqIs
<1> HIDE DEF l, r, w
<1> DEFINE c == l \o r
<1>4. /\ c \in Seq(S) /\ Len(c) = Len(l) + Len(r)
      /\ \A i \in 1 .. Len(l) + Len(r) : c[i] = IF i <= Len(l) THEN l[i] ELSE r[i - Len(l)]
  BY <1>1, <1>2, ConcatIs
<1> HIDE DEF c
<1>5. Len(c) = Len(w)
  BY <1>1, <1>2, <1>3, <1>4
<1>6. ASSUME NEW i \in 1 .. Len(c) PROVE c[i] = w[i]
  <2>0. i \in 1 .. b - a + 1 /\ i \in 1 .. Len(l) + Len(r) /\ w[i] = s[i + a - 1]
    BY <1>3, <1>4, <1>5
  <2>1. CASE i <= Len(l)
    <3>1. i \in 1 .. m - a + 1
      BY <1>1, <2>0, <2>1
    <3> QED BY <1>1, <1>4, <2>0, <2>1, <3>1
  <2>2. CASE ~ (i <= Len(l))
    <3>1. i - Len(l) \in 1 .. b - m /\ (i - Len(l)) + m = i + a - 1
      BY <1>1, <1>2, <2>0, <2>2
    <3>2. c[i] = r[i - Len(l)]
      BY <1>4, <2>0, <2>2
    <3>3. r[i - Len(l)] = s[(i - Len(l)) + m]
      BY <1>2, <3>1
    <3> QED BY <2>0, <3>1, <3>2, <3>3
  <2> QED BY <2>1, <2>2
<1>7. c = w
  BY <1>3, <1>4, <1>5, <1>6, SameElements
<1> QED BY <1>7 DEF c, l, r, w

LEMMA SubSeqWhole ==
  ASSUME NEW S, NEW s \in Seq(S)
  PROVE  SubSeq(s, 1, Len(s)) = s /\ SubSeq(s, 1, 0) = <<>>
<1> DEFINE t == SubSeq(s, 1, Len(s))
<1>1. t \in Seq(S) /\ Len(t) = Len(s) /\ \A i \in 1 .. Len(t) : t[i] = s[i]
  OBVIOUS
<1> HIDE DEF t
<1>2. t = s
  BY <1>1, SameElements
<1> QED BY <1>2 DEF t

-----------------------------------------------------------------------------

LEMMA OverlayIs ==
  ASSUME NEW buffer, IsBuffer(buffer), NEW at \in Nat, NEW row \in Seq(Int),
         at + Len(row) <= BlockSize
  PROVE  /\ IsBuffer(Overlay(buffer, at, row))
         /\ SubSeq(Overlay(buffer, at, row), 1, at + Len(row)) = SubSeq(buffer, 1, at) \o row
<1> DEFINE o == Overlay(buffer, at, row)
           k == at + Len(row)
<1>0. BlockSize \in Nat /\ Len(row) \in Nat /\ buffer \in Seq(Int) /\ Len(buffer) = BlockSize
  BY SizesAre DEF IsBuffer
<1>1. o \in [1 .. BlockSize -> Int] /\ \A i \in 1 .. BlockSize :
        o[i] = IF i \in at + 1 .. at + Len(row) THEN row[i - at] ELSE buffer[i]
  <2>1. ASSUME NEW i \in 1 .. BlockSize
        PROVE  (IF i \in at + 1 .. at + Len(row) THEN row[i - at] ELSE buffer[i]) \in Int
    <3>1. i \in at + 1 .. at + Len(row) => i - at \in 1 .. Len(row)
      BY <1>0
    <3>2. buffer[i] \in Int
      BY <1>0
    <3>3. \A j \in 1 .. Len(row) : row[j] \in Int
      OBVIOUS
    <3> QED BY <3>1, <3>2, <3>3
  <2> QED BY <2>1 DEF Overlay
<1> HIDE DEF o
<1>2. o \in Seq(Int) /\ Len(o) = BlockSize
  BY <1>0, <1>1
<1>3. k \in Nat /\ k <= BlockSize /\ at <= BlockSize
  BY <1>0
<1> DEFINE l == SubSeq(o, 1, k)
           p == SubSeq(buffer, 1, at)
           r == p \o row
<1>4. l \in Seq(Int) /\ Len(l) = k /\ \A i \in 1 .. k : l[i] = o[i]
  <2> HIDE DEF k
  <2> QED BY <1>2, <1>3
<1>5. p \in Seq(Int) /\ Len(p) = at /\ \A i \in 1 .. at : p[i] = buffer[i]
  BY <1>0, <1>3
<1> HIDE DEF l, p
<1>6. /\ r \in Seq(Int) /\ Len(r) = k
      /\ \A i \in 1 .. k : r[i] = IF i <= at THEN p[i] ELSE row[i - at]
  BY <1>0, <1>5, ConcatIs
<1> HIDE DEF r
<1>7. ASSUME NEW i \in 1 .. k PROVE l[i] = r[i]
  <2>1. i \in 1 .. BlockSize /\ (i <= at <=> i \notin at + 1 .. at + Len(row)) /\ (i <= at => i \in 1 .. at)
    BY <1>3, <1>0
  <2> HIDE DEF k
  <2> QED BY <1>1, <1>4, <1>5, <1>6, <2>1
<1>8. l = r
  <2> HIDE DEF k
  <2> QED BY <1>4, <1>6, <1>7, SameElements
<1> QED BY <1>2, <1>8 DEF o, l, r, p, IsBuffer

-----------------------------------------------------------------------------
(* A sequence by its elements, and one more of them.                        *)
IsOneAppended(f, g, k, x) ==
  /\ Len(g) = k /\ f = [i \in 1 .. k + 1 |-> f[i]]
  /\ f[k + 1] = x /\ \A i \in 1 .. k : f[i] = g[i]

LEMMA OneAppended ==
  ASSUME NEW S, NEW k \in Nat, NEW f, NEW g \in Seq(S), NEW x \in S, IsOneAppended(f, g, k, x)
  PROVE  f = Append(g, x)
<1> DEFINE v == Append(g, x)
<1>1. v \in Seq(S) /\ Len(v) = k + 1 /\ (\A i \in 1 .. k : v[i] = g[i]) /\ v[k + 1] = x
  BY DEF IsOneAppended
<1> HIDE DEF v
<1>2. \A i \in 1 .. k + 1 : i \in 1 .. k \/ i = k + 1
  OBVIOUS
<1>3. v = [i \in 1 .. k + 1 |-> v[i]]
  BY <1>1
<1>4. \A i \in 1 .. k + 1 : f[i] = v[i]
  BY <1>1, <1>2 DEF IsOneAppended
<1>5. f = v
  BY <1>3, <1>4 DEF IsOneAppended
<1> QED BY <1>5 DEF v

(* The first k blocks of a row of bytes are its first bytes.            *)
BlockAt(row, j) == SubSeq(row, (j - 1) * BlockSize + 1, j * BlockSize)
FirstBlocks(row, k) == [j \in 1 .. k |-> BlockAt(row, j)]

LEMMA FirstBlocksFlat ==
  ASSUME NEW row \in Seq(Int), NEW n \in Nat, n * BlockSize <= Len(row)
  PROVE  /\ FirstBlocks(row, n) \in Seq(Seq(Int))
         /\ FlattenSeq(FirstBlocks(row, n)) = SubSeq(row, 1, n * BlockSize)
<1> DEFINE FB(k) == FirstBlocks(row, k)
           P(k) == k <= n => /\ FB(k) \in Seq(Seq(Int)) /\ Len(FB(k)) = k
                             /\ FlattenSeq(FB(k)) = SubSeq(row, 1, k * BlockSize)
<1>0. BlockSize \in Nat \ {0} /\ Len(row) \in Nat
  BY SizesAre
<1>1. P(0)
  <2>1. FB(0) = <<>> /\ 0 * BlockSize = 0
    BY <1>0 DEF FirstBlocks
  <2>2. SubSeq(row, 1, 0) = <<>>
    BY SubSeqWhole
  <2>3. <<>> \in Seq(Seq(Int)) /\ Len(<<>>) = 0 /\ FlattenSeq(<<>>) = <<>>
    BY FlattenEmpty
  <2> QED BY <2>1, <2>2, <2>3
<1>2. ASSUME NEW k \in Nat, P(k) PROVE P(k + 1)
  <2> SUFFICES ASSUME k + 1 <= n
               PROVE  /\ FB(k + 1) \in Seq(Seq(Int)) /\ Len(FB(k + 1)) = k + 1
                      /\ FlattenSeq(FB(k + 1)) = SubSeq(row, 1, (k + 1) * BlockSize)
    OBVIOUS
  <2>1. /\ FB(k) \in Seq(Seq(Int)) /\ Len(FB(k)) = k
        /\ FlattenSeq(FB(k)) = SubSeq(row, 1, k * BlockSize)
    BY <1>2
  <2>2. PICK m \in Nat : m = k * BlockSize
    BY <1>0
  <2>3. (k + 1) * BlockSize = m + BlockSize /\ m + BlockSize <= Len(row)
    <3>1. (k + 1) * BlockSize = m + BlockSize
      BY <1>0, <2>2
    <3>2. (k + 1) * BlockSize <= n * BlockSize /\ n * BlockSize \in Nat
      BY <1>0
    <3> QED BY <1>0, <3>1, <3>2
  <2> DEFINE x == SubSeq(row, m + 1, m + BlockSize)
  <2>4. x \in Seq(Int)
    BY <1>0, <2>3
  <2>5. BlockAt(row, k + 1) = x
    <3>1. (k + 1) - 1 = k
      OBVIOUS
    <3> QED BY <3>1, <2>2, <2>3 DEF BlockAt
  <2>6. FB(k + 1) = Append(FB(k), x)
    <3>1. PICK u : u = FB(k + 1)
      OBVIOUS
    <3>2. PICK f : f = FB(k)
      OBVIOUS
    <3>3. u = [i \in 1 .. k + 1 |-> u[i]] /\ \A i \in 1 .. k + 1 : u[i] = BlockAt(row, i)
      BY <3>1 DEF FirstBlocks
    <3>4. \A i \in 1 .. k : f[i] = BlockAt(row, i)
      BY <3>2 DEF FirstBlocks
    <3>5. f \in Seq(Seq(Int)) /\ Len(f) = k
      BY <3>2, <2>1
    <3> HIDE DEF x
    <3>6. u[k + 1] = x /\ \A i \in 1 .. k : u[i] = f[i]
      BY <2>5, <3>3, <3>4
    <3>7. IsOneAppended(u, f, k, x)
      BY <3>3, <3>5, <3>6 DEF IsOneAppended
    <3>8. u = Append(f, x)
      BY <2>4, <3>5, <3>7, OneAppended
    <3> QED BY <3>1, <3>2, <3>8
  <2>7. SubSeq(row, 1, m) \o x = SubSeq(row, 1, m + BlockSize)
    BY <1>0, <2>3, SubSeqConcat
  <2> HIDE DEF FB, x
  <2>8. Append(FB(k), x) \in Seq(Seq(Int)) /\ Len(Append(FB(k), x)) = k + 1
    BY <2>1, <2>4
  <2>9. FlattenSeq(Append(FB(k), x)) = FlattenSeq(FB(k)) \o x
    BY <2>1, <2>4, FlattenAppend
  <2> QED BY <2>1, <2>2, <2>3, <2>6, <2>7, <2>8, <2>9
<1> DEFINE G == {k \in Nat : P(k)}
<1>3. \A k \in Nat : P(k)
  <2> HIDE DEF P
  <2>1. 0 \in G /\ \A k \in Nat : k \in G => k + 1 \in G
    BY <1>1, <1>2
  <2> HIDE DEF G
  <2>2. Nat \subseteq G
    BY <2>1, NatSetInduction
  <2> QED BY <2>2 DEF G
<1>4. P(n)
  BY <1>3
<1> QED BY <1>4

LEMMA BlocksRest ==
  ASSUME NEW row \in Seq(Int)
  PROVE  /\ Blocks(row) \in Seq(Seq(Int)) /\ Rest(row) \in Seq(Int)
         /\ Len(Rest(row)) = Len(row) % BlockSize
         /\ FlattenSeq(Blocks(row)) \o Rest(row) = row
<1> DEFINE N == Len(row)
<1>0. BlockSize \in Nat \ {0} /\ N \in Nat
  BY SizesAre
<1>1. PICK q \in Nat, r \in 0 .. BlockSize - 1 :
        q = N \div BlockSize /\ r = N % BlockSize /\ N = BlockSize * q + r
  BY <1>0, DivMod
<1>2. PICK m \in Nat : m = q * BlockSize /\ m = BlockSize * q
  BY <1>0
<1>3. Blocks(row) = FirstBlocks(row, q)
  BY <1>1 DEF Blocks, FirstBlocks, BlockAt
<1>4. m + r = N /\ m <= N
  BY <1>1, <1>2, <1>0
<1>5. Blocks(row) \in Seq(Seq(Int)) /\ FlattenSeq(Blocks(row)) = SubSeq(row, 1, m)
  BY <1>2, <1>3, <1>4, FirstBlocksFlat
<1>6. Rest(row) = SubSeq(row, m + 1, N)
  BY <1>1, <1>2 DEF Rest
<1>7. Rest(row) \in Seq(Int) /\ Len(Rest(row)) = r
  <2>1. m + 1 \in Nat \ {0} /\ m + 1 <= N + 1 /\ N - (m + 1) + 1 = r
    BY <1>0, <1>4
  <2> QED BY <1>0, <1>6, <2>1, SubSeqIs
<1>8. SubSeq(row, 1, m) \o SubSeq(row, m + 1, N) = row
  <2> HIDE DEF N
  <2>0. N <= Len(row)
    BY <1>0 DEF N
  <2>1. SubSeq(row, 1, m) \o SubSeq(row, m + 1, N) = SubSeq(row, 1, N)
    BY <1>0, <1>4, <2>0, SubSeqConcat
  <2> QED BY <2>1, SubSeqWhole DEF N
<1> QED BY <1>1, <1>5, <1>6, <1>7, <1>8

-----------------------------------------------------------------------------
(* The rest is about bytes as a whole: what they are is not looked into.    *)
AreBytes(s) == s \in Seq(Int)
AreBlocks(bs) == bs \in Seq(Seq(Int))

LEMMA BytesLength ==
  ASSUME NEW s, AreBytes(s)
  PROVE  Len(s) \in Nat
  BY DEF AreBytes

LEMMA BytesEmpty ==
  /\ AreBytes(<<>>) /\ Len(<<>>) = 0
  /\ \A s : AreBytes(s) => s \o <<>> = s /\ <<>> \o s = s
  BY DEF AreBytes

LEMMA BytesConcat ==
  ASSUME NEW s, NEW t, AreBytes(s), AreBytes(t)
  PROVE  AreBytes(s \o t) /\ Len(s \o t) = Len(s) + Len(t)
  BY DEF AreBytes

LEMMA BytesAssoc ==
  ASSUME NEW s, NEW t, NEW u, AreBytes(s), AreBytes(t), AreBytes(u)
  PROVE  (s \o t) \o u = s \o (t \o u)
  BY DEF AreBytes

LEMMA BytesOf ==
  ASSUME NEW n \in Nat, NEW s \in [1 .. n -> Int]
  PROVE  AreBytes(s) /\ Len(s) = n
  BY DEF AreBytes

LEMMA BytesCut ==
  ASSUME NEW s, AreBytes(s), NEW k \in Nat, k <= Len(s)
  PROVE  /\ AreBytes(SubSeq(s, 1, k)) /\ Len(SubSeq(s, 1, k)) = k
         /\ AreBytes(SubSeq(s, k + 1, Len(s))) /\ Len(SubSeq(s, k + 1, Len(s))) = Len(s) - k
         /\ SubSeq(s, 1, k) \o SubSeq(s, k + 1, Len(s)) = s
<1> DEFINE n == Len(s)
<1>1. s \in Seq(Int) /\ n \in Nat /\ k <= n
  BY DEF AreBytes
<1> HIDE DEF n
<1>2. n <= Len(s)
  BY <1>1 DEF n
<1>3. SubSeq(s, 1, k) \in Seq(Int) /\ Len(SubSeq(s, 1, k)) = k
  BY <1>1, <1>2
<1>4. SubSeq(s, k + 1, n) \in Seq(Int) /\ Len(SubSeq(s, k + 1, n)) = n - k
  BY <1>1, <1>2
<1>5. SubSeq(s, 1, k) \o SubSeq(s, k + 1, n) = SubSeq(s, 1, n)
  BY <1>1, <1>2, SubSeqConcat
<1>6. SubSeq(s, 1, n) = s
  BY <1>1, SubSeqWhole DEF n
<1> QED BY <1>3, <1>4, <1>5, <1>6 DEF n, AreBytes

LEMMA BytesWhole ==
  ASSUME NEW s, AreBytes(s)
  PROVE  SubSeq(s, 1, Len(s)) = s /\ SubSeq(s, 1, 0) = <<>>
  BY SubSeqWhole DEF AreBytes

LEMMA BufferBytes ==
  ASSUME NEW buffer, IsBuffer(buffer)
  PROVE  AreBytes(buffer) /\ Len(buffer) = BlockSize
  BY DEF IsBuffer, AreBytes

LEMMA BytesOverlay ==
  ASSUME NEW buffer, IsBuffer(buffer), NEW at \in Nat, NEW s, AreBytes(s),
         at + Len(s) <= BlockSize
  PROVE  /\ IsBuffer(Overlay(buffer, at, s))
         /\ SubSeq(Overlay(buffer, at, s), 1, at + Len(s)) = SubSeq(buffer, 1, at) \o s
  BY OverlayIs DEF AreBytes

LEMMA BytesBlocks ==
  ASSUME NEW s, AreBytes(s)
  PROVE  /\ AreBlocks(Blocks(s)) /\ AreBytes(Rest(s))
         /\ Len(Rest(s)) = Len(s) % BlockSize
         /\ FlattenSeq(Blocks(s)) \o Rest(s) = s
  BY BlocksRest DEF AreBytes, AreBlocks

LEMMA BlocksFlat ==
  ASSUME NEW b, AreBlocks(b)
  PROVE  AreBytes(FlattenSeq(b))
  BY FlattenType DEF AreBytes, AreBlocks

LEMMA BlocksOne ==
  ASSUME NEW b, AreBlocks(b), NEW s, AreBytes(s)
  PROVE  AreBlocks(b \o <<s>>) /\ FlattenSeq(b \o <<s>>) = FlattenSeq(b) \o s
<1>1. b \in Seq(Seq(Int)) /\ s \in Seq(Int)
  BY DEF AreBytes, AreBlocks
<1>2. b \o <<s>> = Append(b, s) /\ Append(b, s) \in Seq(Seq(Int))
  BY <1>1
<1>3. FlattenSeq(Append(b, s)) = FlattenSeq(b) \o s
  BY <1>1, FlattenAppend
<1> QED BY <1>2, <1>3 DEF AreBlocks

LEMMA BlocksConcat ==
  ASSUME NEW b, AreBlocks(b), NEW c, AreBlocks(c)
  PROVE  AreBlocks(b \o c) /\ FlattenSeq(b \o c) = FlattenSeq(b) \o FlattenSeq(c)
<1>1. b \in Seq(Seq(Int)) /\ c \in Seq(Seq(Int))
  BY DEF AreBlocks
<1>2. b \o c \in Seq(Seq(Int))
  BY <1>1
<1>3. FlattenSeq(b \o c) = FlattenSeq(b) \o FlattenSeq(c)
  BY <1>1, FlattenConcat
<1> QED BY <1>2, <1>3 DEF AreBlocks

LEMMA BlocksEmpty == AreBlocks(<<>>) /\ FlattenSeq(<<>>) = <<>>
  BY FlattenEmpty DEF AreBlocks

-----------------------------------------------------------------------------
(* The operators on bytes under names of their own, which a proof need not  *)
(* look into.                                                               *)
Glue(s, t) == s \o t
Upto(s, k) == SubSeq(s, 1, k)
Past(s, k) == SubSeq(s, k + 1, Len(s))
LenOf(s) == Len(s)
Joined(bs) == FlattenSeq(bs)
Single(s) == <<s>>
IndexOf(s) == Len(s) % BlockSize

LEMMA SizeIs ==
  ASSUME NEW s, AreBytes(s)
  PROVE  LenOf(s) \in Nat
  BY BytesLength DEF LenOf

LEMMA CatIs ==
  ASSUME NEW s, NEW t, AreBytes(s), AreBytes(t)
  PROVE  AreBytes(Glue(s, t)) /\ LenOf(Glue(s, t)) = LenOf(s) + LenOf(t)
  BY BytesConcat DEF Glue, LenOf

LEMMA CatAssoc ==
  ASSUME NEW s, NEW t, NEW u, AreBytes(s), AreBytes(t), AreBytes(u)
  PROVE  Glue(Glue(s, t), u) = Glue(s, Glue(t, u))
  BY BytesAssoc DEF Glue

LEMMA CatEmpty ==
  /\ AreBytes(<<>>) /\ LenOf(<<>>) = 0
  /\ \A s : AreBytes(s) => Glue(s, <<>>) = s /\ Glue(<<>>, s) = s
  BY BytesEmpty DEF Glue, LenOf

LEMMA CutIs ==
  ASSUME NEW s, AreBytes(s), NEW k, k \in Nat, k <= LenOf(s)
  PROVE  /\ AreBytes(Upto(s, k)) /\ LenOf(Upto(s, k)) = k
         /\ AreBytes(Past(s, k)) /\ LenOf(Past(s, k)) = LenOf(s) - k
         /\ Glue(Upto(s, k), Past(s, k)) = s
  BY BytesCut DEF Upto, Past, LenOf, Glue

LEMMA FrontWhole ==
  ASSUME NEW s, AreBytes(s)
  PROVE  Upto(s, LenOf(s)) = s /\ Upto(s, 0) = <<>>
  BY BytesWhole DEF Upto, LenOf

LEMMA BufferIs ==
  ASSUME NEW b, IsBuffer(b)
  PROVE  AreBytes(b) /\ LenOf(b) = BlockSize
  BY BufferBytes DEF LenOf

LEMMA OverlayAt ==
  ASSUME NEW b, IsBuffer(b), NEW at, at \in Nat, NEW s, AreBytes(s), at + LenOf(s) <= BlockSize
  PROVE  /\ IsBuffer(Overlay(b, at, s))
         /\ Upto(Overlay(b, at, s), at + LenOf(s)) = Glue(Upto(b, at), s)
  BY BytesOverlay DEF Upto, LenOf, Glue

LEMMA BlocksAre ==
  ASSUME NEW s, AreBytes(s)
  PROVE  /\ AreBlocks(Blocks(s)) /\ AreBytes(Rest(s)) /\ LenOf(Rest(s)) = IndexOf(s)
         /\ Glue(Joined(Blocks(s)), Rest(s)) = s
  BY BytesBlocks DEF LenOf, IndexOf, Glue, Joined

LEMMA FlatBytes ==
  ASSUME NEW b, AreBlocks(b)
  PROVE  AreBytes(Joined(b))
  BY BlocksFlat DEF Joined

LEMMA FlatOne ==
  ASSUME NEW b, AreBlocks(b), NEW s, AreBytes(s)
  PROVE  AreBlocks(Glue(b, Single(s))) /\ Joined(Glue(b, Single(s))) = Glue(Joined(b), s)
  BY BlocksOne DEF Joined, Glue, Single

LEMMA FlatCat ==
  ASSUME NEW b, AreBlocks(b), NEW c, AreBlocks(c)
  PROVE  AreBlocks(Glue(b, c)) /\ Joined(Glue(b, c)) = Glue(Joined(b), Joined(c))
  BY BlocksConcat DEF Joined, Glue

LEMMA FlatEmpty == AreBlocks(<<>>) /\ Joined(<<>>) = <<>>
  BY BlocksEmpty DEF Joined

-----------------------------------------------------------------------------

LEMMA IndexFits ==
  ASSUME NEW s, AreBytes(s)
  PROVE  IndexOf(s) \in Nat /\ IndexOf(s) < BlockSize
<1>1. Len(s) \in Nat /\ BlockSize \in Nat \ {0}
  BY BytesLength, SizesAre
<1>2. Len(s) % BlockSize \in 0 .. BlockSize - 1
  BY <1>1, DivMod
<1> QED BY <1>1, <1>2 DEF IndexOf

(* The bytes behind s come to lie behind the index of s.                    *)
LEMMA IndexCat ==
  ASSUME NEW s, AreBytes(s), NEW t, AreBytes(t)
  PROVE  IndexOf(Glue(s, t)) = (IndexOf(s) + LenOf(t)) % BlockSize
<1>1. Len(s) \in Nat /\ Len(t) \in Nat /\ BlockSize \in Nat \ {0}
  BY BytesLength, SizesAre
<1>2. PICK a \in Nat, b \in Nat, d \in Nat \ {0} : a = Len(s) /\ b = Len(t) /\ d = BlockSize
  BY <1>1
<1>3. (a + b) % d = ((a % d) + b) % d
  BY DivModAdd
<1>4. LenOf(Glue(s, t)) = LenOf(s) + LenOf(t)
  BY CatIs
<1>5. Len(Glue(s, t)) = a + b
  BY <1>2, <1>4 DEF LenOf
<1> QED BY <1>2, <1>3, <1>5 DEF IndexOf, LenOf

LEMMA SmallMod ==
  ASSUME NEW r \in Nat, r < BlockSize
  PROVE  r % BlockSize = r
<1>1. PICK d \in Nat \ {0} : d = BlockSize
  BY SizesAre
<1>2. r = d * 0 + r /\ r \in 0 .. d - 1
  BY <1>1
<1>3. r % d = r
  BY <1>2, DivModIs
<1> QED BY <1>1, <1>3

LEMMA IndexSmall ==
  ASSUME NEW s, AreBytes(s), NEW t, AreBytes(t), IndexOf(s) + LenOf(t) < BlockSize
  PROVE  IndexOf(Glue(s, t)) = IndexOf(s) + LenOf(t)
<1>1. PICK r \in Nat : r = IndexOf(s) + LenOf(t) /\ r < BlockSize
  BY IndexFits, SizeIs
<1>2. r % BlockSize = r
  BY <1>1, SmallMod
<1> QED BY <1>1, <1>2, IndexCat

LEMMA IndexOver ==
  ASSUME NEW s, AreBytes(s), NEW t, AreBytes(t), NEW d, AreBytes(d),
         IndexOf(s) + LenOf(t) = BlockSize + LenOf(d)
  PROVE  IndexOf(Glue(s, t)) = IndexOf(d)
<1>1. PICK m \in Nat \ {0}, n \in Nat : m = BlockSize /\ n = LenOf(d)
  BY SizesAre, SizeIs
<1>2. m = m * 1 + 0 /\ 0 \in 0 .. m - 1
  OBVIOUS
<1>3. m % m = 0
  BY <1>2, DivModIs
<1>4. (m + n) % m = ((m % m) + n) % m
  BY DivModAdd
<1>5. (m + n) % m = n % m
  BY <1>3, <1>4
<1> QED BY <1>1, <1>5, IndexCat DEF IndexOf, LenOf

-----------------------------------------------------------------------------

(* blocks and buffer hold the bytes of s, the rest of them in the buffer.   *)
Holds(blocks, buffer, s) ==
  /\ AreBlocks(blocks) /\ IsBuffer(buffer) /\ AreBytes(s)
  /\ Glue(Joined(blocks), Upto(buffer, IndexOf(s))) = s

LEMMA HoldsFront ==
  ASSUME NEW bs, NEW b, NEW s, Holds(bs, b, s)
  PROVE  AreBytes(Joined(bs)) /\ AreBytes(Upto(b, IndexOf(s)))
<1>1. AreBlocks(bs) /\ IsBuffer(b) /\ AreBytes(s)
  BY DEF Holds
<1>2. AreBytes(b) /\ LenOf(b) = BlockSize
  BY <1>1, BufferIs
<1>3. IndexOf(s) \in Nat /\ IndexOf(s) <= LenOf(b)
  BY <1>1, <1>2, IndexFits, SizesAre
<1> QED BY <1>1, <1>2, <1>3, FlatBytes, CutIs

(* Bytes that do not fill the buffer.                                       *)
LEMMA AbsorbLittle ==
  ASSUME NEW bs, NEW b, NEW s, Holds(bs, b, s), NEW t, AreBytes(t), IndexOf(s) + LenOf(t) < BlockSize
  PROVE  Holds(bs, Overlay(b, IndexOf(s), t), Glue(s, t))
<1>1. AreBlocks(bs) /\ IsBuffer(b) /\ AreBytes(s) /\ Glue(Joined(bs), Upto(b, IndexOf(s))) = s
  BY DEF Holds
<1>2. AreBytes(Joined(bs)) /\ AreBytes(Upto(b, IndexOf(s)))
  BY HoldsFront
<1>3. IndexOf(s) \in Nat /\ IndexOf(s) + LenOf(t) <= BlockSize
  BY <1>1, IndexFits, SizeIs, SizesAre
<1>4. /\ IsBuffer(Overlay(b, IndexOf(s), t))
      /\ Upto(Overlay(b, IndexOf(s), t), IndexOf(s) + LenOf(t)) = Glue(Upto(b, IndexOf(s)), t)
  BY <1>1, <1>3, OverlayAt
<1>5. Glue(Joined(bs), Glue(Upto(b, IndexOf(s)), t)) = Glue(s, t)
  BY <1>1, <1>2, CatAssoc
<1>6. IndexOf(Glue(s, t)) = IndexOf(s) + LenOf(t) /\ AreBytes(Glue(s, t))
  BY <1>1, IndexSmall, CatIs
<1> QED BY <1>1, <1>4, <1>5, <1>6 DEF Holds

(* The buffer with the bytes that fill it, those behind them.               *)
Filled(b, i, t) == Overlay(b, i, Upto(t, BlockSize - i))
Further(i, t) == Past(t, BlockSize - i)

LEMMA FilledIs ==
  ASSUME NEW b, IsBuffer(b), NEW i, i \in Nat, i < BlockSize, NEW t, AreBytes(t),
         ~ (i + LenOf(t) < BlockSize)
  PROVE  /\ IsBuffer(Filled(b, i, t)) /\ AreBytes(Further(i, t)) /\ AreBytes(Upto(t, BlockSize - i))
         /\ i + LenOf(t) = BlockSize + LenOf(Further(i, t))
         /\ Filled(b, i, t) = Glue(Upto(b, i), Upto(t, BlockSize - i))
         /\ Glue(Upto(t, BlockSize - i), Further(i, t)) = t
<1>1. BlockSize \in Nat /\ LenOf(t) \in Nat
  BY SizesAre, SizeIs
<1>2. PICK k \in Nat : k = BlockSize - i /\ k <= LenOf(t) /\ i + k = BlockSize
  BY <1>1
<1>3. /\ AreBytes(Upto(t, k)) /\ LenOf(Upto(t, k)) = k
      /\ AreBytes(Past(t, k)) /\ LenOf(Past(t, k)) = LenOf(t) - k
      /\ Glue(Upto(t, k), Past(t, k)) = t
  BY <1>2, CutIs
<1>4. i + LenOf(Upto(t, k)) = BlockSize
  BY <1>2, <1>3
<1>5. /\ IsBuffer(Overlay(b, i, Upto(t, k)))
      /\ Upto(Overlay(b, i, Upto(t, k)), i + LenOf(Upto(t, k))) = Glue(Upto(b, i), Upto(t, k))
  BY <1>1, <1>3, <1>4, OverlayAt
<1>6. PICK f : f = Overlay(b, i, Upto(t, k))
  OBVIOUS
<1>7. Upto(f, BlockSize) = f
  BY <1>5, <1>6, BufferIs, FrontWhole
<1>8. i + LenOf(t) = BlockSize + LenOf(Past(t, k))
  BY <1>1, <1>2, <1>3
<1> QED BY <1>2, <1>3, <1>4, <1>5, <1>6, <1>7, <1>8 DEF Filled, Further

(* The rest, at the front of a buffer.                                      *)
LEMMA RestOverlaid ==
  ASSUME NEW b, IsBuffer(b), NEW d, AreBytes(d)
  PROVE  IsBuffer(Overlay(b, 0, Rest(d))) /\ Upto(Overlay(b, 0, Rest(d)), IndexOf(d)) = Rest(d)
<1>1. AreBytes(Rest(d)) /\ LenOf(Rest(d)) = IndexOf(d)
  BY BlocksAre
<1>2. IndexOf(d) \in Nat /\ IndexOf(d) < BlockSize /\ BlockSize \in Nat
  BY IndexFits, SizesAre
<1>3. 0 \in Nat /\ 0 + LenOf(Rest(d)) = IndexOf(d) /\ 0 + LenOf(Rest(d)) <= BlockSize
  BY <1>1, <1>2
<1>4. /\ IsBuffer(Overlay(b, 0, Rest(d)))
      /\ Upto(Overlay(b, 0, Rest(d)), 0 + LenOf(Rest(d))) = Glue(Upto(b, 0), Rest(d))
  BY <1>1, <1>3, OverlayAt
<1>5. Upto(b, 0) = <<>>
  BY BufferIs, FrontWhole
<1> QED BY <1>1, <1>3, <1>4, <1>5, CatEmpty

(* Bytes that fill the buffer, perhaps whole blocks behind it.              *)
LEMMA AbsorbMuch ==
  ASSUME NEW bs, NEW b, NEW s, Holds(bs, b, s), NEW t, AreBytes(t), ~ (IndexOf(s) + LenOf(t) < BlockSize)
  PROVE  Holds(Glue(Glue(bs, Single(Filled(b, IndexOf(s), t))), Blocks(Further(IndexOf(s), t))),
               Overlay(Filled(b, IndexOf(s), t), 0, Rest(Further(IndexOf(s), t))), Glue(s, t))
<1>1. AreBlocks(bs) /\ IsBuffer(b) /\ AreBytes(s) /\ Glue(Joined(bs), Upto(b, IndexOf(s))) = s
  BY DEF Holds
<1>2. AreBytes(Joined(bs)) /\ AreBytes(Upto(b, IndexOf(s)))
  BY HoldsFront
<1>3. IndexOf(s) \in Nat /\ IndexOf(s) < BlockSize
  BY <1>1, IndexFits
<1>4. PICK f, d, c : f = Filled(b, IndexOf(s), t) /\ d = Further(IndexOf(s), t) /\ c = Upto(t, BlockSize - IndexOf(s))
  OBVIOUS
<1>5. /\ IsBuffer(f) /\ AreBytes(d) /\ AreBytes(c) /\ IndexOf(s) + LenOf(t) = BlockSize + LenOf(d)
      /\ f = Glue(Upto(b, IndexOf(s)), c) /\ Glue(c, d) = t
  BY <1>1, <1>3, <1>4, FilledIs
<1>6. IndexOf(Glue(s, t)) = IndexOf(d) /\ AreBytes(Glue(s, t))
  BY <1>1, <1>5, IndexOver, CatIs
<1>7. IsBuffer(Overlay(f, 0, Rest(d))) /\ Upto(Overlay(f, 0, Rest(d)), IndexOf(d)) = Rest(d)
  BY <1>5, RestOverlaid
<1>8. AreBytes(f)
  BY <1>5, BufferIs
<1>9. /\ AreBlocks(Blocks(d)) /\ AreBytes(Rest(d)) /\ Glue(Joined(Blocks(d)), Rest(d)) = d
      /\ AreBytes(Joined(Blocks(d)))
  BY <1>5, BlocksAre, FlatBytes
<1>10. AreBlocks(Glue(bs, Single(f))) /\ Joined(Glue(bs, Single(f))) = Glue(Joined(bs), f)
  BY <1>1, <1>8, FlatOne
<1>11. /\ AreBlocks(Glue(Glue(bs, Single(f)), Blocks(d)))
       /\ Joined(Glue(Glue(bs, Single(f)), Blocks(d))) = Glue(Glue(Joined(bs), f), Joined(Blocks(d)))
  BY <1>9, <1>10, FlatCat
<1>12. Glue(Joined(bs), f) = Glue(s, c)
  BY <1>1, <1>2, <1>5, CatAssoc
<1>13. AreBytes(Glue(s, c))
  BY <1>1, <1>5, CatIs
<1>14. Glue(Glue(Glue(s, c), Joined(Blocks(d))), Rest(d)) = Glue(Glue(s, c), d)
  BY <1>9, <1>13, CatAssoc
<1>15. Glue(Glue(s, c), d) = Glue(s, t)
  BY <1>1, <1>5, CatAssoc
<1> QED BY <1>4, <1>6, <1>7, <1>11, <1>12, <1>14, <1>15 DEF Holds

-----------------------------------------------------------------------------
(* Two words count like one: a carry is due when the low word gets less     *)
(* than what was added to it.                                               *)
LEMMA CarryDue ==
  ASSUME NEW d \in Nat \ {0}, NEW x \in Nat, NEW y \in Nat
  PROVE  (x + y) \div d
           = (x \div d) + (IF ((x % d) + y) % d < y % d THEN 1 ELSE 0) + (y \div d)
<1>1. PICK q \in Nat, r \in 0 .. d - 1 : q = x \div d /\ r = x % d /\ x = d * q + r
  BY DivMod
<1>2. PICK p \in Nat, s \in 0 .. d - 1 : p = y \div d /\ s = y % d /\ y = d * p + s
  BY DivMod
<1>3. (r + y) % d = (x + y) % d
  BY <1>1, DivModAdd
<1>4. d * q \in Int /\ d * p \in Int /\ d * (q + p) = d * q + d * p
  OBVIOUS
<1>5. PICK n \in Nat, k \in Nat : n = x + y /\ k = q + p /\ n = d * k + (r + s)
  BY <1>1, <1>2, <1>4
<1>6. CASE r + s < d
  <2>1. PICK u \in 0 .. d - 1 : u = r + s
    BY <1>6
  <2>0. n = d * k + u
    BY <1>5, <2>1
  <2>2. n \div d = k /\ n % d = u
    BY <2>0, DivModIs
  <2>3. ~ (u < s)
    BY <2>1
  <2>4. (r + y) % d = u /\ y % d = s
    BY <1>2, <1>3, <1>5, <2>2
  <2>5. (x + y) \div d = q + 0 + p
    BY <1>5, <2>2
  <2> QED BY <1>1, <1>2, <2>3, <2>4, <2>5
<1>7. CASE r + s >= d
  <2>1. PICK u \in 0 .. d - 1 : u = r + s - d
    BY <1>7
  <2>2. PICK m \in Nat : m = k + 1
    OBVIOUS
  <2>3. d * m = d * k + d
    BY <2>2
  <2>4. d * k \in Int /\ n = d * m + u
    BY <1>5, <2>1, <2>3
  <2>5. n \div d = m /\ n % d = u
    BY <2>1, <2>4, DivModIs
  <2>6. u < s
    BY <2>1
  <2>7. (r + y) % d = u /\ y % d = s
    BY <1>2, <1>3, <1>5, <2>5
  <2>8. (x + y) \div d = q + 1 + p
    BY <1>5, <2>2, <2>5
  <2> QED BY <1>1, <1>2, <2>6, <2>7, <2>8
<1> QED BY <1>6, <1>7

(* The bit count gives the index though it is taken modulo the word.        *)
LEMMA IndexOfBits ==
  ASSUME NEW n \in Nat
  PROVE  (((8 * n) % WordSpan) \div 8) % BlockSize = n % BlockSize
<1>1. PICK w \in Nat \ {0}, d \in Nat \ {0} : w = WordSpan /\ d = BlockSize
  BY SizesAre
<1>2. w % (8 * d) = 0
  BY <1>1, HashAssumption
<1>3. PICK g \in Nat \ {0} : g = 8 * d
  OBVIOUS
<1>4. PICK m \in Nat : w = g * m
  <2>1. w \div g \in Nat /\ w = g * (w \div g) + (w % g)
    BY DivMod
  <2>2. PICK m \in Nat : m = w \div g
    BY <2>1
  <2>3. w % g = 0
    BY <1>2, <1>3
  <2>4. g * m \in Nat /\ w = g * m + 0
    BY <2>1, <2>2, <2>3
  <2> QED BY <2>4
<1>5. PICK x \in Nat : x = 8 * n
  OBVIOUS
<1>6. PICK q \in Nat, lo \in 0 .. w - 1 : lo = x % w /\ x = w * q + lo
  BY DivMod
<1>7. PICK e \in Nat : e = m * q
  OBVIOUS
<1>8. w * q = 8 * (d * e)
  <2>1. w * q = (g * m) * q
    BY <1>4
  <2>2. (g * m) * q = g * (m * q)
    OBVIOUS
  <2>3. g * e = 8 * (d * e)
    BY <1>3
  <2> QED BY <1>7, <2>1, <2>2, <2>3
<1>9. PICK f \in Nat : f = d * e
  OBVIOUS
<1>10. lo = 8 * (n - f)
  <2>1. w * q = 8 * f
    BY <1>8, <1>9
  <2>2. 8 * n = 8 * f + lo
    BY <1>5, <1>6, <2>1
  <2> QED BY <2>2
<1>11. PICK k \in Nat : k = n - f
  BY <1>10
<1>12. lo \div 8 = k
  <2>1. lo = 8 * k + 0 /\ lo \in Nat
    BY <1>10, <1>11
  <2>2. 8 \in Nat \ {0} /\ 0 \in 0 .. 8 - 1
    OBVIOUS
  <2> QED BY <2>1, <2>2, DivModIs
<1>13. n % d = k % d
  <2>1. PICK p \in Nat, r \in 0 .. d - 1 : r = k % d /\ k = d * p + r
    BY DivMod
  <2>2. PICK z \in Nat : z = p + e
    OBVIOUS
  <2>3. d * z = d * p + d * e /\ d * p \in Nat
    BY <2>2
  <2>6. d * z = d * p + f
    BY <1>9, <2>3
  <2>7. n = k + f
    BY <1>11
  <2>4. n = d * z + r
    BY <2>1, <2>3, <2>6, <2>7
  <2>5. n % d = r
    BY <2>4, DivModIs
  <2> QED BY <2>1, <2>5
<1> QED BY <1>1, <1>5, <1>6, <1>12, <1>13

(* Both words, as they are kept.                                            *)
Low(n) == (8 * n) % WordSpan
High(n) == ((8 * n) \div WordSpan) % WordSpan

LEMMA LowHighAdd ==
  ASSUME NEW n \in Nat, NEW k \in Nat
  PROVE  /\ Low(n + k) = (Low(n) + 8 * k) % WordSpan
         /\ High(n + k) = (High(n) + (IF Low(n + k) < (8 * k) % WordSpan THEN 1 ELSE 0)
                             + (8 * k) \div WordSpan) % WordSpan
<1>1. PICK w \in Nat \ {0} : w = WordSpan
  BY SizesAre
<1>2. PICK x \in Nat, y \in Nat : x = 8 * n /\ y = 8 * k /\ x + y = 8 * (n + k)
  OBVIOUS
<1>3. (x + y) % w = ((x % w) + y) % w
  BY DivModAdd
<1>4. (x + y) \div w = (x \div w) + (IF ((x % w) + y) % w < y % w THEN 1 ELSE 0) + (y \div w)
  BY CarryDue
<1>5. PICK a \in Nat, b \in Nat : a = x \div w /\ b = y \div w
  BY DivMod
<1>6. PICK c \in Nat : c = IF ((x % w) + y) % w < y % w THEN 1 ELSE 0
  OBVIOUS
<1>7. PICK t \in Nat : t = c + b
  OBVIOUS
<1>8. (a + t) % w = ((a % w) + t) % w
  BY DivModAdd
<1>9. (a % w) \in Nat
  BY DivMod
<1>10. (a % w) + t = (a % w) + c + b /\ a + t = a + c + b
  BY <1>7, <1>9
<1>11. Low(n + k) = ((x % w) + y) % w /\ Low(n) = x % w
  BY <1>1, <1>2, <1>3 DEF Low
<1>12. High(n) = a % w
  BY <1>1, <1>2, <1>5 DEF High
<1>13. High(n + k) = (a + c + b) % w
  BY <1>1, <1>2, <1>4, <1>5, <1>6 DEF High
<1> QED BY <1>1, <1>2, <1>3, <1>5, <1>6, <1>8, <1>10, <1>11, <1>12, <1>13

(* As long as it fits both words the count is exact.                        *)
LEMMA CountExact ==
  ASSUME NEW n \in Nat, 8 * n < WordSpan * WordSpan
  PROVE  High(n) * WordSpan + Low(n) = 8 * n
<1>1. PICK w \in Nat \ {0}, x \in Nat : w = WordSpan /\ x = 8 * n /\ x < w * w
  BY SizesAre
<1>2. PICK q \in Nat, r \in 0 .. w - 1 : q = x \div w /\ r = x % w /\ x = w * q + r
  BY DivMod
<1>3. q < w
  <2>1. SUFFICES ASSUME q >= w PROVE FALSE
    OBVIOUS
  <2>2. w * q >= w * w /\ w * q \in Nat /\ w * w \in Nat
    BY <2>1
  <2> QED BY <1>1, <1>2, <2>2
<1>4. q % w = q
  <2>1. q = w * 0 + q /\ q \in 0 .. w - 1
    BY <1>3
  <2> QED BY <2>1, DivModIs
<1>5. q * w = w * q
  OBVIOUS
<1> QED BY <1>1, <1>2, <1>4, <1>5 DEF High, Low

-----------------------------------------------------------------------------
(* What Absorb does to the two shapes of objects.                           *)
Md5Is(bs, b, lo, hi) == [buffer |-> b, lo |-> lo, hi |-> hi, blocks |-> bs]
ShaIs(bs, b, count) == [buffer |-> b, count |-> count, blocks |-> bs]

LEMMA Md5Absorbs ==
  ASSUME NEW bs, NEW b, NEW lo, NEW hi, NEW s, Holds(bs, b, s), NEW t, AreBytes(t)
  PROVE  \E c, d : /\ Holds(c, d, Glue(s, t))
                   /\ Absorb(Md5Is(bs, b, lo, hi), IndexOf(s), t) = Md5Is(c, d, lo, hi)
<1>1. CASE IndexOf(s) + LenOf(t) < BlockSize
  <2>1. Absorb(Md5Is(bs, b, lo, hi), IndexOf(s), t) = Md5Is(bs, Overlay(b, IndexOf(s), t), lo, hi)
    BY <1>1 DEF Absorb, Md5Is, LenOf
  <2> QED BY <1>1, <2>1, AbsorbLittle
<1>2. CASE ~ (IndexOf(s) + LenOf(t) < BlockSize)
  <2>1. PICK c, d :
          /\ c = Glue(Glue(bs, Single(Filled(b, IndexOf(s), t))), Blocks(Further(IndexOf(s), t)))
          /\ d = Overlay(Filled(b, IndexOf(s), t), 0, Rest(Further(IndexOf(s), t)))
    OBVIOUS
  <2>2. Absorb(Md5Is(bs, b, lo, hi), IndexOf(s), t) = Md5Is(c, d, lo, hi)
    BY <1>2, <2>1 DEF Absorb, Md5Is, LenOf, Glue, Single, Filled, Further, Upto, Past
  <2>3. Holds(c, d, Glue(s, t))
    BY <1>2, <2>1, AbsorbMuch
  <2> QED BY <2>2, <2>3
<1> QED BY <1>1, <1>2

LEMMA ShaAbsorbs ==
  ASSUME NEW bs, NEW b, NEW count, NEW s, Holds(bs, b, s), NEW t, AreBytes(t)
  PROVE  \E c, d : /\ Holds(c, d, Glue(s, t))
                   /\ Absorb(ShaIs(bs, b, count), IndexOf(s), t) = ShaIs(c, d, count)
<1>1. CASE IndexOf(s) + LenOf(t) < BlockSize
  <2>1. Absorb(ShaIs(bs, b, count), IndexOf(s), t) = ShaIs(bs, Overlay(b, IndexOf(s), t), count)
    BY <1>1 DEF Absorb, ShaIs, LenOf
  <2> QED BY <1>1, <2>1, AbsorbLittle
<1>2. CASE ~ (IndexOf(s) + LenOf(t) < BlockSize)
  <2>1. PICK c, d :
          /\ c = Glue(Glue(bs, Single(Filled(b, IndexOf(s), t))), Blocks(Further(IndexOf(s), t)))
          /\ d = Overlay(Filled(b, IndexOf(s), t), 0, Rest(Further(IndexOf(s), t)))
    OBVIOUS
  <2>2. Absorb(ShaIs(bs, b, count), IndexOf(s), t) = ShaIs(c, d, count)
    BY <1>2, <2>1 DEF Absorb, ShaIs, LenOf, Glue, Single, Filled, Further, Upto, Past
  <2>3. Holds(c, d, Glue(s, t))
    BY <1>2, <2>1, AbsorbMuch
  <2> QED BY <2>2, <2>3
<1> QED BY <1>1, <1>2

-----------------------------------------------------------------------------
(* What the objects are when the bytes s were given.                        *)
Md5Holds(h, s) ==
  \E c, d : Holds(c, d, s) /\ h = Md5Is(c, d, Low(LenOf(s)), High(LenOf(s)))
ShaHolds(h, s) ==
  \E c, d : Holds(c, d, s) /\ h = ShaIs(c, d, LenOf(s))
Sha1Holds(h, s) ==
  /\ AreBytes(s)
  /\ \E c, d : /\ AreBlocks(c) /\ AreBytes(d) /\ Glue(Joined(c), d) = s /\ LenOf(d) = IndexOf(s)
               /\ h = [buffer |-> d, transforms |-> LenOf(s) \div BlockSize, blocks |-> c]

LEMMA Md5Low ==
  ASSUME NEW c, NEW d, NEW l, NEW u, NEW x
  PROVE  [Md5Is(c, d, l, u) EXCEPT !.lo = x] = Md5Is(c, d, x, u)
  BY DEF Md5Is

LEMMA Md5High ==
  ASSUME NEW c, NEW d, NEW l, NEW u, NEW x
  PROVE  [Md5Is(c, d, l, u) EXCEPT !.hi = x] = Md5Is(c, d, l, x)
  BY DEF Md5Is

SetBits(f, x, y) == [f EXCEPT !.lo = x, !.hi = y]

LEMMA Md5Except ==
  ASSUME NEW c, NEW d, NEW l, NEW u, NEW x, NEW y, NEW f, f = Md5Is(c, d, l, u)
  PROVE  SetBits(f, x, y) = Md5Is(c, d, x, y)
<1>2. [f EXCEPT !.lo = x, !.hi = y] = [[f EXCEPT !.lo = x] EXCEPT !.hi = y]
  OBVIOUS
<1>3. [f EXCEPT !.lo = x] = Md5Is(c, d, x, u)
  BY Md5Low
<1>4. [Md5Is(c, d, x, u) EXCEPT !.hi = y] = Md5Is(c, d, x, y)
  BY Md5High
<1> QED BY <1>2, <1>3, <1>4 DEF SetBits

LEMMA Md5Updated ==
  ASSUME NEW h, NEW s, Md5Holds(h, s), NEW t, AreBytes(t)
  PROVE  Md5Holds(md5_update(h, t), Glue(s, t))
<1>1. PICK bs, b : Holds(bs, b, s) /\ h = Md5Is(bs, b, Low(LenOf(s)), High(LenOf(s)))
  BY DEF Md5Holds
<1>2. AreBytes(s)
  BY <1>1 DEF Holds
<1>3. PICK n \in Nat, k \in Nat : n = LenOf(s) /\ k = LenOf(t)
  BY <1>2, SizeIs
<1>4. md5_index(h) = IndexOf(s)
  <2>1. md5_index(h) = (Low(n) \div 8) % BlockSize
    BY <1>1, <1>3 DEF md5_index, Md5Is
  <2>2. n % BlockSize = IndexOf(s)
    BY <1>3 DEF IndexOf, LenOf
  <2> QED BY <2>1, <2>2, IndexOfBits DEF Low
<1>5. PICK c, d : /\ Holds(c, d, Glue(s, t))
                  /\ Absorb(h, IndexOf(s), t) = Md5Is(c, d, Low(n), High(n))
  BY <1>1, <1>3, Md5Absorbs
<1>6. LenOf(Glue(s, t)) = n + k
  BY <1>2, <1>3, CatIs
<1>7. Len(t) = k /\ h.lo = Low(n)
  BY <1>1, <1>3 DEF LenOf, Md5Is
<1>8. md5_update(h, t) =
        Md5Is(c, d, (Low(n) + 8 * k) % WordSpan,
              (High(n) + (IF (Low(n) + 8 * k) % WordSpan < (8 * k) % WordSpan THEN 1 ELSE 0)
                 + (8 * k) \div WordSpan) % WordSpan)
  <2>1. PICK g : g = Absorb(h, IndexOf(s), t) /\ g = Md5Is(c, d, Low(n), High(n)) /\ g.hi = High(n)
    BY <1>5 DEF Md5Is
  <2>2. PICK lo : lo = (Low(n) + 8 * k) % WordSpan
    OBVIOUS
  <2>3. PICK hi : hi = (High(n) + (IF lo < (8 * k) % WordSpan THEN 1 ELSE 0)
                          + (8 * k) \div WordSpan) % WordSpan
    OBVIOUS
  <2>4. md5_update(h, t) = SetBits(g, lo, hi)
    BY <1>4, <1>7, <2>1, <2>2, <2>3 DEF md5_update, SetBits
  <2>5. md5_update(h, t) = Md5Is(c, d, lo, hi)
    BY <2>1, <2>4, Md5Except
  <2> QED BY <2>2, <2>3, <2>5
<1>9. md5_update(h, t) = Md5Is(c, d, Low(n + k), High(n + k))
  BY <1>8, LowHighAdd
<1> QED BY <1>5, <1>6, <1>9 DEF Md5Holds

LEMMA ShaUpdated ==
  ASSUME NEW h, NEW s, ShaHolds(h, s), NEW t, AreBytes(t)
  PROVE  ShaHolds(sha_update(h, t), Glue(s, t))
<1>1. PICK bs, b : Holds(bs, b, s) /\ h = ShaIs(bs, b, LenOf(s))
  BY DEF ShaHolds
<1>2. AreBytes(s)
  BY <1>1 DEF Holds
<1>3. h.count = LenOf(s) /\ h.count % BlockSize = IndexOf(s)
  BY <1>1 DEF ShaIs, IndexOf, LenOf
<1>4. PICK c, d : /\ Holds(c, d, Glue(s, t))
                  /\ Absorb(h, IndexOf(s), t) = ShaIs(c, d, LenOf(s))
  BY <1>1, ShaAbsorbs
<1>5. LenOf(Glue(s, t)) = LenOf(s) + LenOf(t)
  BY <1>2, CatIs
<1>6. sha_update(h, t) = ShaIs(c, d, LenOf(s) + LenOf(t))
  BY <1>3, <1>4 DEF sha_update, ShaIs, LenOf
<1> QED BY <1>4, <1>5, <1>6 DEF ShaHolds

LEMMA Sha1Updated ==
  ASSUME NEW h, NEW s, Sha1Holds(h, s), NEW t, AreBytes(t)
  PROVE  Sha1Holds(sha1_update(h, t), Glue(s, t))
<1>1. AreBytes(s)
  BY DEF Sha1Holds
<1>2. PICK c, d : /\ AreBlocks(c) /\ AreBytes(d) /\ Glue(Joined(c), d) = s /\ LenOf(d) = IndexOf(s)
                  /\ h = [buffer |-> d, transforms |-> LenOf(s) \div BlockSize, blocks |-> c]
  BY DEF Sha1Holds
<1>3. PICK a : a = Glue(d, t) /\ AreBytes(a) /\ LenOf(a) = LenOf(d) + LenOf(t)
  BY <1>2, CatIs
<1>4. sha1_update(h, t) = [buffer |-> Rest(a),
                           transforms |-> LenOf(s) \div BlockSize + LenOf(a) \div BlockSize,
                           blocks |-> Glue(c, Blocks(a))]
  BY <1>2, <1>3 DEF sha1_update, Glue, LenOf
<1>5. /\ AreBlocks(Blocks(a)) /\ AreBytes(Rest(a)) /\ LenOf(Rest(a)) = IndexOf(a)
      /\ Glue(Joined(Blocks(a)), Rest(a)) = a
  BY <1>3, BlocksAre
<1>6. AreBytes(Joined(c)) /\ AreBytes(Joined(Blocks(a)))
  BY <1>2, <1>5, FlatBytes
<1>7. /\ AreBlocks(Glue(c, Blocks(a))) /\ Joined(Glue(c, Blocks(a))) = Glue(Joined(c), Joined(Blocks(a)))
  BY <1>2, <1>5, FlatCat
<1>8. Glue(Joined(Glue(c, Blocks(a))), Rest(a)) = Glue(s, t)
  <2>1. Glue(Glue(Joined(c), Joined(Blocks(a))), Rest(a)) = Glue(Joined(c), a)
    BY <1>5, <1>6, CatAssoc
  <2>2. Glue(Joined(c), Glue(d, t)) = Glue(Glue(Joined(c), d), t)
    BY <1>2, <1>6, CatAssoc
  <2> QED BY <1>2, <1>3, <1>7, <2>1, <2>2
<1>9. AreBytes(Glue(s, t)) /\ LenOf(Glue(s, t)) = LenOf(s) + LenOf(t)
  BY <1>1, CatIs
<1>10. PICK n \in Nat, k \in Nat, m \in Nat \ {0} : n = LenOf(s) /\ k = LenOf(t) /\ m = BlockSize
  BY <1>1, SizeIs, SizesAre
<1>11. LenOf(d) = n % m /\ LenOf(a) = (n % m) + k
  BY <1>2, <1>3, <1>10 DEF IndexOf, LenOf
<1>12. /\ (n + k) % m = ((n % m) + k) % m
       /\ (n + k) \div m = n \div m + ((n % m) + k) \div m
  BY DivModAdd
<1>13. IndexOf(a) = IndexOf(Glue(s, t))
  <2>1. IndexOf(a) = LenOf(a) % m /\ IndexOf(Glue(s, t)) = LenOf(Glue(s, t)) % m
    BY <1>10 DEF IndexOf, LenOf
  <2> QED BY <1>9, <1>10, <1>11, <1>12, <2>1
<1>14. LenOf(s) \div BlockSize + LenOf(a) \div BlockSize = LenOf(Glue(s, t)) \div BlockSize
  BY <1>9, <1>10, <1>11, <1>12
<1> QED BY <1>4, <1>5, <1>7, <1>8, <1>9, <1>13, <1>14 DEF Sha1Holds

-----------------------------------------------------------------------------
(* The padding. *)

Zeros(k) == [i \in 1 .. k |-> Zero]

LEMMA TokensAre ==
  /\ \A k \in Nat : AreBytes(Zeros(k)) /\ LenOf(Zeros(k)) = k
  /\ AreBytes(<<Mark>>) /\ LenOf(<<Mark>>) = 1 /\ AreBytes(<<Zero>>) /\ LenOf(<<Zero>>) = 1
<1>1. ASSUME NEW k \in Nat PROVE AreBytes(Zeros(k)) /\ LenOf(Zeros(k)) = k
  <2>1. Zeros(k) \in [1 .. k -> Int]
    BY DEF Zeros, Zero
  <2> QED BY <2>1, BytesOf DEF LenOf
<1>2. AreBytes(<<Mark>>) /\ LenOf(<<Mark>>) = 1 /\ AreBytes(<<Zero>>) /\ LenOf(<<Zero>>) = 1
  BY DEF AreBytes, LenOf, Mark, Zero
<1> QED BY <1>1, <1>2

LEMMA LengthBytesAre ==
  ASSUME NEW bits \in Nat
  PROVE  AreBytes(LengthBytes(bits)) /\ LenOf(LengthBytes(bits)) = LengthSize
<1>1. LengthSize \in Nat
  BY SizesAre
<1>2. LengthBytes(bits) \in [1 .. LengthSize -> Int]
  BY DEF LengthBytes
<1> QED BY <1>1, <1>2, BytesOf DEF LenOf

LEMMA MessageIs ==
  ASSUME NEW n \in Nat
  PROVE  AreBytes(Message(n)) /\ LenOf(Message(n)) = n
<1>1. Message(n) \in [1 .. n -> Int]
  BY DEF Message
<1> QED BY <1>1, BytesOf DEF LenOf

LEMMA MessageEmpty == Message(0) = <<>>
  BY DEF Message

LEMMA ZerosAt ==
  ASSUME NEW k \in Nat
  PROVE  Zeros(k) \in Seq(Int) /\ Len(Zeros(k)) = k /\ \A i \in 1 .. k : Zeros(k)[i] = Zero
<1>1. Zeros(k) \in [1 .. k -> Int]
  BY DEF Zeros, Zero
<1>2. Zeros(k) \in Seq(Int) /\ Len(Zeros(k)) = k
  BY <1>1
<1> QED BY <1>2 DEF Zeros

LEMMA ZerosGlue ==
  ASSUME NEW k \in Nat, NEW l \in Nat
  PROVE  Glue(Zeros(k), Zeros(l)) = Zeros(k + l)
<1>1. PICK y, z, w : y = Zeros(k) /\ z = Zeros(l) /\ w = Zeros(k + l)
  OBVIOUS
<1>2. y \in Seq(Int) /\ Len(y) = k /\ \A i \in 1 .. k : y[i] = Zero
  BY <1>1, ZerosAt
<1>3. z \in Seq(Int) /\ Len(z) = l /\ \A i \in 1 .. l : z[i] = Zero
  BY <1>1, ZerosAt
<1>4. w \in Seq(Int) /\ Len(w) = k + l /\ \A i \in 1 .. k + l : w[i] = Zero
  <2>1. k + l \in Nat
    OBVIOUS
  <2> QED BY <1>1, <2>1, ZerosAt
<1>5. /\ y \o z \in Seq(Int) /\ Len(y \o z) = Len(y) + Len(z)
      /\ \A i \in 1 .. Len(y) + Len(z) : (y \o z)[i] = IF i <= Len(y) THEN y[i] ELSE z[i - Len(y)]
  BY <1>2, <1>3, ConcatIs
<1>6. PICK x : x = y \o z
  OBVIOUS
<1>7. x \in Seq(Int) /\ Len(x) = k + l
  BY <1>2, <1>3, <1>5, <1>6
<1>8. ASSUME NEW i \in 1 .. k + l PROVE x[i] = Zero
  <2>0. x[i] = IF i <= k THEN y[i] ELSE z[i - k]
    BY <1>2, <1>3, <1>5, <1>6
  <2>1. CASE i <= k
    BY <1>2, <2>0, <2>1
  <2>2. CASE ~ (i <= k)
    <3>1. i - k \in 1 .. l
      BY <2>2
    <3> QED BY <1>3, <2>0, <2>2, <3>1
  <2> QED BY <2>1, <2>2
<1>9. x = w
  BY <1>4, <1>7, <1>8
<1> QED BY <1>1, <1>6, <1>9 DEF Glue

LEMMA OneZeroMore ==
  ASSUME NEW k \in Nat
  PROVE  Glue(Zeros(k), <<Zero>>) = Zeros(k + 1)
<1>1. Zeros(1) = <<Zero>>
  BY DEF Zeros
<1>2. Glue(Zeros(k), Zeros(1)) = Zeros(k + 1)
  BY ZerosGlue
<1> QED BY <1>1, <1>2

LEMMA NextPiece ==
  ASSUME NEW n \in Nat, NEW k \in Nat
  PROVE  /\ AreBytes([i \in 1 .. k |-> n + i]) /\ LenOf([i \in 1 .. k |-> n + i]) = k
         /\ Glue(Message(n), [i \in 1 .. k |-> n + i]) = Message(n + k)
<1> DEFINE p == [i \in 1 .. k |-> n + i]
           m == Message(n)
           y == Message(n + k)
<1>1. p \in Seq(Int) /\ Len(p) = k /\ \A i \in 1 .. k : p[i] = n + i
  <2>1. p \in [1 .. k -> Int]
    OBVIOUS
  <2>2. p \in Seq(Int) /\ Len(p) = k
    BY <2>1
  <2> QED BY <2>2
<1>2. m \in Seq(Int) /\ Len(m) = n /\ \A i \in 1 .. n : m[i] = i
  <2>1. m \in [1 .. n -> Int]
    BY DEF Message
  <2>2. m \in Seq(Int) /\ Len(m) = n
    BY <2>1
  <2> QED BY <2>2 DEF Message
<1>3. y \in Seq(Int) /\ Len(y) = n + k /\ \A i \in 1 .. n + k : y[i] = i
  <2>1. y \in [1 .. n + k -> Int]
    BY DEF Message
  <2>2. y \in Seq(Int) /\ Len(y) = n + k
    BY <2>1
  <2> QED BY <2>2 DEF Message
<1> HIDE DEF p, m, y
<1>4. /\ m \o p \in Seq(Int) /\ Len(m \o p) = Len(m) + Len(p)
      /\ \A i \in 1 .. Len(m) + Len(p) : (m \o p)[i] = IF i <= Len(m) THEN m[i] ELSE p[i - Len(m)]
  BY <1>1, <1>2, ConcatIs
<1>5. PICK x : x = m \o p
  OBVIOUS
<1>6. x \in Seq(Int) /\ Len(x) = n + k
  BY <1>1, <1>2, <1>4, <1>5
<1>7. ASSUME NEW i \in 1 .. n + k PROVE x[i] = i
  <2>0. x[i] = IF i <= n THEN m[i] ELSE p[i - n]
    BY <1>1, <1>2, <1>4, <1>5
  <2>1. CASE i <= n
    BY <1>2, <2>0, <2>1
  <2>2. CASE ~ (i <= n)
    <3>1. i - n \in 1 .. k /\ n + (i - n) = i
      BY <2>2
    <3> QED BY <1>1, <2>0, <2>2, <3>1
  <2> QED BY <2>1, <2>2
<1>8. x = y
  BY <1>3, <1>6, <1>7
<1> QED BY <1>1, <1>5, <1>8 DEF p, m, y, Glue, LenOf, AreBytes

-----------------------------------------------------------------------------
(* How many zeros: k is the number of them behind n bytes.                  *)
PadFits(n, k) == k \in 0 .. BlockSize - 1 /\ (n + 1 + k + LengthSize) % BlockSize = 0

LEMMA PadUnique ==
  ASSUME NEW n \in Nat, NEW k, NEW l, PadFits(n, k), PadFits(n, l)
  PROVE  k = l
<1>1. PICK d \in Nat \ {0}, z \in Nat \ {0} : d = BlockSize /\ z = LengthSize
  BY SizesAre
<1>2. /\ k \in 0 .. d - 1 /\ l \in 0 .. d - 1
      /\ (n + 1 + k + z) % d = 0 /\ (n + 1 + l + z) % d = 0
  BY <1>1 DEF PadFits
<1>3. PICK x \in Nat, y \in Nat : x = n + 1 + k + z /\ y = n + 1 + l + z
  BY <1>2
<1>4. x \div d \in Nat /\ x = d * (x \div d) + (x % d)
  BY DivMod
<1>5. y \div d \in Nat /\ y = d * (y \div d) + (y % d)
  BY DivMod
<1>6. PICK p \in Nat, q \in Nat : p = x \div d /\ q = y \div d
  BY <1>4, <1>5
<1>7. x % d = 0 /\ y % d = 0
  BY <1>2, <1>3
<1>8. d * p \in Nat /\ d * q \in Nat /\ x = d * p /\ y = d * q
  <2>1. d * p \in Nat /\ d * q \in Nat
    OBVIOUS
  <2> QED BY <1>4, <1>5, <1>6, <1>7, <2>1
<1>9. d * p - d * q = k - l /\ d * (p - q) = d * p - d * q
  BY <1>2, <1>3, <1>8
<1>10. CASE p - q >= 1
  <2>1. d * (p - q) >= d
    BY <1>10
  <2> QED BY <1>2, <1>9, <2>1
<1>11. CASE p - q <= -1
  <2>1. d * (p - q) <= -d
    BY <1>11
  <2> QED BY <1>2, <1>9, <2>1
<1>12. CASE p = q
  BY <1>2, <1>9, <1>12
<1> QED BY <1>10, <1>11, <1>12

LEMMA PaddedIs ==
  ASSUME NEW n \in Nat, NEW k, PadFits(n, k)
  PROVE  Padded(n) = Glue(Glue(Glue(Message(n), <<Mark>>), Zeros(k)), LengthBytes(8 * n))
<1> DEFINE z == CHOOSE l \in 0 .. BlockSize - 1 : (n + 1 + l + LengthSize) % BlockSize = 0
<1>1. PadFits(n, z)
  BY DEF PadFits
<1> HIDE DEF z
<1>2. z = k
  BY <1>1, PadUnique
<1>3. Padded(n) = Glue(Glue(Glue(Message(n), <<Mark>>), Zeros(z)), LengthBytes(8 * n))
  BY DEF Padded, z, Glue, Zeros
<1> QED BY <1>2, <1>3

-----------------------------------------------------------------------------
(* The end of a message. *)

(* The message with k zeros in its padding.                                 *)
Ended(n, k) == Glue(Glue(Glue(Message(n), <<Mark>>), Zeros(k)), LengthBytes(8 * n))

LEMMA EndedWhole ==
  ASSUME NEW n \in Nat, NEW k, PadFits(n, k)
  PROVE  /\ AreBytes(Ended(n, k)) /\ IndexOf(Ended(n, k)) = 0 /\ Padded(n) = Ended(n, k)
         /\ AreBytes(Glue(Message(n), <<Mark>>)) /\ AreBytes(Glue(Glue(Message(n), <<Mark>>), Zeros(k)))
<1>1. k \in Nat
  BY SizesAre DEF PadFits
<1>2. PICK m, z, l : m = Message(n) /\ z = Zeros(k) /\ l = LengthBytes(8 * n)
  OBVIOUS
<1>3. AreBytes(m) /\ LenOf(m) = n
  BY <1>2, MessageIs
<1>4. AreBytes(z) /\ LenOf(z) = k
  BY <1>1, <1>2, TokensAre
<1>5. AreBytes(l) /\ LenOf(l) = LengthSize
  BY <1>2, LengthBytesAre
<1>6. AreBytes(<<Mark>>) /\ LenOf(<<Mark>>) = 1
  BY TokensAre
<1>7. PICK a : a = Glue(m, <<Mark>>) /\ AreBytes(a) /\ LenOf(a) = n + 1
  BY <1>3, <1>6, CatIs
<1>8. PICK b : b = Glue(a, z) /\ AreBytes(b) /\ LenOf(b) = n + 1 + k
  BY <1>4, <1>7, CatIs
<1>9. PICK c : c = Glue(b, l) /\ AreBytes(c) /\ LenOf(c) = n + 1 + k + LengthSize
  BY <1>5, <1>8, CatIs
<1>10. c = Ended(n, k)
  BY <1>2, <1>7, <1>8, <1>9 DEF Ended
<1>11. IndexOf(c) = 0
  BY <1>9 DEF IndexOf, LenOf, PadFits
<1> QED BY <1>2, <1>7, <1>8, <1>9, <1>10, <1>11, PaddedIs DEF Ended

LEMMA WholeBlocks ==
  ASSUME NEW c, NEW d, NEW s, Holds(c, d, s), IndexOf(s) = 0
  PROVE  Joined(c) = s
<1>1. AreBlocks(c) /\ IsBuffer(d) /\ Glue(Joined(c), Upto(d, 0)) = s
  BY DEF Holds
<1>2. Upto(d, 0) = <<>>
  BY <1>1, BufferIs, FrontWhole
<1> QED BY <1>1, <1>2, FlatBytes, CatEmpty

(* A buffer of any content, and nothing read.                               *)
LEMMA HoldsNothing ==
  ASSUME NEW d, IsBuffer(d)
  PROVE  Holds(<<>>, d, <<>>) /\ LenOf(<<>>) = 0 /\ IndexOf(<<>>) = 0
<1>1. LenOf(<<>>) = 0 /\ AreBytes(<<>>)
  BY CatEmpty
<1>2. IndexOf(<<>>) = 0
  <2>1. PICK b \in Nat \ {0} : b = BlockSize
    BY SizesAre
  <2>2. 0 = b * 0 + 0 /\ 0 \in 0 .. b - 1
    OBVIOUS
  <2>3. 0 % b = 0
    BY <2>2, DivModIs
  <2> QED BY <1>1, <2>1, <2>3 DEF IndexOf, LenOf
<1>3. Upto(d, 0) = <<>>
  BY BufferIs, FrontWhole
<1>4. AreBlocks(<<>>) /\ Joined(<<>>) = <<>>
  BY FlatEmpty
<1> QED BY <1>1, <1>2, <1>3, <1>4, CatEmpty DEF Holds

-----------------------------------------------------------------------------
(* The zeros as the three classes count them. *)

LEMMA PadNear ==
  ASSUME NEW n \in Nat, n % BlockSize < BlockSize - LengthSize
  PROVE  PadFits(n, BlockSize - LengthSize - (n % BlockSize) - 1)
<1>1. PICK d \in Nat \ {0}, z \in Nat \ {0} : d = BlockSize /\ z = LengthSize /\ z < d
  BY SizesAre
<1>2. PICK q \in Nat, r \in 0 .. d - 1 : r = n % d /\ n = d * q + r
  BY DivMod
<1>3. r < d - z
  BY <1>1, <1>2
<1>4. PICK k \in 0 .. d - 1 : k = d - z - r - 1
  BY <1>1, <1>2, <1>3
<1>5. PICK m \in Nat : m = n + 1 + k + z
  OBVIOUS
<1>6. PICK p \in Nat : p = q + 1
  OBVIOUS
<1>7. d * p = d * q + d /\ d * q \in Nat
  BY <1>6
<1>8. m = d * p + 0 /\ 0 \in 0 .. d - 1
  <2>1. PICK y \in Nat : y = d * q
    BY <1>7
  <2>2. n = y + r /\ d * p = y + d
    BY <1>2, <1>7, <2>1
  <2>3. m = y + d
    BY <1>4, <1>5, <2>2
  <2> QED BY <2>2, <2>3
<1>9. m % d = 0
  BY <1>8, DivModIs
<1> QED BY <1>1, <1>2, <1>4, <1>5, <1>9 DEF PadFits

LEMMA PadFar ==
  ASSUME NEW n \in Nat, ~ (n % BlockSize < BlockSize - LengthSize)
  PROVE  PadFits(n, 2 * BlockSize - LengthSize - (n % BlockSize) - 1)
<1>1. PICK d \in Nat \ {0}, z \in Nat \ {0} : d = BlockSize /\ z = LengthSize /\ z < d
  BY SizesAre
<1>2. PICK q \in Nat, r \in 0 .. d - 1 : r = n % d /\ n = d * q + r
  BY DivMod
<1>3. ~ (r < d - z)
  BY <1>1, <1>2
<1>4. PICK k \in 0 .. d - 1 : k = 2 * d - z - r - 1
  BY <1>1, <1>2, <1>3
<1>5. PICK m \in Nat : m = n + 1 + k + z
  OBVIOUS
<1>6. PICK p \in Nat : p = q + 2
  OBVIOUS
<1>7. d * p = d * q + 2 * d /\ d * q \in Nat
  BY <1>6
<1>8. m = d * p + 0 /\ 0 \in 0 .. d - 1
  <2>1. PICK y \in Nat : y = d * q
    BY <1>7
  <2>2. n = y + r /\ d * p = y + 2 * d
    BY <1>2, <1>7, <2>1
  <2>3. m = y + 2 * d
    BY <1>4, <1>5, <2>2
  <2> QED BY <2>2, <2>3
<1>9. m % d = 0
  BY <1>8, DivModIs
<1> QED BY <1>1, <1>2, <1>4, <1>5, <1>9 DEF PadFits

LEMMA PadModulo ==
  ASSUME NEW n \in Nat
  PROVE  PadFits(n, (2 * BlockSize - LengthSize - ((n + 1) % BlockSize)) % BlockSize)
<1>1. PICK d \in Nat \ {0}, z \in Nat \ {0} : d = BlockSize /\ z = LengthSize /\ z < d
  BY SizesAre
<1>2. PICK q \in Nat, r \in 0 .. d - 1 : r = (n + 1) % d /\ n + 1 = d * q + r
  <2>1. n + 1 \in Nat
    OBVIOUS
  <2> QED BY <2>1, DivMod
<1>3. PICK x \in Nat : x = 2 * d - z - r
  BY <1>1, <1>2
<1>4. PICK o \in Nat, k \in 0 .. d - 1 : k = x % d /\ x = d * o + k
  BY DivMod
<1>5. PICK m \in Nat : m = n + 1 + k + z
  OBVIOUS
<1>6. PICK p \in Int : p = q + 2 - o
  OBVIOUS
<1>7. d * p = d * q + 2 * d - d * o /\ d * q \in Nat /\ d * o \in Nat
  BY <1>6
<1>8. m = d * p + 0 /\ 0 \in 0 .. d - 1
  BY <1>2, <1>3, <1>4, <1>5, <1>7
<1>9. m % d = 0
  BY <1>8, DivModIs
<1> QED BY <1>1, <1>2, <1>3, <1>4, <1>5, <1>9 DEF PadFits

-----------------------------------------------------------------------------

LEMMA Md5Index ==
  ASSUME NEW h, NEW s, Md5Holds(h, s)
  PROVE  md5_index(h) = IndexOf(s) /\ h.lo = Low(LenOf(s)) /\ h.hi = High(LenOf(s))
<1>1. PICK bs, b : Holds(bs, b, s) /\ h = Md5Is(bs, b, Low(LenOf(s)), High(LenOf(s)))
  BY DEF Md5Holds
<1>2. AreBytes(s)
  BY <1>1 DEF Holds
<1>3. PICK n \in Nat : n = LenOf(s)
  BY <1>2, SizeIs
<1>4. h.lo = Low(n) /\ h.hi = High(n)
  BY <1>1, <1>3 DEF Md5Is
<1>5. md5_index(h) = (Low(n) \div 8) % BlockSize
  BY <1>4 DEF md5_index
<1>6. n % BlockSize = IndexOf(s)
  BY <1>3 DEF IndexOf, LenOf
<1> QED BY <1>3, <1>4, <1>5, <1>6, IndexOfBits DEF Low

LEMMA Md5Finished ==
  ASSUME NEW n \in Nat, 8 * n < WordSpan * WordSpan, NEW h, Md5Holds(h, Message(n))
  PROVE  Joined(md5_finalize(h).blocks) = Padded(n)
<1>1. AreBytes(Message(n)) /\ LenOf(Message(n)) = n
  BY MessageIs
<1>2. md5_index(h) = n % BlockSize /\ h.lo = Low(n) /\ h.hi = High(n)
  BY <1>1, Md5Index DEF IndexOf, LenOf
<1>3. PICK k : k = (IF n % BlockSize < BlockSize - LengthSize THEN BlockSize ELSE 2 * BlockSize)
                     - LengthSize - (n % BlockSize) - 1
  OBVIOUS
<1>4. PadFits(n, k)
  BY <1>3, PadNear, PadFar
<1>5. k \in Nat
  BY <1>4, SizesAre DEF PadFits
<1>6. PICK p : p = Glue(<<Mark>>, Zeros(k)) /\ AreBytes(p)
  BY <1>5, TokensAre, CatIs
<1>7. h.hi * WordSpan + h.lo = 8 * n
  BY <1>2, CountExact
<1>8. PICK l : l = LengthBytes(8 * n) /\ AreBytes(l)
  BY LengthBytesAre
<1>9. md5_finalize(h) = md5_update(md5_update(h, p), l)
  <2>1. PICK e : e = (IF n % BlockSize < BlockSize - LengthSize THEN BlockSize ELSE 2 * BlockSize)
                       - LengthSize - (n % BlockSize)
    OBVIOUS
  <2>2. e - 1 = k
    BY <1>3, <2>1
  <2>3. md5_finalize(h) = md5_update(md5_update(h, <<Mark>> \o [i \in 1 .. e - 1 |-> Zero]),
                                     LengthBytes(h.hi * WordSpan + h.lo))
    BY <1>2, <2>1 DEF md5_finalize
  <2> QED BY <1>6, <1>7, <1>8, <2>2, <2>3 DEF Glue, Zeros
<1>10. Md5Holds(md5_finalize(h), Glue(Glue(Message(n), p), l))
  BY <1>6, <1>8, <1>9, Md5Updated
<1>11. Glue(Message(n), p) = Glue(Glue(Message(n), <<Mark>>), Zeros(k))
  BY <1>1, <1>5, <1>6, TokensAre, CatAssoc
<1>12. Glue(Glue(Message(n), p), l) = Ended(n, k)
  BY <1>8, <1>11 DEF Ended
<1>13. IndexOf(Ended(n, k)) = 0 /\ Padded(n) = Ended(n, k)
  BY <1>4, EndedWhole
<1>14. PICK c, d, lo, hi : Holds(c, d, Ended(n, k)) /\ md5_finalize(h) = Md5Is(c, d, lo, hi)
  BY <1>10, <1>12 DEF Md5Holds
<1>15. Joined(c) = Ended(n, k)
  BY <1>13, <1>14, WholeBlocks
<1>16. md5_finalize(h).blocks = c
  BY <1>14 DEF Md5Is
<1> QED BY <1>13, <1>15, <1>16

-----------------------------------------------------------------------------
(* The zeros that hash_bin appends one by one. *)

ZeroFed(g) == sha_update(g, <<Zero>>)
Feeds(f, z, m) ==
  f = [s \in SUBSET (1 .. z) |-> IF s = {} THEN m ELSE ZeroFed(f[s \ {Max(s)}])]

LEMMA FoldIsFed ==
  ASSUME NEW z \in Nat, NEW m, \E f : Feeds(f, z, m)
  PROVE  \E f : Feeds(f, z, m) /\ FoldLeft(LAMBDA g, i : sha_update(g, <<Zero>>), m, [i \in 1 .. z |-> i]) = f[1 .. z]
<1> DEFINE w == CHOOSE f : f = [s \in SUBSET (1 .. z) |-> IF s = {} THEN m ELSE sha_update(f[s \ {Max(s)}], <<Zero>>)]
<1>1. Feeds(w, z, m)
  BY DEF Feeds, ZeroFed
<1>2. FoldLeft(LAMBDA g, i : sha_update(g, <<Zero>>), m, [i \in 1 .. z |-> i]) = w[1 .. z]
  BY DEF FoldLeft, MapThenFoldSet
<1> QED BY <1>1, <1>2

(* The objects that hold some bytes: a set, for the fold to have values in. *)
ShaObjects ==
  {h \in [buffer : Seq(Int), count : Nat, blocks : Seq(Seq(Int))] : \E s : ShaHolds(h, s)}

LEMMA ShaObject ==
  ASSUME NEW h, NEW s, ShaHolds(h, s)
  PROVE  h \in ShaObjects
<1>1. PICK c, d : Holds(c, d, s) /\ h = ShaIs(c, d, LenOf(s))
  BY DEF ShaHolds
<1>2. c \in Seq(Seq(Int)) /\ d \in Seq(Int) /\ AreBytes(s)
  BY <1>1 DEF Holds, AreBlocks, IsBuffer
<1>3. PICK n \in Nat : n = LenOf(s)
  BY <1>2, SizeIs
<1>4. h = [buffer |-> d, count |-> n, blocks |-> c]
  BY <1>1, <1>3 DEF ShaIs
<1>5. h \in [buffer : Seq(Int), count : Nat, blocks : Seq(Seq(Int))]
  BY <1>2, <1>4
<1> QED BY <1>5 DEF ShaObjects

LEMMA ZeroFedHolds ==
  ASSUME NEW h, NEW s, ShaHolds(h, s)
  PROVE  ShaHolds(ZeroFed(h), Glue(s, <<Zero>>))
  BY TokensAre, ShaUpdated DEF ZeroFed

LEMMA FeedsExists ==
  ASSUME NEW z \in Nat, NEW m, NEW s, ShaHolds(m, s)
  PROVE  \E f : Feeds(f, z, m)
<1> DEFINE V == ShaObjects
           F == [i \in 1 .. z |-> [g \in V |-> ZeroFed(g)]]
<1>1. m \in V
  BY ShaObject
<1>2. \A g \in V : ZeroFed(g) \in V
  <2> TAKE g \in V
  <2>1. PICK t : ShaHolds(g, t)
    BY DEF ShaObjects
  <2>2. ShaHolds(ZeroFed(g), Glue(t, <<Zero>>))
    BY <2>1, ZeroFedHolds
  <2> QED BY <2>2, ShaObject
<1> HIDE DEF V
<1>3. F \in [1 .. z -> [V -> V]]
  BY <1>2
<1>4. \A i \in 1 .. z : \A g \in V : F[i][g] = ZeroFed(g)
  OBVIOUS
<1> HIDE DEF F
<1>5. PICK h : FoldOf(h, z, m, F, V)
  BY <1>1, <1>3, FoldExists
<1>6. h \in [SUBSET (1 .. z) -> V]
  BY <1>5 DEF FoldOf
<1>7. ASSUME NEW t \in SUBSET (1 .. z)
      PROVE  h[t] = IF t = {} THEN m ELSE ZeroFed(h[t \ {Max(t)}])
  <2>1. h[t] = IF t = {} THEN m ELSE F[Max(t)][h[t \ {Max(t)}]]
    BY <1>5 DEF FoldOf, Folds
  <2>2. CASE t = {}
    BY <2>1, <2>2
  <2>3. CASE t # {}
    <3>1. Max(t) \in t
      BY <2>3, MaxIs
    <3>2. Max(t) \in 1 .. z /\ t \ {Max(t)} \in SUBSET (1 .. z)
      BY <3>1
    <3>3. h[t \ {Max(t)}] \in V
      BY <3>2, <1>6
    <3> QED BY <2>1, <2>3, <3>2, <3>3, <1>4
  <2> QED BY <2>2, <2>3
<1>8. Feeds(h, z, m)
  BY <1>6, <1>7 DEF Feeds
<1> QED BY <1>8

LEMMA FeedsSteps ==
  ASSUME NEW z \in Nat, NEW m, NEW f, Feeds(f, z, m)
  PROVE  f[1 .. 0] = m /\ \A k \in 0 .. z - 1 : f[1 .. k + 1] = ZeroFed(f[1 .. k])
<1>0. \A s \in SUBSET (1 .. z) : f[s] = IF s = {} THEN m ELSE ZeroFed(f[s \ {Max(s)}])
  BY DEF Feeds
<1>1. f[1 .. 0] = m
  <2>1. 1 .. 0 = {}
    OBVIOUS
  <2> QED BY <2>1, <1>0
<1>2. ASSUME NEW k \in 0 .. z - 1 PROVE f[1 .. k + 1] = ZeroFed(f[1 .. k])
  <2> DEFINE s == 1 .. k + 1
  <2>1. s \in SUBSET (1 .. z) /\ s # {} /\ k + 1 \in s /\ \A u \in s : u <= k + 1
    OBVIOUS
  <2> HIDE DEF s
  <2>2. Max(s) \in s /\ \A u \in s : u <= Max(s)
    BY <2>1, MaxIs
  <2>3. Max(s) = k + 1
    <3>1. Max(s) \in 1 .. z
      BY <2>1, <2>2
    <3>2. k + 1 <= Max(s) /\ Max(s) <= k + 1
      BY <2>1, <2>2
    <3> QED BY <3>1, <3>2
  <2>4. s \ {k + 1} = 1 .. k
    BY DEF s
  <2> QED BY <1>0, <2>1, <2>3, <2>4 DEF s
<1> QED BY <1>1, <1>2

LEMMA ZerosEmpty == Zeros(0) = <<>>
  BY DEF Zeros

LEMMA ShaZeros ==
  ASSUME NEW z \in Nat, NEW m, NEW s, ShaHolds(m, s), AreBytes(s)
  PROVE  ShaHolds(FoldLeft(LAMBDA g, i : sha_update(g, <<Zero>>), m, [i \in 1 .. z |-> i]),
                  Glue(s, Zeros(z)))
<1>1. \E f : Feeds(f, z, m)
  BY FeedsExists
<1>2. PICK f : /\ Feeds(f, z, m)
               /\ FoldLeft(LAMBDA g, i : sha_update(g, <<Zero>>), m, [i \in 1 .. z |-> i]) = f[1 .. z]
  BY <1>1, FoldIsFed
<1>3. f[1 .. 0] = m /\ \A k \in 0 .. z - 1 : f[1 .. k + 1] = ZeroFed(f[1 .. k])
  <2>1. Feeds(f, z, m)
    BY <1>2
  <2> QED BY <2>1, FeedsSteps
<1> DEFINE P(k) == k <= z => ShaHolds(f[1 .. k], Glue(s, Zeros(k)))
           G == {k \in Nat : P(k)}
<1>4. P(0)
  BY <1>3, ZerosEmpty, CatEmpty
<1>5. ASSUME NEW k \in Nat, P(k) PROVE P(k + 1)
  <2> SUFFICES ASSUME k + 1 <= z PROVE ShaHolds(f[1 .. k + 1], Glue(s, Zeros(k + 1)))
    OBVIOUS
  <2>1. k \in 0 .. z - 1 /\ k <= z
    OBVIOUS
  <2>2. ShaHolds(f[1 .. k], Glue(s, Zeros(k)))
    BY <1>5, <2>1
  <2>3. ShaHolds(ZeroFed(f[1 .. k]), Glue(Glue(s, Zeros(k)), <<Zero>>))
    BY <2>2, ZeroFedHolds
  <2>4. Glue(Glue(s, Zeros(k)), <<Zero>>) = Glue(s, Glue(Zeros(k), <<Zero>>))
    BY TokensAre, CatAssoc
  <2>5. Glue(Zeros(k), <<Zero>>) = Zeros(k + 1)
    BY OneZeroMore
  <2>6. f[1 .. k + 1] = ZeroFed(f[1 .. k])
    BY <1>3, <2>1
  <2> QED BY <2>3, <2>4, <2>5, <2>6
<1>6. P(z)
  <2> HIDE DEF P
  <2>1. 0 \in G /\ \A k \in Nat : k \in G => k + 1 \in G
    BY <1>4, <1>5
  <2> HIDE DEF G
  <2>2. Nat \subseteq G
    BY <2>1, NatSetInduction
  <2> QED BY <2>2 DEF G
<1>7. ShaHolds(f[1 .. z], Glue(s, Zeros(z)))
  BY <1>6
<1> QED BY <1>2, <1>7

LEMMA ShaCount ==
  ASSUME NEW h, NEW s, ShaHolds(h, s)
  PROVE  h.count = LenOf(s)
<1>1. PICK c, d : h = ShaIs(c, d, LenOf(s))
  BY DEF ShaHolds
<1> QED BY <1>1 DEF ShaIs

LEMMA ShaPadded ==
  ASSUME NEW n \in Nat, NEW h, ShaHolds(h, Message(n))
  PROVE  \E c, d, count : /\ AreBlocks(c) /\ IsBuffer(d) /\ sha_pad(h) = ShaIs(c, d, count)
                          /\ Joined(c) = Padded(n)
<1>1. AreBytes(Message(n)) /\ LenOf(Message(n)) = n
  BY MessageIs
<1>2. PICK k : k = (2 * BlockSize - LengthSize - ((n + 1) % BlockSize)) % BlockSize
  OBVIOUS
<1>3. PadFits(n, k)
  BY <1>2, PadModulo
<1>4. k \in Nat
  BY <1>3, SizesAre DEF PadFits
<1>5. PICK m : m = sha_update(h, <<Mark>>)
  OBVIOUS
<1>6. ShaHolds(m, Glue(Message(n), <<Mark>>))
  BY <1>5, TokensAre, ShaUpdated
<1>7. AreBytes(Glue(Message(n), <<Mark>>)) /\ LenOf(Glue(Message(n), <<Mark>>)) = n + 1
  BY <1>1, TokensAre, CatIs
<1>8. m.count = n + 1 /\ h.count = n
  BY <1>1, <1>6, <1>7, ShaCount
<1>9. PICK f : f = FoldLeft(LAMBDA g, i : sha_update(g, <<Zero>>), m, [i \in 1 .. k |-> i])
  OBVIOUS
<1>10. ShaHolds(f, Glue(Glue(Message(n), <<Mark>>), Zeros(k)))
  BY <1>4, <1>6, <1>7, <1>9, ShaZeros
<1>11. sha_pad(h) = sha_update(f, LengthBytes(8 * n))
  BY <1>2, <1>5, <1>8, <1>9 DEF sha_pad
<1>12. ShaHolds(sha_pad(h), Ended(n, k))
  <2>1. PICK l : l = LengthBytes(8 * n) /\ AreBytes(l)
    BY LengthBytesAre
  <2>2. ShaHolds(sha_update(f, l), Glue(Glue(Glue(Message(n), <<Mark>>), Zeros(k)), l))
    BY <2>1, <1>10, ShaUpdated
  <2> QED BY <1>11, <2>1, <2>2 DEF Ended
<1>13. IndexOf(Ended(n, k)) = 0 /\ Padded(n) = Ended(n, k)
  BY <1>3, EndedWhole
<1>14. PICK c, d, count : Holds(c, d, Ended(n, k)) /\ sha_pad(h) = ShaIs(c, d, count)
  BY <1>12 DEF ShaHolds
<1>15. Joined(c) = Padded(n)
  BY <1>13, <1>14, WholeBlocks
<1>16. AreBlocks(c) /\ IsBuffer(d)
  BY <1>14 DEF Holds
<1> QED BY <1>14, <1>15, <1>16

-----------------------------------------------------------------------------
(* The last blocks of SHA1. *)

LEMMA ZerosUpto ==
  ASSUME NEW k \in Nat, NEW l \in Nat, l <= k
  PROVE  Upto(Zeros(k), l) = Zeros(l)
<1>1. PICK y, z : y = Zeros(k) /\ z = Zeros(l)
  OBVIOUS
<1>2. y \in Seq(Int) /\ Len(y) = k /\ \A i \in 1 .. k : y[i] = Zero
  BY <1>1, ZerosAt
<1>3. z \in Seq(Int) /\ Len(z) = l /\ \A i \in 1 .. l : z[i] = Zero
  BY <1>1, ZerosAt
<1>4. PICK x : x = SubSeq(y, 1, l)
  OBVIOUS
<1>5. x \in Seq(Int) /\ Len(x) = l /\ \A i \in 1 .. l : x[i] = y[i]
  <2>1. /\ SubSeq(y, 1, l) \in Seq(Int) /\ Len(SubSeq(y, 1, l)) = l - 1 + 1
        /\ \A i \in 1 .. l - 1 + 1 : SubSeq(y, 1, l)[i] = y[i + 1 - 1]
    <3>1. 1 \in Nat \ {0} /\ 1 <= l + 1 /\ l <= Len(y)
      BY <1>2
    <3> QED BY <1>2, <3>1, SubSeqIs
  <2>2. l - 1 + 1 = l /\ \A i \in 1 .. l : i + 1 - 1 = i
    OBVIOUS
  <2> QED BY <1>4, <2>1, <2>2
<1>6. x = z
  BY <1>2, <1>3, <1>5
<1> QED BY <1>1, <1>4, <1>6 DEF Upto

LEMMA UptoGlue ==
  ASSUME NEW s, AreBytes(s), NEW t, AreBytes(t), NEW k \in Nat, k <= LenOf(t)
  PROVE  Upto(Glue(s, t), LenOf(s) + k) = Glue(s, Upto(t, k))
<1> DEFINE n == Len(s)
           m == Len(t)
           u == s \o t
           l == SubSeq(u, 1, n + k)
           v == SubSeq(t, 1, k)
           r == s \o v
<1>1. s \in Seq(Int) /\ t \in Seq(Int) /\ n \in Nat /\ m \in Nat /\ k <= m /\ Len(s) = n /\ Len(t) = m
  BY DEF AreBytes, LenOf
<1> HIDE DEF n, m
<1>2. /\ u \in Seq(Int) /\ Len(u) = n + m
      /\ \A i \in 1 .. n + m : u[i] = IF i <= n THEN s[i] ELSE t[i - n]
  <2>1. /\ u \in Seq(Int) /\ Len(u) = Len(s) + Len(t)
        /\ \A i \in 1 .. Len(s) + Len(t) : u[i] = IF i <= Len(s) THEN s[i] ELSE t[i - Len(s)]
    BY <1>1, ConcatIs
  <2> HIDE DEF u
  <2> QED BY <1>1, <2>1
<1> HIDE DEF u
<1>3. l \in Seq(Int) /\ Len(l) = n + k /\ \A i \in 1 .. n + k : l[i] = u[i]
  <2>1. /\ SubSeq(u, 1, n + k) \in Seq(Int) /\ Len(SubSeq(u, 1, n + k)) = (n + k) - 1 + 1
        /\ \A i \in 1 .. (n + k) - 1 + 1 : SubSeq(u, 1, n + k)[i] = u[i + 1 - 1]
    <3>1. 1 \in Nat \ {0} /\ n + k \in Nat /\ 1 <= (n + k) + 1 /\ n + k <= Len(u)
      BY <1>1, <1>2
    <3> QED BY <1>2, <3>1, SubSeqIs
  <2>2. (n + k) - 1 + 1 = n + k /\ \A i \in 1 .. n + k : i + 1 - 1 = i
    BY <1>1
  <2> HIDE DEF l
  <2>3. l = SubSeq(u, 1, n + k)
    BY DEF l
  <2> QED BY <2>1, <2>2, <2>3
<1> HIDE DEF l
<1>4. v \in Seq(Int) /\ Len(v) = k /\ \A i \in 1 .. k : v[i] = t[i]
  <2>1. /\ SubSeq(t, 1, k) \in Seq(Int) /\ Len(SubSeq(t, 1, k)) = k - 1 + 1
        /\ \A i \in 1 .. k - 1 + 1 : SubSeq(t, 1, k)[i] = t[i + 1 - 1]
    <3>1. 1 \in Nat \ {0} /\ 1 <= k + 1 /\ k <= Len(t)
      BY <1>1
    <3> QED BY <1>1, <3>1, SubSeqIs
  <2>2. k - 1 + 1 = k /\ \A i \in 1 .. k : i + 1 - 1 = i
    OBVIOUS
  <2> HIDE DEF v
  <2>3. v = SubSeq(t, 1, k)
    BY DEF v
  <2> QED BY <2>1, <2>2, <2>3
<1> HIDE DEF v
<1>5. /\ r \in Seq(Int) /\ Len(r) = n + k
      /\ \A i \in 1 .. n + k : r[i] = IF i <= n THEN s[i] ELSE v[i - n]
  <2>1. /\ r \in Seq(Int) /\ Len(r) = Len(s) + Len(v)
        /\ \A i \in 1 .. Len(s) + Len(v) : r[i] = IF i <= Len(s) THEN s[i] ELSE v[i - Len(s)]
    BY <1>1, <1>4, ConcatIs
  <2> HIDE DEF r
  <2> QED BY <1>1, <1>4, <2>1
<1> HIDE DEF r
<1>6. ASSUME NEW i \in 1 .. n + k PROVE l[i] = r[i]
  <2>0. i \in 1 .. n + m
    BY <1>1
  <2>1. CASE i <= n
    BY <1>1, <1>2, <1>3, <1>5, <2>0, <2>1
  <2>2. CASE ~ (i <= n)
    <3>1. i - n \in 1 .. k
      BY <1>1, <2>2
    <3>2. v[i - n] = t[i - n]
      BY <1>4, <3>1
    <3>3. l[i] = t[i - n] /\ r[i] = v[i - n]
      BY <1>2, <1>3, <1>5, <2>0, <2>2
    <3> QED BY <3>2, <3>3
  <2> QED BY <2>1, <2>2
<1>7. l = r
  BY <1>3, <1>5, <1>6
<1>8. LenOf(s) + k = n + k
  BY <1>1 DEF LenOf
<1> QED BY <1>7, <1>8 DEF l, r, u, v, Upto, Glue, n

(* Bytes at the front of zeros. *)
LEMMA OverlayZeros ==
  ASSUME NEW s, AreBytes(s), NEW k \in Nat, LenOf(s) + k = BlockSize
  PROVE  Overlay(Fill(Zero), 0, s) = Glue(s, Zeros(k)) /\ AreBytes(Glue(s, Zeros(k)))
<1> DEFINE n == Len(s)
           o == Overlay(Fill(Zero), 0, s)
           z == Zeros(k)
           r == s \o z
<1>1. s \in Seq(Int) /\ n \in Nat /\ Len(s) = n /\ n + k = BlockSize
  BY DEF AreBytes, LenOf
<1>2. z \in Seq(Int) /\ Len(z) = k /\ \A i \in 1 .. k : z[i] = Zero
  BY ZerosAt
<1> HIDE DEF n, z
<1>3. /\ r \in Seq(Int) /\ Len(r) = n + k
      /\ \A i \in 1 .. n + k : r[i] = IF i <= n THEN s[i] ELSE z[i - n]
  <2>1. /\ r \in Seq(Int) /\ Len(r) = Len(s) + Len(z)
        /\ \A i \in 1 .. Len(s) + Len(z) : r[i] = IF i <= Len(s) THEN s[i] ELSE z[i - Len(s)]
    BY <1>1, <1>2, ConcatIs
  <2> HIDE DEF r
  <2> QED BY <1>1, <1>2, <2>1
<1> HIDE DEF r
<1>4. o = [i \in 1 .. n + k |-> IF i \in 1 .. n THEN s[i] ELSE Zero]
  <2>1. \A i \in 1 .. n + k : i - 0 = i /\ 0 + 1 = 1 /\ 0 + Len(s) = n
    BY <1>1
  <2>2. \A i \in 1 .. n + k : Fill(Zero)[i] = Zero
    BY <1>1 DEF Fill
  <2> QED BY <1>1, <2>1, <2>2 DEF Overlay
<1> HIDE DEF o
<1>5. \A i \in 1 .. n + k : (IF i \in 1 .. n THEN s[i] ELSE Zero) \in Int
  BY <1>1 DEF Zero
<1>6. o \in [1 .. n + k -> Int] /\ \A i \in 1 .. n + k : o[i] = IF i \in 1 .. n THEN s[i] ELSE Zero
  BY <1>4, <1>5
<1>7. o \in Seq(Int) /\ Len(o) = n + k
  <2>1. n + k \in Nat
    BY <1>1
  <2> QED BY <1>6, <2>1
<1>8. ASSUME NEW i \in 1 .. n + k PROVE o[i] = r[i]
  <2>1. CASE i <= n
    BY <1>1, <1>3, <1>6, <2>1
  <2>2. CASE ~ (i <= n)
    <3>1. i - n \in 1 .. k
      BY <1>1, <2>2
    <3> QED BY <1>1, <1>2, <1>3, <1>6, <2>2, <3>1
  <2> QED BY <2>1, <2>2
<1>9. o = r
  BY <1>3, <1>7, <1>8
<1> QED BY <1>3, <1>9 DEF o, r, z, Glue, AreBytes

-----------------------------------------------------------------------------
LEMMA TwoInRow ==
  ASSUME NEW S, NEW s \in S, NEW t \in S
  PROVE  <<s>> \o <<t>> = <<s, t>>
<1>1. PICK u, v : u = <<s>> /\ v = <<t>>
  OBVIOUS
<1>2. u \in Seq(S) /\ v \in Seq(S) /\ Len(u) = 1 /\ Len(v) = 1 /\ u[1] = s /\ v[1] = t
  BY <1>1
<1>3. /\ u \o v \in Seq(S) /\ Len(u \o v) = 2
      /\ \A i \in 1 .. 2 : (u \o v)[i] = IF i <= 1 THEN u[i] ELSE v[i - 1]
  <2>1. /\ u \o v \in Seq(S) /\ Len(u \o v) = Len(u) + Len(v)
        /\ \A i \in 1 .. Len(u) + Len(v) : (u \o v)[i] = IF i <= Len(u) THEN u[i] ELSE v[i - Len(u)]
    BY <1>2, ConcatIs
  <2>2. PICK w : w = u \o v
    OBVIOUS
  <2>3. /\ w \in Seq(S) /\ Len(w) = 1 + 1
        /\ \A i \in 1 .. 1 + 1 : w[i] = IF i <= 1 THEN u[i] ELSE v[i - 1]
    BY <1>2, <2>1, <2>2
  <2> QED BY <2>2, <2>3
<1>4. PICK x : x = u \o v
  OBVIOUS
<1>5. x \in Seq(S) /\ Len(x) = 2 /\ x[1] = s /\ x[2] = t
  BY <1>2, <1>3, <1>4
<1>6. <<s, t>> \in Seq(S) /\ Len(<<s, t>>) = 2 /\ <<s, t>>[1] = s /\ <<s, t>>[2] = t
  OBVIOUS
<1>7. x = <<s, t>>
  BY <1>5, <1>6
<1> QED BY <1>1, <1>4, <1>7

Both(s, t) == <<s, t>>

LEMMA SeveralBlocks ==
  ASSUME NEW c, AreBlocks(c), NEW s, AreBytes(s), NEW t, AreBytes(t)
  PROVE  /\ Joined(Glue(c, Single(s))) = Glue(Joined(c), s)
         /\ Joined(Glue(c, Both(s, t))) = Glue(Glue(Joined(c), s), t)
<1>1. Joined(Glue(c, Single(s))) = Glue(Joined(c), s) /\ AreBlocks(Glue(c, Single(s)))
  BY FlatOne
<1>2. Joined(Glue(Glue(c, Single(s)), Single(t))) = Glue(Glue(Joined(c), s), t)
  BY <1>1, FlatOne
<1>3. Glue(c, Both(s, t)) = Glue(Glue(c, Single(s)), Single(t))
  <2>1. PICK S : S = Seq(Int)
    OBVIOUS
  <2>2. c \in Seq(S) /\ s \in S /\ t \in S
    BY <2>1 DEF AreBlocks, AreBytes
  <2>3. <<s>> \in Seq(S) /\ <<t>> \in Seq(S)
    BY <2>2
  <2>4. (c \o <<s>>) \o <<t>> = c \o (<<s>> \o <<t>>)
    BY <2>2, <2>3, AssocConcat
  <2>5. <<s>> \o <<t>> = <<s, t>>
    BY <2>2, TwoInRow
  <2> QED BY <2>4, <2>5 DEF Glue, Both, Single
<1> QED BY <1>1, <1>2, <1>3

(* The digest's last blocks, of bytes that end in a buffer of i.            *)
LEMMA LastBlock ==
  ASSUME NEW a, AreBytes(a), NEW k \in Nat, LenOf(a) + k = BlockSize - LengthSize, NEW l, AreBytes(l)
  PROVE  /\ Glue(Upto(Overlay(Fill(Zero), 0, a), BlockSize - LengthSize), l) = Glue(Glue(a, Zeros(k)), l)
         /\ AreBytes(Glue(Glue(a, Zeros(k)), l))
<1>1. PICK m \in Nat : m = k + LengthSize
  BY SizesAre
<1>2. LenOf(a) + m = BlockSize /\ k <= m
  BY <1>1, SizesAre, SizeIs
<1>3. PICK z : z = Zeros(m) /\ AreBytes(z) /\ LenOf(z) = m
  BY TokensAre
<1>4. Overlay(Fill(Zero), 0, a) = Glue(a, z)
  BY <1>2, <1>3, OverlayZeros
<1>5. k <= LenOf(z)
  BY <1>2, <1>3
<1>6. Upto(Glue(a, z), LenOf(a) + k) = Glue(a, Upto(z, k))
  BY <1>3, <1>5, UptoGlue
<1>7. Upto(z, k) = Zeros(k)
  BY <1>2, <1>3, ZerosUpto
<1>8. AreBytes(Glue(a, Zeros(k)))
  BY TokensAre, CatIs
<1> QED BY <1>4, <1>6, <1>7, <1>8, CatIs

LEMMA FillIsZeros == Fill(Zero) = Zeros(BlockSize)
  BY DEF Fill, Zeros

LEMMA OwnBlock ==
  ASSUME NEW l, AreBytes(l)
  PROVE  /\ Glue(Upto(Fill(Zero), BlockSize - LengthSize), l) = Glue(Zeros(BlockSize - LengthSize), l)
         /\ AreBytes(Zeros(BlockSize - LengthSize))
         /\ AreBytes(Glue(Zeros(BlockSize - LengthSize), l))
<1>1. PICK m \in Nat : m = BlockSize - LengthSize /\ m <= BlockSize /\ BlockSize \in Nat
  BY SizesAre
<1>2. Upto(Zeros(BlockSize), m) = Zeros(m)
  BY <1>1, ZerosUpto
<1>3. AreBytes(Zeros(m))
  BY TokensAre
<1> QED BY <1>1, <1>2, <1>3, FillIsZeros, CatIs

LEMMA FourInRow ==
  ASSUME NEW a, AreBytes(a), NEW b, AreBytes(b), NEW c, AreBytes(c), NEW d, AreBytes(d), NEW e, AreBytes(e)
  PROVE  /\ Glue(a, Glue(Glue(Glue(b, c), d), e)) = Glue(Glue(Glue(Glue(a, b), c), d), e)
         /\ Glue(Glue(a, Glue(b, c)), Glue(d, e)) = Glue(Glue(Glue(a, b), Glue(c, d)), e)
<1>1. AreBytes(Glue(b, c)) /\ AreBytes(Glue(a, b)) /\ AreBytes(Glue(c, d))
  BY CatIs
<1>2. AreBytes(Glue(Glue(b, c), d))
  BY <1>1, CatIs
<1>3. Glue(a, Glue(Glue(Glue(b, c), d), e)) = Glue(Glue(a, Glue(Glue(b, c), d)), e)
  BY <1>2, CatAssoc
<1>4. Glue(a, Glue(Glue(b, c), d)) = Glue(Glue(a, Glue(b, c)), d)
  BY <1>1, CatAssoc
<1>5. Glue(a, Glue(b, c)) = Glue(Glue(a, b), c)
  BY CatAssoc
<1>6. AreBytes(Glue(Glue(a, b), c))
  BY <1>1, CatIs
<1>7. Glue(Glue(Glue(a, b), c), Glue(d, e)) = Glue(Glue(Glue(Glue(a, b), c), d), e)
  BY <1>6, CatAssoc
<1>8. Glue(Glue(Glue(a, b), c), d) = Glue(Glue(a, b), Glue(c, d))
  BY <1>1, CatAssoc
<1> QED BY <1>3, <1>4, <1>5, <1>7, <1>8

LEMMA Sha1Padded ==
  ASSUME NEW n \in Nat, NEW h, Sha1Holds(h, Message(n))
  PROVE  FlattenSeq(sha1_pad(h)) = Padded(n)
<1>1. AreBytes(Message(n)) /\ LenOf(Message(n)) = n
  BY MessageIs
<1>2. PICK c, d : /\ AreBlocks(c) /\ AreBytes(d) /\ Glue(Joined(c), d) = Message(n)
                  /\ LenOf(d) = IndexOf(Message(n))
                  /\ h = [buffer |-> d, transforms |-> n \div BlockSize, blocks |-> c]
  BY <1>1 DEF Sha1Holds
<1>3. PICK i : i = n % BlockSize
  OBVIOUS
<1>4. LenOf(d) = i
  BY <1>1, <1>2, <1>3 DEF IndexOf, LenOf
<1>5. i \in Nat /\ i < BlockSize /\ (n \div BlockSize) * BlockSize + i = n
  <2>1. PICK b \in Nat \ {0} : b = BlockSize
    BY SizesAre
  <2>2. PICK q \in Nat, r \in 0 .. b - 1 : q = n \div b /\ r = n % b /\ n = b * q + r
    BY DivMod
  <2>3. b * q = q * b /\ q * b \in Nat
    OBVIOUS
  <2>4. q * b + r = n
    BY <2>2, <2>3
  <2> QED BY <1>3, <2>1, <2>2, <2>4
<1>6. PICK l : l = LengthBytes(8 * n) /\ AreBytes(l)
  BY LengthBytesAre
<1>7. PICK a : a = Glue(d, <<Mark>>) /\ AreBytes(a) /\ LenOf(a) = i + 1 /\ AreBytes(<<Mark>>)
  <2>1. AreBytes(<<Mark>>) /\ LenOf(<<Mark>>) = 1
    BY TokensAre
  <2> QED BY <1>2, <1>4, <2>1, CatIs
<1>8. Append(d, Mark) = a
  BY <1>2, <1>7 DEF Glue, AreBytes, Mark
<1>9. PICK o : o = Overlay(Fill(Zero), 0, a)
  OBVIOUS
<1>10. AreBytes(Joined(c))
  BY <1>2, FlatBytes
<1>11. sha1_pad(h) = c \o (IF i + 1 > BlockSize - LengthSize
                           THEN <<o, Glue(Upto(Fill(Zero), BlockSize - LengthSize), l)>>
                           ELSE <<Glue(Upto(o, BlockSize - LengthSize), l)>>)
  <2>1. PICK t : t = 8 * ((n \div BlockSize) * BlockSize + i) /\ t = 8 * n
    BY <1>5
  <2>2. \A b : sha1_last(b, t) = Glue(Upto(b, BlockSize - LengthSize), l)
    BY <1>6, <2>1 DEF sha1_last, Glue, Upto
  <2>3. /\ h.buffer = d /\ h.blocks = c /\ Len(h.buffer) = i
        /\ 8 * (h.transforms * BlockSize + Len(h.buffer)) = t
    BY <1>2, <1>4, <2>1 DEF LenOf
  <2>4. sha1_pad(h) = c \o (IF i + 1 > BlockSize - LengthSize
                            THEN <<o, sha1_last(Fill(Zero), t)>> ELSE <<sha1_last(o, t)>>)
    BY <1>8, <1>9, <2>3 DEF sha1_pad
  <2> QED BY <2>2, <2>4
<1>12. CASE ~ (i + 1 > BlockSize - LengthSize)
  <2>1. n % BlockSize < BlockSize - LengthSize
    BY <1>3, <1>5, <1>12, SizesAre
  <2>2. PICK k : k = BlockSize - LengthSize - i - 1
    OBVIOUS
  <2>3. PadFits(n, k)
    BY <1>3, <2>1, <2>2, PadNear
  <2>4. k \in Nat /\ LenOf(a) + k = BlockSize - LengthSize
    BY <1>5, <1>7, <1>12, <2>2, SizesAre
  <2>5. PICK e : /\ e = Glue(Upto(o, BlockSize - LengthSize), l) /\ e = Glue(Glue(a, Zeros(k)), l)
                 /\ AreBytes(e)
    BY <1>6, <1>7, <1>9, <2>4, LastBlock
  <2>6. FlattenSeq(sha1_pad(h)) = Glue(Joined(c), e)
    <3>1. sha1_pad(h) = Glue(c, Single(e))
      BY <1>11, <1>12, <2>5 DEF Glue, Single
    <3>2. Joined(Glue(c, Single(e))) = Glue(Joined(c), e)
      BY <1>2, <2>5, SeveralBlocks
    <3> QED BY <3>1, <3>2 DEF Joined
  <2>7. PICK z : z = Zeros(k) /\ AreBytes(z)
    BY <2>4, TokensAre
  <2>8. Glue(Joined(c), Glue(Glue(Glue(d, <<Mark>>), z), l))
          = Glue(Glue(Glue(Glue(Joined(c), d), <<Mark>>), z), l)
    BY <1>2, <1>6, <1>7, <1>10, <2>7, FourInRow
  <2>9. Padded(n) = Ended(n, k)
    BY <2>3, EndedWhole
  <2> QED BY <1>2, <1>6, <1>7, <2>5, <2>6, <2>7, <2>8, <2>9 DEF Ended
<1>13. CASE i + 1 > BlockSize - LengthSize
  <2>1. ~ (n % BlockSize < BlockSize - LengthSize)
    BY <1>3, <1>5, <1>13, SizesAre
  <2>2. PICK k : k = 2 * BlockSize - LengthSize - i - 1
    OBVIOUS
  <2>3. PadFits(n, k)
    BY <1>3, <2>1, <2>2, PadFar
  <2>4. PICK m \in Nat, p \in Nat : /\ m = BlockSize - i - 1 /\ p = BlockSize - LengthSize
                                    /\ m + p = k /\ LenOf(a) + m = BlockSize
    BY <1>5, <1>7, <2>2, SizesAre
  <2>5. PICK y, z : y = Zeros(m) /\ z = Zeros(p) /\ AreBytes(y) /\ AreBytes(z)
    BY <2>4, TokensAre
  <2>6. o = Glue(a, y) /\ AreBytes(o)
    BY <1>7, <1>9, <2>4, <2>5, OverlayZeros
  <2>7. PICK e : e = Glue(Upto(Fill(Zero), BlockSize - LengthSize), l) /\ e = Glue(z, l) /\ AreBytes(e)
    BY <1>6, <2>4, <2>5, OwnBlock
  <2>8. FlattenSeq(sha1_pad(h)) = Glue(Glue(Joined(c), o), e)
    <3>1. sha1_pad(h) = Glue(c, Both(o, e))
      BY <1>11, <1>13, <2>7 DEF Glue, Both
    <3>2. Joined(Glue(c, Both(o, e))) = Glue(Glue(Joined(c), o), e)
      BY <1>2, <2>6, <2>7, SeveralBlocks
    <3> QED BY <3>1, <3>2 DEF Joined
  <2>9. Glue(y, z) = Zeros(k)
    BY <2>4, <2>5, ZerosGlue
  <2>10. Glue(Glue(Joined(c), Glue(a, y)), Glue(z, l)) = Glue(Glue(Glue(Joined(c), a), Glue(y, z)), l)
    BY <1>6, <1>7, <1>10, <2>5, FourInRow
  <2>11. Glue(Joined(c), a) = Glue(Message(n), <<Mark>>)
    BY <1>2, <1>7, <1>10, CatAssoc
  <2>12. Padded(n) = Ended(n, k)
    BY <2>3, EndedWhole
  <2> QED BY <1>6, <2>6, <2>7, <2>8, <2>9, <2>10, <2>11, <2>12 DEF Ended
<1> QED BY <1>12, <1>13

-----------------------------------------------------------------------------
(* The objects between two calls: while a message is fed they hold it, with *)
(* the digest they are as good as new.                                      *)
Feeding ==
  answer = <<>> => /\ Md5Holds(md5, Message(fed))
                   /\ ShaHolds(sha, Message(fed))
                   /\ Sha1Holds(sha1, Message(fed))
Digested ==
  answer # <<>> => /\ \A i \in DOMAIN answer : FlattenSeq(answer[i]) = Padded(fed)
                   /\ \E c, d, count : IsBuffer(d) /\ sha = ShaIs(c, d, count)
                   /\ sha1 = sha1_reset
HashInv == fed \in 0 .. MaxBytes /\ Feeding /\ Digested

LEMMA BuffersFilled == \A token \in Int : IsBuffer(Fill(token))
<1> TAKE token \in Int
<1>1. BlockSize \in Nat
  BY SizesAre
<1>2. Fill(token) \in [1 .. BlockSize -> Int]
  BY DEF Fill
<1> QED BY <1>1, <1>2 DEF IsBuffer

LEMMA Md5New == Md5Holds(md5_init, <<>>)
<1>1. IsBuffer(Fill(Junk))
  BY BuffersFilled DEF Junk
<1>2. Holds(<<>>, Fill(Junk), <<>>) /\ LenOf(<<>>) = 0
  BY <1>1, HoldsNothing
<1>3. Low(0) = 0 /\ High(0) = 0
  <2>1. PICK w \in Nat \ {0} : w = WordSpan
    BY SizesAre
  <2>2. 0 = w * 0 + 0 /\ 0 \in 0 .. w - 1 /\ 8 * 0 = 0
    OBVIOUS
  <2>3. 0 \div w = 0 /\ 0 % w = 0
    BY <2>2, DivModIs
  <2> QED BY <2>1, <2>2, <2>3 DEF Low, High
<1>4. md5_init = Md5Is(<<>>, Fill(Junk), 0, 0)
  BY DEF md5_init, Md5Is
<1> QED BY <1>2, <1>3, <1>4 DEF Md5Holds

LEMMA ShaNew ==
  ASSUME NEW d, IsBuffer(d)
  PROVE  ShaHolds(ShaIs(<<>>, d, 0), <<>>)
<1>1. Holds(<<>>, d, <<>>) /\ LenOf(<<>>) = 0
  BY HoldsNothing
<1> QED BY <1>1 DEF ShaHolds

LEMMA Sha1New == Sha1Holds(sha1_reset, <<>>)
<1>1. IsBuffer(Fill(Zero))
  BY BuffersFilled DEF Zero
<1>2. LenOf(<<>>) = 0 /\ IndexOf(<<>>) = 0
  BY <1>1, HoldsNothing
<1>3. AreBytes(<<>>) /\ AreBlocks(<<>>) /\ Joined(<<>>) = <<>> /\ Glue(<<>>, <<>>) = <<>>
  BY CatEmpty, FlatEmpty
<1>4. 0 \div BlockSize = 0
  <2>1. PICK w \in Nat \ {0} : w = BlockSize
    BY SizesAre
  <2>2. 0 = w * 0 + 0 /\ 0 \in 0 .. w - 1
    OBVIOUS
  <2> QED BY <2>1, <2>2, DivModIs
<1>5. sha1_reset = [buffer |-> <<>>, transforms |-> LenOf(<<>>) \div BlockSize, blocks |-> <<>>]
  BY <1>2, <1>4 DEF sha1_reset
<1>6. LenOf(<<>>) = IndexOf(<<>>) /\ Glue(Joined(<<>>), <<>>) = <<>>
  BY <1>2, <1>3
<1> QED BY <1>3, <1>5, <1>6 DEF Sha1Holds

LEMMA InitHolds == HashInit => HashInv
<1> SUFFICES ASSUME HashInit PROVE HashInv
  OBVIOUS
<1>1. fed \in 0 .. MaxBytes /\ answer = <<>>
  BY HashAssumption DEF HashInit
<1>2. Message(fed) = <<>>
  BY MessageEmpty DEF HashInit
<1>3. Md5Holds(md5, <<>>)
  BY Md5New DEF HashInit
<1>4. ShaHolds(sha, <<>>)
  <2>1. IsBuffer(Fill(Zero))
    BY BuffersFilled DEF Zero
  <2>2. sha = ShaIs(<<>>, Fill(Zero), 0)
    BY DEF HashInit, ShaIs
  <2> QED BY <2>1, <2>2, ShaNew
<1>5. Sha1Holds(sha1, <<>>)
  BY Sha1New DEF HashInit
<1> QED BY <1>1, <1>2, <1>3, <1>4, <1>5 DEF HashInv, Feeding, Digested

LEMMA UpdateHolds ==
  ASSUME HashInv, NEW n \in 0 .. MaxChunk, HashUpdate(n)
  PROVE  HashInv'
<1>1. fed \in Nat /\ n \in Nat /\ answer = <<>> /\ answer' = <<>> /\ fed' = fed + n /\ fed' <= MaxBytes
  BY HashAssumption DEF HashInv, HashUpdate
<1>2. PICK p : /\ p = [i \in 1 .. n |-> fed + i] /\ AreBytes(p)
               /\ Glue(Message(fed), p) = Message(fed + n)
  BY <1>1, NextPiece
<1>3. /\ Md5Holds(md5, Message(fed)) /\ ShaHolds(sha, Message(fed))
      /\ Sha1Holds(sha1, Message(fed))
  BY <1>1 DEF HashInv, Feeding
<1>4. /\ md5' = md5_update(md5, p) /\ sha' = sha_update(sha, p) /\ sha1' = sha1_update(sha1, p)
  BY <1>2 DEF HashUpdate
<1>5. Md5Holds(md5', Message(fed + n))
  BY <1>2, <1>3, <1>4, Md5Updated
<1>6. ShaHolds(sha', Message(fed + n))
  BY <1>2, <1>3, <1>4, ShaUpdated
<1>7. Sha1Holds(sha1', Message(fed + n))
  BY <1>2, <1>3, <1>4, Sha1Updated
<1>8. fed' \in 0 .. MaxBytes
  BY <1>1, HashAssumption
<1> QED BY <1>1, <1>5, <1>6, <1>7, <1>8 DEF HashInv, Feeding, Digested

LEMMA FinishHolds ==
  ASSUME HashInv, 8 * MaxBytes < WordSpan * WordSpan, HashFinish
  PROVE  HashInv'
<1>1. fed \in Nat /\ fed <= MaxBytes /\ answer = <<>> /\ fed' = fed
  BY HashAssumption DEF HashInv, HashFinish
<1>2. 8 * fed < WordSpan * WordSpan
  <2>1. PICK w \in Nat : w = WordSpan * WordSpan
    <3>1. PICK v \in Nat : v = WordSpan
      BY SizesAre
    <3> QED BY <3>1
  <2>2. MaxBytes \in Nat
    BY HashAssumption
  <2> QED BY <1>1, <2>1, <2>2
<1>3. /\ Md5Holds(md5, Message(fed)) /\ ShaHolds(sha, Message(fed))
      /\ Sha1Holds(sha1, Message(fed))
  BY <1>1 DEF HashInv, Feeding
<1>4. FlattenSeq(md5_finalize(md5).blocks) = Padded(fed)
  BY <1>1, <1>2, <1>3, Md5Finished DEF Joined
<1>5. PICK c, d, count : /\ IsBuffer(d) /\ sha_pad(sha) = ShaIs(c, d, count)
                         /\ Joined(c) = Padded(fed)
  BY <1>1, <1>3, ShaPadded
<1>6. FlattenSeq(sha_pad(sha).blocks) = Padded(fed)
  BY <1>5 DEF ShaIs, Joined
<1>7. FlattenSeq(sha1_pad(sha1)) = Padded(fed)
  BY <1>1, <1>3, Sha1Padded
<1>8. answer' = <<md5_finalize(md5).blocks, sha_pad(sha).blocks, sha1_pad(sha1)>>
  BY DEF HashFinish
<1>9. answer' # <<>> /\ \A i \in DOMAIN answer' : FlattenSeq(answer'[i]) = Padded(fed)
  <2>1. PICK x, y, z : /\ x = md5_finalize(md5).blocks /\ y = sha_pad(sha).blocks /\ z = sha1_pad(sha1)
                       /\ FlattenSeq(x) = Padded(fed) /\ FlattenSeq(y) = Padded(fed)
                       /\ FlattenSeq(z) = Padded(fed)
    BY <1>4, <1>6, <1>7
  <2>2. answer' = <<x, y, z>>
    BY <1>8, <2>1
  <2>3. <<x, y, z>> # <<>> /\ DOMAIN <<x, y, z>> = 1 .. 3
    OBVIOUS
  <2>4. /\ answer'[1] = x /\ answer'[2] = y /\ answer'[3] = z
        /\ \A i \in 1 .. 3 : i = 1 \/ i = 2 \/ i = 3
    BY <2>2
  <2> QED BY <2>1, <2>2, <2>3, <2>4
<1>10. sha' = ShaIs(c, d, count) /\ sha1' = sha1_reset
  BY <1>5 DEF HashFinish
<1>11. fed' \in 0 .. MaxBytes
  BY <1>1 DEF HashInv
<1> QED BY <1>1, <1>5, <1>9, <1>10, <1>11 DEF HashInv, Feeding, Digested

LEMMA ResetHolds ==
  ASSUME HashInv, HashReset
  PROVE  HashInv'
<1>1. answer # <<>> /\ answer' = <<>> /\ fed' = 0 /\ md5' = md5_init /\ sha1' = sha1
  BY DEF HashReset
<1>2. PICK c, d, count : IsBuffer(d) /\ sha = ShaIs(c, d, count)
  BY <1>1 DEF HashInv, Digested
<1>3. sha1' = sha1_reset
  BY <1>1 DEF HashInv, Digested
<1>4. sha' = ShaIs(<<>>, d, 0)
  <2>1. sha' = [sha EXCEPT !.count = 0, !.blocks = <<>>]
    BY DEF HashReset
  <2>2. [sha EXCEPT !.count = 0, !.blocks = <<>>] = [[sha EXCEPT !.count = 0] EXCEPT !.blocks = <<>>]
    OBVIOUS
  <2>3. [sha EXCEPT !.count = 0] = ShaIs(c, d, 0)
    BY <1>2 DEF ShaIs
  <2>4. [ShaIs(c, d, 0) EXCEPT !.blocks = <<>>] = ShaIs(<<>>, d, 0)
    BY DEF ShaIs
  <2> QED BY <2>1, <2>2, <2>3, <2>4
<1>5. ShaHolds(sha', <<>>)
  BY <1>2, <1>4, ShaNew
<1>6. Md5Holds(md5', <<>>) /\ Sha1Holds(sha1', <<>>)
  BY <1>1, <1>3, Md5New, Sha1New
<1>7. Message(fed') = <<>> /\ fed' \in 0 .. MaxBytes
  BY <1>1, MessageEmpty, HashAssumption
<1> QED BY <1>1, <1>5, <1>6, <1>7 DEF HashInv, Feeding, Digested

(* However a message is cut into updates and however many were hashed with  *)
(* the objects before it, all three classes hand their transforms the       *)
(* padded message, for every size of blocks, as long as MD5's bit count     *)
(* fits its two words.                                                      *)
THEOREM DigestsOfPadded ==
  8 * MaxBytes < WordSpan * WordSpan => (HashSpec => []HashesPaddedMessage)
<1> SUFFICES ASSUME 8 * MaxBytes < WordSpan * WordSpan
             PROVE  HashSpec => []HashesPaddedMessage
  OBVIOUS
<1>1. HashInit => HashInv
  BY InitHolds
<1>2. HashInv /\ [HashNext]_hashVars => HashInv'
  <2> SUFFICES ASSUME HashInv, [HashNext]_hashVars PROVE HashInv'
    OBVIOUS
  <2>1. ASSUME NEW n \in 0 .. MaxChunk, HashUpdate(n) PROVE HashInv'
    BY <2>1, UpdateHolds
  <2>2. CASE HashFinish
    BY <2>2, FinishHolds
  <2>3. CASE HashReset
    BY <2>3, ResetHolds
  <2>4. CASE UNCHANGED hashVars
    BY <2>4 DEF hashVars, HashInv, Feeding, Digested
  <2> QED
    BY <2>1, <2>2, <2>3, <2>4 DEF HashNext
<1>3. HashInv => HashesPaddedMessage
  <2> SUFFICES ASSUME HashInv PROVE HashesPaddedMessage
    OBVIOUS
  <2>1. CASE answer = <<>>
    <3>1. DOMAIN answer = {}
      BY <2>1
    <3> QED BY <3>1 DEF HashesPaddedMessage
  <2>2. CASE answer # <<>>
    BY <2>2 DEF HashInv, Digested, HashesPaddedMessage
  <2> QED BY <2>1, <2>2
<1> QED BY <1>1, <1>2, <1>3, PTL DEF HashSpec

=============================================================================
