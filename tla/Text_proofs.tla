----------------------------- MODULE Text_proofs -----------------------------
(***************************************************************************)
(* What the parts that read text make of it, for any text: a command line, *)
(* a playlist and the challenge of a server.                               *)
(*                                                                         *)
(* OptionParser: the arguments before the loop's n are parsed as their     *)
(* positions mean, and n is no other option's argument.  A "--" ends that  *)
(* for the line.  The meaning of one position more is the meaning so far   *)
(* and what that position adds, because FlattenSeq of one more is.         *)
(*                                                                         *)
(* Playlist: a parser has read a prefix of the lines when its segments are *)
(* the paths of the prefix with a duration of their own before them; this  *)
(* is kept line by line, through both lines that merge writes for each     *)
(* segment, and for the choice of a period segment by segment.  Rounding   *)
(* keeps the order of numbers, so the time passed never goes back and the  *)
(* duration announced still covers every segment; it drifts from the sum   *)
(* of durations by one rounding for each segment.                          *)
(*                                                                         *)
(* DigestAuth: what a request needs to be accepted is settled when it is   *)
(* made: its parameters are those of one challenge and its count is above  *)
(* that of every request with that nonce before.  A challenge is under way *)
(* once, and no request has its nonce until it arrives: then counting from *)
(* 1 again is right.                                                       *)
(*                                                                         *)
(* Base64: FlattenSeq of groups of one length has the i-th of the k-th at  *)
(* a known place, so the groups of the encoder are where the decoder looks *)
(* for them, and each gives back its three bytes or the rest.              *)
(***************************************************************************)
EXTENDS DigestAuth, Playlist, OptionParser, Base64, SeqLemmas,
        SequenceTheorems, FiniteSetTheorems, TLAPS

-----------------------------------------------------------------------------
(* The command line. *)

(* What options hold: a switch, a default or a text. *)
Texts ==
  Arguments \cup {Text(<<>>)} \cup {Text(a.value) : a \in Arguments}
  \cup {Text(SubSeq(a.word, i, Len(a.word))) : a \in Arguments, i \in Nat}
Held == {Set, Default} \cup Texts

LEMMA AddedIsHeld ==
  ASSUME NEW o \in Options, NEW text \in Texts
  PROVE  Added(o, text) \in Held
<1>1. Set \in Held /\ Default \in Held /\ text \in Held
  BY DEF Held
<1> QED BY <1>1 DEF Added

LEMMA WordIs ==
  ASSUME NEW a \in Arguments
  PROVE  /\ a.dashes \in 0 .. 2
         /\ a.word \in Seq(Range(a.word)) /\ Len(a.word) \in Nat
         /\ DOMAIN a.word = 1 .. Len(a.word)
         /\ Text(a.value) \in Texts
         /\ \A i \in Nat : Text(SubSeq(a.word, i, Len(a.word))) \in Texts
<1>1. a.dashes \in 0 .. 2 /\ a.word \in Seq(Range(a.word))
  BY OptionAssumption
<1>2. \A S : \A w \in Seq(S) : Len(w) \in Nat /\ DOMAIN w = 1 .. Len(w)
  OBVIOUS
<1>3. Len(a.word) \in Nat /\ DOMAIN a.word = 1 .. Len(a.word)
  BY <1>1, <1>2
<1>4. Text(a.value) \in Texts /\ \A i \in Nat : Text(SubSeq(a.word, i, Len(a.word))) \in Texts
  BY DEF Texts
<1> QED BY <1>1, <1>3, <1>4

(* A name is one option's. *)
LEMMA OneName ==
  ASSUME NEW o \in Options, NEW p \in Options
  PROVE  /\ \A c : o \in Short(c) /\ p \in Short(c) => o = p
         /\ \A w : o \in Long(w) /\ p \in Long(w) => o = p
  BY OptionAssumption DEF Short, Long

LEMMA StopIs ==
  ASSUME NEW w, Len(w) \in Nat
  PROVE  /\ Stop(w) \in 1 .. Len(w) + 1
         /\ Stop(w) <= Len(w) => TakesArgument(w[Stop(w)])
         /\ \A k \in 1 .. Stop(w) - 1 : ~TakesArgument(w[k])
<1> DEFINE L == Len(w)
           M == {m \in 1 .. L + 1 : m <= L => TakesArgument(w[m])}
           Good(m) == (m <= L => TakesArgument(w[m])) /\ \A k \in 1 .. m - 1 : ~TakesArgument(w[k])
<1>1. L + 1 \in M /\ M \in SUBSET Nat
  OBVIOUS
<1>2. PICK t \in M : \A u \in M : t <= u
  <2> HIDE DEF M
  <2> QED BY <1>1, SmallestElement
<1>3. t \in 1 .. L + 1 /\ Good(t)
  <2>1. ASSUME NEW k \in 1 .. t - 1, TakesArgument(w[k]) PROVE FALSE
    <3>1. k \in M /\ k < t
      BY <2>1, <1>2
    <3> QED BY <1>2, <3>1
  <2> QED BY <1>2, <2>1
<1>4. Stop(w) = CHOOSE m \in 1 .. L + 1 : Good(m)
  BY DEF Stop
<1> HIDE DEF Good
<1>5. Stop(w) \in 1 .. L + 1 /\ Good(Stop(w))
  BY <1>3, <1>4
<1> QED BY <1>5 DEF Good

(* One Set for each place in P. *)
LEMMA SetsCount ==
  ASSUME NEW n1 \in Nat, NEW P
  PROVE  FlattenSeq([m \in 1 .. n1 |-> IF m \in P THEN <<Set>> ELSE <<>>])
           = [j \in 1 .. Cardinality({m \in 1 .. n1 : m \in P}) |-> Set]
<1> DEFINE I(m) == IF m \in P THEN <<Set>> ELSE <<>>
           Q(k) == {m \in 1 .. k : m \in P}
           Fl(k) == FlattenSeq([m \in 1 .. k |-> I(m)])
           C(k) == Cardinality(Q(k))
           Same(k) == C(k) \in Nat /\ Fl(k) = [j \in 1 .. C(k) |-> Set]
           G == {k \in 0 .. n1 : Same(k)}
<1>1. Same(0)
  <2>1. [m \in 1 .. 0 |-> I(m)] = <<>> /\ Q(0) = {}
    OBVIOUS
  <2>2. Fl(0) = <<>> /\ C(0) = 0
    BY <2>1, FlattenEmpty, FS_EmptySet
  <2>3. [j \in 1 .. 0 |-> Set] = <<>>
    OBVIOUS
  <2> HIDE DEF Fl, C
  <2>4. [j \in 1 .. C(0) |-> Set] = [j \in 1 .. 0 |-> Set] /\ C(0) \in Nat
    BY <2>2
  <2>5. Fl(0) = [j \in 1 .. C(0) |-> Set]
    BY <2>2, <2>3, <2>4
  <2> QED BY <2>4, <2>5
<1>2. ASSUME NEW k \in 0 .. n1 - 1, Same(k) PROVE Same(k + 1)
  <2> DEFINE s == [m \in 1 .. k + 1 |-> I(m)]
  <2>0. k \in Nat /\ k + 1 \in 1 .. k + 1
    OBVIOUS
  <2>1. s \in [1 .. k + 1 -> Seq({Set})]
    <3>1. <<Set>> \in Seq({Set}) /\ <<>> \in Seq({Set})
      OBVIOUS
    <3>2. \A m \in 1 .. k + 1 : I(m) \in Seq({Set})
      BY <3>1
    <3> HIDE DEF I
    <3> QED BY <3>2
  <2>2. s[k + 1] = I(k + 1) /\ [m \in 1 .. k |-> s[m]] = [m \in 1 .. k |-> I(m)]
    BY <2>0
  <2>3. Fl(k + 1) = Fl(k) \o I(k + 1)
    <3>1. FlattenSeq(s) = FlattenSeq([m \in 1 .. k |-> s[m]]) \o s[k + 1]
      <4> HIDE DEF s
      <4> QED BY <2>0, <2>1, FlattenOneMore
    <3> HIDE DEF I
    <3> QED BY <2>2, <3>1
  <2>4. IsFiniteSet(Q(k))
    <3>1. IsFiniteSet(1 .. k) /\ Q(k) \subseteq 1 .. k
      BY <2>0, FS_Interval
    <3> HIDE DEF Q
    <3> QED BY <3>1, FS_Subset
  <2>5. C(k) \in Nat /\ Fl(k) = [j \in 1 .. C(k) |-> Set]
    BY <1>2
  <2>6. CASE k + 1 \in P
    <3>1. Q(k + 1) = Q(k) \cup {k + 1} /\ k + 1 \notin Q(k)
      BY <2>0, <2>6
    <3>2. C(k + 1) = C(k) + 1
      <4> HIDE DEF Q
      <4> QED BY <2>4, <3>1, FS_AddElement
    <3>3. I(k + 1) = <<Set>>
      BY <2>6
    <3> HIDE DEF C, Fl, I
    <3>4. PICK c \in Nat : c = C(k)
      BY <2>5
    <3>5. [j \in 1 .. c |-> Set] \o <<Set>> = [j \in 1 .. c + 1 |-> Set]
      <4> DEFINE u == [j \in 1 .. c |-> Set]
                 v == [j \in 1 .. c + 1 |-> Set]
      <4>1. u \in Seq({Set}) /\ Len(u) = c /\ <<Set>> \in Seq({Set}) /\ Len(<<Set>>) = 1
            /\ v \in Seq({Set}) /\ Len(v) = c + 1
            /\ (\A j \in 1 .. c : u[j] = Set) /\ (\A j \in 1 .. c + 1 : v[j] = Set)
        OBVIOUS
      <4> HIDE DEF u, v
      <4>2. u \o <<Set>> \in Seq({Set}) /\ Len(u \o <<Set>>) = c + 1
            /\ \A j \in 1 .. c + 1 : (u \o <<Set>>)[j] = Set
        BY <4>1
      <4>3. u \o <<Set>> = v
        BY <4>1, <4>2, SameElements
      <4> QED BY <4>3 DEF u, v
    <3>6. [j \in 1 .. C(k) |-> Set] = [j \in 1 .. c |-> Set]
          /\ [j \in 1 .. C(k + 1) |-> Set] = [j \in 1 .. c + 1 |-> Set]
      BY <3>2, <3>4
    <3>7. C(k + 1) \in Nat
      BY <3>2, <3>4
    <3> QED BY <2>3, <2>5, <3>3, <3>5, <3>6, <3>7
  <2>7. CASE k + 1 \notin P
    <3>1. Q(k + 1) = Q(k)
      BY <2>0, <2>7
    <3>2. I(k + 1) = <<>>
      BY <2>7
    <3>3. C(k + 1) = C(k)
      BY <3>1
    <3>4. [j \in 1 .. C(k) |-> Set] \o <<>> = [j \in 1 .. C(k) |-> Set]
      <4> HIDE DEF C
      <4>1. [j \in 1 .. C(k) |-> Set] \in Seq({Set})
        BY <2>5
      <4> QED BY <4>1, EmptyConcat
    <3> HIDE DEF C, Fl, I
    <3> QED BY <2>3, <2>5, <3>2, <3>3, <3>4
  <2> QED BY <2>6, <2>7
<1> HIDE DEF Same
<1>3. 0 \in G /\ \A k \in 0 .. n1 - 1 : k \in G => k + 1 \in G
  BY <1>1, <1>2
<1>4. \A k \in 0 .. n1 : k \in G
  <2> HIDE DEF G
  <2> QED BY <1>3, CountUp
<1>5. Same(n1)
  BY <1>4
<1> QED BY <1>5 DEF Same

(* Given of a command line, in pieces. *)
WordOf(a) ==
  IF a.dashes # 1 THEN <<>>
  ELSE IF Stop(a.word) > Len(a.word) THEN a.word ELSE SubSeq(a.word, 1, Stop(a.word))
LettersOf(a, o) == {k \in DOMAIN WordOf(a) : o \in Short(WordOf(a)[k])}
AttachedOf(a) ==
  IF a.dashes = 2 THEN a.value ELSE SubSeq(a.word, Len(WordOf(a)) + 1, Len(a.word))
NamedIn(a, o) ==
  IF a.dashes = 2 THEN o \in Long(a.word) /\ ~(ArgumentType[o] = "no" /\ a.value # <<>>)
  ELSE LettersOf(a, o) # {}
NextOf(av, i) == IF i < Len(av) THEN av[i + 1] ELSE Text(<<>>)
TextOf(av, i) == IF NeedsNext(av[i]) THEN NextOf(av, i) ELSE Text(AttachedOf(av[i]))
Sets(c) == [k \in 1 .. c |-> Set]
GivenOf(av, o, i) ==
  IF ~NamedIn(av[i], o) THEN <<>>
  ELSE IF ArgumentType[o] = "no"
       THEN Sets(IF av[i].dashes = 2 THEN 1 ELSE Cardinality(LettersOf(av[i], o)))
       ELSE <<Added(o, TextOf(av, i))>>

LEMMA GivenIs ==
  \A o, i : Given(o, i) = GivenOf(argv, o, i)
  BY DEF Given, GivenOf, Sets, TextOf, NextOf, NamedIn, AttachedOf, LettersOf, WordOf

LEMMA SetsType ==
  ASSUME NEW c \in Nat
  PROVE  Sets(c) \in Seq(Held)
<1>1. Set \in Held
  BY DEF Held
<1>2. Sets(c) \in [1 .. c -> Held]
  BY <1>1 DEF Sets
<1> QED BY <1>2

LEMMA SetsOfNone ==
  /\ Sets(0) = <<>>
  /\ Sets(1) = <<Set>>
  /\ \A P : P = {} => Sets(Cardinality(P)) = <<>>
<1>1. Sets(0) = <<>> /\ Sets(1) = <<Set>>
  BY DEF Sets
<1>2. Cardinality({}) = 0
  BY FS_EmptySet
<1> QED BY <1>1, <1>2

LEMMA WordOfIs ==
  ASSUME NEW a \in Arguments
  PROVE  /\ Len(WordOf(a)) \in Nat /\ DOMAIN WordOf(a) = 1 .. Len(WordOf(a))
         /\ a.dashes # 1 => WordOf(a) = <<>>
         /\ a.dashes = 1 =>
              /\ Len(WordOf(a)) = IF Stop(a.word) > Len(a.word) THEN Len(a.word) ELSE Stop(a.word)
              /\ \A k \in 1 .. Len(WordOf(a)) : WordOf(a)[k] = a.word[k]
<1>1. PICK S : a.word \in Seq(S)
  BY WordIs
<1>2. Stop(a.word) \in 1 .. Len(a.word) + 1 /\ Len(a.word) \in Nat
  BY WordIs, StopIs
<1>3. CASE a.dashes # 1
  BY <1>3 DEF WordOf
<1>4. CASE a.dashes = 1
  <2>1. CASE Stop(a.word) > Len(a.word)
    BY <1>1, <1>4, <2>1 DEF WordOf
  <2>2. CASE ~(Stop(a.word) > Len(a.word))
    <3>1. WordOf(a) = SubSeq(a.word, 1, Stop(a.word))
      BY <1>4, <2>2 DEF WordOf
    <3>2. \A w \in Seq(S) : \A t \in 1 .. Len(w) :
            /\ SubSeq(w, 1, t) \in Seq(S) /\ Len(SubSeq(w, 1, t)) = t
            /\ DOMAIN SubSeq(w, 1, t) = 1 .. t
            /\ \A k \in 1 .. t : SubSeq(w, 1, t)[k] = w[k]
      OBVIOUS
    <3>3. Stop(a.word) \in 1 .. Len(a.word)
      BY <1>2, <2>2
    <3> QED BY <1>1, <1>4, <2>2, <3>1, <3>2, <3>3
  <2> QED BY <2>1, <2>2
<1> QED BY <1>3, <1>4

(* The letters of an option: those before the stop, all of a switch, and    *)
(* the one at the stop.                                                    *)
LEMMA LettersAre ==
  ASSUME NEW a \in Arguments, NEW o \in Options, a.dashes = 1
  PROVE  /\ Stop(a.word) > Len(a.word) =>
              LettersOf(a, o) = {m \in 1 .. Stop(a.word) - 1 : o \in Short(a.word[m])}
         /\ Stop(a.word) <= Len(a.word) =>
              LettersOf(a, o) = {m \in 1 .. Stop(a.word) : o \in Short(a.word[m])}
         /\ Cardinality(LettersOf(a, o)) \in Nat
         /\ LettersOf(a, o) \subseteq 1 .. Len(a.word)
<1>1. Stop(a.word) \in 1 .. Len(a.word) + 1 /\ Len(a.word) \in Nat
  BY WordIs, StopIs
<1> DEFINE l == Len(WordOf(a))
           w == a.word
           t == Stop(a.word)
<1>2. l \in Nat /\ LettersOf(a, o) = {m \in 1 .. l : o \in Short(w[m])}
  <2>1. l \in Nat /\ DOMAIN WordOf(a) = 1 .. l /\ \A k \in 1 .. l : WordOf(a)[k] = w[k]
    BY WordOfIs
  <2> HIDE DEF l, w
  <2> QED BY <2>1 DEF LettersOf
<1>3. l = IF t > Len(w) THEN Len(w) ELSE t
  BY WordOfIs
<1> HIDE DEF l, w, t
<1>4. l <= Len(w) /\ (t > Len(w) => l = t - 1) /\ (t <= Len(w) => l = t)
  BY <1>1, <1>2, <1>3 DEF t, w
<1>5. IsFiniteSet(LettersOf(a, o)) /\ LettersOf(a, o) \subseteq 1 .. Len(w)
  <2>1. LettersOf(a, o) \subseteq 1 .. l /\ IsFiniteSet(1 .. l) /\ 1 .. l \subseteq 1 .. Len(w)
    <3>1. l \in Nat /\ Len(w) \in Nat /\ l <= Len(w)
      BY <1>1, <1>2, <1>4 DEF w
    <3>2. IsFiniteSet(1 .. l)
      BY <3>1, FS_Interval
    <3> HIDE DEF w
    <3>3. 1 .. l \subseteq 1 .. Len(w) /\ LettersOf(a, o) \subseteq 1 .. l
      <4> HIDE DEF l
      <4> QED BY <3>1, <1>2
    <3> QED BY <3>2, <3>3
  <2> QED BY <2>1, FS_Subset
<1>6. Cardinality(LettersOf(a, o)) \in Nat
  BY <1>5, FS_CardinalityType
<1> QED BY <1>2, <1>4, <1>5, <1>6 DEF t, w

LEMMA TextType ==
  ASSUME NEW av \in Seq(Arguments), NEW i \in 1 .. Len(av)
  PROVE  TextOf(av, i) \in Texts /\ NextOf(av, i) \in Texts
<1>1. av[i] \in Arguments /\ (i < Len(av) => av[i + 1] \in Arguments)
  OBVIOUS
<1>2. NextOf(av, i) \in Texts
  BY <1>1 DEF NextOf, Texts
<1>3. Len(WordOf(av[i])) + 1 \in Nat
  BY <1>1, WordOfIs
<1>4. Text(AttachedOf(av[i])) \in Texts
  BY <1>1, <1>3, WordIs DEF AttachedOf
<1> QED BY <1>2, <1>4 DEF TextOf

LEMMA GivenType ==
  ASSUME NEW av \in Seq(Arguments), NEW i \in 1 .. Len(av), NEW o \in Options
  PROVE  GivenOf(av, o, i) \in Seq(Held)
<1> DEFINE a == av[i]
<1>1. a \in Arguments /\ a.dashes \in 0 .. 2
  BY WordIs
<1>2. ASSUME NamedIn(a, o), a.dashes # 2
      PROVE  Cardinality(LettersOf(a, o)) \in Nat
  <2>1. a.dashes = 1
    <3>1. CASE a.dashes = 0
      <4>1. WordOf(a) = <<>> /\ DOMAIN WordOf(a) = {}
        BY <3>1 DEF WordOf
      <4> QED BY <4>1, <1>2 DEF NamedIn, LettersOf
    <3> QED BY <1>1, <1>2, <3>1
  <2> QED BY <1>1, <2>1, LettersAre
<1>3. Added(o, TextOf(av, i)) \in Held
  BY TextType, AddedIsHeld
<1>4. <<>> \in Seq(Held) /\ <<Added(o, TextOf(av, i))>> \in Seq(Held)
  BY <1>3
<1> HIDE DEF a
<1>5. NamedIn(a, o) => (IF a.dashes = 2 THEN 1 ELSE Cardinality(LettersOf(a, o))) \in Nat
  BY <1>2
<1>6. NamedIn(a, o) => Sets(IF a.dashes = 2 THEN 1 ELSE Cardinality(LettersOf(a, o))) \in Seq(Held)
  BY <1>5, SetsType
<1> QED BY <1>4, <1>6 DEF GivenOf, a

Values == [Options -> Seq(Held)]
UnknownOf(a) == IF NotKnown(a) THEN <<a>> ELSE <<>>
PlainOf(a) == IF a.dashes = 0 THEN <<a>> ELSE <<>>
NextAt == IF NeedsNext(argv[n]) /\ n < Len(argv) THEN n + 2 ELSE n + 1

(* A turn of the loop does what the argument it is at means, or throws. *)
Does ==
  /\ parser' = "parsing"
  /\ n' = NextAt
  /\ values' = [p \in Options |-> values[p] \o GivenOf(argv, p, n)]
  /\ unknown_options_' = unknown_options_ \o UnknownOf(argv[n])
  /\ non_option_args_' = non_option_args_ \o PlainOf(argv[n])
Throws ==
  /\ parser' = "thrown" /\ values' \in Values
  /\ UNCHANGED <<unknown_options_, non_option_args_>>

LEMMA ValuesMore ==
  ASSUME NEW old \in Values, NEW F \in [Options -> Seq(Held)]
  PROVE  [p \in Options |-> old[p] \o F[p]] \in Values
<1>1. \A p \in Options : old[p] \in Seq(Held) /\ F[p] \in Seq(Held)
  BY DEF Values
<1>2. \A p \in Options : old[p] \o F[p] \in Seq(Held)
  BY <1>1, ConcatIndex
<1> QED BY <1>2 DEF Values

LEMMA OptionAdds ==
  ASSUME NEW o \in Options, NEW text \in Texts, NEW old \in Values, parser = "parsing",
         OptionParse(o, text, old)
  PROVE  \/ parser' = "thrown" /\ values' \in Values
         \/ /\ parser' = "parsing"
            /\ values' = [p \in Options |-> IF p = o THEN old[p] \o <<Added(o, text)>> ELSE old[p]]
<1>1. CASE Fails(o, text)
  BY <1>1 DEF OptionParse
<1>2. CASE ~Fails(o, text)
  <2>1. parser' = "parsing" /\ values' = [old EXCEPT ![o] = Append(@, Added(o, text))]
    BY <1>2 DEF OptionParse
  <2>2. old[o] \in Seq(Held) /\ Added(o, text) \in Held
    BY AddedIsHeld DEF Values
  <2>3. Append(old[o], Added(o, text)) = old[o] \o <<Added(o, text)>>
    BY <2>2
  <2>4. old = [p \in Options |-> old[p]]
    BY DEF Values
  <2>5. [old EXCEPT ![o] = Append(@, Added(o, text))]
          = [p \in Options |-> IF p = o THEN Append(old[o], Added(o, text)) ELSE old[p]]
    BY <2>4
  <2> QED BY <2>1, <2>3, <2>5
<1> QED BY <1>1, <1>2

LEMMA PlainMeans ==
  ASSUME argv \in Seq(Arguments), n \in 1 .. Len(argv), parser = "parsing",
         values \in Values, unknown_options_ \in Seq(Arguments), non_option_args_ \in Seq(Arguments),
         ParsePlain
  PROVE  Does
<1> DEFINE a == argv[n]
<1>1. a \in Arguments /\ a.dashes = 0
  BY DEF ParsePlain, At
<1>2. WordOf(a) = <<>> /\ DOMAIN WordOf(a) = {}
  BY <1>1 DEF WordOf
<1>3. ~NeedsNext(a) /\ ~NotKnown(a) /\ PlainOf(a) = <<a>> /\ UnknownOf(a) = <<>>
  BY <1>1 DEF NeedsNext, NotKnown, PlainOf, UnknownOf
<1>4. \A p : LettersOf(a, p) = {}
  BY <1>2 DEF LettersOf
<1>5. \A p : GivenOf(argv, p, n) = <<>>
  BY <1>1, <1>4 DEF GivenOf, NamedIn
<1>6. values = [p \in Options |-> values[p] \o GivenOf(argv, p, n)]
  <2>1. \A p \in Options : values[p] \o <<>> = values[p]
    BY EmptyConcat DEF Values
  <2>2. values = [p \in Options |-> values[p]]
    BY DEF Values
  <2> QED BY <1>5, <2>1, <2>2
<1>7. unknown_options_ = unknown_options_ \o UnknownOf(a)
  BY <1>3
<1>8. Append(non_option_args_, a) = non_option_args_ \o PlainOf(a)
  BY <1>1, <1>3
<1> QED BY <1>3, <1>6, <1>7, <1>8 DEF ParsePlain, Does, NextAt

(* The argument an option is given, and where the loop goes on. *)
LEMMA NextTaken ==
  ASSUME argv \in Seq(Arguments), n \in 1 .. Len(argv), NEW o \in Options, NEW attached,
         ArgumentType[o] = "required", (attached = <<>>) <=> NeedsNext(argv[n]),
         AttachedOf(argv[n]) = attached, Advance(attached)
  PROVE  OptArg(attached) = TextOf(argv, n) /\ n' = NextAt
<1>1. CASE NeedsNext(argv[n])
  BY <1>1 DEF OptArg, TakesNext, TextOf, NextOf, Advance, NextAt
<1>2. CASE ~NeedsNext(argv[n])
  BY <1>2 DEF OptArg, TakesNext, TextOf, Advance, NextAt
<1> QED BY <1>1, <1>2

LEMMA LongMeans ==
  ASSUME argv \in Seq(Arguments), n \in 1 .. Len(argv), parser = "parsing",
         values \in Values, unknown_options_ \in Seq(Arguments), non_option_args_ \in Seq(Arguments),
         ParseLong
  PROVE  Does \/ Throws
<1> DEFINE a == argv[n]
           known == {o \in Long(a.word) : ArgumentType[o] = "no" => a.value = <<>>}
<1>1. a \in Arguments /\ a.dashes = 2 /\ non_option_args_' = non_option_args_
  BY DEF ParseLong, At
<1>2. NotKnown(a) <=> known = {}
  BY <1>1 DEF NotKnown
<1>3. NeedsNext(a) <=> a.value = <<>> /\ \E o \in Long(a.word) : ArgumentType[o] = "required"
  BY <1>1 DEF NeedsNext
<1>4. \A p : NamedIn(a, p) <=> p \in known
  BY <1>1 DEF NamedIn
<1>5. known \subseteq Options /\ \A p, q \in known : p = q
  <2>1. known \subseteq Options /\ known \subseteq Long(a.word)
    BY DEF Long
  <2> HIDE DEF known
  <2> QED BY <2>1, OneName
<1>6. AttachedOf(a) = a.value
  BY <1>1 DEF AttachedOf
<1>7. non_option_args_' = non_option_args_ \o PlainOf(a)
  BY <1>1, EmptyConcat DEF PlainOf
<1>8. \A o \in known : NeedsNext(a) <=> a.value = <<>> /\ ArgumentType[o] = "required"
  <2>1. ASSUME NEW o \in known, a.value = <<>>, NEW q \in Long(a.word), ArgumentType[q] = "required"
        PROVE  q = o
    BY <2>1, <1>5
  <2>2. known \subseteq Long(a.word)
    OBVIOUS
  <2> HIDE DEF known
  <2> QED BY <2>1, <2>2, <1>3
<1>9. \/ known = {} /\ Unknown(a)
      \/ \E o \in known :
              /\ IF ArgumentType[o] = "required"
                 THEN OptionParse(o, OptArg(a.value), values) /\ Advance(a.value)
                 ELSE OptionParse(o, Text(a.value), values) /\ n' = n + 1
              /\ UNCHANGED unknown_options_
  BY DEF ParseLong
<1>10. CASE known = {} /\ Unknown(a)
  <2>1. ~NeedsNext(a)
    BY <1>3, <1>10
  <2>2. unknown_options_' = unknown_options_ \o UnknownOf(a)
    BY <1>1, <1>2, <1>10 DEF Unknown, UnknownOf
  <2>3. values' = values /\ n' = n + 1 /\ parser' = parser
    BY <1>10 DEF Unknown
  <2> HIDE DEF known
  <2>4. \A p : GivenOf(argv, p, n) = <<>>
    BY <1>4, <1>10 DEF GivenOf
  <2>5. values' = [p \in Options |-> values[p] \o GivenOf(argv, p, n)]
    <3>1. \A p \in Options : values[p] \o <<>> = values[p]
      BY EmptyConcat DEF Values
    <3>2. values = [p \in Options |-> values[p]]
      BY DEF Values
    <3> QED BY <2>3, <2>4, <3>1, <3>2
  <2> QED BY <1>7, <2>1, <2>2, <2>3, <2>5 DEF Does, NextAt
<1>11. ASSUME NEW o \in known,
              IF ArgumentType[o] = "required"
              THEN OptionParse(o, OptArg(a.value), values) /\ Advance(a.value)
              ELSE OptionParse(o, Text(a.value), values) /\ n' = n + 1,
              UNCHANGED unknown_options_
       PROVE  Does \/ Throws
  <2>1. o \in Options /\ (ArgumentType[o] = "no" => a.value = <<>>)
    BY <1>5
  <2>2. unknown_options_' = unknown_options_ \o UnknownOf(a)
    BY <1>2, <1>11, EmptyConcat DEF UnknownOf
  <2> HIDE DEF known
  <2>3. OptionParse(o, TextOf(argv, n), values) /\ n' = NextAt
    <3>1. CASE ArgumentType[o] = "required"
      <4>1. (a.value = <<>>) <=> NeedsNext(a)
        BY <1>8, <3>1
      <4> QED BY <4>1, <1>6, <1>11, <2>1, <3>1, NextTaken
    <3>2. CASE ArgumentType[o] # "required"
      <4>1. ~NeedsNext(a)
        BY <1>8, <3>2
      <4> QED BY <4>1, <1>6, <1>11, <3>2 DEF TextOf, NextAt
    <3> QED BY <3>1, <3>2
  <2>4. TextOf(argv, n) \in Texts
    BY TextType
  <2>5. \/ parser' = "thrown" /\ values' \in Values
        \/ /\ parser' = "parsing"
           /\ values' = [p \in Options |-> IF p = o THEN values[p] \o <<Added(o, TextOf(argv, n))>>
                                           ELSE values[p]]
    BY <2>1, <2>3, <2>4, OptionAdds
  <2>6. GivenOf(argv, o, n) = <<Added(o, TextOf(argv, n))>>
    <3>1. NamedIn(a, o)
      BY <1>4
    <3>2. CASE ArgumentType[o] = "no"
      <4>1. Added(o, TextOf(argv, n)) = Set
        BY <3>2 DEF Added
      <4> QED BY <3>1, <3>2, <4>1, <1>1, SetsOfNone DEF GivenOf
    <3>3. CASE ArgumentType[o] # "no"
      BY <3>1, <3>3 DEF GivenOf
    <3> QED BY <3>2, <3>3
  <2>7. \A p \in Options : p # o => GivenOf(argv, p, n) = <<>> /\ values[p] \o <<>> = values[p]
    BY <1>4, <1>5, EmptyConcat DEF GivenOf, Values
  <2>8. [p \in Options |-> IF p = o THEN values[p] \o <<Added(o, TextOf(argv, n))>> ELSE values[p]]
          = [p \in Options |-> values[p] \o GivenOf(argv, p, n)]
    BY <2>6, <2>7
  <2> QED BY <1>1, <1>7, <1>11, <2>2, <2>3, <2>5, <2>8 DEF Does, Throws
<1> QED BY <1>9, <1>10, <1>11

(* The letters of an option before the stop; what the switches add. *)
SetBy(a, p) == {m \in 1 .. Stop(a.word) - 1 : p \in Short(a.word[m])}
Switched(a) == [p \in Options |-> values[p] \o Sets(Cardinality(SetBy(a, p)))]

LEMMA SwitchesAre ==
  ASSUME NEW a \in Arguments
  PROVE  [o \in Options |->
            values[o] \o FlattenSeq([m \in 1 .. Stop(a.word) - 1 |->
                           IF o \in Short(a.word[m]) THEN <<Set>> ELSE <<>>])] = Switched(a)
<1> DEFINE t == Stop(a.word) - 1
           P(o) == {m \in 1 .. t : o \in Short(a.word[m])}
<1>1. t \in Nat
  BY WordIs, StopIs
<1>2. ASSUME NEW o \in Options
      PROVE  FlattenSeq([m \in 1 .. t |-> IF o \in Short(a.word[m]) THEN <<Set>> ELSE <<>>])
               = Sets(Cardinality(SetBy(a, o)))
  <2>1. [m \in 1 .. t |-> IF o \in Short(a.word[m]) THEN <<Set>> ELSE <<>>]
          = [m \in 1 .. t |-> IF m \in P(o) THEN <<Set>> ELSE <<>>]
    OBVIOUS
  <2>2. SetBy(a, o) = P(o) /\ {m \in 1 .. t : m \in P(o)} = P(o)
    BY DEF SetBy
  <2> HIDE DEF t, P
  <2>3. FlattenSeq([m \in 1 .. t |-> IF m \in P(o) THEN <<Set>> ELSE <<>>])
          = [j \in 1 .. Cardinality({m \in 1 .. t : m \in P(o)}) |-> Set]
    BY <1>1, SetsCount
  <2> QED BY <2>1, <2>2, <2>3 DEF Sets
<1> QED BY <1>2 DEF Switched

LEMMA SetByType ==
  ASSUME NEW a \in Arguments, NEW p \in Options
  PROVE  Sets(Cardinality(SetBy(a, p))) \in Seq(Held)
<1>1. Stop(a.word) - 1 \in Nat
  BY WordIs, StopIs
<1>2. IsFiniteSet(1 .. Stop(a.word) - 1) /\ SetBy(a, p) \subseteq 1 .. Stop(a.word) - 1
  BY <1>1, FS_Interval DEF SetBy
<1>3. IsFiniteSet(SetBy(a, p))
  BY <1>2, FS_Subset
<1>4. Cardinality(SetBy(a, p)) \in Nat
  BY <1>3, FS_CardinalityType
<1> QED BY <1>4, SetsType

LEMMA SwitchedType ==
  ASSUME NEW a \in Arguments, values \in Values
  PROVE  Switched(a) \in Values
<1>1. \A p \in Options : values[p] \in Seq(Held) /\ Sets(Cardinality(SetBy(a, p))) \in Seq(Held)
  BY SetByType DEF Values
<1>2. \A p \in Options : values[p] \o Sets(Cardinality(SetBy(a, p))) \in Seq(Held)
  BY <1>1, ConcatIndex
<1> QED BY <1>2 DEF Switched, Values

(* An option that takes an argument is not before the stop; at the stop is  *)
(* one option and it takes an argument.                                     *)
LEMMA BeforeStop ==
  ASSUME NEW a \in Arguments, a.dashes = 1
  PROVE  /\ \A p \in Options : ArgumentType[p] # "no" => SetBy(a, p) = {}
         /\ Stop(a.word) > Len(a.word) => \A p \in Options : LettersOf(a, p) = SetBy(a, p)
         /\ Stop(a.word) <= Len(a.word) =>
              \A o \in Short(a.word[Stop(a.word)]) :
                /\ o \in Options /\ ArgumentType[o] # "no" /\ LettersOf(a, o) # {}
                /\ \A p \in Options : p # o => LettersOf(a, p) = SetBy(a, p)
<1> DEFINE t == Stop(a.word)
           w == a.word
<1>1. t \in 1 .. Len(w) + 1 /\ Len(w) \in Nat
  BY WordIs, StopIs
<1>2. (t <= Len(w) => TakesArgument(w[t])) /\ \A k \in 1 .. t - 1 : ~TakesArgument(w[k])
  BY WordIs, StopIs
<1>3. \A p \in Options : ArgumentType[p] # "no" => SetBy(a, p) = {}
  BY <1>2 DEF TakesArgument, SetBy
<1>4. t > Len(w) => \A p \in Options : LettersOf(a, p) = SetBy(a, p)
  BY LettersAre DEF SetBy
<1>5. ASSUME t <= Len(w), NEW o \in Short(w[t])
      PROVE  /\ o \in Options /\ ArgumentType[o] # "no" /\ LettersOf(a, o) # {}
             /\ \A p \in Options : p # o => LettersOf(a, p) = SetBy(a, p)
  <2>1. o \in Options
    BY <1>5 DEF Short
  <2>2. ArgumentType[o] # "no"
    <3>1. PICK q \in Short(w[t]) : ArgumentType[q] # "no"
      BY <1>2, <1>5 DEF TakesArgument
    <3>2. q \in Options /\ q = o
      BY <2>1, <1>5, OneName DEF Short
    <3> QED BY <3>1, <3>2
  <2>3. \A p \in Options : LettersOf(a, p) = {m \in 1 .. t : p \in Short(w[m])}
    BY <1>5, LettersAre
  <2>4. LettersOf(a, o) # {}
    <3>1. t \in 1 .. t
      BY <1>1
    <3> QED BY <2>1, <2>3, <3>1, <1>5
  <2>5. ASSUME NEW p \in Options, p # o PROVE LettersOf(a, p) = SetBy(a, p)
    <3>1. p \notin Short(w[t])
      BY <2>1, <2>5, <1>5, OneName
    <3>2. {m \in 1 .. t : p \in Short(w[m])} = {m \in 1 .. t - 1 : p \in Short(w[m])}
      <4> HIDE DEF t, w
      <4>1. \A m : m \in 1 .. t /\ m # t <=> m \in 1 .. t - 1
        BY <1>1
      <4> QED BY <3>1, <4>1
    <3> QED BY <2>3, <3>2 DEF SetBy
  <2> QED BY <2>1, <2>2, <2>4, <2>5
<1> QED BY <1>3, <1>4, <1>5

(* What a switch is given, by the letters. *)
LEMMA GivenByLetters ==
  ASSUME NEW av, NEW i, NEW o \in Options, av[i] \in Arguments, av[i].dashes = 1,
         LettersOf(av[i], o) = SetBy(av[i], o)
  PROVE  GivenOf(av, o, i) = Sets(Cardinality(SetBy(av[i], o)))
<1> DEFINE a == av[i]
<1>1. NamedIn(a, o) <=> SetBy(a, o) # {}
  BY DEF NamedIn
<1>2. CASE SetBy(a, o) = {}
  <2>1. Sets(Cardinality(SetBy(a, o))) = <<>>
    BY <1>2, SetsOfNone
  <2>2. GivenOf(av, o, i) = <<>>
    BY <1>1, <1>2 DEF GivenOf
  <2> QED BY <2>1, <2>2
<1>3. CASE SetBy(a, o) # {}
  <2>1. ArgumentType[o] = "no"
    BY <1>3, BeforeStop
  <2>2. (IF a.dashes = 2 THEN 1 ELSE Cardinality(LettersOf(a, o))) = Cardinality(SetBy(a, o))
    OBVIOUS
  <2> HIDE DEF a
  <2>3. GivenOf(av, o, i) = Sets(IF a.dashes = 2 THEN 1 ELSE Cardinality(LettersOf(a, o)))
    BY <1>1, <1>3, <2>1 DEF GivenOf, a
  <2> QED BY <2>2, <2>3 DEF a
<1> QED BY <1>2, <1>3

LEMMA ShortMeans ==
  ASSUME argv \in Seq(Arguments), n \in 1 .. Len(argv), parser = "parsing",
         values \in Values, unknown_options_ \in Seq(Arguments), non_option_args_ \in Seq(Arguments),
         ParseShort
  PROVE  Does \/ Throws
<1> DEFINE a == argv[n]
           t == Stop(a.word)
           w == a.word
           L == Len(w)
           attached == SubSeq(w, t + 1, L)
           unknown == \E m \in 1 .. t - 1 : Short(w[m]) = {}
<1>1. a \in Arguments /\ a.dashes = 1 /\ non_option_args_' = non_option_args_
  BY DEF ParseShort, At
<1>2. t \in 1 .. L + 1 /\ L \in Nat
  BY <1>1, WordIs, StopIs
<1>3. NotKnown(a) <=> unknown
  BY <1>1 DEF NotKnown
<1>4. NeedsNext(a) <=> w # <<>> /\ t = L /\ \E o \in Short(Last(w)) : ArgumentType[o] = "required"
  BY <1>1 DEF NeedsNext
<1>5. non_option_args_' = non_option_args_ \o PlainOf(a)
  BY <1>1, EmptyConcat DEF PlainOf
<1>6. /\ IF t > L
         THEN values' = Switched(a) /\ n' = n + 1 /\ UNCHANGED parser
         ELSE \E o \in Short(w[t]) :
                IF ArgumentType[o] = "required"
                THEN OptionParse(o, OptArg(attached), Switched(a)) /\ Advance(attached)
                ELSE OptionParse(o, Text(attached), Switched(a)) /\ n' = n + 1
      /\ unknown_options_' = IF unknown /\ parser' = "parsing"
                             THEN Append(unknown_options_, a) ELSE unknown_options_
  <2>1. [o \in Options |->
            values[o] \o FlattenSeq([m \in 1 .. t - 1 |->
                           IF o \in Short(w[m]) THEN <<Set>> ELSE <<>>])] = Switched(a)
    BY <1>1, SwitchesAre
  <2> QED BY <2>1 DEF ParseShort
<1>7. parser' = "parsing" => unknown_options_' = unknown_options_ \o UnknownOf(a)
  <2>1. unknown_options_ \o <<>> = unknown_options_
        /\ Append(unknown_options_, a) = unknown_options_ \o <<a>>
    BY <1>1
  <2> HIDE DEF unknown, a
  <2> QED BY <2>1, <1>3, <1>6 DEF UnknownOf
<1>8. parser' = "thrown" => unknown_options_' = unknown_options_
  BY <1>6
<1> HIDE DEF unknown
<1>9. Switched(a) \in Values
  BY <1>1, SwitchedType
<1>10. CASE t > L
  <2>1. ~NeedsNext(a)
    BY <1>2, <1>4, <1>10
  <2>2. \A p \in Options : LettersOf(a, p) = SetBy(a, p)
    BY <1>1, <1>10, BeforeStop
  <2>3. \A p \in Options : GivenOf(argv, p, n) = Sets(Cardinality(SetBy(a, p)))
    BY <2>2, <1>1, GivenByLetters
  <2>4. values' = [p \in Options |-> values[p] \o GivenOf(argv, p, n)]
    BY <2>3, <1>6, <1>10 DEF Switched
  <2>5. parser' = "parsing" /\ n' = n + 1
    BY <1>6, <1>10
  <2> QED BY <2>1, <2>4, <2>5, <1>5, <1>7 DEF Does, NextAt
<1>11. CASE ~(t > L)
  <2>1. PICK o \in Short(w[t]) :
           IF ArgumentType[o] = "required"
           THEN OptionParse(o, OptArg(attached), Switched(a)) /\ Advance(attached)
           ELSE OptionParse(o, Text(attached), Switched(a)) /\ n' = n + 1
    BY <1>6, <1>11
  <2>2. /\ o \in Options /\ ArgumentType[o] # "no" /\ LettersOf(a, o) # {}
        /\ \A p \in Options : p # o => LettersOf(a, p) = SetBy(a, p)
    <3>1. t <= L
      BY <1>2, <1>11
    <3> QED BY <3>1, <1>1, BeforeStop
  <2>3. AttachedOf(a) = attached
    <3>1. Len(WordOf(a)) = t
      BY <1>1, <1>11, WordOfIs
    <3> QED BY <3>1, <1>1 DEF AttachedOf
  <2>4. attached = <<>> <=> t = L
    <3>1. PICK S : w \in Seq(S)
      BY <1>1, WordIs
    <3>2. t \in 1 .. L
      BY <1>2, <1>11
    <3>3. ASSUME NEW u \in Seq(S), NEW k \in 1 .. Len(u)
          PROVE  SubSeq(u, k + 1, Len(u)) = <<>> <=> k = Len(u)
      <4>1. SubSeq(u, k + 1, Len(u)) \in Seq(S) /\ Len(SubSeq(u, k + 1, Len(u))) = Len(u) - k
        OBVIOUS
      <4>2. \A v \in Seq(S) : v = <<>> <=> Len(v) = 0
        OBVIOUS
      <4>3. Len(u) \in Nat
        OBVIOUS
      <4> HIDE DEF t, w, L, attached
      <4>4. SubSeq(u, k + 1, Len(u)) = <<>> <=> Len(SubSeq(u, k + 1, Len(u))) = 0
        BY <4>1, <4>2
      <4>5. Len(SubSeq(u, k + 1, Len(u))) = 0 <=> k = Len(u)
        BY <4>1, <4>3
      <4> QED BY <4>4, <4>5
    <3> QED BY <3>1, <3>2, <3>3
  <2>5. NeedsNext(a) <=> t = L /\ ArgumentType[o] = "required"
    <3>1. t = L => Last(w) = w[t] /\ w # <<>>
      <4>1. PICK S : w \in Seq(S)
        BY <1>1, WordIs
      <4>2. t = L => L > 0
        BY <1>2
      <4>3. \A u \in Seq(S) : Len(u) > 0 => u # <<>>
        OBVIOUS
      <4> QED BY <4>1, <4>2, <4>3 DEF Last
    <3>2. \A q \in Short(w[t]) : q = o
      <4>1. \A q \in Short(w[t]) : q \in Options
        BY DEF Short
      <4> QED BY <4>1, <2>1, <2>2, OneName
    <3> QED BY <3>1, <3>2, <1>4, <2>1
  <2> HIDE DEF attached, t, w, L, a
  <2>6. OptionParse(o, TextOf(argv, n), Switched(a)) /\ n' = NextAt
    <3>1. CASE ArgumentType[o] = "required"
      <4>1. attached = <<>> <=> NeedsNext(argv[n])
        BY <2>4, <2>5, <3>1 DEF a
      <4>2. AttachedOf(argv[n]) = attached
        BY <2>3 DEF a
      <4> QED BY <4>1, <4>2, <2>1, <2>2, <3>1, NextTaken
    <3>2. CASE ArgumentType[o] # "required"
      <4>1. ~NeedsNext(argv[n])
        BY <2>5, <3>2 DEF a
      <4>2. AttachedOf(argv[n]) = attached
        BY <2>3 DEF a
      <4> QED BY <4>1, <4>2, <2>1, <3>2 DEF TextOf, NextAt
    <3> QED BY <3>1, <3>2
  <2>7. TextOf(argv, n) \in Texts
    BY TextType
  <2>8. \/ parser' = "thrown" /\ values' \in Values
        \/ /\ parser' = "parsing"
           /\ values' = [p \in Options |-> IF p = o THEN Switched(a)[p] \o <<Added(o, TextOf(argv, n))>>
                                           ELSE Switched(a)[p]]
    BY <2>2, <2>6, <2>7, <1>9, OptionAdds
  <2>9. GivenOf(argv, o, n) = <<Added(o, TextOf(argv, n))>> /\ Switched(a)[o] = values[o]
    <3>1. NamedIn(a, o)
      BY <2>2, <1>1 DEF NamedIn
    <3>2. GivenOf(argv, o, n) = <<Added(o, TextOf(argv, n))>>
      BY <3>1, <2>2 DEF GivenOf, a
    <3>3. SetBy(a, o) = {}
      BY <1>1, <2>2, BeforeStop
    <3>4. Sets(Cardinality(SetBy(a, o))) = <<>>
      BY <3>3, SetsOfNone
    <3>5. values[o] \o <<>> = values[o]
      BY <2>2, EmptyConcat DEF Values
    <3> QED BY <2>2, <3>2, <3>4, <3>5 DEF Switched
  <2>10. \A p \in Options : p # o => GivenOf(argv, p, n) = Sets(Cardinality(SetBy(a, p)))
    BY <1>1, <2>2, GivenByLetters DEF a
  <2>11. [p \in Options |-> IF p = o THEN Switched(a)[p] \o <<Added(o, TextOf(argv, n))>>
                                     ELSE Switched(a)[p]]
           = [p \in Options |-> values[p] \o GivenOf(argv, p, n)]
    BY <2>9, <2>10 DEF Switched
  <2> QED BY <1>1, <1>5, <1>7, <1>8, <2>6, <2>8, <2>11 DEF Does, Throws, a
<1> QED BY <1>10, <1>11

(* The positions taken as arguments, of a command line. *)
TakesFrom(f, av) == f = [i \in 1 .. Len(av) |-> i > 1 /\ ~f[i - 1] /\ NeedsNext(av[i - 1])]
TakenOf(av) ==
  LET f == CHOOSE f : TakesFrom(f, av)
  IN  {i \in 1 .. Len(av) : f[i]}

LEMMA TakenIs == Taken = TakenOf(argv)
  BY DEF Taken, TakenOf, TakesFrom

LEMMA TakesExists ==
  ASSUME NEW av, Len(av) \in Nat
  PROVE  \E f : TakesFrom(f, av)
<1> DEFINE V == {0, 1}
           F == [k \in Nat |-> [v \in V |-> IF v = 0 /\ NeedsNext(av[k + 1]) THEN 1 ELSE 0]]
<1>1. F \in [Nat -> [V -> V]] /\ 0 \in V
  OBVIOUS
<1>2. \A k \in Nat, v \in V : F[k][v] = 1 <=> v # 1 /\ NeedsNext(av[k + 1])
  OBVIOUS
<1> HIDE DEF V, F
<1>3. PICK g \in [Nat -> V] : g[0] = 0 /\ \A k \in Nat : g[k + 1] = F[k][g[k]]
  <2>1. \E g \in [Nat -> V] : Iterates(g, 0, F)
    BY <1>1, PrimitiveRecursion
  <2> QED BY <2>1 DEF Iterates
<1> DEFINE f == [i \in 1 .. Len(av) |-> g[i - 1] = 1]
<1>4. \A i \in 1 .. Len(av) : f[i] <=> g[i - 1] = 1
  OBVIOUS
<1>5. ASSUME NEW i \in 1 .. Len(av)
      PROVE  g[i - 1] = 1 <=> i > 1 /\ ~f[i - 1] /\ NeedsNext(av[i - 1])
  <2>1. CASE i = 1
    BY <2>1, <1>3
  <2>2. CASE i # 1
    <3>1. i > 1 /\ i - 1 \in 1 .. Len(av) /\ i - 2 \in Nat /\ (i - 2) + 1 = i - 1
          /\ (i - 1) - 1 = i - 2
      BY <2>2
    <3>2. g[i - 1] = F[i - 2][g[i - 2]] /\ g[i - 2] \in V
      BY <3>1, <1>3
    <3>3. g[i - 1] = 1 <=> g[i - 2] # 1 /\ NeedsNext(av[i - 1])
      BY <3>1, <3>2, <1>2
    <3>4. f[i - 1] <=> g[i - 2] = 1
      BY <1>4, <3>1
    <3> HIDE DEF f
    <3> QED BY <3>1, <3>3, <3>4
  <2> QED BY <2>1, <2>2
<1> HIDE DEF f
<1>6. [i \in 1 .. Len(av) |-> g[i - 1] = 1]
        = [i \in 1 .. Len(av) |-> i > 1 /\ ~f[i - 1] /\ NeedsNext(av[i - 1])]
  BY <1>5
<1> QED BY <1>6 DEF f, TakesFrom

(* A position is taken when the one before is not and needs an argument. *)
LEMMA TakenStep ==
  ASSUME NEW av, Len(av) \in Nat
  PROVE  /\ 1 \notin TakenOf(av)
         /\ \A i \in 1 .. Len(av) - 1 :
              i + 1 \in TakenOf(av) <=> i \notin TakenOf(av) /\ NeedsNext(av[i])
<1> DEFINE w == CHOOSE f : TakesFrom(f, av)
<1>1. TakesFrom(w, av)
  BY TakesExists
<1>2. \A i : i \in TakenOf(av) <=> i \in 1 .. Len(av) /\ w[i]
  BY DEF TakenOf
<1> HIDE DEF w
<1>3. ASSUME NEW i \in 1 .. Len(av)
      PROVE  w[i] <=> i > 1 /\ ~w[i - 1] /\ NeedsNext(av[i - 1])
  BY <1>1 DEF TakesFrom
<1>4. 1 \notin TakenOf(av)
  BY <1>2, <1>3
<1>5. ASSUME NEW i \in 1 .. Len(av) - 1
      PROVE  i + 1 \in TakenOf(av) <=> i \notin TakenOf(av) /\ NeedsNext(av[i])
  <2>1. i + 1 \in 1 .. Len(av) /\ i \in 1 .. Len(av) /\ i + 1 > 1 /\ (i + 1) - 1 = i
    OBVIOUS
  <2>2. w[i + 1] <=> ~w[i] /\ NeedsNext(av[i])
    BY <1>3, <2>1
  <2>3. i \in TakenOf(av) <=> w[i]
    BY <1>2, <2>1
  <2>4. i + 1 \in TakenOf(av) <=> w[i + 1]
    BY <1>2, <2>1
  <2> QED BY <2>2, <2>3, <2>4
<1> QED BY <1>4, <1>5

-----------------------------------------------------------------------------
(* What the first k positions mean. *)

ValuesAt(av, o, i) == IF i \in TakenOf(av) THEN <<>> ELSE GivenOf(av, o, i)
UnknownAt(av, i) == IF i \in TakenOf(av) THEN <<>> ELSE UnknownOf(av[i])
PlainAt(av, i) == IF i \in TakenOf(av) THEN <<>> ELSE PlainOf(av[i])
ValuesUpTo(av, v, k) ==
  [o \in Options |-> v[o] \o FlattenSeq([i \in 1 .. k |-> ValuesAt(av, o, i)])]
UnknownUpTo(av, u, k) == u \o FlattenSeq([i \in 1 .. k |-> UnknownAt(av, i)])
PlainUpTo(av, p, k) == p \o FlattenSeq([i \in 1 .. k |-> PlainAt(av, i)])

LEMMA MeaningIs ==
  ASSUME argv \in Seq(Arguments)
  PROVE  Meaning = <<ValuesUpTo(argv, before[1], Len(argv)), UnknownUpTo(argv, before[2], Len(argv)),
                     PlainUpTo(argv, before[3], Len(argv))>>
<1> DEFINE T == TakenOf(argv)
           D == 1 .. Len(argv)
<1>1. DOMAIN argv = D /\ Taken = T
  BY TakenIs
<1>2. [o \in Options |->
         before[1][o] \o FlattenSeq([i \in DOMAIN argv |-> IF i \in Taken THEN <<>> ELSE Given(o, i)])]
        = ValuesUpTo(argv, before[1], Len(argv))
  BY <1>1, GivenIs DEF ValuesUpTo, ValuesAt
<1>3. before[2] \o Picked(NotKnown) = UnknownUpTo(argv, before[2], Len(argv))
  <2>1. [i \in DOMAIN argv |-> IF i \in Taken \/ ~NotKnown(argv[i]) THEN <<>> ELSE <<argv[i]>>]
          = [i \in 1 .. Len(argv) |-> UnknownAt(argv, i)]
    BY <1>1 DEF UnknownAt, UnknownOf
  <2> QED BY <2>1 DEF Picked, UnknownUpTo
<1>4. before[3] \o Picked(LAMBDA a : a.dashes = 0) = PlainUpTo(argv, before[3], Len(argv))
  <2>1. [i \in DOMAIN argv |-> IF i \in Taken \/ ~(argv[i].dashes = 0) THEN <<>> ELSE <<argv[i]>>]
          = [i \in 1 .. Len(argv) |-> PlainAt(argv, i)]
    BY <1>1 DEF PlainAt, PlainOf
  <2> QED BY <2>1 DEF Picked, PlainUpTo
<1> QED BY <1>2, <1>3, <1>4 DEF Meaning

LEMMA AddOne ==
  ASSUME NEW S, NEW b \in Seq(S), NEW k \in Nat, NEW s \in [1 .. k + 1 -> Seq(S)]
  PROVE  b \o FlattenSeq(s) = (b \o FlattenSeq([i \in 1 .. k |-> s[i]])) \o s[k + 1]
<1> DEFINE u == [i \in 1 .. k |-> s[i]]
<1>1. FlattenSeq(s) = FlattenSeq(u) \o s[k + 1]
  BY FlattenOneMore
<1>2. u \in Seq(Seq(S)) /\ s[k + 1] \in Seq(S)
  OBVIOUS
<1> HIDE DEF u
<1>3. FlattenSeq(u) \in Seq(S)
  BY <1>2, FlattenType
<1>4. (b \o FlattenSeq(u)) \o s[k + 1] = b \o (FlattenSeq(u) \o s[k + 1])
  <2>1. PICK f \in Seq(S) : f = FlattenSeq(u)
    BY <1>3
  <2>2. PICK x \in Seq(S) : x = s[k + 1]
    BY <1>2
  <2>3. (b \o f) \o x = b \o (f \o x)
    BY AssocConcat
  <2> QED BY <2>1, <2>2, <2>3
<1> QED BY <1>1, <1>4 DEF u

LEMMA ValuesAddOne ==
  ASSUME NEW av \in Seq(Arguments), NEW v \in Values, NEW k \in 0 .. Len(av) - 1
  PROVE  ValuesUpTo(av, v, k + 1)
           = [o \in Options |-> ValuesUpTo(av, v, k)[o] \o ValuesAt(av, o, k + 1)]
<1>1. ASSUME NEW o \in Options
      PROVE  v[o] \o FlattenSeq([i \in 1 .. k + 1 |-> ValuesAt(av, o, i)])
               = (v[o] \o FlattenSeq([i \in 1 .. k |-> ValuesAt(av, o, i)])) \o ValuesAt(av, o, k + 1)
  <2> DEFINE s == [i \in 1 .. k + 1 |-> ValuesAt(av, o, i)]
  <2>1. \A i \in 1 .. k + 1 : ValuesAt(av, o, i) \in Seq(Held)
    <3>1. \A i \in 1 .. k + 1 : i \in 1 .. Len(av)
      OBVIOUS
    <3> QED BY <3>1, GivenType DEF ValuesAt
  <2>2. s \in [1 .. k + 1 -> Seq(Held)] /\ v[o] \in Seq(Held) /\ k \in Nat
    BY <2>1 DEF Values
  <2>3. [i \in 1 .. k |-> s[i]] = [i \in 1 .. k |-> ValuesAt(av, o, i)] /\ s[k + 1] = ValuesAt(av, o, k + 1)
    OBVIOUS
  <2> HIDE DEF s
  <2>4. v[o] \o FlattenSeq(s) = (v[o] \o FlattenSeq([i \in 1 .. k |-> s[i]])) \o s[k + 1]
    BY <2>2, AddOne
  <2> QED BY <2>3, <2>4 DEF s
<1> QED BY <1>1 DEF ValuesUpTo

LEMMA OneType ==
  ASSUME NEW av \in Seq(Arguments), NEW i \in 1 .. Len(av)
  PROVE  /\ UnknownOf(av[i]) \in Seq(Arguments) /\ PlainOf(av[i]) \in Seq(Arguments)
         /\ UnknownAt(av, i) \in Seq(Arguments) /\ PlainAt(av, i) \in Seq(Arguments)
<1>1. <<>> \in Seq(Arguments) /\ <<av[i]>> \in Seq(Arguments)
  OBVIOUS
<1> QED BY <1>1 DEF UnknownOf, PlainOf, UnknownAt, PlainAt

LEMMA UnknownAddOne ==
  ASSUME NEW av \in Seq(Arguments), NEW u \in Seq(Arguments), NEW k \in 0 .. Len(av) - 1
  PROVE  UnknownUpTo(av, u, k + 1) = UnknownUpTo(av, u, k) \o UnknownAt(av, k + 1)
<1> DEFINE s == [i \in 1 .. k + 1 |-> UnknownAt(av, i)]
<1>1. \A i \in 1 .. k + 1 : i \in 1 .. Len(av)
  OBVIOUS
<1>2. s \in [1 .. k + 1 -> Seq(Arguments)] /\ k \in Nat
  BY <1>1, OneType
<1>3. [i \in 1 .. k |-> s[i]] = [i \in 1 .. k |-> UnknownAt(av, i)] /\ s[k + 1] = UnknownAt(av, k + 1)
  OBVIOUS
<1> HIDE DEF s
<1>4. u \o FlattenSeq(s) = (u \o FlattenSeq([i \in 1 .. k |-> s[i]])) \o s[k + 1]
  BY <1>2, AddOne
<1> QED BY <1>3, <1>4 DEF s, UnknownUpTo

LEMMA PlainAddOne ==
  ASSUME NEW av \in Seq(Arguments), NEW p \in Seq(Arguments), NEW k \in 0 .. Len(av) - 1
  PROVE  PlainUpTo(av, p, k + 1) = PlainUpTo(av, p, k) \o PlainAt(av, k + 1)
<1> DEFINE s == [i \in 1 .. k + 1 |-> PlainAt(av, i)]
<1>1. \A i \in 1 .. k + 1 : i \in 1 .. Len(av)
  OBVIOUS
<1>2. s \in [1 .. k + 1 -> Seq(Arguments)] /\ k \in Nat
  BY <1>1, OneType
<1>3. [i \in 1 .. k |-> s[i]] = [i \in 1 .. k |-> PlainAt(av, i)] /\ s[k + 1] = PlainAt(av, k + 1)
  OBVIOUS
<1> HIDE DEF s
<1>4. p \o FlattenSeq(s) = (p \o FlattenSeq([i \in 1 .. k |-> s[i]])) \o s[k + 1]
  BY <1>2, AddOne
<1> QED BY <1>3, <1>4 DEF s, PlainUpTo

LEMMA NothingUpTo ==
  ASSUME NEW av, NEW v \in Values, NEW u \in Seq(Arguments), NEW p \in Seq(Arguments)
  PROVE  ValuesUpTo(av, v, 0) = v /\ UnknownUpTo(av, u, 0) = u /\ PlainUpTo(av, p, 0) = p
<1>1. \A o \in Options : [i \in 1 .. 0 |-> ValuesAt(av, o, i)] = <<>>
  OBVIOUS
<1>2. [i \in 1 .. 0 |-> UnknownAt(av, i)] = <<>> /\ [i \in 1 .. 0 |-> PlainAt(av, i)] = <<>>
  OBVIOUS
<1>3. \A o \in Options : v[o] \o <<>> = v[o]
  BY EmptyConcat DEF Values
<1>4. v = [o \in Options |-> v[o]]
  BY DEF Values
<1>5. ValuesUpTo(av, v, 0) = v
  BY <1>1, <1>3, <1>4, FlattenEmpty DEF ValuesUpTo
<1>6. UnknownUpTo(av, u, 0) = u /\ PlainUpTo(av, p, 0) = p
  BY <1>2, FlattenEmpty, EmptyConcat DEF UnknownUpTo, PlainUpTo
<1> QED BY <1>5, <1>6

LEMMA UpToTypes ==
  ASSUME NEW av \in Seq(Arguments), NEW v \in Values, NEW u \in Seq(Arguments),
         NEW p \in Seq(Arguments), NEW k \in 0 .. Len(av)
  PROVE  /\ ValuesUpTo(av, v, k) \in Values
         /\ UnknownUpTo(av, u, k) \in Seq(Arguments) /\ PlainUpTo(av, p, k) \in Seq(Arguments)
<1>1. \A i \in 1 .. k : i \in 1 .. Len(av)
  OBVIOUS
<1>2. ASSUME NEW o \in Options
      PROVE  v[o] \o FlattenSeq([i \in 1 .. k |-> ValuesAt(av, o, i)]) \in Seq(Held)
  <2>1. \A i \in 1 .. k : ValuesAt(av, o, i) \in Seq(Held)
    BY <1>1, GivenType DEF ValuesAt
  <2>2. [i \in 1 .. k |-> ValuesAt(av, o, i)] \in Seq(Seq(Held)) /\ v[o] \in Seq(Held)
    BY <2>1 DEF Values
  <2>3. FlattenSeq([i \in 1 .. k |-> ValuesAt(av, o, i)]) \in Seq(Held)
    BY <2>2, FlattenType
  <2> QED BY <2>2, <2>3, ConcatIndex
<1>3. /\ [i \in 1 .. k |-> UnknownAt(av, i)] \in Seq(Seq(Arguments))
      /\ [i \in 1 .. k |-> PlainAt(av, i)] \in Seq(Seq(Arguments))
  <2>1. \A i \in 1 .. k : UnknownAt(av, i) \in Seq(Arguments) /\ PlainAt(av, i) \in Seq(Arguments)
    BY <1>1, OneType
  <2> QED BY <2>1
<1>4. /\ FlattenSeq([i \in 1 .. k |-> UnknownAt(av, i)]) \in Seq(Arguments)
      /\ FlattenSeq([i \in 1 .. k |-> PlainAt(av, i)]) \in Seq(Arguments)
  BY <1>3, FlattenType
<1>5. UnknownUpTo(av, u, k) \in Seq(Arguments) /\ PlainUpTo(av, p, k) \in Seq(Arguments)
  BY <1>4, ConcatIndex DEF UnknownUpTo, PlainUpTo
<1> QED BY <1>2, <1>5 DEF ValuesUpTo, Values

(* A position taken as an argument means nothing of its own. *)
LEMMA TakenMeansNothing ==
  ASSUME NEW av \in Seq(Arguments), NEW v \in Values, NEW u \in Seq(Arguments),
         NEW p \in Seq(Arguments), NEW k \in 0 .. Len(av) - 1, k + 1 \in TakenOf(av)
  PROVE  /\ ValuesUpTo(av, v, k + 1) = ValuesUpTo(av, v, k)
         /\ UnknownUpTo(av, u, k + 1) = UnknownUpTo(av, u, k)
         /\ PlainUpTo(av, p, k + 1) = PlainUpTo(av, p, k)
<1>1. /\ \A o : ValuesAt(av, o, k + 1) = <<>>
      /\ UnknownAt(av, k + 1) = <<>> /\ PlainAt(av, k + 1) = <<>>
  BY DEF ValuesAt, UnknownAt, PlainAt
<1>2. k \in 0 .. Len(av)
  OBVIOUS
<1>3. PICK x \in Values : x = ValuesUpTo(av, v, k)
  BY <1>2, UpToTypes
<1>4. PICK y \in Seq(Arguments) : y = UnknownUpTo(av, u, k)
  BY <1>2, UpToTypes
<1>5. PICK z \in Seq(Arguments) : z = PlainUpTo(av, p, k)
  BY <1>2, UpToTypes
<1>6. [o \in Options |-> x[o] \o <<>>] = x
  <2>1. \A o \in Options : x[o] \o <<>> = x[o]
    BY EmptyConcat DEF Values
  <2>2. x = [o \in Options |-> x[o]]
    BY DEF Values
  <2> QED BY <2>1, <2>2
<1>7. ValuesUpTo(av, v, k + 1) = [o \in Options |-> x[o] \o <<>>]
  <2>1. ValuesUpTo(av, v, k + 1)
          = [o \in Options |-> ValuesUpTo(av, v, k)[o] \o ValuesAt(av, o, k + 1)]
    BY ValuesAddOne
  <2> QED BY <1>1, <1>3, <2>1
<1>8. UnknownUpTo(av, u, k + 1) = y \o <<>> /\ PlainUpTo(av, p, k + 1) = z \o <<>>
  <2>1. UnknownUpTo(av, u, k + 1) = UnknownUpTo(av, u, k) \o UnknownAt(av, k + 1)
        /\ PlainUpTo(av, p, k + 1) = PlainUpTo(av, p, k) \o PlainAt(av, k + 1)
    BY UnknownAddOne, PlainAddOne
  <2> QED BY <1>1, <1>4, <1>5, <2>1
<1> QED BY <1>3, <1>4, <1>5, <1>6, <1>7, <1>8, EmptyConcat

NoDashes(av, k) == \A i \in 1 .. k : i \in TakenOf(av) \/ av[i] # Dashes
MeansUpTo(v, u, p, av, b, k) ==
  v = ValuesUpTo(av, b[1], k) /\ u = UnknownUpTo(av, b[2], k) /\ p = PlainUpTo(av, b[3], k)
ParsedUpTo(k) == MeansUpTo(values, unknown_options_, non_option_args_, argv, before, k)

OptionTypes ==
  /\ argv \in Seq(Arguments) /\ n \in Nat \ {0}
  /\ parser \in {"idle", "parsing", "parsed", "thrown"}
  /\ values \in Values
  /\ unknown_options_ \in Seq(Arguments) /\ non_option_args_ \in Seq(Arguments)
  /\ before[1] \in Values /\ before[2] \in Seq(Arguments) /\ before[3] \in Seq(Arguments)
OptionInv ==
  /\ OptionTypes
  /\ parser = "parsing" =>
       /\ n <= Len(argv) + 1
       /\ NoDashes(argv, n - 1) =>
            (n <= Len(argv) => n \notin TakenOf(argv)) /\ ParsedUpTo(n - 1)
  /\ parser = "parsed" /\ NoDashes(argv, Len(argv)) => ParsedUpTo(Len(argv))

LEMMA OptionInitial == OptionInit => OptionInv
<1> SUFFICES ASSUME OptionInit PROVE OptionInv
  OBVIOUS
<1>1. values \in Values
  <2>1. \A o \in Options : <<>> \in Seq(Held)
    OBVIOUS
  <2> QED BY <2>1 DEF OptionInit, Values
<1>2. before[1] = values /\ before[2] = unknown_options_ /\ before[3] = non_option_args_
  BY DEF OptionInit, parsed
<1>3. argv \in Seq(Arguments) /\ unknown_options_ \in Seq(Arguments)
      /\ non_option_args_ \in Seq(Arguments) /\ n = 1 /\ parser = "idle"
  BY DEF OptionInit
<1> QED BY <1>1, <1>2, <1>3 DEF OptionInv, OptionTypes

(* A turn that does what its argument means keeps the meaning.             *)
LEMMA DoesKeeps ==
  ASSUME OptionInv, parser = "parsing", n \in 1 .. Len(argv), Does,
         UNCHANGED <<argv, before>>
  PROVE  OptionInv'
<1> DEFINE a == argv[n]
<1>1. OptionTypes
  BY DEF OptionInv
<1>2. a \in Arguments /\ Len(argv) \in Nat /\ n \in Nat \ {0}
  BY <1>1 DEF OptionTypes
<1>3. n' \in Nat \ {0} /\ n' <= Len(argv) + 1 /\ n' \in {n + 1, n + 2}
      /\ (n' = n + 2 <=> NeedsNext(a) /\ n < Len(argv))
  BY <1>2 DEF Does, NextAt
<1>4. values' \in Values
  <2> DEFINE G == [p \in Options |-> GivenOf(argv, p, n)]
  <2>1. G \in [Options -> Seq(Held)] /\ \A p \in Options : G[p] = GivenOf(argv, p, n)
    BY <1>1, GivenType DEF OptionTypes
  <2> HIDE DEF G
  <2>2. [p \in Options |-> values[p] \o G[p]] \in Values
    BY <1>1, <2>1, ValuesMore DEF OptionTypes
  <2> QED BY <2>1, <2>2 DEF Does
<1>5. unknown_options_' \in Seq(Arguments) /\ non_option_args_' \in Seq(Arguments)
  <2>1. UnknownOf(a) \in Seq(Arguments) /\ PlainOf(a) \in Seq(Arguments)
    BY <1>1, OneType DEF OptionTypes
  <2> QED BY <1>1, <2>1, ConcatIndex DEF Does, OptionTypes
<1>6. OptionTypes' /\ parser' = "parsing"
  BY <1>1, <1>3, <1>4, <1>5 DEF OptionTypes, Does
<1>7. ASSUME NoDashes(argv, n' - 1)
      PROVE  /\ n' <= Len(argv) => n' \notin TakenOf(argv)
             /\ MeansUpTo(values', unknown_options_', non_option_args_', argv, before, n' - 1)
  <2>1. NoDashes(argv, n - 1)
    <3>1. PICK m \in Nat \ {0} : m = n' /\ m \in {n + 1, n + 2}
      BY <1>3
    <3>2. \A i \in 1 .. n - 1 : i \in 1 .. m - 1
      <4>1. PICK k \in Nat \ {0} : k = n
        BY <1>2
      <4>2. m = k + 1 \/ m = k + 2
        BY <3>1, <4>1
      <4>3. \A i \in 1 .. k - 1 : i \in 1 .. m - 1
        BY <4>1, <4>2
      <4> QED BY <4>1, <4>3
    <3> QED BY <3>1, <3>2, <1>7 DEF NoDashes
  <2>2. n \notin TakenOf(argv) /\ ParsedUpTo(n - 1)
    BY <1>2, <2>1 DEF OptionInv
  <2>3. n - 1 \in 0 .. Len(argv) - 1 /\ (n - 1) + 1 = n
    BY <1>2
  <2>4. /\ values' = ValuesUpTo(argv, before[1], n)
        /\ unknown_options_' = UnknownUpTo(argv, before[2], n)
        /\ non_option_args_' = PlainUpTo(argv, before[3], n)
    <3>1. /\ \A p \in Options : ValuesAt(argv, p, n) = GivenOf(argv, p, n)
          /\ UnknownAt(argv, n) = UnknownOf(a) /\ PlainAt(argv, n) = PlainOf(a)
      BY <2>2 DEF ValuesAt, UnknownAt, PlainAt
    <3>2. /\ ValuesUpTo(argv, before[1], n)
               = [o \in Options |-> ValuesUpTo(argv, before[1], n - 1)[o] \o ValuesAt(argv, o, n)]
          /\ UnknownUpTo(argv, before[2], n) = UnknownUpTo(argv, before[2], n - 1) \o UnknownAt(argv, n)
          /\ PlainUpTo(argv, before[3], n) = PlainUpTo(argv, before[3], n - 1) \o PlainAt(argv, n)
      <4>1. argv \in Seq(Arguments) /\ before[1] \in Values /\ before[2] \in Seq(Arguments)
            /\ before[3] \in Seq(Arguments)
        BY <1>1 DEF OptionTypes
      <4>2. PICK k \in 0 .. Len(argv) - 1 : k = n - 1 /\ k + 1 = n
        BY <2>3
      <4>3. /\ \A v \in Values : ValuesUpTo(argv, v, k + 1)
                  = [o \in Options |-> ValuesUpTo(argv, v, k)[o] \o ValuesAt(argv, o, k + 1)]
            /\ \A u \in Seq(Arguments) :
                 /\ UnknownUpTo(argv, u, k + 1) = UnknownUpTo(argv, u, k) \o UnknownAt(argv, k + 1)
                 /\ PlainUpTo(argv, u, k + 1) = PlainUpTo(argv, u, k) \o PlainAt(argv, k + 1)
        BY <4>1, ValuesAddOne, UnknownAddOne, PlainAddOne
      <4> QED BY <4>1, <4>2, <4>3
    <3> QED BY <2>2, <3>1, <3>2 DEF ParsedUpTo, MeansUpTo, Does
  <2>5. \A i \in 1 .. Len(argv) - 1 :
          i + 1 \in TakenOf(argv) <=> i \notin TakenOf(argv) /\ NeedsNext(argv[i])
    BY <1>2, TakenStep
  <2>6. CASE n' = n + 1
    <3>1. n + 1 <= Len(argv) => n + 1 \notin TakenOf(argv)
      <4>1. ASSUME n + 1 <= Len(argv) PROVE n + 1 \notin TakenOf(argv)
        <5>1. n \in 1 .. Len(argv) - 1 /\ n < Len(argv)
          BY <1>2, <4>1
        <5>2. ~NeedsNext(a)
          BY <5>1, <1>2, <1>3, <2>6
        <5> QED BY <5>1, <5>2, <2>5
      <4> QED BY <4>1
    <3>2. n' - 1 = n
      BY <1>2, <2>6
    <3> QED BY <2>4, <2>6, <3>1, <3>2 DEF MeansUpTo
  <2>7. CASE n' = n + 2
    <3>1. NeedsNext(a) /\ n \in 1 .. Len(argv) - 1 /\ n \in 0 .. Len(argv) - 1
          /\ n' - 1 = n + 1
      BY <1>2, <1>3, <2>7
    <3>2. n + 1 \in TakenOf(argv)
      BY <3>1, <2>2, <2>5
    <3>3. n + 2 <= Len(argv) => n + 2 \notin TakenOf(argv)
      <4>1. ASSUME n + 2 <= Len(argv) PROVE n + 2 \notin TakenOf(argv)
        <5>1. n + 1 \in 1 .. Len(argv) - 1 /\ (n + 1) + 1 = n + 2
          BY <1>2, <4>1
        <5> QED BY <5>1, <3>2, <2>5
      <4> QED BY <4>1
    <3>4. /\ ValuesUpTo(argv, before[1], n + 1) = ValuesUpTo(argv, before[1], n)
          /\ UnknownUpTo(argv, before[2], n + 1) = UnknownUpTo(argv, before[2], n)
          /\ PlainUpTo(argv, before[3], n + 1) = PlainUpTo(argv, before[3], n)
      <4>1. argv \in Seq(Arguments) /\ before[1] \in Values /\ before[2] \in Seq(Arguments)
            /\ before[3] \in Seq(Arguments)
        BY <1>1 DEF OptionTypes
      <4> QED BY <4>1, <3>1, <3>2, TakenMeansNothing
    <3> QED BY <2>4, <2>7, <3>1, <3>3, <3>4 DEF MeansUpTo
  <2> QED BY <1>3, <2>6, <2>7
<1>8. parser' = "parsing" =>
       /\ n' <= Len(argv') + 1
       /\ NoDashes(argv', n' - 1) =>
            /\ n' <= Len(argv') => n' \notin TakenOf(argv')
            /\ MeansUpTo(values', unknown_options_', non_option_args_', argv', before', n' - 1)
  BY <1>3, <1>7
<1>9. ParsedUpTo(n - 1)'
        <=> MeansUpTo(values', unknown_options_', non_option_args_', argv', before', n' - 1)
  BY DEF ParsedUpTo
<1> QED BY <1>6, <1>8, <1>9 DEF OptionInv

LEMMA DashesKeeps ==
  ASSUME OptionInv, ParseDashes
  PROVE  OptionInv'
<1>1. OptionTypes /\ parser = "parsing" /\ n \in 1 .. Len(argv) /\ argv[n] = Dashes
      /\ Len(argv) \in Nat
  BY DEF ParseDashes, At, OptionInv, OptionTypes
<1>2. ~NoDashes(argv, n)
  <2>1. CASE NoDashes(argv, n - 1)
    <3>1. n \notin TakenOf(argv) /\ n \in 1 .. n
      BY <1>1, <2>1 DEF OptionInv
    <3> QED BY <3>1, <1>1 DEF NoDashes
  <2>2. CASE ~NoDashes(argv, n - 1)
    <3>1. \A i \in 1 .. n - 1 : i \in 1 .. n
      BY <1>1
    <3> QED BY <2>2, <3>1 DEF NoDashes
  <2> QED BY <2>1, <2>2
<1>3. n' = n + 1 /\ n' - 1 = n /\ parser' = "parsing" /\ argv' = argv
  BY <1>1 DEF ParseDashes
<1>4. SubSeq(argv, n + 1, Len(argv)) \in Seq(Arguments)
  BY <1>1 DEF OptionTypes
<1>5. non_option_args_' \in Seq(Arguments)
  BY <1>1, <1>4, ConcatIndex DEF ParseDashes, OptionTypes
<1>6. OptionTypes'
  BY <1>1, <1>3, <1>5 DEF ParseDashes, OptionTypes
<1>7. n' <= Len(argv') + 1 /\ ~NoDashes(argv', n' - 1)
  BY <1>1, <1>2, <1>3
<1> QED BY <1>3, <1>6, <1>7 DEF OptionInv

LEMMA ThrowsKeeps ==
  ASSUME OptionInv, Throws, n' \in Nat \ {0}, UNCHANGED <<argv, before>>
  PROVE  OptionInv'
  BY DEF OptionInv, OptionTypes, Throws

LEMMA AdvanceType ==
  ASSUME n \in Nat \ {0}, NEW attached, Advance(attached)
  PROVE  n' \in Nat \ {0}
  BY DEF Advance

LEMMA LoopKeeps ==
  ASSUME OptionInv, ParseLong \/ ParseShort \/ ParsePlain
  PROVE  OptionInv'
<1>1. OptionTypes /\ parser = "parsing" /\ n \in 1 .. Len(argv) /\ UNCHANGED <<argv, before>>
  BY DEF ParseLong, ParseShort, ParsePlain, At, OptionInv, OptionTypes
<1>2. Does \/ Throws
  <2>1. argv \in Seq(Arguments) /\ values \in Values /\ unknown_options_ \in Seq(Arguments)
        /\ non_option_args_ \in Seq(Arguments)
    BY <1>1 DEF OptionTypes
  <2> QED BY <1>1, <2>1, LongMeans, ShortMeans, PlainMeans
<1>3. n' \in Nat \ {0}
  <2>1. n \in Nat \ {0} /\ n + 1 \in Nat \ {0}
    BY <1>1 DEF OptionTypes
  <2>2. CASE ParsePlain
    BY <2>1, <2>2 DEF ParsePlain
  <2>3. CASE ParseLong
    BY <2>1, <2>3, AdvanceType DEF ParseLong, Unknown
  <2>4. CASE ParseShort
    BY <2>1, <2>4, AdvanceType DEF ParseShort
  <2> QED BY <2>2, <2>3, <2>4
<1> QED BY <1>1, <1>2, <1>3, DoesKeeps, ThrowsKeeps

LEMMA ReturnKeeps ==
  ASSUME OptionInv, ParseReturns
  PROVE  OptionInv'
<1>1. OptionTypes /\ parser = "parsing" /\ n = Len(argv) + 1 /\ n - 1 = Len(argv)
  BY DEF ParseReturns, OptionInv, OptionTypes
<1>2. NoDashes(argv, Len(argv)) => ParsedUpTo(Len(argv))
  BY <1>1 DEF OptionInv
<1>3. UNCHANGED <<argv, n, before>> /\ values' = values /\ unknown_options_' = unknown_options_
      /\ non_option_args_' = non_option_args_ /\ parser' \in {"thrown", "parsed"}
  BY DEF ParseReturns, parsed
<1>4. OptionTypes'
  BY <1>1, <1>3 DEF OptionTypes
<1>5. NoDashes(argv', Len(argv')) => ParsedUpTo(Len(argv))'
  BY <1>2, <1>3 DEF ParsedUpTo
<1> QED BY <1>3, <1>4, <1>5 DEF OptionInv, ParsedUpTo

LEMMA CallKeeps ==
  ASSUME OptionInv, NEW args \in Seq(Arguments), parse(args)
  PROVE  OptionInv'
<1>1. OptionTypes
  BY DEF OptionInv
<1>2. /\ argv' = args /\ n' = 1 /\ parser' = "parsing"
      /\ values' = values /\ unknown_options_' = unknown_options_
      /\ non_option_args_' = non_option_args_
      /\ before' = <<values, unknown_options_, non_option_args_>>
  BY DEF parse, parsed
<1>3. before'[1] = values /\ before'[2] = unknown_options_ /\ before'[3] = non_option_args_
  BY <1>2
<1>4. OptionTypes'
  BY <1>1, <1>2, <1>3 DEF OptionTypes
<1>5. n' - 1 = 0 /\ n' <= Len(argv') + 1 /\ n' \notin TakenOf(argv')
  BY <1>2, TakenStep
<1>6. ParsedUpTo(0)'
  <2>1. MeansUpTo(values, unknown_options_, non_option_args_, args, before', 0)
    <3>1. /\ ValuesUpTo(args, values, 0) = values
          /\ UnknownUpTo(args, unknown_options_, 0) = unknown_options_
          /\ PlainUpTo(args, non_option_args_, 0) = non_option_args_
      <4>1. values \in Values /\ unknown_options_ \in Seq(Arguments)
            /\ non_option_args_ \in Seq(Arguments)
        BY <1>1 DEF OptionTypes
      <4> QED BY <4>1, NothingUpTo
    <3> QED BY <1>3, <3>1 DEF MeansUpTo
  <2> QED BY <1>2, <2>1 DEF ParsedUpTo
<1> QED BY <1>2, <1>4, <1>5, <1>6 DEF OptionInv, ParsedUpTo

LEMMA ResetKeeps ==
  ASSUME OptionInv, reset
  PROVE  OptionInv'
<1>1. [o \in Options |-> <<>>] \in Values
  <2>1. \A o \in Options : <<>> \in Seq(Held)
    OBVIOUS
  <2> QED BY <2>1 DEF Values
<1>2. <<>> \in Seq(Arguments)
  OBVIOUS
<1> QED BY <1>1, <1>2 DEF reset, Forget, OptionInv, OptionTypes

LEMMA OptionStep ==
  ASSUME OptionInv, [OptionNext]_optionVars
  PROVE  OptionInv'
<1>1. ASSUME NEW size \in 0 .. MaxArgs - spent, NEW args \in [1 .. size -> Arguments], parse(args)
      PROVE  OptionInv'
  <2>1. args \in Seq(Arguments)
    OBVIOUS
  <2> QED BY <1>1, <2>1, CallKeeps
<1>2. CASE UNCHANGED optionVars
  BY <1>2 DEF optionVars, parsed, OptionInv, OptionTypes, ParsedUpTo
<1> QED
  BY <1>1, <1>2, DashesKeeps, LoopKeeps, ReturnKeeps, ResetKeeps DEF OptionNext

LEMMA InvParsed == OptionInv => ParsedByPosition
<1> SUFFICES ASSUME OptionInv, parser = "parsed",
                    \A i \in DOMAIN argv \ Taken : argv[i] # Dashes
             PROVE  parsed = Meaning
  BY DEF ParsedByPosition
<1>1. argv \in Seq(Arguments)
  BY DEF OptionInv, OptionTypes
<1>2. NoDashes(argv, Len(argv))
  <2>1. DOMAIN argv = 1 .. Len(argv)
    BY <1>1
  <2> QED BY <2>1, TakenIs DEF NoDashes
<1>3. ParsedUpTo(Len(argv))
  BY <1>2 DEF OptionInv
<1> QED BY <1>1, <1>3, MeaningIs DEF ParsedUpTo, MeansUpTo, parsed

(* Whatever was parsed, forgotten or thrown before, a command line that     *)
(* parse (OptionParser of zpkg) returns from gave every option, the unknown *)
(* and the rest what its positions mean, in their order.                    *)
THEOREM CommandLinesAreParsed == OptionSpec => []ParsedByPosition
<1>1. OptionInv /\ [OptionNext]_optionVars => OptionInv'
  BY OptionStep
<1> QED BY <1>1, OptionInitial, InvParsed, PTL DEF OptionSpec

-----------------------------------------------------------------------------
(* Numbers that are rounded. *)

LEMMA NearestIs ==
  ASSUME NEW S \in SUBSET Nat, S # {}, NEW x \in Int
  PROVE  Nearest(S, x) \in Nat /\ IsNearest(S, x, Nearest(S, x))
<1> DEFINE T == {Distance(x, y) : y \in S}
<1>1. \A y \in Nat : Distance(x, y) \in Nat
  BY DEF Distance
<1>2. T \in SUBSET Nat /\ T # {}
  BY <1>1
<1> HIDE DEF T
<1>3. PICK d \in T : \A u \in T : d <= u
  BY <1>2, SmallestElement
<1>4. PICK y \in S : d = Distance(x, y)
  BY <1>3 DEF T
<1>5. IsNearest(S, x, y)
  BY <1>3, <1>4 DEF IsNearest, T
<1>6. IsNearest(S, x, Nearest(S, x))
  BY <1>5 DEF Nearest
<1> QED BY <1>6 DEF IsNearest

(* Rounding keeps the order, however it breaks ties. *)
LEMMA NearestKeepsOrder ==
  ASSUME NEW S \in SUBSET Nat, S # {}, NEW x \in Int, NEW y \in Int, x <= y
  PROVE  Nearest(S, x) <= Nearest(S, y)
<1>1. PICK a \in Nat : a = Nearest(S, x) /\ IsNearest(S, x, a)
  BY NearestIs
<1>2. PICK b \in Nat : b = Nearest(S, y) /\ IsNearest(S, y, b)
  BY NearestIs
<1>3. CASE x = y
  BY <1>1, <1>2, <1>3
<1>4. CASE x < y
  <2>1. Distance(x, a) <= Distance(x, b) /\ Distance(y, b) <= Distance(y, a)
    BY <1>1, <1>2 DEF IsNearest
  <2>2. SUFFICES ASSUME b < a PROVE FALSE
    BY <1>1, <1>2
  <2> QED BY <1>4, <2>1, <2>2 DEF Distance
<1> QED BY <1>3, <1>4

LEMMA NearestKeepsMembers ==
  ASSUME NEW S \in SUBSET Nat, NEW x \in S
  PROVE  Nearest(S, x) = x
<1>1. PICK y \in Nat : y = Nearest(S, x) /\ IsNearest(S, x, y)
  BY NearestIs
<1>2. Distance(x, y) <= Distance(x, x) /\ x \in Nat
  BY <1>1 DEF IsNearest
<1> QED BY <1>1, <1>2 DEF Distance

FloatNumbers == {f \in Nat : f \in Floats}

LEMMA FloatIs ==
  ASSUME NEW x \in Int
  PROVE  Float(x) \in FloatNumbers /\ IsNearest(Floats, x, Float(x))
<1>1. Floats \in SUBSET Nat /\ Floats # {}
  BY NumberAssumption
<1>2. Nearest(Floats, x) \in Nat /\ IsNearest(Floats, x, Nearest(Floats, x))
  BY <1>1, NearestIs
<1> QED BY <1>2 DEF Float, FloatNumbers, IsNearest

LEMMA PrintedIs ==
  ASSUME NEW x \in Int
  PROVE  Printed(x) \in Nat /\ Printed(x) \in Decimals /\ IsNearest(Decimals, x, Printed(x))
<1>1. Decimals \in SUBSET Nat /\ Decimals # {}
  BY NumberAssumption
<1>2. Nearest(Decimals, x) \in Nat /\ IsNearest(Decimals, x, Nearest(Decimals, x))
  BY <1>1, NearestIs
<1> QED BY <1>2 DEF Printed, IsNearest

Reread(d) == Float(Printed(d))

LEMMA RereadIs ==
  ASSUME NEW d \in Nat
  PROVE  /\ Reread(d) \in FloatNumbers /\ Rewritten(d, Reread(d))
         /\ d \in Floats \ {0} => Reread(d) # 0
<1>1. PICK e \in Nat : e = Printed(d) /\ e \in Decimals /\ IsNearest(Decimals, d, e)
  BY PrintedIs
<1>2. Reread(d) = Float(e)
  BY <1>1 DEF Reread
<1>3. Float(e) \in FloatNumbers /\ IsNearest(Floats, e, Float(e))
  BY FloatIs
<1>4. d \in Floats \ {0} => Reread(d) # 0
  BY NumberAssumption DEF Reread
<1> QED BY <1>1, <1>2, <1>3, <1>4 DEF Rewritten

LEMMA FloatKeepsOrder ==
  ASSUME NEW x \in Int, NEW y \in Int, x <= y
  PROVE  Float(x) <= Float(y)
<1>1. Floats \in SUBSET Nat /\ Floats # {}
  BY NumberAssumption
<1> QED BY <1>1, NearestKeepsOrder DEF Float

LEMMA RereadKeepsOrder ==
  ASSUME NEW x \in Nat, NEW y \in Nat, x <= y
  PROVE  Reread(x) <= Reread(y)
<1>1. Decimals \in SUBSET Nat /\ Decimals # {}
  BY NumberAssumption
<1>2. PICK a \in Nat, b \in Nat : a = Printed(x) /\ b = Printed(y)
  BY PrintedIs
<1>3. a <= b
  BY <1>1, <1>2, NearestKeepsOrder DEF Printed
<1>4. Float(a) <= Float(b)
  BY <1>3, FloatKeepsOrder
<1> QED BY <1>2, <1>4 DEF Reread

-----------------------------------------------------------------------------
(* Addresses. *)

Names == {":", "/"} \cup STRING

LEMMA NamesAre == STRING \subseteq Names /\ Seq(STRING) \subseteq Seq(Names)
<1>1. \A S, T : S \subseteq T => Seq(S) \subseteq Seq(T)
  OBVIOUS
<1>2. STRING \subseteq Names
  BY Zenon DEF Names
<1> QED BY <1>1, <1>2, Zenon

Addresses == Seq(Names) \ {<<>>}
Named == {a \in Addresses : Protocols(a) # {}}
UrlTexts == {Url(i) : i \in DOMAIN Urls}

LEMMA UrlIs ==
  ASSUME NEW i \in DOMAIN Urls
  PROVE  /\ Urls[i].protocol \in Names /\ Urls[i].protocol \notin {":", "/"}
         /\ Urls[i].file \in Names /\ Urls[i].file \notin {":", "/"}
         /\ Urls[i].place \in Seq(Names)
<1>1. \A S : \A s \in Seq(S) : \A k \in DOMAIN s : s[k] \in S
  OBVIOUS
<1>2. \A A, B, C : \A u \in [protocol : A, place : B, file : C] :
        u.protocol \in A /\ u.place \in B /\ u.file \in C
  OBVIOUS
<1>3. Urls[i] \in [protocol : STRING \ {":", "/"}, place : Seq(STRING), file : STRING \ {":", "/"}]
  BY <1>1, PlaylistAssumption, Zenon
<1>4. /\ Urls[i].protocol \in STRING \ {":", "/"} /\ Urls[i].place \in Seq(STRING)
      /\ Urls[i].file \in STRING \ {":", "/"}
  BY <1>2, <1>3, Zenon
<1> QED BY <1>4, NamesAre, Zenon

LEMMA NamesConcat ==
  ASSUME NEW s \in Seq(Names), NEW u \in Seq(Names)
  PROVE  /\ s \o u \in Seq(Names) /\ Len(s \o u) = Len(s) + Len(u)
         /\ \A i \in 1 .. Len(s) : (s \o u)[i] = s[i]
         /\ \A i \in 1 .. Len(u) : (s \o u)[Len(s) + i] = u[i]
BY ConcatIndex

LEMMA SameNames ==
  ASSUME NEW s \in Seq(Names), NEW u \in Seq(Names), Len(s) = Len(u),
         \A i \in 1 .. Len(s) : s[i] = u[i]
  PROVE  s = u
BY SameElements

(* Short sequences of names. *)
LEMMA ShortNames ==
  /\ ":" \in Names /\ "/" \in Names
  /\ \A a \in Names : /\ <<a>> \in Seq(Names) /\ Len(<<a>>) = 1
  /\ \A a, b \in Names : /\ <<a, b>> \in Seq(Names) /\ Len(<<a, b>>) = 2
                         /\ <<a, b>>[1] = a /\ <<a, b>>[2] = b
                         /\ <<a>> \o <<b>> = <<a, b>>
  /\ \A a, b, c, d \in Names :
       /\ <<a, b, c, d>> \in Seq(Names) /\ Len(<<a, b, c, d>>) = 4
       /\ <<a, b, c, d>>[1] = a /\ <<a, b, c, d>>[2] = b
       /\ <<a, b, c, d>>[3] = c /\ <<a, b, c, d>>[4] = d
<1>1. ":" \in Names /\ "/" \in Names
  BY Zenon DEF Names
<1>2. \A a \in Names : <<a>> \in Seq(Names) /\ Len(<<a>>) = 1
  OBVIOUS
<1>3. ASSUME NEW a \in Names, NEW b \in Names
      PROVE  /\ <<a, b>> \in Seq(Names) /\ Len(<<a, b>>) = 2
             /\ <<a, b>>[1] = a /\ <<a, b>>[2] = b
             /\ <<a>> \o <<b>> = <<a, b>>
  <2>1. /\ <<a, b>> \in Seq(Names) /\ Len(<<a, b>>) = 2
        /\ <<a, b>>[1] = a /\ <<a, b>>[2] = b
    OBVIOUS
  <2>2. /\ <<a>> \in Seq(Names) /\ Len(<<a>>) = 1 /\ <<a>>[1] = a
        /\ <<b>> \in Seq(Names) /\ Len(<<b>>) = 1 /\ <<b>>[1] = b
    OBVIOUS
  <2>3. PICK x \in Seq(Names), y \in Seq(Names) : x = <<a>> /\ y = <<b>>
    BY <2>2
  <2>4. /\ x \o y \in Seq(Names) /\ Len(x \o y) = 2
        /\ (x \o y)[1] = a /\ (x \o y)[2] = b
    <3>1. /\ Len(x) = 1 /\ x[1] = a /\ Len(y) = 1 /\ y[1] = b
      BY <2>2, <2>3
    <3>2. /\ x \o y \in Seq(Names) /\ Len(x \o y) = 1 + 1
          /\ \A i \in 1 .. 1 : (x \o y)[i] = x[i]
          /\ \A i \in 1 .. 1 : (x \o y)[1 + i] = y[i]
      <4>1. /\ x \o y \in Seq(Names) /\ Len(x \o y) = Len(x) + Len(y)
            /\ \A i \in 1 .. Len(x) : (x \o y)[i] = x[i]
            /\ \A i \in 1 .. Len(y) : (x \o y)[Len(x) + i] = y[i]
        BY NamesConcat
      <4> QED BY <3>1, <4>1
    <3> QED BY <3>1, <3>2
  <2>5. x \o y = <<a, b>>
    <3>1. PICK z \in Seq(Names) : z = <<a, b>> /\ Len(z) = 2 /\ z[1] = a /\ z[2] = b
      BY <2>1
    <3>2. \A i \in 1 .. 2 : i = 1 \/ i = 2
      OBVIOUS
    <3>3. \A i \in 1 .. 2 : (x \o y)[i] = z[i]
      BY <2>4, <3>1, <3>2, Zenon
    <3>4. Len(x \o y) = Len(z) /\ \A i \in 1 .. Len(x \o y) : (x \o y)[i] = z[i]
      BY <2>4, <3>1, <3>3
    <3>5. x \o y = z
      BY <2>4, <3>4, SameNames
    <3> QED BY <3>1, <3>5
  <2> QED BY <2>1, <2>3, <2>5
<1>4. ASSUME NEW a \in Names, NEW b \in Names, NEW c \in Names, NEW d \in Names
      PROVE  /\ <<a, b, c, d>> \in Seq(Names) /\ Len(<<a, b, c, d>>) = 4
             /\ <<a, b, c, d>>[1] = a /\ <<a, b, c, d>>[2] = b
             /\ <<a, b, c, d>>[3] = c /\ <<a, b, c, d>>[4] = d
  OBVIOUS
<1> QED BY <1>1, <1>2, <1>3, <1>4

LEMMA MinIs ==
  ASSUME NEW S \in SUBSET Nat, NEW m \in S, \A x \in S : m <= x
  PROVE  Min(S) = m
<1>1. Min(S) \in S /\ \A x \in S : Min(S) <= x
  BY Zenon DEF Min
<1>2. Min(S) \in Nat /\ m \in Nat /\ Min(S) <= m /\ m <= Min(S)
  BY <1>1
<1> QED BY <1>2

(* The scans find the parts the url is made of. *)
LEMMA ScansFind ==
  ASSUME NEW i \in DOMAIN Urls, NEW url, url = Url(i), NEW u, u = Urls[i]
  PROVE  LET slashes == {k \in DOMAIN url : url[k] = "/"}
         IN  /\ slashes # {} /\ SubSeq(url, 1, Max(slashes) - 1) = directory(u)
             /\ Protocols(url) # {} /\ SubSeq(url, 1, Min(Protocols(url)) - 1) = <<u.protocol>>
<1> DEFINE len == Len(u.place)
           head == <<u.protocol, ":", "/", "/">>
           base == directory(u)
           slashes == {k \in DOMAIN url : url[k] = "/"}
<1>1. /\ u.protocol \in Names /\ u.protocol \notin {":", "/"} /\ u.file \in Names /\ u.file \notin {":", "/"}
      /\ u.place \in Seq(Names) /\ len \in Nat
  BY UrlIs
<1>2. /\ head \in Seq(Names) /\ Len(head) = 4
      /\ head[1] = u.protocol /\ head[2] = ":" /\ head[3] = "/" /\ head[4] = "/"
  BY <1>1, ShortNames, Zenon
<1> HIDE DEF head
<1>3. base = head \o u.place
  BY DEF directory, head
<1>4. /\ base \in Seq(Names) /\ Len(base) = 4 + len
      /\ \A k \in 1 .. 4 : base[k] = head[k]
  <2> DEFINE place == u.place
  <2>1. place \in Seq(Names) /\ len = Len(place) /\ base = head \o place
    BY <1>1, <1>3
  <2> HIDE DEF place, len, base
  <2>2. PICK p \in Seq(Names), h \in Seq(Names) : p = place /\ h = head
    BY <1>2, <2>1
  <2>3. /\ h \o p \in Seq(Names) /\ Len(h \o p) = 4 + len
        /\ \A k \in 1 .. 4 : (h \o p)[k] = h[k]
    <3>1. /\ h \o p \in Seq(Names) /\ Len(h \o p) = Len(h) + Len(p)
          /\ \A k \in 1 .. Len(h) : (h \o p)[k] = h[k]
      BY NamesConcat
    <3>2. Len(h) = 4 /\ Len(p) = len
      BY <1>2, <2>1, <2>2
    <3> QED BY <3>1, <3>2
  <2> QED BY <2>1, <2>2, <2>3
<1> HIDE DEF base
<1>5. <<"/", u.file>> \in Seq(Names) /\ Len(<<"/", u.file>>) = 2
      /\ <<"/", u.file>>[1] = "/" /\ <<"/", u.file>>[2] = u.file
  BY <1>1, ShortNames, Zenon
<1>6. url = base \o <<"/", u.file>>
  BY DEF Url, base
<1>7. /\ url \in Seq(Names) /\ Len(url) = 4 + len + 2
      /\ \A k \in 1 .. 4 + len : url[k] = base[k]
      /\ url[4 + len + 1] = "/" /\ url[4 + len + 2] = u.file
  <2>1. /\ base \o <<"/", u.file>> \in Seq(Names)
        /\ Len(base \o <<"/", u.file>>) = Len(base) + Len(<<"/", u.file>>)
        /\ \A k \in 1 .. Len(base) : (base \o <<"/", u.file>>)[k] = base[k]
        /\ \A k \in 1 .. Len(<<"/", u.file>>) :
             (base \o <<"/", u.file>>)[Len(base) + k] = <<"/", u.file>>[k]
    <3>1. PICK rest \in Seq(Names) : rest = <<"/", u.file>>
      BY <1>5
    <3>2. /\ base \o rest \in Seq(Names) /\ Len(base \o rest) = Len(base) + Len(rest)
          /\ \A k \in 1 .. Len(base) : (base \o rest)[k] = base[k]
          /\ \A k \in 1 .. Len(rest) : (base \o rest)[Len(base) + k] = rest[k]
      <4>1. PICK b \in Seq(Names) : b = base
        BY <1>4
      <4>2. /\ b \o rest \in Seq(Names) /\ Len(b \o rest) = Len(b) + Len(rest)
            /\ \A k \in 1 .. Len(b) : (b \o rest)[k] = b[k]
            /\ \A k \in 1 .. Len(rest) : (b \o rest)[Len(b) + k] = rest[k]
        BY NamesConcat
      <4> QED BY <4>1, <4>2
    <3> QED BY <3>1, <3>2, Zenon
  <2> HIDE DEF len
  <2> QED BY <1>1, <1>4, <1>5, <1>6, <2>1
<1>8. DOMAIN url = 1 .. 4 + len + 2
  BY <1>7
<1>9. /\ slashes \in SUBSET (1 .. 4 + len + 2) /\ 4 + len + 1 \in slashes
      /\ \A k \in slashes : k <= 4 + len + 1
  <2> HIDE DEF len
  <2>1. \A k \in 1 .. 4 + len + 2 : k = 4 + len + 2 \/ k <= 4 + len + 1
    BY <1>1
  <2>2. 4 + len + 1 \in 1 .. 4 + len + 2
    BY <1>1
  <2> QED BY <1>1, <1>7, <1>8, <2>1, <2>2
<1> HIDE DEF slashes, len
<1>10. Max(slashes) = 4 + len + 1
  <2>1. 4 + len + 2 \in Nat /\ slashes # {}
    BY <1>1, <1>9
  <2>2. Max(slashes) \in slashes /\ \A x \in slashes : x <= Max(slashes)
    BY <1>9, <2>1, MaxIs
  <2>3. Max(slashes) \in 1 .. 4 + len + 2 /\ Max(slashes) <= 4 + len + 1 /\ 4 + len + 1 <= Max(slashes)
    BY <1>9, <2>2
  <2> QED BY <1>1, <2>3
<1>11. SubSeq(url, 1, (4 + len + 1) - 1) = base
  <2>1. (4 + len + 1) - 1 = 4 + len /\ 4 + len \in Nat /\ 4 + len <= Len(url)
    BY <1>1, <1>7
  <2>2. /\ SubSeq(url, 1, 4 + len) \in Seq(Names) /\ Len(SubSeq(url, 1, 4 + len)) = 4 + len
        /\ \A k \in 1 .. 4 + len : SubSeq(url, 1, 4 + len)[k] = url[k]
    BY <1>7, <2>1
  <2>3. SubSeq(url, 1, 4 + len) = base
    BY <1>4, <1>7, <2>2, SameElements
  <2> QED BY <2>1, <2>3
<1>12. /\ 1 \in DOMAIN url /\ 2 \in DOMAIN url /\ 3 \in DOMAIN url /\ 4 \in DOMAIN url
       /\ url[1] = u.protocol /\ url[2] = ":" /\ url[3] = "/" /\ url[4] = "/" /\ 4 <= Len(url)
  BY <1>1, <1>2, <1>4, <1>7, <1>8
<1>13. 2 \in Protocols(url) /\ Protocols(url) \in SUBSET Nat /\ \A k \in Protocols(url) : 2 <= k
  <2>1. \A k \in DOMAIN url : k \in Nat /\ (k = 1 \/ 2 <= k)
    BY <1>1, <1>8
  <2>2. 2 + 1 = 3 /\ 2 + 2 = 4
    OBVIOUS
  <2>3. 2 \in Protocols(url)
    BY <1>12, <2>2 DEF Protocols
  <2>4. 1 \notin Protocols(url)
    BY <1>1, <1>12 DEF Protocols
  <2> QED BY <2>1, <2>3, <2>4 DEF Protocols
<1>14. Min(Protocols(url)) = 2
  BY <1>13, MinIs
<1>15. SubSeq(url, 1, 2 - 1) = <<u.protocol>>
  <2>1. 2 - 1 = 1
    OBVIOUS
  <2>2. SubSeq(url, 1, 1) = <<url[1]>>
    <3>1. /\ SubSeq(url, 1, 1) \in Seq(Names) /\ Len(SubSeq(url, 1, 1)) = 1
          /\ SubSeq(url, 1, 1)[1] = url[1]
      BY <1>7, <1>12
    <3>2. <<url[1]>> \in Seq(Names) /\ Len(<<url[1]>>) = 1 /\ <<url[1]>>[1] = url[1]
      BY <1>1, <1>12
    <3>3. \A k \in 1 .. 1 : SubSeq(url, 1, 1)[k] = <<url[1]>>[k]
      BY <3>1, <3>2
    <3> QED BY <3>1, <3>2, <3>3, SameElements
  <2> QED BY <1>12, <2>1, <2>2
<1>16. slashes # {} /\ Protocols(url) # {}
  BY <1>9, <1>13
<1> QED BY <1>10, <1>11, <1>14, <1>15, <1>16 DEF slashes, base

LEMMA JoinIs ==
  ASSUME NEW i \in DOMAIN Urls, NEW path \in Addresses
  PROVE  join_ts_url(Url(i), path) = Address(Urls[i], path)
<1>1. PICK url, u : url = Url(i) /\ u = Urls[i]
  OBVIOUS
<1> DEFINE slashes == {k \in DOMAIN url : url[k] = "/"}
<1>2. /\ slashes # {} /\ SubSeq(url, 1, Max(slashes) - 1) = directory(u)
      /\ Protocols(url) # {} /\ SubSeq(url, 1, Min(Protocols(url)) - 1) = <<u.protocol>>
  BY <1>1, ScansFind
<1>3. Before(url, slashes, Max(slashes)) = directory(u)
  <2> HIDE DEF slashes
  <2> QED BY <1>2 DEF Before
<1>4. Before(url, Protocols(url), Min(Protocols(url))) = <<u.protocol>>
  BY <1>2 DEF Before
<1>5. join_ts_url(url, path) =
        IF Protocols(path) # {} THEN path
        ELSE IF TwoSlashes(path) THEN <<u.protocol>> \o <<":">> \o path
        ELSE IF path[1] = "/" THEN directory(u) \o path
        ELSE directory(u) \o <<"/">> \o path
  BY <1>3, <1>4 DEF join_ts_url
<1>6. /\ path \in Seq(Names) /\ directory(u) \in Seq(Names)
      /\ <<"/">> \in Seq(Names) /\ <<u.protocol>> \o <<":">> = <<u.protocol, ":">>
  <2>1. u.protocol \in Names /\ u.place \in Seq(Names) /\ path \in Seq(Names)
    BY <1>1, UrlIs, Zenon DEF Addresses
  <2>2. <<u.protocol, ":", "/", "/">> \in Seq(Names)
    BY <2>1, ShortNames, Zenon
  <2>3. \A x, y \in Seq(Names) : x \o y \in Seq(Names)
    OBVIOUS
  <2>4. directory(u) \in Seq(Names)
    BY <2>1, <2>2, <2>3, Zenon DEF directory
  <2>5. <<"/">> \in Seq(Names)
    BY ShortNames, Zenon
  <2>6. <<u.protocol>> \o <<":">> = <<u.protocol, ":">>
    <3>1. \A a, b \in Names : <<a>> \o <<b>> = <<a, b>>
      BY ShortNames
    <3> QED BY <2>1, <3>1, ShortNames, Zenon
  <2> QED BY <2>1, <2>4, <2>5, <2>6, Zenon
<1>7. (directory(u) \o <<"/">>) \o path = directory(u) \o (<<"/">> \o path)
  BY <1>6, AssocConcat
<1> QED BY <1>1, <1>5, <1>6, <1>7, Zenon DEF Address

LEMMA AddressNames ==
  ASSUME NEW i \in DOMAIN Urls, NEW path \in Addresses
  PROVE  Address(Urls[i], path) \in Named
<1>1. PICK u : u = Urls[i]
  OBVIOUS
<1>2. u.protocol \in Names /\ u.place \in Seq(Names) /\ path \in Seq(Names)
  BY <1>1, UrlIs, Zenon DEF Addresses
<1>3. ASSUME NEW a \in Seq(Names), 4 <= Len(a), a[2] = ":", a[3] = "/", a[4] = "/"
      PROVE  a \in Named
  <2>1. 2 \in DOMAIN a /\ 2 + 1 = 3 /\ 2 + 2 = 4 /\ a # <<>>
    BY <1>3
  <2>2. 2 \in Protocols(a)
    BY <1>3, <2>1 DEF Protocols
  <2> QED BY <2>1, <2>2 DEF Named, Addresses
<1>4. CASE Protocols(path) # {}
  BY <1>4 DEF Address, Named
<1>5. CASE TwoSlashes(path) /\ Protocols(path) = {}
  <2>1. Len(path) > 1 /\ path[1] = "/" /\ path[2] = "/" /\ Len(path) \in Nat
    BY <1>2, <1>5 DEF TwoSlashes
  <2>2. PICK h \in Seq(Names) : h = <<u.protocol, ":">> /\ Len(h) = 2 /\ h[2] = ":"
    <3>1. <<u.protocol, ":">> \in Seq(Names) /\ Len(<<u.protocol, ":">>) = 2
          /\ <<u.protocol, ":">>[2] = ":"
      BY <1>2, ShortNames, Zenon
    <3> QED BY <3>1, Zenon
  <2>3. /\ h \o path \in Seq(Names) /\ Len(h \o path) = 2 + Len(path)
        /\ (h \o path)[2] = h[2] /\ (h \o path)[2 + 1] = path[1]
        /\ (h \o path)[2 + 2] = path[2]
    BY <1>2, <2>1, <2>2, ConcatIndex
  <2>4. h \o path \in Named
    <3> DEFINE a == h \o path
    <3>1. a \in Seq(Names) /\ 4 <= Len(a) /\ a[2] = ":" /\ a[3] = "/" /\ a[4] = "/"
      BY <2>1, <2>2, <2>3
    <3> HIDE DEF a
    <3>2. a \in Named
      BY <1>3, <3>1
    <3> QED BY <3>2 DEF a
  <2> QED BY <1>1, <1>5, <2>2, <2>4 DEF Address
<1>6. CASE ~TwoSlashes(path) /\ Protocols(path) = {}
  <2>1. PICK z \in Seq(Names) : z = IF path[1] = "/" THEN path ELSE <<"/">> \o path
    <3>1. PICK sl \in Seq(Names) : sl = <<"/">>
      BY ShortNames, Zenon
    <3>2. sl \o path \in Seq(Names)
      BY <1>2, <3>1
    <3> QED BY <1>2, <3>1, <3>2, Zenon
  <2>2. PICK h \in Seq(Names) : /\ h = <<u.protocol, ":", "/", "/">> /\ Len(h) = 4
                                 /\ h[2] = ":" /\ h[3] = "/" /\ h[4] = "/"
    <3> DEFINE head == <<u.protocol, ":", "/", "/">>
    <3>1. /\ head \in Seq(Names) /\ Len(head) = 4
          /\ head[2] = ":" /\ head[3] = "/" /\ head[4] = "/"
      BY <1>2, ShortNames, Zenon
    <3> HIDE DEF head
    <3>2. \E h \in Seq(Names) : /\ h = head /\ Len(h) = 4
                               /\ h[2] = ":" /\ h[3] = "/" /\ h[4] = "/"
      BY <3>1
    <3> QED BY <3>2 DEF head
  <2>3. PICK b \in Seq(Names) : /\ b = h \o u.place /\ Len(b) >= 4 /\ Len(b) \in Nat
                                 /\ b[2] = ":" /\ b[3] = "/" /\ b[4] = "/"
    <3>1. PICK place \in Seq(Names) : place = u.place
      BY <1>2
    <3>2. /\ h \o place \in Seq(Names) /\ Len(h \o place) = 4 + Len(place)
          /\ \A k \in 1 .. 4 : (h \o place)[k] = h[k]
      BY <2>2, ConcatIndex
    <3>3. 2 \in 1 .. 4 /\ 3 \in 1 .. 4 /\ 4 \in 1 .. 4 /\ Len(place) \in Nat
      OBVIOUS
    <3>4. /\ (h \o place)[2] = ":" /\ (h \o place)[3] = "/" /\ (h \o place)[4] = "/"
          /\ Len(h \o place) >= 4 /\ Len(h \o place) \in Nat
      BY <2>2, <3>2, <3>3
    <3> QED BY <3>1, <3>2, <3>4
  <2>4. PICK a \in Seq(Names) : /\ a = b \o z /\ Len(a) >= 4
                                 /\ a[2] = ":" /\ a[3] = "/" /\ a[4] = "/"
    <3>1. /\ b \o z \in Seq(Names) /\ Len(b \o z) = Len(b) + Len(z)
          /\ \A k \in 1 .. Len(b) : (b \o z)[k] = b[k]
      BY ConcatIndex
    <3>2. 2 \in 1 .. Len(b) /\ 3 \in 1 .. Len(b) /\ 4 \in 1 .. Len(b) /\ Len(z) \in Nat
      BY <2>3
    <3>3. PICK a \in Seq(Names) : a = b \o z
      BY <3>1
    <3>4. Len(a) >= 4 /\ a[2] = b[2] /\ a[3] = b[3] /\ a[4] = b[4]
      BY <2>3, <3>1, <3>2, <3>3
    <3> QED BY <2>3, <3>3, <3>4
  <2>5. a \in Named
    BY <1>3, <2>4
  <2>6. Address(u, path) = a
    BY <1>6, <2>1, <2>2, <2>3, <2>4 DEF Address, directory
  <2> QED BY <1>1, <2>5, <2>6
<1> QED BY <1>4, <1>5, <1>6

(* An address that names the protocol is left as it is. *)
LEMMA JoinLeaves ==
  ASSUME NEW url, NEW path \in Named
  PROVE  join_ts_url(url, path) = path
BY DEF join_ts_url, Named

LEMMA JoinNames ==
  ASSUME NEW url \in UrlTexts, NEW path \in Addresses
  PROVE  join_ts_url(url, path) \in Named
BY JoinIs, AddressNames DEF UrlTexts


-----------------------------------------------------------------------------
(* Playlists. *)

Segments == [ts_url : Named, duration : {d \in Nat \ {0} : d \in Floats}]

Parsers ==
  [ok : BOOLEAN, is_live : BOOLEAN, target_duration : Nat, max_duration : Nat,
   total_duration : Nat, ts_map : Seq(Segments), cur_inf_duration : FloatNumbers]

LEMMA NoFloat == 0 \in FloatNumbers
  BY NumberAssumption DEF FloatNumbers

LEMMA ParserIs ==
  ASSUME NEW p \in Parsers
  PROVE  p.cur_inf_duration \in Nat /\ p.cur_inf_duration \in FloatNumbers
  BY DEF Parsers, FloatNumbers

IsLine(l) == l.value \in Nat /\ (l.tag = "ts" => l.path \in Addresses)
IsPlaylist(c) ==
  Len(c) \in Nat /\ DOMAIN c = 1 .. Len(c) /\ \A i \in 1 .. Len(c) : IsLine(c[i])

LEMMA ParserWith ==
  ASSUME NEW p \in Parsers, NEW t \in Seq(Segments), NEW m \in Nat, NEW d \in FloatNumbers,
         NEW len \in Nat
  PROVE  /\ [p EXCEPT !.ts_map = t, !.max_duration = m, !.cur_inf_duration = d] \in Parsers
         /\ [p EXCEPT !.cur_inf_duration = d, !.total_duration = len] \in Parsers
<1>1. /\ [p EXCEPT !.ts_map = t] \in Parsers
      /\ [p EXCEPT !.cur_inf_duration = d] \in Parsers
  BY DEF Parsers
<1>2. \A q \in Parsers : [q EXCEPT !.max_duration = m] \in Parsers
                         /\ [q EXCEPT !.total_duration = len] \in Parsers
                         /\ [q EXCEPT !.cur_inf_duration = d] \in Parsers
  BY DEF Parsers
<1>3. [p EXCEPT !.ts_map = t, !.max_duration = m, !.cur_inf_duration = d] =
        [[[p EXCEPT !.ts_map = t] EXCEPT !.max_duration = m] EXCEPT !.cur_inf_duration = d]
  BY DEF Parsers
<1>4. [p EXCEPT !.cur_inf_duration = d, !.total_duration = len] =
        [[p EXCEPT !.cur_inf_duration = d] EXCEPT !.total_duration = len]
  BY DEF Parsers
<1> QED BY <1>1, <1>2, <1>3, <1>4

SegmentOf(p, url, path) ==
  [ts_url |-> join_ts_url(url, path), duration |-> p.cur_inf_duration]

LEMMA SegmentIs ==
  ASSUME NEW p \in Parsers, NEW url \in UrlTexts, NEW path \in Addresses, p.cur_inf_duration > 0
  PROVE  /\ SegmentOf(p, url, path) \in Segments
         /\ Segment(p, url, path) \in Parsers
         /\ Segment(p, url, path) =
              [p EXCEPT !.ts_map = Append(p.ts_map, SegmentOf(p, url, path)),
                        !.max_duration = Greatest(p.cur_inf_duration, p.max_duration),
                        !.cur_inf_duration = 0]
<1> DEFINE s == SegmentOf(p, url, path)
           m == Greatest(p.cur_inf_duration, p.max_duration)
<1>1. s \in Segments
  <2>1. join_ts_url(url, path) \in Named
    BY JoinNames
  <2>2. p.cur_inf_duration \in {d \in Nat \ {0} : d \in Floats}
    BY DEF Parsers, FloatNumbers
  <2> QED BY <2>1, <2>2, Zenon DEF Segments, SegmentOf
<1>4. Segment(p, url, path) =
        [p EXCEPT !.ts_map = Append(p.ts_map, s), !.max_duration = m, !.cur_inf_duration = 0]
  BY DEF Segment, SegmentOf
<1>2. p.ts_map \in Seq(Segments)
  BY DEF Parsers
<1>3. m \in Nat
  BY ParserIs DEF Greatest, Parsers
<1> HIDE DEF s, m
<1>5. Append(p.ts_map, s) \in Seq(Segments)
  BY <1>1, <1>2
<1>6. Segment(p, url, path) \in Parsers
  <2>1. 0 \in FloatNumbers
    BY NumberAssumption DEF FloatNumbers
  <2>2. \A t \in Seq(Segments), k \in Nat, z \in FloatNumbers :
          [p EXCEPT !.ts_map = t, !.max_duration = k, !.cur_inf_duration = z] \in Parsers
    BY ParserWith
  <2>3. [p EXCEPT !.ts_map = Append(p.ts_map, s), !.max_duration = m,
                  !.cur_inf_duration = 0] \in Parsers
    BY <1>3, <1>5, <2>1, <2>2, Zenon
  <2> QED BY <1>4, <2>3, Zenon
<1> QED BY <1>1, <1>4, <1>6 DEF s, m

(* The segments that a line adds, and the duration behind it.               *)
Complete(p, l) == l.tag = "ts" /\ p.cur_inf_duration > 0
SegmentTaken(p, url, l) == IF Complete(p, l) THEN <<SegmentOf(p, url, l.path)>> ELSE <<>>
DurationBehind(p, l) == IF l.tag = "EXTINF" THEN Float(l.value)
              ELSE IF l.tag = "ts" THEN 0 ELSE p.cur_inf_duration
Longest(p, l) == IF Complete(p, l) THEN Greatest(p.cur_inf_duration, p.max_duration)
                 ELSE p.max_duration
Announced(p, l) == IF l.tag = "TARGETDURATION" THEN Float(l.value) ELSE p.target_duration

(* What one line does. *)
LineDone(p, q, url, l) ==
  /\ l.tag # "STREAM-INF" /\ q.ok
  /\ q.cur_inf_duration = DurationBehind(p, l)
  /\ q.ts_map = p.ts_map \o SegmentTaken(p, url, l)
  /\ q.max_duration = Longest(p, l)
  /\ q.is_live = (p.is_live /\ l.tag # "ENDLIST")
  /\ q.target_duration = Announced(p, l)

LEMMA LineDoes ==
  ASSUME NEW p \in Parsers, NEW url \in UrlTexts, NEW l, IsLine(l), NEW q, q = ParseLine(p, url, l)
  PROVE  /\ q \in Parsers
         /\ ~p.ok => q = p
         /\ p.ok => IF l.tag = "STREAM-INF" THEN ~q.ok ELSE LineDone(p, q, url, l)
<1>0. /\ l.value \in Nat /\ p.ts_map \in Seq(Segments) /\ p.ts_map \o <<>> = p.ts_map
      /\ p.cur_inf_duration \in Nat /\ p.ok \in BOOLEAN /\ p.is_live \in BOOLEAN
      /\ Float(l.value) \in FloatNumbers /\ Float(l.value) \in Nat
  <2>1. l.value \in Nat
    BY DEF IsLine
  <2>2. Float(l.value) \in FloatNumbers /\ Float(l.value) \in Nat
    BY <2>1, FloatIs DEF FloatNumbers
  <2> QED BY <2>1, <2>2, ParserIs DEF Parsers
<1>1. CASE ~p.ok
  BY <1>1 DEF ParseLine
<1>2. CASE p.ok /\ l.tag = "STREAM-INF"
  BY <1>2 DEF ParseLine, Parsers
<1>3. CASE p.ok /\ l.tag = "ENDLIST"
  <2>1. q = [p EXCEPT !.is_live = FALSE]
    BY <1>3 DEF ParseLine
  <2>2. q \in Parsers
    BY <2>1 DEF Parsers
  <2>3. ~Complete(p, l)
    BY <1>3 DEF Complete
  <2>4. LineDone(p, q, url, l)
    BY <1>0, <1>3, <2>1, <2>3 DEF LineDone, DurationBehind, SegmentTaken, Longest, Announced, Parsers
  <2> QED BY <1>3, <2>2, <2>4
<1>4. CASE p.ok /\ l.tag = "TARGETDURATION"
  <2>1. q = [p EXCEPT !.target_duration = Float(l.value)]
    BY <1>4 DEF ParseLine
  <2>2. q \in Parsers
    BY <1>0, <2>1 DEF Parsers
  <2>3. ~Complete(p, l)
    BY <1>4 DEF Complete
  <2>4. LineDone(p, q, url, l)
    BY <1>0, <1>4, <2>1, <2>3 DEF LineDone, DurationBehind, SegmentTaken, Longest, Announced, Parsers
  <2> QED BY <1>4, <2>2, <2>4
<1>5. CASE p.ok /\ l.tag = "EXTINF"
  <2>1. q = [p EXCEPT !.cur_inf_duration = Float(l.value),
                      !.total_duration = Float(p.total_duration + Float(l.value))]
    BY <1>5 DEF ParseLine
  <2>2. q \in Parsers
    <3>1. Float(p.total_duration + Float(l.value)) \in Nat
      <4>1. PICK x \in Nat : x = p.total_duration + Float(l.value)
        BY <1>0 DEF Parsers
      <4> QED BY <4>1, FloatIs DEF FloatNumbers
    <3> QED BY ONLY p \in Parsers, <1>0, <2>1, <3>1, ParserWith
  <2>3. ~Complete(p, l)
    BY <1>5 DEF Complete
  <2>4. LineDone(p, q, url, l)
    BY <1>0, <1>5, <2>1, <2>3 DEF LineDone, DurationBehind, SegmentTaken, Longest, Announced, Parsers
  <2> QED BY <1>5, <2>2, <2>4
<1>6. CASE p.ok /\ Complete(p, l)
  <2> DEFINE s == SegmentOf(p, url, l.path)
             m == Greatest(p.cur_inf_duration, p.max_duration)
  <2>1. l.path \in Addresses
    BY <1>6 DEF IsLine, Complete
  <2>2. q = Segment(p, url, l.path)
    BY <1>6 DEF ParseLine, Complete
  <2>3. s \in Segments
    BY <1>6, <2>1, SegmentIs DEF Complete
  <2>4. q \in Parsers /\ q = [p EXCEPT !.ts_map = Append(p.ts_map, s),
                                       !.max_duration = m, !.cur_inf_duration = 0]
    BY ONLY p \in Parsers, url \in UrlTexts, <1>6, <2>1, <2>2, SegmentIs, Zenon DEF Complete
  <2>5. DurationBehind(p, l) = 0 /\ SegmentTaken(p, url, l) = <<s>> /\ Longest(p, l) = m
        /\ Announced(p, l) = p.target_duration /\ l.tag = "ts"
    BY <1>6 DEF DurationBehind, SegmentTaken, Longest, Announced, Complete
  <2> HIDE DEF s, m
  <2>6. Append(p.ts_map, s) = p.ts_map \o <<s>>
    BY <1>0, <2>3
  <2>7. LineDone(p, q, url, l)
    BY <1>0, <1>6, <2>4, <2>5, <2>6 DEF LineDone, Parsers
  <2> QED BY <1>6, <2>4, <2>5, <2>7
<1>7. CASE p.ok /\ l.tag = "ts" /\ ~Complete(p, l)
  <2>1. q = p /\ p.cur_inf_duration = 0
    BY <1>0, <1>7 DEF ParseLine, Complete
  <2> QED
    BY <1>0, <1>7, <2>1 DEF LineDone, DurationBehind, SegmentTaken, Longest, Announced
<1>8. CASE p.ok /\ l.tag \notin {"STREAM-INF", "ENDLIST", "TARGETDURATION", "EXTINF", "ts"}
  <2>1. q = p
    BY <1>8 DEF ParseLine
  <2>2. ~Complete(p, l)
    BY <1>8 DEF Complete
  <2> QED
    BY <1>0, <1>8, <2>1, <2>2 DEF LineDone, DurationBehind, SegmentTaken, Longest, Announced
<1> QED BY <1>0, <1>1, <1>2, <1>3, <1>4, <1>5, <1>6, <1>7, <1>8

(* The parser behind each line. *)
Runs(r, b, url, c) ==
  /\ r \in [0 .. Len(c) -> Parsers] /\ r[0] = b
  /\ \A k \in 0 .. Len(c) - 1 : r[k + 1] = ParseLine(r[k], url, c[k + 1])

ParseFolds(f, b, url, c) ==
  f = [s \in SUBSET DOMAIN c |->
         IF s = {} THEN b ELSE ParseLine(f[s \ {Max(s)}], url, c[Max(s)])]

LEMMA ParseRuns ==
  ASSUME NEW b \in Parsers, NEW url \in UrlTexts, NEW c, IsPlaylist(c)
  PROVE  \E r : Runs(r, b, url, c) /\ FoldLeft(LAMBDA p, line : ParseLine(p, url, line), b, c) = r[Len(c)]
<1> DEFINE len == Len(c)
           V == Parsers
           F == [i \in 1 .. len |-> [p \in V |-> ParseLine(p, url, c[i])]]
           w == CHOOSE f : f = [s \in SUBSET DOMAIN c |->
                  IF s = {} THEN b ELSE ParseLine(f[s \ {Max(s)}], url, c[Max(s)])]
<1>1. FoldLeft(LAMBDA p, line : ParseLine(p, url, line), b, c) = w[DOMAIN c]
  BY DEF FoldLeft, MapThenFoldSet
<1>2. (\E f : ParseFolds(f, b, url, c)) => ParseFolds(w, b, url, c)
  BY DEF ParseFolds
<1> HIDE DEF w
<1>3. len \in Nat /\ DOMAIN c = 1 .. len /\ \A i \in 1 .. len : IsLine(c[i])
  BY DEF IsPlaylist
<1>4. \A i \in 1 .. len, p \in V : ParseLine(p, url, c[i]) \in V
  BY <1>3, LineDoes
<1>5. F \in [1 .. len -> [V -> V]] /\ \A i \in 1 .. len, p \in V : F[i][p] = ParseLine(p, url, c[i])
  BY <1>4
<1> HIDE DEF V, F
<1>6. b \in V
  BY DEF V
<1>7. PICK h : FoldOf(h, len, b, F, V)
  <2> HIDE DEF len
  <2> QED BY <1>3, <1>5, <1>6, FoldExists
<1>8. ParseFolds(h, b, url, c)
  <2>0. h \in [SUBSET (1 .. len) -> V]
    BY <1>7 DEF FoldOf
  <2>1. ASSUME NEW t \in SUBSET (1 .. len)
        PROVE  h[t] = IF t = {} THEN b ELSE ParseLine(h[t \ {Max(t)}], url, c[Max(t)])
    <3>1. h[t] = IF t = {} THEN b ELSE F[Max(t)][h[t \ {Max(t)}]]
      BY <1>7 DEF FoldOf, Folds
    <3>2. CASE t = {}
      BY <3>1, <3>2
    <3>3. CASE t # {}
      <4> HIDE DEF len
      <4>1. Max(t) \in t
        BY <1>3, <3>3, MaxIs
      <4>2. Max(t) \in 1 .. len /\ t \ {Max(t)} \in SUBSET (1 .. len)
        BY <4>1
      <4>3. h[t \ {Max(t)}] \in V
        BY <4>2, <2>0
      <4> QED BY <3>1, <3>3, <4>2, <4>3, <1>5
    <3> QED BY <3>2, <3>3
  <2> HIDE DEF len
  <2> QED BY <2>0, <2>1, <1>3 DEF ParseFolds
<1>9. ParseFolds(w, b, url, c)
  BY <1>2, <1>8
<1> DEFINE r == [k \in 0 .. len |-> w[1 .. k]]
<1>10. \A t \in SUBSET (1 .. len) :
         w[t] = IF t = {} THEN b ELSE ParseLine(w[t \ {Max(t)}], url, c[Max(t)])
  BY <1>3, <1>9 DEF ParseFolds
<1>11. r[0] = b
  <2>1. 1 .. 0 = {} /\ 0 \in 0 .. len
    BY <1>3
  <2> QED BY <2>1, <1>10
<1>12. ASSUME NEW k \in 0 .. len - 1 PROVE r[k + 1] = ParseLine(r[k], url, c[k + 1])
  <2> DEFINE s == 1 .. k + 1
  <2>0. k \in 0 .. len /\ k + 1 \in 0 .. len
    BY <1>3
  <2>1. s \in SUBSET (1 .. len) /\ s # {} /\ Max(s) = k + 1 /\ s \ {k + 1} = 1 .. k
    <3> HIDE DEF len
    <3> QED BY <1>3, IntervalMax
  <2>2. r[k + 1] = w[s] /\ r[k] = w[1 .. k]
    BY <2>0
  <2> HIDE DEF s
  <2>3. w[s] = ParseLine(w[s \ {Max(s)}], url, c[Max(s)])
    BY <1>10, <2>1
  <2> QED BY <2>1, <2>2, <2>3
<1>13. DOMAIN r = 0 .. len /\ r = [k \in 0 .. len |-> r[k]] /\ w[DOMAIN c] = r[len]
  BY <1>3
<1> HIDE DEF r
<1>14. \A k \in 0 .. len : r[k] \in Parsers
  <2> DEFINE G == {k \in 0 .. len : r[k] \in Parsers}
  <2>1. 0 \in G /\ \A k \in 0 .. len - 1 : k \in G => k + 1 \in G
    <3>1. ASSUME NEW k \in 0 .. len - 1, r[k] \in Parsers PROVE r[k + 1] \in Parsers
      <4>1. IsLine(c[k + 1])
        BY <1>3
      <4> QED BY <1>12, <3>1, <4>1, LineDoes
    <3> QED BY <1>3, <1>11, <3>1
  <2> HIDE DEF G, len
  <2>2. \A k \in 0 .. len : k \in G
    BY <1>3, <2>1, CountUp
  <2> QED BY <2>2 DEF G
<1>15. Runs(r, b, url, c)
  BY <1>11, <1>12, <1>13, <1>14 DEF Runs
<1> QED BY <1>1, <1>13, <1>15

Heads(c, j) == {i \in 1 .. j - 1 : /\ c[i].tag = "EXTINF"
                                   /\ \A k \in i + 1 .. j - 1 : c[k].tag \notin {"EXTINF", "ts"}}

ValueAt(c, H) == IF H = {} THEN 0 ELSE Float(c[CHOOSE i \in H : TRUE].value)

LEMMA DurationIs ==
  ASSUME NEW c, NEW j
  PROVE  DurationAt(c, j) = ValueAt(c, Heads(c, j))
  BY DEF DurationAt, Heads, ValueAt

LEMMA DurationFirst ==
  ASSUME NEW c
  PROVE  DurationAt(c, 1) = 0
<1>1. Heads(c, 1) = {}
  BY DEF Heads
<1> QED BY <1>1, DurationIs DEF ValueAt

(* The duration as it is kept from line to line. *)
LEMMA DurationStep ==
  ASSUME NEW c, NEW k \in Nat \ {0}
  PROVE  DurationAt(c, k + 1) = IF c[k].tag = "EXTINF" THEN Float(c[k].value)
                                ELSE IF c[k].tag = "ts" THEN 0 ELSE DurationAt(c, k)
<1>0. \A i \in 1 .. (k + 1) - 1 : (i = k \/ i \in 1 .. k - 1)
                                  /\ (i # k => k \in i + 1 .. (k + 1) - 1)
  OBVIOUS
<1>1. CASE c[k].tag = "EXTINF"
  <2>1. k \in Heads(c, k + 1)
    BY <1>1 DEF Heads
  <2>2. \A i \in Heads(c, k + 1) : i = k
    BY <1>0, <1>1 DEF Heads
  <2>3. (CHOOSE i \in Heads(c, k + 1) : TRUE) = k
    BY <2>1, <2>2
  <2> QED BY <1>1, <2>1, <2>3, DurationIs DEF ValueAt
<1>2. CASE c[k].tag = "ts"
  <2>1. \A i : i \notin Heads(c, k + 1)
    BY <1>0, <1>2 DEF Heads
  <2> QED BY <1>2, <2>1, DurationIs DEF ValueAt
<1>3. CASE c[k].tag \notin {"EXTINF", "ts"}
  <2>1. \A i : i \in Heads(c, k + 1) <=> i \in Heads(c, k)
    <3>1. ASSUME NEW i \in 1 .. k - 1
          PROVE  \A m : m \in i + 1 .. (k + 1) - 1 <=> (m = k \/ m \in i + 1 .. k - 1)
      OBVIOUS
    <3> QED BY <1>0, <1>3, <3>1 DEF Heads
  <2>2. Heads(c, k + 1) = Heads(c, k)
    BY <2>1
  <2>4. DurationAt(c, k + 1) = DurationAt(c, k)
    BY <2>2, DurationIs
  <2> QED BY <1>3, <2>4
<1> QED BY <1>1, <1>2, <1>3

SegmentAt(url, c, j) ==
  IF c[j].tag = "ts" /\ DurationAt(c, j) > 0
  THEN <<[ts_url |-> join_ts_url(url, c[j].path), duration |-> DurationAt(c, j)]>>
  ELSE <<>>
SegmentsBefore(url, c, k) == FlattenSeq([j \in 1 .. k |-> SegmentAt(url, c, j)])

(* The parser behind k lines. *)
Parsed(p, url, c, k) ==
  /\ p.cur_inf_duration = DurationAt(c, k + 1)
  /\ [j \in 1 .. k |-> SegmentAt(url, c, j)] \in [1 .. k -> Seq(Segments)]
  /\ p.ts_map = SegmentsBefore(url, c, k)

LEMMA ParsedStep ==
  ASSUME NEW p \in Parsers, NEW q \in Parsers, NEW url \in UrlTexts, NEW c, IsPlaylist(c),
         NEW k \in 0 .. Len(c) - 1, p.ok, q.ok, Parsed(p, url, c, k),
         q = ParseLine(p, url, c[k + 1])
  PROVE  Parsed(q, url, c, k + 1)
<1> DEFINE l == c[k + 1]
           x == SegmentAt(url, c, k + 1)
           s == [j \in 1 .. k + 1 |-> SegmentAt(url, c, j)]
<1>1. IsLine(l) /\ k \in Nat
  BY DEF IsPlaylist
<1>2. l.tag # "STREAM-INF" /\ LineDone(p, q, url, l)
  BY <1>1, LineDoes
<1>3. p.cur_inf_duration = DurationAt(c, k + 1)
  BY DEF Parsed
<1>4. q.cur_inf_duration = DurationAt(c, (k + 1) + 1)
  BY <1>1, <1>2, <1>3, DurationStep DEF LineDone, DurationBehind
<1>5. x = SegmentTaken(p, url, l)
  BY <1>3 DEF SegmentAt, SegmentTaken, Complete, SegmentOf
<1>6. x \in Seq(Segments)
  <2>1. CASE Complete(p, l)
    <3>1. SegmentOf(p, url, l.path) \in Segments
      BY <1>1, <2>1, SegmentIs DEF Complete, IsLine
    <3>2. x = <<SegmentOf(p, url, l.path)>>
      BY <1>5, <2>1 DEF SegmentTaken
    <3> HIDE DEF x
    <3> QED BY <3>1, <3>2
  <2>2. CASE ~Complete(p, l)
    <3>1. x = <<>>
      BY <1>5, <2>2 DEF SegmentTaken
    <3> HIDE DEF x
    <3> QED BY <3>1
  <2> QED BY <2>1, <2>2
<1>7. \A j \in 1 .. k : SegmentAt(url, c, j) \in Seq(Segments)
  <2> DEFINE u == [j \in 1 .. k |-> SegmentAt(url, c, j)]
  <2>1. u \in [1 .. k -> Seq(Segments)] /\ \A j \in 1 .. k : u[j] = SegmentAt(url, c, j)
    BY DEF Parsed
  <2> HIDE DEF u
  <2> QED BY <2>1
<1>8. s \in [1 .. k + 1 -> Seq(Segments)]
  <2>1. \A j \in 1 .. k + 1 : j = k + 1 \/ j \in 1 .. k
    BY <1>1
  <2> HIDE DEF x
  <2> QED BY <1>6, <1>7, <2>1 DEF x
<1>9. s[k + 1] = x /\ [j \in 1 .. k |-> s[j]] = [j \in 1 .. k |-> SegmentAt(url, c, j)]
  BY <1>1
<1>10. FlattenSeq(s) = SegmentsBefore(url, c, k) \o x
  <2> HIDE DEF s, x
  <2>1. FlattenSeq(s) = FlattenSeq([j \in 1 .. k |-> s[j]]) \o s[k + 1]
    BY <1>1, <1>8, FlattenOneMore
  <2> QED BY <2>1, <1>9 DEF SegmentsBefore
<1>11. q.ts_map = SegmentsBefore(url, c, k + 1)
  BY <1>2, <1>5, <1>10 DEF LineDone, Parsed, SegmentsBefore
<1> QED BY <1>4, <1>8, <1>11 DEF Parsed

Covers(p) == \A i \in 1 .. Len(p.ts_map) : p.ts_map[i].duration <= p.max_duration

LEMMA CoversStep ==
  ASSUME NEW p \in Parsers, NEW q \in Parsers, NEW url \in UrlTexts, NEW l, IsLine(l),
         p.ok, q.ok, Covers(p), q = ParseLine(p, url, l)
  PROVE  Covers(q)
<1>1. LineDone(p, q, url, l)
  BY LineDoes
<1>2. /\ p.ts_map \in Seq(Segments) /\ q.ts_map \in Seq(Segments) /\ p.max_duration \in Nat
      /\ p.cur_inf_duration \in Nat
  BY ParserIs DEF Parsers
<1>3. CASE Complete(p, l)
  <2> DEFINE s == SegmentOf(p, url, l.path)
             m == Greatest(p.cur_inf_duration, p.max_duration)
  <2>1. s \in Segments /\ s.duration = p.cur_inf_duration
    BY <1>3, SegmentIs DEF Complete, IsLine, SegmentOf
  <2>2. q.ts_map = p.ts_map \o <<s>> /\ q.max_duration = m
    BY <1>1, <1>3 DEF LineDone, SegmentTaken, Longest
  <2>3. m \in Nat /\ p.cur_inf_duration <= m /\ p.max_duration <= m
    BY <1>2 DEF Greatest
  <2> HIDE DEF s, m
  <2>4. \A t \in Seq(Segments) :
          /\ Len(t \o <<s>>) = Len(t) + 1
          /\ \A i \in 1 .. Len(t) + 1 : (t \o <<s>>)[i] = IF i = Len(t) + 1 THEN s ELSE t[i]
          /\ \A i \in 1 .. Len(t) : t[i] \in Segments
    BY <2>1
  <2>5. \A t \in Segments : t.duration \in Nat
    BY DEF Segments
  <2>6. \A i \in 1 .. Len(q.ts_map) : i = Len(p.ts_map) + 1 \/ i \in 1 .. Len(p.ts_map)
    BY <1>2, <2>2, <2>4
  <2>7. ASSUME NEW i \in 1 .. Len(q.ts_map) PROVE q.ts_map[i].duration <= q.max_duration
    <3>1. CASE i = Len(p.ts_map) + 1
      <4>1. q.ts_map[i] = s
        BY <1>2, <2>2, <2>4, <3>1
      <4> QED BY <2>1, <2>2, <2>3, <4>1
    <3>2. CASE i # Len(p.ts_map) + 1
      <4>1. i \in 1 .. Len(p.ts_map)
        BY <2>6, <3>2
      <4>2. q.ts_map[i] = p.ts_map[i] /\ p.ts_map[i] \in Segments
        BY <1>2, <2>2, <2>4, <3>2, <4>1
      <4>3. p.ts_map[i].duration \in Nat /\ p.ts_map[i].duration <= p.max_duration
        BY <2>5, <4>1, <4>2 DEF Covers
      <4> QED BY <1>2, <2>2, <2>3, <4>2, <4>3
    <3> QED BY <3>1, <3>2
  <2> QED BY <2>7 DEF Covers
<1>4. CASE ~Complete(p, l)
  <2>1. q.ts_map = p.ts_map /\ q.max_duration = p.max_duration
    BY <1>1, <1>2, <1>4, EmptyConcat DEF LineDone, SegmentTaken, Longest
  <2> QED BY <2>1 DEF Covers
<1> QED BY <1>3, <1>4

(* What parse finds. *)
LEMMA ParseFinds ==
  ASSUME NEW u \in DOMAIN Urls, NEW c, IsPlaylist(c), NEW p, p = Parse(Url(u), c)
  PROVE  /\ p \in Parsers
         /\ p.ok => p.ts_map = SegmentsOf(Urls[u], c) /\ Covers(p)
<1>0. PICK url \in UrlTexts : url = Url(u)
  BY DEF UrlTexts
<1> DEFINE b == [EmptyParser EXCEPT !.ok = c # <<>>]
           len == Len(c)
<1>1. b \in Parsers /\ b.ts_map = <<>> /\ b.cur_inf_duration = 0
  <2>1. <<>> \in Seq(Segments) /\ (c # <<>>) \in BOOLEAN /\ 0 \in Nat /\ TRUE \in BOOLEAN
    OBVIOUS
  <2> QED BY <2>1, NoFloat DEF EmptyParser, Parsers
<1>2. p = FoldLeft(LAMBDA q, line : ParseLine(q, url, line), b, c)
  <2>1. p = Parse(url, c)
    BY <1>0
  <2> QED BY <2>1 DEF Parse
<1> HIDE DEF b
<1>3. PICK r : Runs(r, b, url, c) /\ p = r[len]
  BY <1>1, <1>2, ParseRuns
<1>4. len \in Nat /\ DOMAIN c = 1 .. len /\ \A i \in 1 .. len : IsLine(c[i])
  BY DEF IsPlaylist
<1>5. \A k \in 0 .. len : r[k] \in Parsers
  BY <1>3 DEF Runs
<1> DEFINE G == {k \in 0 .. len : r[k].ok => Parsed(r[k], url, c, k) /\ Covers(r[k])}
<1>6. 0 \in G
  <2>1. [j \in 1 .. 0 |-> SegmentAt(url, c, j)] = <<>>
    BY DEF SegmentAt
  <2>2. [j \in 1 .. 0 |-> SegmentAt(url, c, j)] \in [1 .. 0 -> Seq(Segments)]
    OBVIOUS
  <2>3. SegmentsBefore(url, c, 0) = <<>>
    BY <2>1, FlattenEmpty DEF SegmentsBefore
  <2>4. r[0] = b /\ 0 \in 0 .. len /\ 0 + 1 = 1
    BY <1>3, <1>4 DEF Runs
  <2>5. Parsed(r[0], url, c, 0)
    BY <1>1, <2>2, <2>3, <2>4, DurationFirst DEF Parsed
  <2>6. Covers(r[0])
    BY <1>1, <2>4 DEF Covers
  <2> QED BY <2>4, <2>5, <2>6
<1>7. ASSUME NEW k \in 0 .. len - 1, k \in G PROVE k + 1 \in G
  <2> SUFFICES ASSUME r[k + 1].ok
               PROVE  Parsed(r[k + 1], url, c, k + 1) /\ Covers(r[k + 1])
    BY <1>4
  <2>1. k \in 0 .. len /\ k + 1 \in 0 .. len /\ k + 1 \in 1 .. len
    BY <1>4
  <2>2. r[k] \in Parsers /\ r[k + 1] \in Parsers /\ r[k + 1] = ParseLine(r[k], url, c[k + 1])
    BY <1>3, <1>5, <2>1 DEF Runs
  <2>3. IsLine(c[k + 1])
    BY <1>4, <2>1
  <2>4. r[k].ok
    <3>1. ~r[k].ok => ParseLine(r[k], url, c[k + 1]) = r[k]
      BY DEF ParseLine
    <3> QED BY <2>2, <3>1
  <2>5. Parsed(r[k], url, c, k) /\ Covers(r[k])
    BY <1>7, <2>4
  <2> QED BY <2>2, <2>3, <2>4, <2>5, ParsedStep, CoversStep
<1>8. \A k \in 0 .. len : k \in G
  <2> HIDE DEF G, len
  <2> QED BY <1>4, <1>6, <1>7, CountUp
<1>9. len \in 0 .. len
  BY <1>4
<1>10. SegmentsOf(Urls[u], c) = SegmentsBefore(url, c, len)
  <2> DEFINE A(j) == IF c[j].tag = "ts" /\ DurationAt(c, j) > 0
                     THEN <<[ts_url |-> Address(Urls[u], c[j].path),
                             duration |-> DurationAt(c, j)]>>
                     ELSE <<>>
  <2>1. ASSUME NEW j \in 1 .. len PROVE A(j) = SegmentAt(url, c, j)
    <3>1. c[j].tag = "ts" => c[j].path \in Addresses
      BY <1>4 DEF IsLine
    <3>2. c[j].tag = "ts" => join_ts_url(url, c[j].path) = Address(Urls[u], c[j].path)
      BY <1>0, <3>1, JoinIs
    <3> QED BY <3>2 DEF SegmentAt
  <2>2. [j \in DOMAIN c |-> A(j)] = [j \in 1 .. len |-> SegmentAt(url, c, j)]
    <3> HIDE DEF A, len
    <3> QED BY <1>4, <2>1
  <2> QED BY <2>2, Zenon DEF SegmentsOf, SegmentsBefore
<1> QED BY <1>3, <1>5, <1>8, <1>9, <1>10 DEF Parsed

LEMMA CeilingCovers ==
  ASSUME NEW d \in Nat
  PROVE  Ceiling(d) \in Nat /\ d <= Ceiling(d)
<1> DEFINE e == d + Unit - 1
           q == e \div Unit
           r == e % Unit
<1>1. e \in Nat /\ Unit \in Nat \ {0}
  BY NumberAssumption
<1>2. q \in Nat /\ r \in 0 .. Unit - 1 /\ e = Unit * q + r
  <2> HIDE DEF e
  <2> QED BY <1>1, DivMod
<1> HIDE DEF q, r
<1>3. PICK x \in Nat : x = Unit * q
  BY <1>1, <1>2
<1>4. d <= x
  BY <1>1, <1>2, <1>3
<1> QED BY <1>3, <1>4 DEF Ceiling, q

AreParsed(ps) ==
  Len(ps) \in Nat /\ DOMAIN ps = 1 .. Len(ps) /\ \A i \in 1 .. Len(ps) : ps[i] \in Parsers

Announces(d, p) == Greatest(d, Greatest(Ceiling(p.target_duration), Ceiling(p.max_duration)))

LEMMA AnnouncesMore ==
  ASSUME NEW d \in Nat, NEW p \in Parsers
  PROVE  Announces(d, p) \in Nat /\ d <= Announces(d, p) /\ p.max_duration <= Announces(d, p)
<1>1. p.target_duration \in Nat /\ p.max_duration \in Nat
  BY DEF Parsers
<1>2. PICK x \in Nat : x = Ceiling(p.target_duration)
  BY <1>1, CeilingCovers
<1>3. PICK y \in Nat : y = Ceiling(p.max_duration) /\ p.max_duration <= y
  BY <1>1, CeilingCovers
<1> QED BY <1>1, <1>2, <1>3 DEF Announces, Greatest

TargetFolds(f, ps) ==
  f = [s \in SUBSET DOMAIN ps |-> IF s = {} THEN 0 ELSE Announces(f[s \ {Max(s)}], ps[Max(s)])]

(* The duration announced covers every segment of every playlist. *)
LEMMA TargetIs ==
  ASSUME NEW ps, AreParsed(ps)
  PROVE  Target(ps) \in Nat /\ \A i \in 1 .. Len(ps) : ps[i].max_duration <= Target(ps)
<1> DEFINE len == Len(ps)
           V == Nat
           F == [i \in 1 .. len |-> [d \in V |-> Announces(d, ps[i])]]
           w == CHOOSE f : f = [s \in SUBSET DOMAIN ps |->
                  IF s = {} THEN 0
                  ELSE Greatest(f[s \ {Max(s)}], Greatest(Ceiling(ps[Max(s)].target_duration),
                                                          Ceiling(ps[Max(s)].max_duration)))]
<1>1. Target(ps) = w[DOMAIN ps]
  BY DEF Target, FoldLeft, MapThenFoldSet
<1>2. (\E f : TargetFolds(f, ps)) => TargetFolds(w, ps)
  BY DEF TargetFolds, Announces
<1> HIDE DEF w
<1>3. len \in Nat /\ DOMAIN ps = 1 .. len /\ \A i \in 1 .. len : ps[i] \in Parsers
  BY DEF AreParsed
<1>4. \A i \in 1 .. len, d \in V : Announces(d, ps[i]) \in V
  BY <1>3, AnnouncesMore
<1>5. F \in [1 .. len -> [V -> V]] /\ \A i \in 1 .. len, d \in V : F[i][d] = Announces(d, ps[i])
  BY <1>4
<1> HIDE DEF F
<1>6. 0 \in V
  OBVIOUS
<1> HIDE DEF V
<1>7. PICK h : FoldOf(h, len, 0, F, V)
  <2> HIDE DEF len
  <2> QED BY <1>3, <1>5, <1>6, FoldExists
<1>8. TargetFolds(h, ps)
  <2>0. h \in [SUBSET (1 .. len) -> V]
    BY <1>7 DEF FoldOf
  <2>1. ASSUME NEW t \in SUBSET (1 .. len)
        PROVE  h[t] = IF t = {} THEN 0 ELSE Announces(h[t \ {Max(t)}], ps[Max(t)])
    <3>1. h[t] = IF t = {} THEN 0 ELSE F[Max(t)][h[t \ {Max(t)}]]
      BY <1>7 DEF FoldOf, Folds
    <3>2. CASE t = {}
      BY <3>1, <3>2
    <3>3. CASE t # {}
      <4> HIDE DEF len
      <4>1. Max(t) \in t
        BY <1>3, <3>3, MaxIs
      <4>2. Max(t) \in 1 .. len /\ t \ {Max(t)} \in SUBSET (1 .. len)
        BY <4>1
      <4>3. h[t \ {Max(t)}] \in V
        BY <4>2, <2>0
      <4> QED BY <3>1, <3>3, <4>2, <4>3, <1>5
    <3> QED BY <3>2, <3>3
  <2> HIDE DEF len
  <2> QED BY <2>0, <2>1, <1>3 DEF TargetFolds
<1>9. TargetFolds(w, ps)
  BY <1>2, <1>8
<1>10. \A t \in SUBSET (1 .. len) :
         w[t] = IF t = {} THEN 0 ELSE Announces(w[t \ {Max(t)}], ps[Max(t)])
  BY <1>3, <1>9 DEF TargetFolds
<1> DEFINE r == [k \in 0 .. len |-> w[1 .. k]]
<1>11. r[0] = 0
  <2>1. 1 .. 0 = {} /\ 0 \in 0 .. len
    BY <1>3
  <2> QED BY <2>1, <1>10
<1>12. ASSUME NEW k \in 0 .. len - 1 PROVE r[k + 1] = Announces(r[k], ps[k + 1])
  <2> DEFINE s == 1 .. k + 1
  <2>0. k \in 0 .. len /\ k + 1 \in 0 .. len
    BY <1>3
  <2>1. s \in SUBSET (1 .. len) /\ s # {} /\ Max(s) = k + 1 /\ s \ {k + 1} = 1 .. k
    <3> HIDE DEF len
    <3> QED BY <1>3, IntervalMax
  <2>2. r[k + 1] = w[s] /\ r[k] = w[1 .. k]
    BY <2>0
  <2> HIDE DEF s
  <2>3. w[s] = Announces(w[s \ {Max(s)}], ps[Max(s)])
    BY <1>10, <2>1
  <2> QED BY <2>1, <2>2, <2>3
<1>13. w[DOMAIN ps] = r[len]
  BY <1>3
<1> HIDE DEF r
<1> DEFINE G == {k \in 0 .. len : r[k] \in Nat /\ \A i \in 1 .. k : ps[i].max_duration <= r[k]}
<1>14. 0 \in G
  BY <1>3, <1>11
<1>15. ASSUME NEW k \in 0 .. len - 1, k \in G PROVE k + 1 \in G
  <2>1. k + 1 \in 0 .. len /\ k + 1 \in 1 .. len /\ k \in Nat
    BY <1>3
  <2>2. r[k + 1] \in Nat /\ r[k] \in Nat /\ r[k] <= r[k + 1] /\ ps[k + 1].max_duration <= r[k + 1]
    BY <1>3, <1>12, <1>15, <2>1, AnnouncesMore
  <2>3. ASSUME NEW i \in 1 .. k + 1 PROVE ps[i].max_duration <= r[k + 1]
    <3>1. CASE i = k + 1
      BY <2>2, <3>1
    <3>2. CASE i # k + 1
      <4>1. i \in 1 .. k /\ i \in 1 .. len
        BY <2>1, <3>2
      <4>2. ps[i].max_duration <= r[k]
        BY <1>15, <4>1
      <4>3. ps[i].max_duration \in Nat
        BY <1>3, <4>1 DEF Parsers
      <4> QED BY <2>2, <4>2, <4>3
    <3> QED BY <3>1, <3>2
  <2> QED BY <2>1, <2>2, <2>3
<1>16. \A k \in 0 .. len : k \in G
  <2> HIDE DEF G, len
  <2> QED BY <1>3, <1>14, <1>15, CountUp
<1>17. len \in 0 .. len
  BY <1>3
<1> QED BY <1>1, <1>13, <1>16, <1>17

-----------------------------------------------------------------------------
(* The merged playlist: two lines for each segment. *)

PairOf(s) == <<Line("EXTINF", Printed(s.duration)), Path(s.ts_url)>>
PairLines == {Line("EXTINF", d) : d \in Nat} \cup {Path(t) : t \in Addresses}
Pairs(t, k) == FlattenSeq([i \in 1 .. k |-> PairOf(t[i])])

LEMMA PairsAre ==
  ASSUME NEW t \in Seq(Segments)
  PROVE  \A k \in 0 .. Len(t) :
           /\ Pairs(t, k) \in Seq(PairLines) /\ Len(Pairs(t, k)) = 2 * k
           /\ \A i \in 1 .. k : /\ Pairs(t, k)[2 * i - 1] = Line("EXTINF", Printed(t[i].duration))
                                /\ Pairs(t, k)[2 * i] = Path(t[i].ts_url)
<1> DEFINE len == Len(t)
           Good(k) == /\ Pairs(t, k) \in Seq(PairLines) /\ Len(Pairs(t, k)) = 2 * k
                      /\ \A i \in 1 .. k :
                           /\ Pairs(t, k)[2 * i - 1] = Line("EXTINF", Printed(t[i].duration))
                           /\ Pairs(t, k)[2 * i] = Path(t[i].ts_url)
           G == {k \in 0 .. len : Good(k)}
<1>0. len \in Nat /\ \A i \in 1 .. len : t[i] \in Segments
  OBVIOUS
<1>1. ASSUME NEW i \in 1 .. len
      PROVE  /\ PairOf(t[i]) \in Seq(PairLines) /\ Len(PairOf(t[i])) = 2
             /\ PairOf(t[i])[1] = Line("EXTINF", Printed(t[i].duration))
             /\ PairOf(t[i])[2] = Path(t[i].ts_url)
  <2>0. t[i].duration \in Nat /\ t[i].ts_url \in Addresses
    BY <1>0 DEF Segments, Named
  <2>1. Printed(t[i].duration) \in Nat /\ t[i].ts_url \in Addresses
    <3>1. PICK d \in Int : d = t[i].duration
      BY <2>0
    <3> QED BY <2>0, <3>1, PrintedIs
  <2>2. Line("EXTINF", Printed(t[i].duration)) \in PairLines /\ Path(t[i].ts_url) \in PairLines
    BY <2>1 DEF PairLines
  <2>3. \A a \in PairLines, b \in PairLines : <<a, b>> \in Seq(PairLines) /\ Len(<<a, b>>) = 2
    OBVIOUS
  <2> QED BY <2>2, <2>3 DEF PairOf
<1>2. Good(0)
  <2>1. [i \in 1 .. 0 |-> PairOf(t[i])] = <<>>
    OBVIOUS
  <2>2. Pairs(t, 0) = <<>>
    BY <2>1, FlattenEmpty DEF Pairs
  <2>3. <<>> \in Seq(PairLines) /\ Len(<<>>) = 2 * 0 /\ 1 .. 0 = {}
    OBVIOUS
  <2> QED BY <2>2, <2>3
<1>3. ASSUME NEW k \in 0 .. len - 1, Good(k) PROVE Good(k + 1)
  <2> DEFINE s == [i \in 1 .. k + 1 |-> PairOf(t[i])]
             u == Pairs(t, k)
             v == PairOf(t[k + 1])
             w == Pairs(t, k + 1)
  <2>1. k \in Nat /\ k + 1 \in 1 .. len /\ \A i \in 1 .. k + 1 : i \in 1 .. len
    BY <1>0
  <2>2. s \in [1 .. k + 1 -> Seq(PairLines)]
    BY <1>1, <2>1
  <2>3. [i \in 1 .. k |-> s[i]] = [i \in 1 .. k |-> PairOf(t[i])] /\ s[k + 1] = v
    BY <2>1
  <2>4. w = u \o v
    <3>1. FlattenSeq(s) = FlattenSeq([i \in 1 .. k |-> s[i]]) \o s[k + 1]
      <4> HIDE DEF s
      <4> QED BY <2>1, <2>2, FlattenOneMore
    <3> QED BY <2>3, <3>1 DEF Pairs
  <2>5. u \in Seq(PairLines) /\ Len(u) = 2 * k /\ v \in Seq(PairLines) /\ Len(v) = 2
        /\ v[1] = Line("EXTINF", Printed(t[k + 1].duration)) /\ v[2] = Path(t[k + 1].ts_url)
    BY <1>1, <1>3, <2>1
  <2>a. \A i \in 1 .. k : u[2 * i - 1] = Line("EXTINF", Printed(t[i].duration))
                          /\ u[2 * i] = Path(t[i].ts_url)
    BY <1>3
  <2> HIDE DEF u, v, w, s
  <2>6. u \o v \in Seq(PairLines) /\ Len(u \o v) = 2 * k + 2
        /\ (u \o v)[2 * k + 1] = v[1] /\ (u \o v)[2 * k + 2] = v[2]
        /\ (\A i \in 1 .. 2 * k : (u \o v)[i] = u[i])
    <3>1. PICK m \in Nat : m = 2 * k
      BY <2>1
    <3>2. u \o v \in Seq(PairLines) /\ Len(u \o v) = m + 2
          /\ (u \o v)[m + 1] = v[1] /\ (u \o v)[m + 2] = v[2]
          /\ (\A i \in 1 .. m : (u \o v)[i] = u[i])
      <4>1. u \o v \in Seq(PairLines) /\ Len(u \o v) = Len(u) + Len(v)
            /\ \A i \in 1 .. Len(u) + Len(v) :
                 (u \o v)[i] = IF i <= Len(u) THEN u[i] ELSE v[i - Len(u)]
        BY <2>5, ConcatProperties, Zenon
      <4>2. Len(u) = m /\ Len(v) = 2
        BY <2>5, <3>1
      <4>3. m + 1 \in 1 .. m + 2 /\ m + 2 \in 1 .. m + 2 /\ (m + 1) - m = 1 /\ (m + 2) - m = 2
            /\ ~(m + 1 <= m) /\ ~(m + 2 <= m) /\ \A i \in 1 .. m : i \in 1 .. m + 2 /\ i <= m
        OBVIOUS
      <4> QED BY <4>1, <4>2, <4>3
    <3> QED BY <3>1, <3>2
  <2>7. \A i \in 1 .. k + 1 : i = k + 1 \/ (i \in 1 .. k /\ 2 * i \in 1 .. 2 * k /\ 2 * i - 1 \in 1 .. 2 * k)
    BY <2>1
  <2>8. 2 * (k + 1) = 2 * k + 2 /\ 2 * (k + 1) - 1 = 2 * k + 1
    BY <2>1
  <2>9. ASSUME NEW i \in 1 .. k + 1
        PROVE  w[2 * i - 1] = Line("EXTINF", Printed(t[i].duration)) /\ w[2 * i] = Path(t[i].ts_url)
    <3>1. CASE i = k + 1
      BY <2>4, <2>5, <2>6, <2>8, <3>1
    <3>2. CASE i # k + 1
      BY <2>4, <2>a, <2>6, <2>7, <3>2
    <3> QED BY <3>1, <3>2
  <2>10. w \in Seq(PairLines) /\ Len(w) = 2 * (k + 1)
    BY <2>4, <2>6, <2>8
  <2> QED BY <2>9, <2>10 DEF w
<1>4. 0 \in G /\ \A k \in 0 .. len - 1 : k \in G => k + 1 \in G
  <2> HIDE DEF Good
  <2> QED BY <1>0, <1>2, <1>3
<1>5. \A k \in 0 .. len : k \in G
  <2> HIDE DEF G, len
  <2> QED BY <1>0, <1>4, CountUp
<1> QED BY <1>5

MergedOf(t, T) ==
  <<Line("EXTM3U", 0), Line("VERSION", 3), Line("TARGETDURATION", T), Line("MEDIA-SEQUENCE", 0)>>
  \o Pairs(t, Len(t)) \o <<Line("ENDLIST", 0)>>

LEMMA MergedLines ==
  ASSUME NEW t \in Seq(Segments), NEW T \in Nat, NEW c, c = MergedOf(t, T),
         NEW len, len = 2 * Len(t)
  PROVE  /\ IsPlaylist(c) /\ Len(c) = len + 5
         /\ c[1] = Line("EXTM3U", 0) /\ c[2] = Line("VERSION", 3)
         /\ c[3] = Line("TARGETDURATION", T) /\ c[4] = Line("MEDIA-SEQUENCE", 0)
         /\ \A i \in 1 .. Len(t) : /\ c[2 * i + 3] = Line("EXTINF", Printed(t[i].duration))
                                   /\ c[2 * i + 4] = Path(t[i].ts_url)
         /\ c[len + 5] = Line("ENDLIST", 0)
<1> DEFINE h1 == Line("EXTM3U", 0)
           h2 == Line("VERSION", 3)
           h3 == Line("TARGETDURATION", T)
           h4 == Line("MEDIA-SEQUENCE", 0)
           e == Line("ENDLIST", 0)
           S == PairLines \cup {h1, h2, h3, h4, e}
           u == Pairs(t, Len(t))
<1>1. \A l \in S : IsLine(l)
  BY DEF PairLines, Line, Path, IsLine
<1>2. /\ u \in Seq(PairLines) /\ Len(u) = len /\ Len(t) \in Nat /\ len \in Nat
      /\ \A i \in 1 .. Len(t) : /\ u[2 * i - 1] = Line("EXTINF", Printed(t[i].duration))
                                /\ u[2 * i] = Path(t[i].ts_url)
  <2>1. Len(t) \in Nat /\ Len(t) \in 0 .. Len(t) /\ 2 * Len(t) \in Nat
    OBVIOUS
  <2> QED BY <2>1, PairsAre
<1>3. u \in Seq(S)
  <2>1. \A z \in Seq(PairLines) : z \in Seq(S)
    <3> HIDE DEF u
    <3>1. PairLines \subseteq S
      OBVIOUS
    <3> HIDE DEF S
    <3> QED BY <3>1
  <2> QED BY <1>2, <2>1
<1>4. h1 \in S /\ h2 \in S /\ h3 \in S /\ h4 \in S /\ e \in S
  OBVIOUS
<1>5. c = <<h1, h2, h3, h4>> \o u \o <<e>>
  BY DEF MergedOf
<1> HIDE DEF h1, h2, h3, h4, e, u, S
<1> DEFINE h == <<h1, h2, h3, h4>>
<1>6. /\ h \in Seq(S) /\ Len(h) = 4 /\ h[1] = h1 /\ h[2] = h2 /\ h[3] = h3 /\ h[4] = h4
      /\ <<e>> \in Seq(S) /\ Len(<<e>>) = 1 /\ <<e>>[1] = e
  BY <1>4
<1>7. c = h \o u \o <<e>>
  BY <1>5
<1> HIDE DEF h
<1>8. /\ h \o u \in Seq(S) /\ Len(h \o u) = 4 + len
      /\ \A i \in 1 .. 4 + len : (h \o u)[i] = IF i <= 4 THEN h[i] ELSE u[i - 4]
  <2>1. /\ h \o u \in Seq(S) /\ Len(h \o u) = Len(h) + Len(u)
        /\ \A i \in 1 .. Len(h) + Len(u) :
             (h \o u)[i] = IF i <= Len(h) THEN h[i] ELSE u[i - Len(h)]
    BY <1>3, <1>6, ConcatProperties, Zenon
  <2> QED BY <1>2, <1>6, <2>1
<1>9. /\ c \in Seq(S) /\ Len(c) = 4 + len + 1
      /\ \A i \in 1 .. 4 + len + 1 : c[i] = IF i <= 4 + len THEN (h \o u)[i] ELSE <<e>>[i - (4 + len)]
  <2> DEFINE g == h \o u
  <2>1. g \in Seq(S) /\ Len(g) = 4 + len /\ c = g \o <<e>>
    BY <1>7, <1>8
  <2> HIDE DEF g
  <2>2. g \o <<e>> \in Seq(S) /\ Len(g \o <<e>>) = Len(g) + 1
        /\ \A i \in 1 .. Len(g) + 1 : (g \o <<e>>)[i] = IF i <= Len(g) THEN g[i] ELSE <<e>>[i - Len(g)]
    BY <1>6, <2>1, ConcatProperties
  <2> QED BY <2>1, <2>2 DEF g
<1>10. Len(c) = len + 5 /\ c[len + 5] = e
  <2>1. 4 + len + 1 = len + 5 /\ len + 5 \in 1 .. 4 + len + 1 /\ ~(len + 5 <= 4 + len) /\ (len + 5) - (4 + len) = 1
    BY <1>2
  <2> QED BY <1>6, <1>9, <2>1
<1>11. \A i \in 1 .. 4 + len : c[i] = IF i <= 4 THEN h[i] ELSE u[i - 4]
  <2>1. \A i \in 1 .. 4 + len : i \in 1 .. 4 + len + 1 /\ i <= 4 + len
    BY <1>2
  <2> QED BY <1>8, <1>9, <2>1
<1>12. c[1] = h1 /\ c[2] = h2 /\ c[3] = h3 /\ c[4] = h4
  <2>1. \A i \in 1 .. 4 : i \in 1 .. 4 + len /\ i <= 4
    BY <1>2
  <2> QED BY <1>6, <1>11, <2>1
<1>13. ASSUME NEW i \in 1 .. Len(t)
       PROVE  c[2 * i + 3] = u[2 * i - 1] /\ c[2 * i + 4] = u[2 * i]
  <2>1. 2 * i + 3 \in 1 .. 4 + len /\ ~(2 * i + 3 <= 4) /\ (2 * i + 3) - 4 = 2 * i - 1
        /\ 2 * i + 4 \in 1 .. 4 + len /\ ~(2 * i + 4 <= 4) /\ (2 * i + 4) - 4 = 2 * i
    BY <1>2
  <2> QED BY <1>11, <2>1
<1>14. IsPlaylist(c)
  <2>1. \A i \in 1 .. Len(c) : c[i] \in S
    BY <1>9
  <2>2. DOMAIN c = 1 .. Len(c) /\ Len(c) \in Nat
    BY <1>9
  <2> QED BY <1>1, <2>1, <2>2 DEF IsPlaylist
<1> QED BY <1>2, <1>10, <1>12, <1>13, <1>14 DEF h1, h2, h3, h4, e

(* What is read again of segments that were written. *)
RereadOf(t) ==
  [i \in 1 .. Len(t) |-> [ts_url |-> t[i].ts_url, duration |-> Reread(t[i].duration)]]

LEMMA RereadSegments ==
  ASSUME NEW t \in Seq(Segments), NEW u, u = RereadOf(t)
  PROVE  /\ u \in Seq(Segments) /\ Len(u) = Len(t)
         /\ \A i \in 1 .. Len(t) : /\ u[i].ts_url = t[i].ts_url
                                   /\ u[i].duration = Reread(t[i].duration)
                                   /\ Rewritten(t[i].duration, u[i].duration) /\ u[i].duration > 0
<1> DEFINE U(i) == [ts_url |-> t[i].ts_url, duration |-> Reread(t[i].duration)]
           len == Len(t)
<1>1. ASSUME NEW i \in 1 .. len
      PROVE  /\ U(i) \in Segments /\ U(i).duration > 0
             /\ Rewritten(t[i].duration, U(i).duration)
  <2>1. t[i] \in Segments
    OBVIOUS
  <2>2. t[i].ts_url \in Named /\ t[i].duration \in Nat /\ t[i].duration \in Floats \ {0}
    BY <2>1 DEF Segments
  <2>3. /\ Reread(t[i].duration) \in FloatNumbers /\ Reread(t[i].duration) # 0
        /\ Rewritten(t[i].duration, Reread(t[i].duration))
    BY <2>2, RereadIs
  <2>4. Reread(t[i].duration) \in Nat \ {0} /\ Reread(t[i].duration) \in Floats
    BY <2>3 DEF FloatNumbers
  <2>5. U(i) \in Segments
    BY <2>2, <2>4 DEF Segments
  <2> QED BY <2>3, <2>4, <2>5
<1>2. u = [i \in 1 .. len |-> U(i)] /\ len \in Nat
  BY DEF RereadOf
<1>3. \A i \in 1 .. len : U(i).ts_url = t[i].ts_url /\ U(i).duration = Reread(t[i].duration)
  OBVIOUS
<1> HIDE DEF U, len
<1>4. u \in [1 .. len -> Segments] /\ \A i \in 1 .. len : u[i] = U(i)
  BY <1>1, <1>2
<1>5. u \in Seq(Segments) /\ Len(u) = len
  BY <1>2, <1>4
<1> QED BY <1>1, <1>3, <1>4, <1>5 DEF len

(* The parser before and behind the i-th segment. *)
Reads(p, u, T, i) ==
  /\ p.ok /\ p.is_live /\ p.target_duration = T
  /\ p.ts_map = SubSeq(u, 1, i) /\ p.cur_inf_duration = 0

LEMMA ReadsPair ==
  ASSUME NEW url \in UrlTexts, NEW t \in Seq(Segments), NEW u, u = RereadOf(t), NEW T,
         NEW i \in 0 .. Len(t) - 1, NEW p \in Parsers, Reads(p, u, T, i),
         NEW q, q = ParseLine(p, url, Line("EXTINF", Printed(t[i + 1].duration))),
         NEW z, z = ParseLine(q, url, Path(t[i + 1].ts_url))
  PROVE  Reads(z, u, T, i + 1)
<1> DEFINE s == t[i + 1]
           w == u[i + 1]
           a == Line("EXTINF", Printed(s.duration))
           b == Path(s.ts_url)
<1>0. u \in Seq(Segments) /\ Len(u) = Len(t)
      /\ \A k \in 1 .. Len(t) : /\ u[k].ts_url = t[k].ts_url
                                /\ u[k].duration = Reread(t[k].duration)
  BY RereadSegments
<1>1. s \in Segments /\ w \in Segments /\ Len(t) \in Nat /\ i \in Nat /\ i + 1 \in 1 .. Len(t)
      /\ i + 1 \in 1 .. Len(u) /\ i \in 0 .. Len(u) - 1
  BY <1>0
<1>2. /\ s.duration \in Nat /\ s.ts_url \in Addresses /\ s.ts_url \in Named
      /\ w.duration \in Nat \ {0}
      /\ w = [ts_url |-> s.ts_url, duration |-> Reread(s.duration)]
  <2>1. w.ts_url = s.ts_url /\ w.duration = Reread(s.duration)
    BY <1>0, <1>1
  <2>2. w.duration \in Nat \ {0} /\ w = [ts_url |-> w.ts_url, duration |-> w.duration]
    BY <1>1 DEF Segments
  <2>3. s.duration \in Nat /\ s.ts_url \in Named
    BY <1>1 DEF Segments
  <2> HIDE DEF w, s
  <2> QED BY <2>1, <2>2, <2>3 DEF Named
<1> HIDE DEF s, w
<1>3. a.tag = "EXTINF" /\ a.value = Printed(s.duration) /\ b.tag = "ts" /\ b.path = s.ts_url
      /\ IsLine(a) /\ IsLine(b)
  <2>1. Printed(s.duration) \in Nat
    <3>1. PICK d \in Int : d = s.duration
      BY <1>2
    <3> QED BY <3>1, PrintedIs
  <2>2. a.tag = "EXTINF" /\ a.value = Printed(s.duration) /\ IsLine(a)
    BY <2>1 DEF Line, IsLine
  <2>3. b.tag = "ts" /\ b.path = s.ts_url /\ IsLine(b)
    BY <1>2 DEF Path, IsLine
  <2> QED BY <2>2, <2>3
<1>4. q = ParseLine(p, url, a) /\ z = ParseLine(q, url, b)
  BY DEF s
<1> HIDE DEF a, b
<1>5. q \in Parsers /\ LineDone(p, q, url, a)
  BY <1>3, <1>4, LineDoes DEF Reads
<1>6. ~Complete(p, a)
  BY <1>3 DEF Complete
<1>7. /\ q.ok /\ q.is_live /\ q.target_duration = T /\ q.cur_inf_duration = w.duration
      /\ q.ts_map = SubSeq(u, 1, i) \o <<>>
  <2>1. w.duration = Float(Printed(s.duration))
    BY <1>2 DEF Reread
  <2> QED BY <1>3, <1>5, <1>6, <2>1 DEF LineDone, Reads, DurationBehind, SegmentTaken, Announced
<1>8. LineDone(q, z, url, b)
  BY <1>3, <1>4, <1>5, <1>7, LineDoes
<1>9. Complete(q, b)
  BY <1>2, <1>3, <1>7 DEF Complete
<1>10. SegmentOf(q, url, b.path) = w
  <2>1. join_ts_url(url, b.path) = s.ts_url
    BY <1>2, <1>3, JoinLeaves
  <2>2. w.duration = Reread(s.duration)
    BY <1>2
  <2> QED BY <1>2, <1>7, <2>1, <2>2, Zenon DEF SegmentOf
<1>11. /\ z.ok /\ z.is_live /\ z.target_duration = T /\ z.cur_inf_duration = 0
       /\ z.ts_map = (SubSeq(u, 1, i) \o <<>>) \o <<w>>
  BY <1>3, <1>7, <1>8, <1>9, <1>10 DEF LineDone, DurationBehind, SegmentTaken, Announced
<1>12. (SubSeq(u, 1, i) \o <<>>) \o <<u[i + 1]>> = SubSeq(u, 1, i + 1)
  <2>1. SubSeq(u, 1, i) \in Seq(Segments) /\ Len(SubSeq(u, 1, i)) = i
        /\ SubSeq(u, 1, i + 1) \in Seq(Segments) /\ Len(SubSeq(u, 1, i + 1)) = i + 1
        /\ (\A j \in 1 .. i : SubSeq(u, 1, i)[j] = u[j])
        /\ (\A j \in 1 .. i + 1 : SubSeq(u, 1, i + 1)[j] = u[j])
    BY <1>0, <1>1
  <2> DEFINE x == SubSeq(u, 1, i)
             y == SubSeq(u, 1, i + 1)
             v == x \o <<u[i + 1]>>
  <2>2. x \o <<>> = x
    BY <2>1, EmptyConcat
  <2> HIDE DEF x, y
  <2>3. x \in Seq(Segments) /\ Len(x) = i /\ <<u[i + 1]>> \in Seq(Segments) /\ Len(<<u[i + 1]>>) = 1
    BY <2>1, <1>1 DEF x
  <2>4. v \in Seq(Segments) /\ Len(v) = i + 1
        /\ \A j \in 1 .. i + 1 : v[j] = IF j <= i THEN x[j] ELSE <<u[i + 1]>>[j - i]
    BY <2>3, ConcatProperties
  <2>5. \A j \in 1 .. i + 1 : v[j] = y[j]
    <3>1. \A j \in 1 .. i + 1 : (j <= i /\ j \in 1 .. i) \/ (j = i + 1 /\ ~(j <= i) /\ j - i = 1)
      BY <1>1
    <3> QED BY <2>1, <2>4, <3>1 DEF x, y
  <2>6. v = y
    BY <2>1, <2>4, <2>5, SameElements DEF y
  <2> QED BY <2>2, <2>6 DEF x, y
<1> QED BY <1>11, <1>12 DEF Reads, w

(* The merged playlist is read as what it was made of. *)
LEMMA MergedParsed ==
  ASSUME NEW url \in UrlTexts, NEW t \in Seq(Segments), NEW u, u = RereadOf(t), NEW T \in Nat,
         NEW p, p = Parse(url, MergedOf(t, T))
  PROVE  /\ p \in Parsers /\ p.ok /\ ~p.is_live /\ p.ts_map = u /\ p.target_duration = Float(T)
<1> DEFINE c == MergedOf(t, T)
           m == Len(t)
           len == 2 * m
           b == [EmptyParser EXCEPT !.ok = c # <<>>]
<1>1. m \in Nat /\ len \in Nat
  OBVIOUS
<1>u. u \in Seq(Segments) /\ Len(u) = m
  BY RereadSegments
<1>2. /\ IsPlaylist(c) /\ Len(c) = len + 5
      /\ c[1] = Line("EXTM3U", 0) /\ c[2] = Line("VERSION", 3)
      /\ c[3] = Line("TARGETDURATION", T) /\ c[4] = Line("MEDIA-SEQUENCE", 0)
      /\ \A i \in 1 .. m : /\ c[2 * i + 3] = Line("EXTINF", Printed(t[i].duration))
                           /\ c[2 * i + 4] = Path(t[i].ts_url)
      /\ c[len + 5] = Line("ENDLIST", 0)
  <2> HIDE DEF c
  <2>1. c = MergedOf(t, T)
    BY DEF c
  <2> QED BY <2>1, MergedLines
<1>3. p = FoldLeft(LAMBDA q, line : ParseLine(q, url, line), b, c)
  BY DEF Parse
<1> HIDE DEF c
<1>4. c # <<>>
  BY <1>1, <1>2
<1>5. b \in Parsers /\ b.ok /\ b.is_live /\ b.ts_map = <<>> /\ b.cur_inf_duration = 0
  <2>1. <<>> \in Seq(Segments) /\ (c # <<>>) \in BOOLEAN /\ 0 \in Nat /\ TRUE \in BOOLEAN
    OBVIOUS
  <2> QED BY <1>4, <2>1, NoFloat DEF EmptyParser, Parsers
<1> HIDE DEF b
<1>6. PICK r : Runs(r, b, url, c) /\ p = r[len + 5]
  <2> HIDE DEF len
  <2> QED BY <1>2, <1>3, <1>5, ParseRuns
<1>7. /\ \A k \in 0 .. len + 5 : r[k] \in Parsers
      /\ r[0] = b /\ \A k \in 0 .. len + 4 : r[k + 1] = ParseLine(r[k], url, c[k + 1])
  <2>1. (len + 5) - 1 = len + 4
    BY <1>1
  <2> QED BY <1>2, <1>6, <2>1 DEF Runs
<1>8. ASSUME NEW k \in 0 .. len + 4, r[k].ok, c[k + 1].tag # "STREAM-INF"
      PROVE  r[k + 1] \in Parsers /\ LineDone(r[k], r[k + 1], url, c[k + 1])
  <2>1. k \in 0 .. len + 5 /\ k + 1 \in 1 .. len + 5
    BY <1>1
  <2>2. IsLine(c[k + 1])
    BY <1>2, <2>1 DEF IsPlaylist
  <2> QED BY <1>7, <1>8, <2>1, <2>2, LineDoes
(* A line that is no segment's. *)
<1>9. ASSUME NEW k \in 0 .. len + 4, r[k].ok, c[k + 1].tag \notin {"STREAM-INF", "EXTINF", "ts"}
      PROVE  /\ r[k + 1] \in Parsers /\ r[k + 1].ok
             /\ r[k + 1].cur_inf_duration = r[k].cur_inf_duration
             /\ r[k + 1].ts_map = r[k].ts_map
             /\ r[k + 1].is_live = (r[k].is_live /\ c[k + 1].tag # "ENDLIST")
             /\ r[k + 1].target_duration = IF c[k + 1].tag = "TARGETDURATION" THEN Float(c[k + 1].value)
                                           ELSE r[k].target_duration
  <2>2. r[k + 1] \in Parsers /\ LineDone(r[k], r[k + 1], url, c[k + 1])
    BY <1>8, <1>9
  <2>3. k \in 0 .. len + 5
    BY <1>1
  <2>4. r[k].ts_map \o <<>> = r[k].ts_map
    BY <1>7, <2>3, EmptyConcat DEF Parsers
  <2>5. ~Complete(r[k], c[k + 1])
    BY <1>9 DEF Complete
  <2> QED BY <1>9, <2>2, <2>4, <2>5 DEF LineDone, DurationBehind, SegmentTaken, Announced
<1>a. /\ c[1].tag = "EXTM3U" /\ c[2].tag = "VERSION" /\ c[4].tag = "MEDIA-SEQUENCE"
      /\ c[3].tag = "TARGETDURATION" /\ c[3].value = T /\ c[len + 5].tag = "ENDLIST"
  BY <1>2 DEF Line
<1>b. ASSUME NEW k \in 0 .. len + 4, NEW j, j = k + 1, r[k].ok,
             c[j].tag \notin {"STREAM-INF", "EXTINF", "ts"}, r[k].is_live, c[j].tag # "ENDLIST",
             r[k].cur_inf_duration = 0, r[k].ts_map = <<>>
      PROVE  /\ r[j].ok /\ r[j].cur_inf_duration = 0 /\ r[j].ts_map = <<>> /\ r[j].is_live
             /\ r[j].target_duration = IF c[j].tag = "TARGETDURATION" THEN Float(c[j].value)
                                       ELSE r[k].target_duration
  <2> HIDE DEF len
  <2> QED BY <1>9, <1>b
<1>10. Reads(r[4], u, Float(T), 0)
  <2>1. 0 \in 0 .. len + 4 /\ 1 \in 0 .. len + 4 /\ 2 \in 0 .. len + 4 /\ 3 \in 0 .. len + 4
        /\ 0 + 1 = 1 /\ 1 + 1 = 2 /\ 2 + 1 = 3 /\ 3 + 1 = 4
    BY <1>1
  <2> HIDE DEF len, m
  <2>2. r[1].ok /\ r[1].cur_inf_duration = 0 /\ r[1].ts_map = <<>> /\ r[1].is_live
    BY <1>5, <1>7, <1>b, <1>a, <2>1
  <2>3. r[2].ok /\ r[2].cur_inf_duration = 0 /\ r[2].ts_map = <<>> /\ r[2].is_live
    BY <1>b, <1>a, <2>1, <2>2
  <2>4. r[3].ok /\ r[3].cur_inf_duration = 0 /\ r[3].ts_map = <<>> /\ r[3].is_live
        /\ r[3].target_duration = Float(T)
    BY <1>b, <1>a, <2>1, <2>3
  <2>5. r[4].ok /\ r[4].cur_inf_duration = 0 /\ r[4].ts_map = <<>> /\ r[4].is_live
        /\ r[4].target_duration = Float(T)
    BY <1>b, <1>a, <2>1, <2>4
  <2>6. SubSeq(u, 1, 0) = <<>>
    BY <1>u
  <2> QED BY <2>5, <2>6 DEF Reads
<1> DEFINE G == {i \in 0 .. m : Reads(r[2 * i + 4], u, Float(T), i)}
<1>11. 0 \in G
  <2>1. 2 * 0 + 4 = 4 /\ 0 \in 0 .. m
    BY <1>1
  <2> QED BY <1>10, <2>1
<1>12. ASSUME NEW i \in 0 .. m - 1, i \in G PROVE i + 1 \in G
  <2>1. PICK k \in Nat : k = 2 * i + 4
    BY <1>1
  <2>2. /\ k \in 0 .. len + 4 /\ k + 1 \in 0 .. len + 4 /\ k \in 0 .. len + 5 /\ k + 1 \in 0 .. len + 5
        /\ 2 * (i + 1) + 3 = k + 1 /\ 2 * (i + 1) + 4 = k + 2 /\ (k + 1) + 1 = k + 2
        /\ i + 1 \in 1 .. m /\ i + 1 \in 0 .. m
    BY <1>1, <2>1
  <2>3. c[k + 1] = Line("EXTINF", Printed(t[i + 1].duration)) /\ c[k + 2] = Path(t[i + 1].ts_url)
    BY <1>2, <2>2
  <2>4. /\ r[k] \in Parsers
        /\ r[k + 1] = ParseLine(r[k], url, Line("EXTINF", Printed(t[i + 1].duration)))
        /\ r[k + 2] = ParseLine(r[k + 1], url, Path(t[i + 1].ts_url))
    BY <1>7, <2>2, <2>3
  <2>5. Reads(r[k], u, Float(T), i)
    BY <1>12, <2>1
  <2>6. Reads(r[k + 2], u, Float(T), i + 1)
    BY <2>4, <2>5, ReadsPair
  <2> QED BY <2>2, <2>6
<1>13. \A i \in 0 .. m : i \in G
  <2> HIDE DEF G, m
  <2> QED BY <1>1, <1>11, <1>12, CountUp
<1>14. Reads(r[len + 4], u, Float(T), m)
  BY <1>1, <1>13
<1>15. SubSeq(u, 1, m) = u
  BY <1>u
<1>16. len + 4 \in 0 .. len + 4 /\ (len + 4) + 1 = len + 5
  BY <1>1
<1>17. /\ r[len + 5] \in Parsers /\ r[len + 5].ok /\ r[len + 5].ts_map = u /\ ~r[len + 5].is_live
       /\ r[len + 5].target_duration = Float(T)
  <2>1. PICK k : k = len + 4
    OBVIOUS
  <2>2. k \in 0 .. len + 4 /\ k + 1 = len + 5
    BY <1>16, <2>1
  <2>3. Reads(r[k], u, Float(T), m)
    BY <1>14, <2>1
  <2>4. c[k + 1].tag = "ENDLIST"
    BY <1>a, <2>2
  <2> HIDE DEF len, m
  <2> QED BY <1>9, <1>15, <2>2, <2>3, <2>4 DEF Reads
<1> QED BY <1>6, <1>17

ContentsInv ==
  /\ contents \in Seq(Seq(Lines)) /\ contents # <<>>
  /\ Len(contents) <= MaxPlaylists

LEMMA LinesAre ==
  ASSUME NEW c \in Seq(Lines)
  PROVE  IsPlaylist(c)
<1>1. ASSUME NEW l \in Lines PROVE IsLine(l)
  <2>1. CASE l.tag = "ts"
    <3>1. l.path \in Seq(STRING) /\ l.path # <<>>
      BY <2>1, PlaylistAssumption
    <3>2. l.path \in Seq(Names)
      BY <3>1, NamesAre, Zenon
    <3> QED BY <3>1, <3>2, PlaylistAssumption DEF IsLine, Addresses
  <2>2. CASE l.tag # "ts"
    BY <2>2, PlaylistAssumption DEF IsLine
  <2> QED BY <2>1, <2>2
<1>2. Len(c) \in Nat /\ DOMAIN c = 1 .. Len(c) /\ \A i \in 1 .. Len(c) : c[i] \in Lines
  OBVIOUS
<1> QED BY <1>1, <1>2 DEF IsPlaylist

ParsedContents == [i \in DOMAIN contents |-> Parse(Url(i), contents[i])]
AllSegments == FlattenSeq([i \in DOMAIN ParsedContents |-> ParsedContents[i].ts_map])

LEMMA ParsedAre ==
  ASSUME ContentsInv
  PROVE  /\ AreParsed(ParsedContents) /\ Len(ParsedContents) = Len(contents)
         /\ Len(contents) \in Nat /\ DOMAIN contents = 1 .. Len(contents)
         /\ 1 \in DOMAIN Urls
         /\ \A i \in 1 .. Len(contents) :
              /\ ParsedContents[i] \in Parsers
              /\ ParsedContents[i].ok => /\ ParsedContents[i].ts_map = SegmentsOf(Urls[i], contents[i])
                                         /\ Covers(ParsedContents[i])
<1> DEFINE P(i) == Parse(Url(i), contents[i])
<1>1. Len(contents) \in Nat /\ DOMAIN contents = 1 .. Len(contents)
      /\ \A i \in 1 .. Len(contents) : contents[i] \in Seq(Lines)
  BY DEF ContentsInv
<1>0. 1 \in DOMAIN Urls /\ \A i \in 1 .. Len(contents) : i \in DOMAIN Urls
  <2>1. MaxPlaylists \in 1 .. Len(Urls) /\ Len(contents) <= MaxPlaylists
    BY PlaylistAssumption DEF ContentsInv
  <2>2. \A S : \A t \in Seq(S) : Len(t) \in Nat /\ DOMAIN t = 1 .. Len(t)
    OBVIOUS
  <2>3. Len(Urls) \in Nat /\ DOMAIN Urls = 1 .. Len(Urls)
    BY <2>2, PlaylistAssumption, Zenon
  <2> QED BY <1>1, <2>1, <2>3
<1>2. ASSUME NEW i \in 1 .. Len(contents)
      PROVE  P(i) \in Parsers
             /\ (P(i).ok => P(i).ts_map = SegmentsOf(Urls[i], contents[i]) /\ Covers(P(i)))
  <2>1. IsPlaylist(contents[i]) /\ i \in DOMAIN Urls
    BY <1>0, <1>1, LinesAre
  <2> QED BY <2>1, ParseFinds
<1>3. ParsedContents = [i \in 1 .. Len(contents) |-> P(i)]
  BY <1>1 DEF ParsedContents
<1> HIDE DEF P
<1>4. /\ Len(ParsedContents) = Len(contents) /\ DOMAIN ParsedContents = 1 .. Len(contents)
      /\ \A i \in 1 .. Len(contents) : ParsedContents[i] = P(i)
  BY <1>1, <1>3
<1> QED BY <1>0, <1>1, <1>2, <1>4 DEF AreParsed

LEMMA SegmentsAre ==
  ASSUME ContentsInv
  PROVE  /\ AllSegments \in Seq(Segments)
         /\ (\A i \in 1 .. Len(contents) : ParsedContents[i].ok) =>
              /\ AllSegments = FlattenSeq([i \in DOMAIN contents |-> SegmentsOf(Urls[i], contents[i])])
              /\ \A j \in 1 .. Len(AllSegments) : AllSegments[j].duration <= Target(ParsedContents)
<1> DEFINE len == Len(contents)
           s == [i \in DOMAIN ParsedContents |-> ParsedContents[i].ts_map]
           T == Target(ParsedContents)
           D == {x \in Segments : x.duration <= T}
<1>1. /\ len \in Nat /\ DOMAIN contents = 1 .. len /\ DOMAIN ParsedContents = 1 .. len
      /\ \A i \in 1 .. len : ParsedContents[i] \in Parsers
  BY ParsedAre DEF AreParsed
<1>2. s = [i \in 1 .. len |-> ParsedContents[i].ts_map]
      /\ \A i \in 1 .. len : ParsedContents[i].ts_map \in Seq(Segments)
  BY <1>1 DEF Parsers
<1>3. s \in Seq(Seq(Segments))
  <2> HIDE DEF len
  <2>1. s \in [1 .. len -> Seq(Segments)]
    BY <1>2
  <2> HIDE DEF s
  <2> QED BY <1>1, <2>1
<1>4. AllSegments = FlattenSeq(s)
  BY DEF AllSegments
<1>5. AllSegments \in Seq(Segments)
  <2> HIDE DEF s
  <2> QED BY <1>3, <1>4, FlattenType
<1>6. ASSUME \A i \in 1 .. len : ParsedContents[i].ok
      PROVE  /\ AllSegments = FlattenSeq([i \in DOMAIN contents |-> SegmentsOf(Urls[i], contents[i])])
             /\ \A j \in 1 .. Len(AllSegments) : AllSegments[j].duration <= T
  <2>1. \A i \in 1 .. len : ParsedContents[i].ts_map = SegmentsOf(Urls[i], contents[i])
    BY <1>6, ParsedAre
  <2>2. s = [i \in DOMAIN contents |-> SegmentsOf(Urls[i], contents[i])]
    <3> HIDE DEF len
    <3> QED BY <1>1, <1>2, <2>1
  <2>3. ASSUME NEW i \in 1 .. len PROVE ParsedContents[i].ts_map \in Seq(D)
    <3> DEFINE p == ParsedContents[i]
    <3>1. T \in Nat /\ p.max_duration <= T /\ Covers(p) /\ p \in Parsers
      BY <1>6, ParsedAre, TargetIs
    <3> HIDE DEF p, T
    <3>2. p.ts_map \in Seq(Segments) /\ p.max_duration \in Nat
      BY <3>1 DEF Parsers
    <3> DEFINE t == p.ts_map
    <3>3. \A j \in 1 .. Len(t) : t[j] \in Segments /\ t[j].duration <= p.max_duration
      BY <3>1, <3>2 DEF Covers
    <3>4. \A x \in Segments : x.duration \in Nat
      BY DEF Segments
    <3>5. \A j \in 1 .. Len(t) : t[j] \in D
      BY <3>1, <3>2, <3>3, <3>4
    <3> HIDE DEF D
    <3>6. t \in Seq(Segments) /\ t \in [1 .. Len(t) -> Segments] /\ Len(t) \in Nat
      BY <3>2
    <3> HIDE DEF t
    <3>7. t \in Seq(D)
      BY <3>5, <3>6
    <3> QED BY <3>7 DEF t, p
  <2>4. s \in Seq(Seq(D))
    <3> HIDE DEF len, D
    <3>1. s \in [1 .. len -> Seq(D)]
      BY <1>2, <2>3
    <3> HIDE DEF s
    <3> QED BY <1>1, <3>1
  <2>5. AllSegments \in Seq(D)
    <3> HIDE DEF s, D
    <3> QED BY <1>4, <2>4, FlattenType
  <2>6. \A j \in 1 .. Len(AllSegments) : AllSegments[j] \in D
    <3> HIDE DEF D
    <3> QED BY <2>5
  <2> QED BY <1>4, <2>2, <2>6
<1> QED BY <1>5, <1>6

LEMMA MergeIs ==
  ASSUME ContentsInv
  PROVE  \/ merge_m3u8_content(contents) = <<>>
         \/ /\ \A i \in 1 .. Len(contents) : ParsedContents[i].ok
            /\ merge_m3u8_content(contents) = MergedOf(AllSegments, Printed(Target(ParsedContents)))
<1> DEFINE bad == \E i \in DOMAIN ParsedContents :
                    ~ParsedContents[i].ok \/ ParsedContents[i].ts_map = <<>>
<1>1. merge_m3u8_content(contents) =
        IF bad THEN <<>>
        ELSE <<Line("EXTM3U", 0), Line("VERSION", 3),
               Line("TARGETDURATION", Printed(Target(ParsedContents))), Line("MEDIA-SEQUENCE", 0)>>
             \o FlattenSeq([i \in DOMAIN AllSegments |->
                  <<Line("EXTINF", Printed(AllSegments[i].duration)), Path(AllSegments[i].ts_url)>>])
             \o <<Line("ENDLIST", 0)>>
  BY DEF merge_m3u8_content, AllSegments, ParsedContents
<1>2. DOMAIN AllSegments = 1 .. Len(AllSegments)
  BY SegmentsAre
<1>3. FlattenSeq([i \in DOMAIN AllSegments |->
        <<Line("EXTINF", Printed(AllSegments[i].duration)), Path(AllSegments[i].ts_url)>>])
      = Pairs(AllSegments, Len(AllSegments))
  BY <1>2 DEF Pairs, PairOf
<1>4. DOMAIN ParsedContents = 1 .. Len(contents)
  BY ParsedAre DEF AreParsed
<1>5. ~bad => \A i \in 1 .. Len(contents) : ParsedContents[i].ok
  BY <1>4
<1> HIDE DEF bad
<1>6. ~bad => merge_m3u8_content(contents) = MergedOf(AllSegments, Printed(Target(ParsedContents)))
  BY <1>1, <1>3, Zenon DEF MergedOf
<1>7. bad => merge_m3u8_content(contents) = <<>>
  BY <1>1, Zenon
<1> QED BY <1>5, <1>6, <1>7

LEMMA NothingParsed ==
  ASSUME NEW url \in UrlTexts, NEW c, c = <<>>
  PROVE  Parse(url, c).ts_map = <<>>
<1> DEFINE b == [EmptyParser EXCEPT !.ok = c # <<>>]
<1>1. Parse(url, c) = FoldLeft(LAMBDA q, line : ParseLine(q, url, line), b, c)
  BY DEF Parse
<1>2. b \in Parsers /\ b.ts_map = <<>>
  <2>1. <<>> \in Seq(Segments) /\ (c # <<>>) \in BOOLEAN /\ 0 \in Nat /\ TRUE \in BOOLEAN
    OBVIOUS
  <2> QED BY <2>1, NoFloat DEF EmptyParser, Parsers
<1>3. IsPlaylist(c) /\ Len(c) = 0 /\ 0 \in Nat
  BY DEF IsPlaylist
<1> HIDE DEF b
<1>4. PICK r : Runs(r, b, url, c) /\ Parse(url, c) = r[Len(c)]
  <2>1. \E r : Runs(r, b, url, c)
               /\ FoldLeft(LAMBDA q, line : ParseLine(q, url, line), b, c) = r[Len(c)]
    BY ONLY url \in UrlTexts, <1>2, <1>3, ParseRuns
  <2> QED BY <1>1, <2>1
<1>5. Parse(url, c) = b
  BY <1>3, <1>4 DEF Runs
<1> QED BY <1>2, <1>5

LEMMA MergedRead ==
  ASSUME ContentsInv
  PROVE  MergedIsRead /\ TargetCovers
<1> DEFINE merged == merge_m3u8_content(contents)
           T == Target(ParsedContents)
           t == AllSegments
           u == RereadOf(t)
<1>0. 1 \in DOMAIN Urls /\ Url(1) \in UrlTexts
  BY ParsedAre DEF UrlTexts
<1>1. CASE merged = <<>>
  <2>1. Parse(Url(1), merged).ts_map = <<>>
    BY <1>0, <1>1, NothingParsed
  <2>2. \A i \in DOMAIN Parse(Url(1), merged).ts_map :
          Parse(Url(1), merged).ts_map[i].duration <= Parse(Url(1), merged).target_duration
    BY <2>1
  <2> QED BY <1>1, <2>2 DEF MergedIsRead, TargetCovers
<1>2. CASE merged # <<>>
  <2>1. (\A i \in 1 .. Len(contents) : ParsedContents[i].ok) /\ merged = MergedOf(t, Printed(T))
    BY <1>2, MergeIs
  <2>2. T \in Nat /\ t \in Seq(Segments) /\ Printed(T) \in Nat
    BY ParsedAre, TargetIs, SegmentsAre, PrintedIs
  <2>3. ASSUME NEW home \in DOMAIN Urls, NEW again, again = Parse(Url(home), merged)
        PROVE  again.ok /\ ~again.is_live /\ again.ts_map = u /\ again.target_duration = Reread(T)
    <3>1. PICK url \in UrlTexts : url = Url(home)
      BY DEF UrlTexts
    <3> HIDE DEF merged, t, T
    <3>2. again = Parse(url, MergedOf(t, Printed(T)))
      BY <2>1, <2>3, <3>1
    <3> HIDE DEF u
    <3>3. u = RereadOf(t)
      BY DEF u
    <3> QED BY <2>2, <3>2, <3>3, MergedParsed DEF Reread
  <2>4. t = FlattenSeq([i \in DOMAIN contents |-> SegmentsOf(Urls[i], contents[i])])
        /\ \A j \in 1 .. Len(t) : t[j].duration <= T
    BY <2>1, SegmentsAre
  <2> HIDE DEF t, T, u
  <2>5. /\ u \in Seq(Segments) /\ Len(u) = Len(t) /\ DOMAIN t = 1 .. Len(t) /\ DOMAIN u = 1 .. Len(t)
        /\ \A i \in 1 .. Len(t) : /\ u[i].ts_url = t[i].ts_url
                                  /\ u[i].duration = Reread(t[i].duration)
                                  /\ Rewritten(t[i].duration, u[i].duration)
                                  /\ u[i].duration > 0
    <3>1. u = RereadOf(t)
      BY DEF u
    <3> QED BY <2>2, <3>1, RereadSegments
  <2>6. MergedIsRead
    <3> SUFFICES ASSUME NEW home \in DOMAIN Urls
                 PROVE  LET again == Parse(Url(home), merged)
                        IN  /\ again.ok /\ ~again.is_live /\ Len(again.ts_map) = Len(t)
                            /\ \A i \in DOMAIN t :
                                 /\ again.ts_map[i].ts_url = t[i].ts_url
                                 /\ Rewritten(t[i].duration, again.ts_map[i].duration)
                                 /\ again.ts_map[i].duration > 0
      BY <2>4, Zenon DEF MergedIsRead
    <3>1. PICK again : again = Parse(Url(home), merged)
      OBVIOUS
    <3>2. again.ok /\ ~again.is_live /\ again.ts_map = u
      BY <2>3, <3>1
    <3> QED BY <2>5, <3>1, <3>2
  <2>7. ASSUME NEW i \in 1 .. Len(t) PROVE u[i].duration <= Reread(T)
    <3>1. t[i].duration \in Nat
      <4>1. t[i] \in Segments
        BY <2>2
      <4> QED BY <4>1 DEF Segments
    <3> QED BY <2>2, <2>4, <2>5, <3>1, RereadKeepsOrder
  <2>8. TargetCovers
    <3>1. PICK again : again = Parse(Url(1), merged)
      OBVIOUS
    <3>2. again.ts_map = u /\ again.target_duration = Reread(T)
      BY <1>0, <2>3, <3>1
    <3> QED BY <2>5, <2>7, <3>1, <3>2 DEF TargetCovers
  <2> QED BY <2>6, <2>8
<1> QED BY <1>1, <1>2

(* The time that has passed behind each segment: as it is, and as floats    *)
(* have it.                                                                 *)
SumsOf(e, t, G) ==
  /\ e[0] = 0 /\ \A k \in 0 .. Len(t) : e[k] \in Nat
  /\ \A k \in 0 .. Len(t) - 1 : e[k + 1] = G[e[k] + t[k + 1].duration]

Exactly == [x \in Nat |-> x]
Floated == [x \in Nat |-> Float(x)]

LEMMA SumsExist ==
  ASSUME NEW t \in Seq(Segments), NEW G \in [Nat -> Nat]
  PROVE  \E e : e = [k \in 0 .. Len(t) |-> e[k]] /\ SumsOf(e, t, G)
<1>a. PICK len : len = Len(t)
  OBVIOUS
<1> DEFINE F == [k \in Nat |-> [v \in Nat |-> IF k + 1 \in 1 .. len THEN G[v + t[k + 1].duration] ELSE v]]
<1>l. len \in Nat
  BY <1>a
<1>0. \A i \in 1 .. len : t[i].duration \in Nat
  <2>1. len \in Nat /\ \A i \in 1 .. len : t[i] \in Segments
    BY <1>a
  <2>2. \A x \in Segments : x.duration \in Nat
    BY DEF Segments
  <2> QED BY <2>1, <2>2
<1>1. F \in [Nat -> [Nat -> Nat]] /\ 0 \in Nat
  <2>1. ASSUME NEW k \in Nat, NEW v \in Nat
        PROVE  (IF k + 1 \in 1 .. len THEN G[v + t[k + 1].duration] ELSE v) \in Nat
    <3>1. CASE k + 1 \in 1 .. len
      <4>1. v + t[k + 1].duration \in Nat
        <5>1. PICK d \in Nat : d = t[k + 1].duration
          BY <1>0, <3>1
        <5>2. v + d \in Nat
          OBVIOUS
        <5> QED BY <5>1, <5>2, Zenon
      <4> QED BY <3>1, <4>1
    <3> QED BY <3>1
  <2> QED BY <2>1
<1>2. \A k \in Nat, v \in Nat : k + 1 \in 1 .. len => F[k][v] = G[v + t[k + 1].duration]
  OBVIOUS
<1> HIDE DEF F
<1>3. PICK f \in [Nat -> Nat] : Iterates(f, 0, F)
  BY <1>1, PrimitiveRecursion
<1> DEFINE e == [k \in 0 .. len |-> f[k]]
<1>4. ASSUME NEW k \in 0 .. len - 1 PROVE e[k + 1] = G[e[k] + t[k + 1].duration]
  <2>1. k \in Nat /\ k \in 0 .. len /\ k + 1 \in 0 .. len /\ k + 1 \in 1 .. len
    BY <1>l
  <2>2. f[k + 1] = F[k][f[k]] /\ f[k] \in Nat
    BY <1>3, <2>1 DEF Iterates
  <2>3. f[k + 1] = G[f[k] + t[k + 1].duration]
    BY <1>2, <2>1, <2>2
  <2> QED BY <2>1, <2>3
<1>5. e[0] = 0 /\ (\A k \in 0 .. len : e[k] \in Nat) /\ e = [k \in 0 .. len |-> e[k]]
  <2>1. e[0] = f[0] /\ \A k \in 0 .. len : e[k] = f[k] /\ k \in Nat
    BY <1>l
  <2>2. f[0] = 0 /\ \A k \in Nat : f[k] \in Nat
    BY <1>3 DEF Iterates
  <2>3. e = [k \in 0 .. len |-> e[k]]
    OBVIOUS
  <2> HIDE DEF e
  <2> QED BY <2>1, <2>2, <2>3
<1> HIDE DEF e
<1> QED BY <1>a, <1>4, <1>5 DEF SumsOf

EndsOf(e, t) == e = [k \in 0 .. Len(t) |-> IF k = 0 THEN 0 ELSE e[k - 1] + t[k].duration]

LEMMA EndsExist ==
  ASSUME NEW t \in Seq(Segments)
  PROVE  \E e : EndsOf(e, t)
<1>1. PICK e : e = [k \in 0 .. Len(t) |-> e[k]] /\ SumsOf(e, t, Exactly)
  <2>1. Exactly \in [Nat -> Nat]
    BY DEF Exactly
  <2> QED BY <2>1, SumsExist
<1>2. ASSUME NEW k \in 0 .. Len(t) PROVE e[k] = IF k = 0 THEN 0 ELSE e[k - 1] + t[k].duration
  <2>1. CASE k = 0
    BY <1>1, <2>1 DEF SumsOf
  <2>2. CASE k # 0
    <3>1. PICK j \in 0 .. Len(t) - 1 : k = j + 1 /\ j = k - 1
      BY <2>2
    <3>2. e[j + 1] = Exactly[e[j] + t[j + 1].duration] /\ e[j] \in Nat /\ t[j + 1] \in Segments
      BY <1>1, <3>1 DEF SumsOf
    <3>3. e[j] + t[j + 1].duration \in Nat
      BY <3>2 DEF Segments
    <3> QED BY <2>2, <3>1, <3>2, <3>3 DEF Exactly
  <2> QED BY <2>1, <2>2
<1>3. EndsOf(e, t)
  BY <1>1, <1>2 DEF EndsOf
<1> QED BY <1>3

LEMMA EndsAre ==
  ASSUME NEW t \in Seq(Segments), NEW e, EndsOf(e, t)
  PROVE  /\ e[0] = 0 /\ \A k \in 0 .. Len(t) - 1 : e[k + 1] = e[k] + t[k + 1].duration
         /\ \A k \in 0 .. Len(t) : e[k] \in Nat
<1>1. \A k \in 0 .. Len(t) : e[k] = IF k = 0 THEN 0 ELSE e[k - 1] + t[k].duration
  BY DEF EndsOf
<1>2. \A k \in 0 .. Len(t) - 1 : k + 1 \in 0 .. Len(t) /\ k + 1 # 0 /\ (k + 1) - 1 = k
  OBVIOUS
<1>3. 0 \in 0 .. Len(t)
  OBVIOUS
<1>4. \A k \in 0 .. Len(t) - 1 : e[k + 1] = e[k] + t[k + 1].duration
  BY <1>1, <1>2
<1> DEFINE G == {k \in 0 .. Len(t) : e[k] \in Nat}
           len == Len(t)
<1>5. ASSUME NEW k \in 0 .. len - 1, k \in G PROVE k + 1 \in G
  <2>1. t[k + 1] \in Segments /\ e[k] \in Nat
    BY <1>5
  <2>2. e[k] + t[k + 1].duration \in Nat
    BY <2>1 DEF Segments
  <2> QED BY <1>2, <1>4, <2>2
<1>6. 0 \in G /\ len \in Nat
  BY <1>1, <1>3
<1>7. \A k \in 0 .. len : k \in G
  <2> HIDE DEF G, len
  <2> QED BY <1>5, <1>6, CountUp
<1> QED BY <1>1, <1>3, <1>4, <1>7

(* Behind k segments floats have time f, and the sum of durations is e.     *)
FloatsOf(f, t) ==
  /\ \A k \in 0 .. Len(t) : f[k] \in FloatNumbers
  /\ f[0] = 0 /\ \A k \in 0 .. Len(t) - 1 : f[k + 1] = Float(f[k] + t[k + 1].duration)

LEMMA FloatsExist ==
  ASSUME NEW t \in Seq(Segments)
  PROVE  \E f : FloatsOf(f, t)
<1>1. Floated \in [Nat -> Nat] /\ \A x \in Nat : Floated[x] = Float(x) /\ Float(x) \in FloatNumbers
  BY FloatIs DEF Floated, FloatNumbers
<1>2. PICK f : SumsOf(f, t, Floated)
  BY <1>1, SumsExist
<1>3. ASSUME NEW k \in 0 .. Len(t) - 1
      PROVE  f[k + 1] = Float(f[k] + t[k + 1].duration) /\ f[k + 1] \in FloatNumbers
  <2>1. f[k + 1] = Floated[f[k] + t[k + 1].duration] /\ f[k] \in Nat /\ t[k + 1] \in Segments
    BY <1>2 DEF SumsOf
  <2>2. f[k] + t[k + 1].duration \in Nat
    BY <2>1 DEF Segments
  <2> QED BY <1>1, <2>1, <2>2
<1>4. ASSUME NEW k \in 0 .. Len(t) PROVE f[k] \in FloatNumbers
  <2>1. CASE k = 0
    BY <1>2, <2>1, NoFloat DEF SumsOf
  <2>2. CASE k # 0
    <3>1. PICK j \in 0 .. Len(t) - 1 : k = j + 1
      <4>1. k - 1 \in 0 .. Len(t) - 1 /\ k = (k - 1) + 1
        BY <2>2
      <4> QED BY <4>1
    <3> QED BY <1>3, <3>1
  <2> QED BY <2>1, <2>2
<1> QED BY <1>2, <1>3, <1>4 DEF FloatsOf, SumsOf

(* The time never goes back. *)
LEMMA FloatsGrow ==
  ASSUME NEW t \in Seq(Segments), NEW f, FloatsOf(f, t)
  PROVE  /\ \A k \in 0 .. Len(t) - 1 : f[k] <= f[k + 1]
         /\ \A k \in 0 .. Len(t) : \A i \in 0 .. k : f[i] <= f[k]
<1> DEFINE len == Len(t)
           G == {k \in 0 .. len : \A i \in 0 .. k : f[i] <= f[k]}
<1>0. len \in Nat /\ \A k \in 0 .. len : f[k] \in Nat /\ f[k] \in Floats
  BY DEF FloatsOf, FloatNumbers
<1>1. ASSUME NEW k \in 0 .. len - 1 PROVE f[k] <= f[k + 1]
  <2>1. PICK d \in Nat : d = t[k + 1].duration
    <3>1. t[k + 1] \in Segments
      OBVIOUS
    <3> QED BY <3>1 DEF Segments
  <2>2. PICK x \in Nat : x = f[k] /\ x \in Floats
    BY <1>0
  <2>3. Floats \in SUBSET Nat
    BY NumberAssumption
  <2>4. Float(x) = x
    BY <2>2, <2>3, NearestKeepsMembers DEF Float
  <2>5. Float(x) <= Float(x + d)
    <3>1. x + d \in Int /\ x \in Int /\ x <= x + d
      OBVIOUS
    <3> QED BY <3>1, FloatKeepsOrder
  <2>6. f[k + 1] = Float(x + d)
    BY <2>1, <2>2 DEF FloatsOf
  <2> QED BY <2>2, <2>4, <2>5, <2>6
<1>2. 0 \in G
  <2>1. 0 .. 0 = {0} /\ f[0] \in Nat
    BY <1>0
  <2> QED BY <1>0, <2>1
<1>3. ASSUME NEW k \in 0 .. len - 1, k \in G PROVE k + 1 \in G
  <2>1. k \in 0 .. len /\ k + 1 \in 0 .. len
    BY <1>0
  <2>2. f[k] \in Nat /\ f[k + 1] \in Nat /\ f[k] <= f[k + 1]
    BY <1>0, <1>1, <2>1
  <2>3. ASSUME NEW i \in 0 .. k + 1 PROVE f[i] <= f[k + 1]
    <3>1. CASE i = k + 1
      BY <2>2, <3>1
    <3>2. CASE i # k + 1
      <4>1. i \in 0 .. k /\ i \in 0 .. len
        BY <1>0, <3>2
      <4> QED BY <1>0, <1>3, <2>2, <4>1
    <3> QED BY <3>1, <3>2
  <2> QED BY <2>1, <2>3
<1>4. \A k \in 0 .. len : k \in G
  <2> HIDE DEF G, len
  <2> QED BY <1>0, <1>2, <1>3, CountUp
<1> QED BY <1>1, <1>4

(* While no time is beyond Horizon, the sums of floats drift by Err for     *)
(* each segment.                                                            *)
LEMMA FloatsDrift ==
  ASSUME NEW t \in Seq(Segments), NEW e, EndsOf(e, t), NEW f, FloatsOf(f, t)
  PROVE  \A k \in 0 .. Len(t) :
           e[k] + k * Err <= Horizon => /\ f[k] <= e[k] + k * Err
                                        /\ e[k] <= f[k] + k * Err
<1> DEFINE len == Len(t)
           D(k) == e[k] + k * Err <= Horizon => /\ f[k] <= e[k] + k * Err
                                                /\ e[k] <= f[k] + k * Err
           G == {k \in 0 .. len : D(k)}
<1>0. /\ len \in Nat /\ Err \in Nat /\ Horizon \in Nat
      /\ \A k \in 0 .. len : e[k] \in Nat /\ f[k] \in Nat
  BY NumberAssumption, EndsAre DEF FloatsOf, FloatNumbers
<1>1. 0 \in G
  <2>1. e[0] = 0 /\ f[0] = 0 /\ 0 * Err = 0 /\ 0 \in 0 .. len
    BY <1>0, EndsAre DEF FloatsOf
  <2> QED BY <2>1
<1>2. ASSUME NEW k \in 0 .. len - 1, k \in G PROVE k + 1 \in G
  <2>1. k \in 0 .. len /\ k + 1 \in 0 .. len /\ k \in Nat
    BY <1>0
  <2>2. PICK m \in Nat : m = k * Err
    BY <1>0, <2>1
  <2>3. (k + 1) * Err = m + Err
    BY <1>0, <2>1, <2>2
  <2>4. PICK d \in Nat : d = t[k + 1].duration
    <3>1. t[k + 1] \in Segments
      OBVIOUS
    <3> QED BY <3>1 DEF Segments
  <2>5. PICK a \in Nat, b \in Nat, x \in Nat, y \in Nat :
          a = e[k] /\ b = e[k + 1] /\ x = f[k] /\ y = f[k + 1]
    BY <1>0, <2>1
  <2>6. b = a + d /\ y = Float(x + d)
    BY <2>4, <2>5, EndsAre DEF FloatsOf
  <2>7. a + m <= Horizon => x <= a + m /\ a <= x + m
    BY <1>2, <2>2, <2>5
  <2>8. b + (m + Err) <= Horizon => y <= b + (m + Err) /\ b <= y + (m + Err)
    <3> SUFFICES ASSUME b + (m + Err) <= Horizon
                 PROVE  y <= b + (m + Err) /\ b <= y + (m + Err)
      OBVIOUS
    <3>1. x <= a + m /\ a <= x + m /\ x + d \in 0 .. Horizon
      BY <1>0, <2>6, <2>7
    <3>2. Distance(x + d, y) <= Err
      BY <2>6, <3>1, NumberAssumption
    <3> QED BY <1>0, <2>6, <3>1, <3>2 DEF Distance
  <2>9. D(k + 1)
    BY <2>3, <2>5, <2>8
  <2> QED BY <2>1, <2>9
<1>3. \A k \in 0 .. len : k \in G
  <2> HIDE DEF G, len
  <2> QED BY <1>0, <1>1, <1>2, CountUp
<1> QED BY <1>3

LEMMA AsFloatIs ==
  ASSUME NEW sec \in Int
  PROVE  /\ AsFloat(sec) \in Int /\ Unit * sec \in Int
         /\ Unit * sec <= Horizon => /\ AsFloat(sec) <= Unit * sec + Err
                                     /\ Unit * sec <= AsFloat(sec) + Err
<1>1. PICK z \in Int : z = Unit * sec /\ (sec >= 0 => z >= 0)
  BY NumberAssumption
<1>2. Float(z) \in Nat
  BY FloatIs DEF FloatNumbers
<1>3. CASE sec < 0
  BY <1>1, <1>3, NumberAssumption DEF AsFloat
<1>4. CASE ~(sec < 0)
  <2>1. AsFloat(sec) = Float(z) /\ z >= 0
    BY <1>1, <1>4 DEF AsFloat
  <2>2. z <= Horizon => Distance(z, Float(z)) <= Err
    BY <2>1, NumberAssumption
  <2> QED BY <1>1, <1>2, <2>1, <2>2, NumberAssumption DEF Distance
<1> QED BY <1>3, <1>4

Touching(t, f, start, end, k) ==
  IF f[k] >= AsFloat(start) /\ (end = -1 \/ f[k - 1] <= AsFloat(end)) THEN <<t[k]>> ELSE <<>>
TouchingBefore(t, f, start, end, k) == FlattenSeq([j \in 1 .. k |-> Touching(t, f, start, end, j)])

Takings == Nat \X Seq(Segments) \X BOOLEAN

LEMMA TakingIs ==
  ASSUME NEW a \in Nat, NEW u \in Seq(Segments), NEW z \in BOOLEAN, NEW y, y = <<a, u, z>>
  PROVE  y \in Takings /\ y[1] = a /\ y[2] = u /\ y[3] = z
  BY DEF Takings

(* What is taken behind k segments. *)
Taking(x, t, e, start, end, k) ==
  /\ x \in Takings
  /\ x[2] = TouchingBefore(t, e, start, end, k)
  /\ IF x[3] THEN end # -1 /\ e[k] > AsFloat(end) ELSE x[1] = e[k]

LEMMA TakeUntilIs ==
  ASSUME NEW x \in Takings, NEW s \in Segments, NEW start \in Int, NEW end \in Int,
         NEW y, y = TakeUntil(x, s, start, end)
  PROVE  /\ y \in Takings
         /\ IF x[3] \/ (end # -1 /\ x[1] > AsFloat(end))
            THEN y[1] = x[1] /\ y[2] = x[2] /\ y[3]
            ELSE /\ y[1] = Float(x[1] + s.duration) /\ ~y[3]
                 /\ y[2] = IF Float(x[1] + s.duration) < AsFloat(start) THEN x[2]
                           ELSE x[2] \o <<s>>
<1>1. x[1] \in Nat /\ x[2] \in Seq(Segments) /\ x[3] \in BOOLEAN /\ s.duration \in Nat
  BY DEF Takings, Segments
<1>2. PICK g \in Seq(Segments) : g = x[2]
  BY <1>1
<1>3. PICK a \in Nat : a = x[1]
  BY <1>1
<1>4. PICK h \in Seq(Segments) : h = Append(g, s) /\ h = g \o <<s>>
  <2>1. Append(g, s) \in Seq(Segments) /\ Append(g, s) = g \o <<s>>
    OBVIOUS
  <2> QED BY <2>1
<1>5. PICK b \in Nat : b = Float(a + s.duration)
  <2>1. PICK g1 \in Int : g1 = a + s.duration
    BY <1>1
  <2> QED BY <2>1, FloatIs DEF FloatNumbers
<1>6. CASE x[3] \/ (end # -1 /\ a > AsFloat(end))
  <2>1. y = <<a, g, TRUE>>
    BY <1>2, <1>3, <1>6 DEF TakeUntil
  <2>2. y \in Takings /\ y[1] = a /\ y[2] = g /\ y[3] = TRUE
    BY <2>1, TakingIs
  <2> QED BY <1>2, <1>3, <1>6, <2>2
<1>7. CASE ~(x[3] \/ (end # -1 /\ a > AsFloat(end))) /\ b < AsFloat(start)
  <2>0. PICK z \in BOOLEAN : z = FALSE
    OBVIOUS
  <2>1. y = <<b, g, z>>
    BY <1>2, <1>3, <1>5, <1>7, <2>0 DEF TakeUntil
  <2>2. y \in Takings /\ y[1] = b /\ y[2] = g /\ y[3] = z
    BY <2>1, TakingIs
  <2> QED BY <1>2, <1>3, <1>5, <1>7, <2>0, <2>2
<1>8. CASE ~(x[3] \/ (end # -1 /\ a > AsFloat(end))) /\ ~(b < AsFloat(start))
  <2>0. PICK z \in BOOLEAN : z = FALSE
    OBVIOUS
  <2>1. y = <<b, h, z>>
    BY <1>2, <1>3, <1>5, <1>4, <1>8, <2>0 DEF TakeUntil
  <2>2. y \in Takings /\ y[1] = b /\ y[2] = h /\ y[3] = z
    BY <2>1, TakingIs
  <2> QED BY <1>2, <1>3, <1>4, <1>5, <1>8, <2>0, <2>2
<1> QED BY <1>6, <1>7, <1>8

LEMMA TouchingIs ==
  ASSUME NEW t \in Seq(Segments), NEW e, NEW start, NEW end, NEW k \in 0 .. Len(t) - 1
  PROVE  TouchingBefore(t, e, start, end, k + 1)
           = TouchingBefore(t, e, start, end, k) \o Touching(t, e, start, end, k + 1)
<1> DEFINE S == Segments
           T(j) == Touching(t, e, start, end, j)
           s == [j \in 1 .. k + 1 |-> T(j)]
<1>1. k \in Nat /\ \A j \in 1 .. k + 1 : t[j] \in S
  OBVIOUS
<1>2. ASSUME NEW j \in 1 .. k + 1 PROVE T(j) \in Seq(S)
  <2>1. t[j] \in S
    BY <1>1
  <2>2. <<t[j]>> \in Seq(S) /\ <<>> \in Seq(S)
    BY <2>1
  <2> QED BY <2>2, Zenon DEF Touching
<1> HIDE DEF T, S
<1>3. s \in [1 .. k + 1 -> Seq(S)]
  BY <1>2
<1>4. s[k + 1] = T(k + 1) /\ [j \in 1 .. k |-> s[j]] = [j \in 1 .. k |-> T(j)]
  BY <1>1
<1>5. FlattenSeq(s) = FlattenSeq([j \in 1 .. k |-> s[j]]) \o s[k + 1]
  <2> HIDE DEF s
  <2> QED BY <1>1, <1>3, FlattenOneMore
<1> QED BY <1>4, <1>5 DEF TouchingBefore, T

LEMMA TakingStep ==
  ASSUME NEW t \in Seq(Segments), NEW e, FloatsOf(e, t), NEW start \in Int, NEW end \in Int,
         NEW k \in 0 .. Len(t) - 1, NEW x, Taking(x, t, e, start, end, k),
         NEW y, y = TakeUntil(x, t[k + 1], start, end)
  PROVE  Taking(y, t, e, start, end, k + 1)
<1> DEFINE s == t[k + 1]
           g == TouchingBefore(t, e, start, end, k)
           d == s.duration
           a == e[k]
           b == e[k + 1]
           from == AsFloat(start)
           to == AsFloat(end)
<1>1. s \in Segments
  OBVIOUS
<1>2. d \in Nat /\ from \in Int /\ to \in Int
  BY <1>1, AsFloatIs DEF Segments
<1>3. /\ x \in Takings /\ x[2] = g
      /\ (IF x[3] THEN end # -1 /\ a > to ELSE x[1] = a)
  BY DEF Taking
<1>4. b = Float(a + d) /\ a <= b /\ a \in Nat /\ b \in Nat
  <2>1. k \in 0 .. Len(t) /\ k + 1 \in 0 .. Len(t)
    OBVIOUS
  <2> QED BY <2>1, FloatsGrow DEF FloatsOf, FloatNumbers
<1>5. TouchingBefore(t, e, start, end, k + 1)
        = g \o (IF b >= from /\ (end = -1 \/ a <= to) THEN <<s>> ELSE <<>>)
  <2>1. (k + 1) - 1 = k
    OBVIOUS
  <2> QED BY <2>1, TouchingIs DEF Touching
<1> DEFINE f == TouchingBefore(t, e, start, end, k + 1)
<1> HIDE DEF f, g, s, d, a, b
<1>6. y = TakeUntil(x, s, start, end)
  BY DEF s
<1>7. g \in Seq(Segments) /\ g \o <<>> = g
  BY <1>3, EmptyConcat DEF Takings
<1>8. /\ y \in Takings
      /\ IF x[3] \/ (end # -1 /\ x[1] > to)
         THEN y[1] = x[1] /\ y[2] = g /\ y[3]
         ELSE /\ y[1] = Float(x[1] + d) /\ ~y[3]
              /\ y[2] = IF Float(x[1] + d) < from THEN g ELSE g \o <<s>>
  BY <1>1, <1>3, <1>6, TakeUntilIs DEF d
<1> HIDE DEF from, to
<1>9. CASE x[3] \/ (end # -1 /\ x[1] > to)
  <2>1. end # -1 /\ a > to
    BY <1>3, <1>9
  <2>2. TouchingBefore(t, e, start, end, k + 1) = g
    BY <1>2, <1>4, <1>5, <1>7, <2>1
  <2>3. b > to
    BY <1>2, <1>4, <2>1
  <2> QED BY <1>8, <1>9, <2>1, <2>2, <2>3 DEF Taking, b, to
<1>10. CASE ~(x[3] \/ (end # -1 /\ x[1] > to))
  <2>1. x[1] = a /\ (end = -1 \/ a <= to)
    BY <1>2, <1>3, <1>4, <1>10
  <2>2. y[1] = b /\ ~y[3] /\ y[2] = IF b < from THEN g ELSE g \o <<s>>
    BY <1>4, <1>8, <1>10, <2>1
  <2>3. b >= from <=> ~(b < from)
    BY <1>2, <1>4
  <2>4. TouchingBefore(t, e, start, end, k + 1) = IF b < from THEN g ELSE g \o <<s>>
    BY <1>5, <1>7, <2>1, <2>3
  <2> QED BY <1>8, <2>1, <2>2, <2>4 DEF Taking, b
<1> QED BY <1>9, <1>10

TakeFolds(f, t, start, end) ==
  f = [s \in SUBSET DOMAIN t |->
         IF s = {} THEN <<0, <<>>, FALSE>>
         ELSE TakeUntil(f[s \ {Max(s)}], t[Max(s)], start, end)]

(* The segments taken are the ones that touch the period as floats have it. *)
LEMMA TimegetTakes ==
  ASSUME NEW p, NEW t \in Seq(Segments), NEW e, NEW start \in Int, NEW end \in Int,
         p.ts_map = t, FloatsOf(e, t)
  PROVE  timeget_ts(p, start, end) = TouchingBefore(t, e, start, end, Len(t))
<1> DEFINE len == Len(t)
           V == Takings
           x0 == <<0, <<>>, FALSE>>
           F == [i \in 1 .. len |-> [x \in V |-> TakeUntil(x, t[i], start, end)]]
           w == CHOOSE f : f = [s \in SUBSET DOMAIN t |->
                  IF s = {} THEN <<0, <<>>, FALSE>>
                  ELSE TakeUntil(f[s \ {Max(s)}], t[Max(s)], start, end)]
<1>1. timeget_ts(p, start, end) = w[DOMAIN t][2]
  BY DEF timeget_ts, FoldLeft, MapThenFoldSet
<1>2. (\E f : TakeFolds(f, t, start, end)) => TakeFolds(w, t, start, end)
  BY DEF TakeFolds
<1> HIDE DEF w
<1>3. len \in Nat /\ DOMAIN t = 1 .. len /\ \A i \in 1 .. len : t[i] \in Segments
  OBVIOUS
<1>4. \A i \in 1 .. len, x \in V : TakeUntil(x, t[i], start, end) \in V
  BY <1>3, TakeUntilIs
<1>5. F \in [1 .. len -> [V -> V]]
      /\ \A i \in 1 .. len, x \in V : F[i][x] = TakeUntil(x, t[i], start, end)
  BY <1>4
<1> HIDE DEF F
<1>6. x0 \in V /\ x0[1] = 0 /\ x0[2] = <<>> /\ ~x0[3]
  <2>1. PICK a \in Nat, u \in Seq(Segments), z \in BOOLEAN : a = 0 /\ u = <<>> /\ z = FALSE
    <3>1. 0 \in Nat /\ <<>> \in Seq(Segments) /\ FALSE \in BOOLEAN
      OBVIOUS
    <3> QED BY <3>1, Zenon
  <2>2. x0 = <<a, u, z>>
    BY <2>1
  <2> HIDE DEF x0
  <2> QED BY <2>1, <2>2, TakingIs
<1> HIDE DEF V
<1>7. PICK h : FoldOf(h, len, x0, F, V)
  <2> HIDE DEF len, x0
  <2> QED BY <1>3, <1>5, <1>6, FoldExists
<1>8. TakeFolds(h, t, start, end)
  <2>0. h \in [SUBSET (1 .. len) -> V]
    BY <1>7 DEF FoldOf
  <2>1. ASSUME NEW s \in SUBSET (1 .. len)
        PROVE  h[s] = IF s = {} THEN x0 ELSE TakeUntil(h[s \ {Max(s)}], t[Max(s)], start, end)
    <3> HIDE DEF x0
    <3>1. h[s] = IF s = {} THEN x0 ELSE F[Max(s)][h[s \ {Max(s)}]]
      BY <1>7 DEF FoldOf, Folds
    <3>2. CASE s = {}
      BY <3>1, <3>2
    <3>3. CASE s # {}
      <4> HIDE DEF len
      <4>1. Max(s) \in s
        BY <1>3, <3>3, MaxIs
      <4>2. Max(s) \in 1 .. len /\ s \ {Max(s)} \in SUBSET (1 .. len)
        BY <4>1
      <4>3. h[s \ {Max(s)}] \in V
        BY <4>2, <2>0
      <4> QED BY <3>1, <3>3, <4>2, <4>3, <1>5
    <3> QED BY <3>2, <3>3
  <2> HIDE DEF len
  <2> QED BY <2>0, <2>1, <1>3 DEF TakeFolds
<1>9. TakeFolds(w, t, start, end)
  BY <1>2, <1>8
<1> HIDE DEF x0
<1>10. \A s \in SUBSET (1 .. len) :
         w[s] = IF s = {} THEN x0 ELSE TakeUntil(w[s \ {Max(s)}], t[Max(s)], start, end)
  BY <1>3, <1>9 DEF TakeFolds, x0
<1> DEFINE r == [k \in 0 .. len |-> w[1 .. k]]
<1>11. r[0] = x0
  <2>1. 1 .. 0 = {} /\ 0 \in 0 .. len
    BY <1>3
  <2> QED BY <2>1, <1>10
<1>12. ASSUME NEW k \in 0 .. len - 1 PROVE r[k + 1] = TakeUntil(r[k], t[k + 1], start, end)
  <2> DEFINE s == 1 .. k + 1
  <2>0. k \in 0 .. len /\ k + 1 \in 0 .. len
    BY <1>3
  <2>1. s \in SUBSET (1 .. len) /\ s # {} /\ Max(s) = k + 1 /\ s \ {k + 1} = 1 .. k
    <3> HIDE DEF len
    <3> QED BY <1>3, IntervalMax
  <2>2. r[k + 1] = w[s] /\ r[k] = w[1 .. k]
    BY <2>0
  <2> HIDE DEF s
  <2>3. w[s] = TakeUntil(w[s \ {Max(s)}], t[Max(s)], start, end)
    BY <1>10, <2>1
  <2> QED BY <2>1, <2>2, <2>3
<1>13. w[DOMAIN t] = r[len]
  BY <1>3
<1> HIDE DEF r
<1> DEFINE G == {k \in 0 .. len : Taking(r[k], t, e, start, end, k)}
<1>14. 0 \in G
  <2>1. [j \in 1 .. 0 |-> Touching(t, e, start, end, j)] = <<>>
    BY DEF Touching
  <2>2. TouchingBefore(t, e, start, end, 0) = <<>>
    BY <2>1, FlattenEmpty DEF TouchingBefore
  <2>3. e[0] = 0 /\ 0 \in 0 .. len
    BY <1>3 DEF FloatsOf
  <2> QED BY <1>6, <1>11, <2>2, <2>3 DEF Taking, V
<1>15. ASSUME NEW k \in 0 .. len - 1, k \in G PROVE k + 1 \in G
  <2>1. k + 1 \in 0 .. len
    BY <1>3
  <2>2. Taking(r[k + 1], t, e, start, end, k + 1)
    BY <1>12, <1>15, TakingStep
  <2> QED BY <2>1, <2>2
<1>16. \A k \in 0 .. len : k \in G
  <2> HIDE DEF G, len
  <2> QED BY <1>3, <1>14, <1>15, CountUp
<1>17. Taking(r[len], t, e, start, end, len)
  BY <1>3, <1>16
<1> QED BY <1>1, <1>13, <1>17 DEF Taking

LEMMA PeriodIsCovered ==
  ASSUME ContentsInv
  PROVE  PeriodCovered
<1> DEFINE p == Parse(Url(1), contents[1])
           t == p.ts_map
           e == CHOOSE f : f = [k \in 0 .. Len(t) |-> IF k = 0 THEN 0 ELSE f[k - 1] + t[k].duration]
           Touches(k, start, end, drift) ==
             /\ e[k] + drift >= Unit * start
             /\ end = -1 \/ e[k - 1] <= Unit * end + drift
<1> SUFFICES ASSUME NEW start \in Seconds, NEW end \in Seconds
    PROVE  \E chosen \in SUBSET DOMAIN t :
             /\ timeget_ts(p, start, end) =
                  FlattenSeq([k \in DOMAIN t |-> IF k \in chosen THEN <<t[k]>> ELSE <<>>])
             /\ \A i, j \in chosen : i .. j \subseteq chosen
             /\ Unit * start <= Horizon /\ Unit * end <= Horizon =>
                  \A k \in DOMAIN t :
                    e[k] + k * Err <= Horizon =>
                      /\ Touches(k, start, end, 0 - (k + 1) * Err) => k \in chosen
                      /\ k \in chosen => Touches(k, start, end, (k + 1) * Err)
  BY Zenon DEF PeriodCovered
<1>1. start \in Int /\ end \in Int
  BY PlaylistAssumption
<1>2. t \in Seq(Segments)
  <2>1. contents[1] \in Seq(Lines)
    BY DEF ContentsInv
  <2>2. IsPlaylist(contents[1]) /\ 1 \in DOMAIN Urls
    BY <2>1, LinesAre, ParsedAre
  <2>3. p \in Parsers
    <3> HIDE DEF p
    <3>1. p = Parse(Url(1), contents[1])
      BY DEF p
    <3> QED BY <2>2, <3>1, ParseFinds
  <2> HIDE DEF p
  <2> QED BY <2>3 DEF Parsers
<1>3. (\E f : EndsOf(f, t)) => EndsOf(e, t)
  <2> HIDE DEF p
  <2> QED BY DEF EndsOf
<1>4. DOMAIN t = 1 .. Len(t) /\ Len(t) \in Nat
  <2> HIDE DEF t
  <2> QED BY <1>2
<1>5. EndsOf(e, t)
  <2> HIDE DEF t, e
  <2> QED BY <1>2, <1>3, EndsExist
<1>6. PICK f : FloatsOf(f, t)
  <2> HIDE DEF t
  <2> QED BY <1>2, FloatsExist
<1> DEFINE from == AsFloat(start)
           to == AsFloat(end)
           chosen == {k \in 1 .. Len(t) : f[k] >= from /\ (end = -1 \/ f[k - 1] <= to)}
<1>7. timeget_ts(p, start, end) = TouchingBefore(t, f, start, end, Len(t))
  <2>1. p.ts_map = t
    OBVIOUS
  <2> HIDE DEF p, t, e
  <2> QED BY <1>1, <1>2, <1>6, <2>1, TimegetTakes
<1> HIDE DEF t, e
<1>8. TouchingBefore(t, f, start, end, Len(t)) =
        FlattenSeq([k \in DOMAIN t |-> IF k \in chosen THEN <<t[k]>> ELSE <<>>])
  <2>1. \A k \in 1 .. Len(t) :
          Touching(t, f, start, end, k) = IF k \in chosen THEN <<t[k]>> ELSE <<>>
    BY DEF Touching
  <2>2. [k \in 1 .. Len(t) |-> Touching(t, f, start, end, k)]
          = [k \in DOMAIN t |-> IF k \in chosen THEN <<t[k]>> ELSE <<>>]
    <3> HIDE DEF chosen
    <3> QED BY <1>4, <2>1
  <2> QED BY <2>2, Zenon DEF TouchingBefore
<1>9. /\ from \in Int /\ to \in Int /\ Err \in Nat /\ Horizon \in Nat
      /\ \A k \in 0 .. Len(t) : f[k] \in Nat /\ e[k] \in Nat
  BY <1>1, <1>2, <1>5, <1>6, AsFloatIs, EndsAre, NumberAssumption DEF FloatsOf, FloatNumbers
<1>10. ASSUME NEW i \in chosen, NEW j \in chosen, NEW k \in i .. j PROVE k \in chosen
  <2>1. /\ i \in 1 .. Len(t) /\ j \in 1 .. Len(t) /\ k \in 1 .. Len(t)
        /\ f[i] >= from /\ (end = -1 \/ f[j - 1] <= to)
        /\ i \in 0 .. k /\ k - 1 \in 0 .. j - 1
        /\ {i, j - 1, k, k - 1} \subseteq 0 .. Len(t)
    BY <1>4
  <2>2. f[i] <= f[k] /\ f[k - 1] <= f[j - 1]
    BY <1>2, <1>6, <2>1, FloatsGrow
  <2>3. f[i] \in Nat /\ f[k] \in Nat /\ f[k - 1] \in Nat /\ f[j - 1] \in Nat
    BY <1>9, <2>1
  <2>4. f[k] >= from /\ (end = -1 \/ f[k - 1] <= to)
    <3> HIDE DEF from, to
    <3>1. PICK a, b, x, y \in Nat : a = f[i] /\ b = f[k] /\ x = f[k - 1] /\ y = f[j - 1]
      BY <2>3
    <3>2. from \in Int /\ to \in Int /\ a >= from /\ a <= b /\ x <= y /\ (end = -1 \/ y <= to)
      BY <1>9, <2>1, <2>2, <3>1
    <3>3. b >= from /\ (end = -1 \/ x <= to)
      BY <3>2
    <3> QED BY <3>1, <3>3
  <2> QED BY <2>1, <2>4
<1>11. ASSUME Unit * start <= Horizon, Unit * end <= Horizon,
              NEW k \in 1 .. Len(t), e[k] + k * Err <= Horizon
       PROVE  /\ Touches(k, start, end, 0 - (k + 1) * Err) => k \in chosen
              /\ k \in chosen => Touches(k, start, end, (k + 1) * Err)
  <2>1. PICK j \in 0 .. Len(t) - 1 : j = k - 1 /\ k = j + 1
    BY <1>4
  <2>2. PICK m \in Nat : m = j * Err
    BY <1>9, <2>1
  <2>3. k * Err = m + Err /\ (k + 1) * Err = m + Err + Err
    BY <1>9, <2>1, <2>2
  <2>4. j \in 0 .. Len(t) /\ k \in 0 .. Len(t)
    BY <1>4, <2>1
  <2>5. PICK a \in Nat, b \in Nat, x \in Nat, y \in Nat, d \in Nat :
          a = e[j] /\ b = e[k] /\ x = f[j] /\ y = f[k] /\ b = a + d
    <3>1. e[j + 1] = e[j] + t[j + 1].duration /\ t[j + 1] \in Segments
      BY <1>2, <1>5, <2>1, EndsAre
    <3>2. t[j + 1].duration \in Nat
      BY <3>1 DEF Segments
    <3> QED BY <1>9, <2>1, <2>4, <3>1, <3>2
  <2>6. b + (m + Err) <= Horizon
    BY <1>11, <2>3, <2>5
  <2>7. a + m <= Horizon
    <3>1. Err \in Nat /\ Horizon \in Nat /\ b = a + d
      BY <1>9, <2>5
    <3> QED BY <2>6, <3>1
  <2>8. /\ x <= a + m /\ a <= x + m
        /\ y <= b + (m + Err) /\ b <= y + (m + Err)
    <3>1. /\ e[j] + j * Err <= Horizon => f[j] <= e[j] + j * Err /\ e[j] <= f[j] + j * Err
          /\ e[k] + k * Err <= Horizon => f[k] <= e[k] + k * Err /\ e[k] <= f[k] + k * Err
      BY <1>2, <1>5, <1>6, <2>4, FloatsDrift
    <3> QED BY <2>2, <2>3, <2>5, <2>6, <2>7, <3>1
  <2>9. PICK u \in Int, v \in Int : u = Unit * start /\ v = Unit * end
    BY <1>1, AsFloatIs
  <2>10. from <= u + Err /\ u <= from + Err /\ to <= v + Err /\ v <= to + Err
    BY <1>1, <1>11, <2>9, AsFloatIs
  <2>11. k \in chosen <=> y >= from /\ (end = -1 \/ x <= to)
    BY <2>1, <2>5
  <2>12. \A drift : Touches(k, start, end, drift) <=>
                      b + drift >= u /\ (end = -1 \/ a <= v + drift)
    BY <2>1, <2>5, <2>9
  <2> HIDE DEF Touches, chosen, from, to
  <2>13. ASSUME b + (0 - (m + Err + Err)) >= u, end = -1 \/ a <= v + (0 - (m + Err + Err))
         PROVE  y >= from /\ (end = -1 \/ x <= to)
    BY <1>9, <2>8, <2>10, <2>13
  <2>14. ASSUME y >= from, end = -1 \/ x <= to
         PROVE  b + (m + Err + Err) >= u /\ (end = -1 \/ a <= v + (m + Err + Err))
    BY <1>9, <2>8, <2>10, <2>14
  <2> QED BY <2>3, <2>11, <2>12, <2>13, <2>14
<1>12. chosen \in SUBSET DOMAIN t
  BY <1>4
<1> HIDE DEF chosen, Touches
<1> QED BY <1>4, <1>7, <1>8, <1>10, <1>11, <1>12

LEMMA PlaylistInductive == PlaylistSpec => []ContentsInv
<1>1. PlaylistInit => ContentsInv
  BY PlaylistAssumption DEF PlaylistInit, ContentsInv
<1>2. ASSUME ContentsInv, [PlaylistNext]_contents PROVE ContentsInv'
  <2>1. CASE AddLine
    <3>1. PICK line \in Lines :
            contents' = [contents EXCEPT ![Len(contents)] = Append(@, line)]
      BY <2>1 DEF AddLine
    <3>2. Len(contents) \in DOMAIN contents /\ contents[Len(contents)] \in Seq(Lines)
      <4>1. Len(contents) \in Nat \ {0}
        BY <1>2 DEF ContentsInv
      <4> QED BY <1>2, <4>1 DEF ContentsInv
    <3>3. Append(contents[Len(contents)], line) \in Seq(Lines)
      BY <3>2
    <3> QED BY <1>2, <3>1, <3>2, <3>3 DEF ContentsInv
  <2>2. CASE AddPlaylist
    <3>1. /\ <<>> \in Seq(Lines) /\ contents' = Append(contents, <<>>)
          /\ Len(contents) < MaxPlaylists /\ MaxPlaylists \in Nat
      BY <2>2, PlaylistAssumption DEF AddPlaylist
    <3>2. /\ contents' \in Seq(Seq(Lines)) /\ contents' # <<>>
          /\ Len(contents') = Len(contents) + 1 /\ Len(contents) \in Nat
      BY <1>2, <3>1 DEF ContentsInv
    <3> QED BY <3>1, <3>2 DEF ContentsInv
  <2>3. CASE UNCHANGED contents
    BY <1>2, <2>3 DEF ContentsInv
  <2> QED BY <1>2, <2>1, <2>2, <2>3 DEF PlaylistNext
<1> QED BY <1>1, <1>2, PTL DEF PlaylistSpec

(* Merging and choosing keep every segment, its duration and its order, for *)
(* any playlists, periods, floats and formats of numbers: what m3u8_merger  *)
(* writes is read by m3u8_parser as the segments it was made of, each with  *)
(* the float nearest to what is printed of its duration, and the segments   *)
(* chosen touch the period up to the drift of sums of floats.               *)
THEOREM PlaylistsAreRead == PlaylistSpec => []PlaylistsRead
<1>1. ContentsInv => PlaylistsRead
  BY MergedRead, PeriodIsCovered DEF PlaylistsRead
<1> QED BY <1>1, PlaylistInductive, PTL

-----------------------------------------------------------------------------
(* The digest authentication. *)

QopLists == SUBSET {"auth", "auth-int"}

Parameters ==
  [type : {"NONE", "BASIC", "DIGEST"}, algo : Known, nc : Nat \ {0}, qopstr : QopLists,
   realm : BOOLEAN, nonce : Nat, cnonce : Nat]

(* The server numbers its nonces. *)
NoncesInv ==
  /\ \E k \in Nat : Nonces = 1 .. k
  /\ \A m \in Nonces : issued[m] \in Offers

(* The parameters are those of the challenge with the nonce. *)
Behind(p) ==
  /\ p.nonce \in Nonces
  /\ p.algo = IF issued[p.nonce].algo \in Known THEN issued[p.nonce].algo ELSE "MD5"
  /\ p.qopstr = issued[p.nonce].qop
  /\ p.realm = issued[p.nonce].realm

ClientInv ==
  /\ sent \in Nat
  /\ parames_ \in Parameters
  /\ IF parames_.type = "DIGEST" THEN Behind(parames_) ELSE parames_.nonce = 0

Digests == {r \in requests : r.auth.type = "DIGEST" /\ r.auth.nonce # 0}

(* A request in answer to a challenge: right unless the client deviates,    *)
(* and with a count of its own.                                             *)
RequestInv(r) ==
  LET a == r.auth
  IN  /\ a.nc \in Nat
      /\ a.nonce \in Nonces
      /\ r.challenge = a.nonce
      /\ a.qop = issued[a.nonce].qop
      /\ Deviations(issued[a.nonce], a, r.entity) = {} =>
           a.response = Expected(issued[a.nonce], a, r.entity)
      /\ a.nonce = parames_.nonce => a.nc < parames_.nc
      /\ a.qop # {} => <<a.nonce, a.nc>> \notin seen

(* No two requests with one nonce have one count. *)
CountsDiffer ==
  \A r, s \in Digests :
    r # s /\ r.auth.nonce = s.auth.nonce /\ r.auth.qop # {} => r.auth.nc # s.auth.nc

RequestsInv ==
  /\ CountsDiffer
  /\ \A r \in Digests : RequestInv(r)
  /\ \A r \in requests :
       r.auth.type = "DIGEST" /\ r.auth.nonce = 0 =>
         r.challenge \in Nonces /\ ~issued[r.challenge].realm

SeenInv ==
  \A p \in seen :
    \E m \in Nonces, k \in Nat : p = <<m, k>> /\ (m = parames_.nonce => k < parames_.nc)

(* A challenge is what was issued with its nonce. *)
Issued(c) ==
  /\ c.nonce \in Nonces
  /\ c.algo = issued[c.nonce].algo
  /\ c.qop = issued[c.nonce].qop
  /\ c.realm = issued[c.nonce].realm
  /\ c.scheme = issued[c.nonce].scheme

(* A challenge under way is the only trace of its nonce. *)
Untraced(nonce) ==
  /\ nonce # parames_.nonce
  /\ \A r \in Digests : r.auth.nonce # nonce
  /\ \A k \in Nat : <<nonce, k>> \notin seen

AnswersInv ==
  /\ \A c \in answers : Issued(c) /\ Untraced(c.nonce)
  /\ \A c, d \in answers : c.nonce = d.nonce => c = d

DigestInv ==
  /\ NoncesInv /\ ClientInv /\ RequestsInv /\ SeenInv /\ AnswersInv
  /\ NeverTakenForAnother

-----------------------------------------------------------------------------

LEMMA NonceFacts ==
  ASSUME NoncesInv
  PROVE  /\ Nonces \subseteq Nat \ {0}
         /\ Cardinality(Nonces) + 1 \in Nat \ {0}
         /\ Cardinality(Nonces) + 1 \notin Nonces
         /\ 1 .. Cardinality(Nonces) + 1 = Nonces \cup {Cardinality(Nonces) + 1}
<1>1. PICK k \in Nat : Nonces = 1 .. k
  BY DEF NoncesInv
<1>2. Cardinality(Nonces) = k
  BY <1>1, FS_Interval
<1> QED
  BY <1>1, <1>2

LEMMA OfferIs ==
  ASSUME NEW o \in Offers
  PROVE  /\ o.scheme \in {"NONE", "BASIC", "DIGEST"} /\ o.realm \in BOOLEAN
         /\ o.algo \in DOMAIN Algorithm /\ o.qop \in QopLists
BY DigestAssumption DEF QopLists

LEMMA InitDigest == DigestInit => DigestInv
<1> SUFFICES ASSUME DigestInit PROVE DigestInv
  OBVIOUS
<1>1. Nonces = 1 .. 0
  BY DEF DigestInit, Nonces
<1>2. NoncesInv
  BY <1>1 DEF NoncesInv
<1>3. ClientInv
  BY DEF DigestInit, Cleared, ClientInv, Parameters, QopLists, Known
<1> QED
  BY <1>2, <1>3
  DEF DigestInit, DigestInv, RequestsInv, CountsDiffer, Digests, SeenInv, AnswersInv,
      NeverTakenForAnother

-----------------------------------------------------------------------------
(* The digest. *)

LEMMA NoneIsEmpty ==
  ASSUME NEW p \in Parameters
  PROVE  /\ qop(p) = "NONE" <=> p.qopstr = {}
         /\ qop(p) = "auth-int" <=> "auth-int" \in p.qopstr
<1>1. p.qopstr \in SUBSET {"auth", "auth-int"}
  BY DEF Parameters, QopLists
<1> QED
  BY <1>1 DEF qop

(* Where it deviates in nothing, the client hashes what the server does.    *)
LEMMA ResponseExpected ==
  ASSUME NEW p \in Parameters, NEW uri, NEW entity,
         Behind(p), NoncesInv, Answers(p),
         Deviations(issued[p.nonce], Authorization(p, uri), entity) = {}
  PROVE  Authorization(p, uri).response =
           Expected(issued[p.nonce], Authorization(p, uri), entity)
<1>1. PICK o \in Offers : o = issued[p.nonce]
  BY DEF Behind, NoncesInv
<1>2. PICK a : a = Authorization(p, uri)
  OBVIOUS
<1>3. /\ a.uri = uri /\ a.nonce = p.nonce /\ a.qop = p.qopstr /\ a.cnonce = p.cnonce
      /\ a.nc = IF qop(p) = "NONE" THEN 0 ELSE p.nc
      /\ a.response = response(p, uri)
  BY <1>2 DEF Authorization, Answers
<1>4. PICK texts : texts = {UserText, A1Text(o, a), entity, A2Text(o, a, entity),
                            DigestText(o, a, entity)}
  OBVIOUS
<1>5. Deviations(o, a, entity) = {}
  BY <1>1, <1>2
<1>6. /\ o.algo \in {"MD5", "MD5-SESS", "SHA256", "SHA256-SESS"}
      /\ o.qop # {"auth", "auth-int"}
      /\ "auth-int" \in o.qop => entity = NoBody
      /\ Algorithm[o.algo].hash = "SHA-256" => \A text \in texts : ~HasZero(text)
  <2>1. ASSUME NEW d \in {"algorithm", "list", "entity", "cut"}
        PROVE  d \notin Deviations(o, a, entity)
    BY <1>5
  <2>2. o.algo \in {"MD5", "MD5-SESS", "SHA256", "SHA256-SESS"}
    BY <2>1 DEF Deviations
  <2>3. o.qop # {"auth", "auth-int"}
    BY <2>1 DEF Deviations
  <2>4. "auth-int" \in o.qop => entity = NoBody
    BY <2>1 DEF Deviations
  <2>5. Algorithm[o.algo].hash = "SHA-256" => \A text \in texts : ~HasZero(text)
    BY <1>4, <2>1 DEF Deviations
  <2> QED
    BY <2>2, <2>3, <2>4, <2>5
<1>7. p.algo = o.algo /\ p.qopstr = o.qop
  BY <1>1, <1>6 DEF Behind, Known
<1>8. PICK hash : hash = Algorithm[o.algo].hash
  OBVIOUS
<1>9. /\ o.algo \in {"MD5", "MD5-SESS"} => hash = "MD5"
      /\ o.algo \in {"SHA256", "SHA256-SESS"} => hash = "SHA-256"
      /\ Algorithm[o.algo].sess <=> o.algo \in {"MD5-SESS", "SHA256-SESS"}
  BY <1>6, <1>8 DEF Algorithm
<1>10. \A text \in texts : hash_cb(p, text) = <<hash, text>>
  BY <1>6, <1>7, <1>8, <1>9 DEF hash_cb
<1>11. HA1(p) = <<hash, A1Text(o, a)>>
  <2>1. hash_cb(p, UserText) = <<hash, UserText>>
    BY <1>4, <1>10
  <2>2. hash_cb(p, A1Text(o, a)) = <<hash, A1Text(o, a)>>
    BY <1>4, <1>10
  <2>3. CASE Algorithm[o.algo].sess
    <3>1. A1Text(o, a) = <<"session", <<hash, UserText>>, p.nonce, p.cnonce>>
      BY <1>3, <1>8, <2>3 DEF A1Text, SessionText
    <3>2. HA1(p) = hash_cb(p, <<"session", hash_cb(p, UserText), p.nonce, p.cnonce>>)
      BY <1>7, <1>9, <2>3 DEF HA1, UserText
    <3> QED
      BY <2>1, <2>2, <3>1, <3>2
  <2>4. CASE ~Algorithm[o.algo].sess
    <3>1. A1Text(o, a) = UserText
      BY <2>4 DEF A1Text
    <3>2. HA1(p) = hash_cb(p, UserText)
      BY <1>6, <1>7, <1>9, <2>4 DEF HA1, UserText
    <3> QED
      BY <2>1, <3>1, <3>2
  <2> QED
    BY <2>3, <2>4
<1>12. HA2(p, uri) = <<hash, A2Text(o, a, entity)>>
  <2>1. hash_cb(p, entity) = <<hash, entity>>
    BY <1>4, <1>10
  <2>2. hash_cb(p, A2Text(o, a, entity)) = <<hash, A2Text(o, a, entity)>>
    BY <1>4, <1>10
  <2>3. p.qopstr \in {{}, {"auth"}, {"auth-int"}}
    BY <1>6, <1>7, <1>1, OfferIs DEF QopLists
  <2>4. CASE p.qopstr = {"auth-int"}
    <3>1. A2Text(o, a, entity) = <<"method", uri, <<hash, entity>>>>
      BY <1>3, <1>8, <2>4 DEF A2Text
    <3>2. HA2(p, uri) = hash_cb(p, <<"method", uri, hash_cb(p, entity)>>)
      BY <1>6, <1>7, <2>4, NoneIsEmpty DEF HA2
    <3> QED
      BY <2>1, <2>2, <3>1, <3>2
  <2>5. CASE p.qopstr \in {{}, {"auth"}}
    <3>1. "auth-int" \notin p.qopstr
      BY <2>5
    <3>2. A2Text(o, a, entity) = <<"method", uri>>
      BY <1>3, <3>1 DEF A2Text
    <3>3. HA2(p, uri) = hash_cb(p, <<"method", uri>>)
      BY <3>1, NoneIsEmpty DEF HA2
    <3> QED
      BY <2>2, <3>2, <3>3
  <2> QED
    BY <2>3, <2>4, <2>5
<1>13. hash_cb(p, DigestText(o, a, entity)) = <<hash, DigestText(o, a, entity)>>
  BY <1>4, <1>10
<1>14. response(p, uri) = hash_cb(p, DigestText(o, a, entity))
  <2>1. CASE p.qopstr = {}
    <3>1. qop(p) = "NONE" /\ a.qop = {}
      BY <1>3, <2>1, NoneIsEmpty
    <3>2. DigestText(o, a, entity) = <<"digest", HA1(p), p.nonce, HA2(p, uri)>>
      BY <1>3, <1>8, <1>11, <1>12, <3>1 DEF DigestText
    <3> QED
      BY <3>1, <3>2 DEF response
  <2>2. CASE p.qopstr # {}
    <3>1. qop(p) # "NONE" /\ a.qop # {}
      BY <1>3, <2>2, NoneIsEmpty
    <3>2. DigestText(o, a, entity) =
            <<"digest", HA1(p), p.nonce, p.nc, p.cnonce, p.qopstr, HA2(p, uri)>>
      BY <1>3, <1>8, <1>11, <1>12, <3>1 DEF DigestText
    <3> QED
      BY <3>1, <3>2 DEF response
  <2> QED
    BY <2>1, <2>2
<1> QED
  BY <1>1, <1>2, <1>3, <1>8, <1>13, <1>14 DEF Expected

LEMMA AuthorizationIs ==
  ASSUME NEW p \in Parameters, NEW uri
  PROVE  LET a == Authorization(p, uri)
         IN  /\ a.type = p.type
             /\ Answers(p) => /\ a.nonce = p.nonce /\ a.qop = p.qopstr
                              /\ a.nc = IF p.qopstr = {} THEN 0 ELSE p.nc
             /\ ~Answers(p) => a.nonce = 0
<1>1. CASE Answers(p)
  BY <1>1, NoneIsEmpty DEF Authorization, Answers
<1>2. CASE ~Answers(p)
  BY <1>2 DEF Authorization
<1> QED
  BY <1>1, <1>2

-----------------------------------------------------------------------------
(* The client. *)

LEMMA RequestKeeps ==
  ASSUME DigestInv, NEW uri, NEW entity, Request(uri, entity)
  PROVE  DigestInv'
<1>a. PICK p :
        p = IF qop(parames_) = "NONE" THEN parames_ ELSE [parames_ EXCEPT !.cnonce = sent + 1]
  OBVIOUS
<1>b. PICK q : q = [id |-> sent + 1, auth |-> Authorization(p, uri), entity |-> entity,
                    challenge |-> p.nonce]
  OBVIOUS
<1>1. /\ p \in Parameters /\ p.nonce = parames_.nonce /\ p.algo = parames_.algo
      /\ p.qopstr = parames_.qopstr /\ p.type = parames_.type /\ p.nc = parames_.nc
      /\ p.realm = parames_.realm
  BY <1>a DEF DigestInv, ClientInv, Parameters
<1>2. /\ sent' = sent + 1 /\ requests' = requests \cup {q}
      /\ parames_' = IF Answers(p) THEN NextCount(p) ELSE p
      /\ UNCHANGED <<answers, issued, expired, seen, refusals>>
  BY <1>a, <1>b DEF Request, server
<1>3. /\ parames_' \in Parameters /\ parames_'.nonce = parames_.nonce
      /\ parames_'.algo = parames_.algo /\ parames_'.qopstr = parames_.qopstr
      /\ parames_'.type = parames_.type /\ parames_'.realm = parames_.realm
      /\ parames_.nc <= parames_'.nc
      /\ Answers(p) /\ p.qopstr # {} => parames_.nc < parames_'.nc
  <2>1. qop(p) = "NONE" <=> p.qopstr = {}
    BY <1>1, NoneIsEmpty
  <2>2. CASE Answers(p) /\ p.qopstr # {}
    <3>1. parames_' = [p EXCEPT !.nc = @ + 1]
      BY <1>2, <2>1, <2>2 DEF NextCount
    <3> QED
      BY <1>1, <3>1 DEF Parameters
  <2>3. CASE ~(Answers(p) /\ p.qopstr # {})
    <3>1. parames_' = p
      BY <1>2, <2>1, <2>3 DEF NextCount
    <3>2. p.nc \in Nat
      BY <1>1 DEF Parameters
    <3> QED
      BY <1>1, <2>3, <3>1, <3>2
  <2> QED
    BY <2>2, <2>3
<1>4. NoncesInv' /\ Nonces' = Nonces
  BY <1>2 DEF DigestInv, NoncesInv, Nonces
<1>5. ClientInv'
  BY <1>2, <1>3, <1>4 DEF DigestInv, ClientInv, Behind
<1>6. /\ q.auth.type = p.type /\ q.challenge = p.nonce /\ q.entity = entity
      /\ Answers(p) => /\ q.auth.nonce = p.nonce /\ q.auth.qop = p.qopstr
                       /\ q.auth.nc = IF p.qopstr = {} THEN 0 ELSE p.nc
      /\ ~Answers(p) => q.auth.nonce = 0
  BY <1>1, <1>b, AuthorizationIs
<1>7. p.type = "DIGEST" => Behind(p)
  BY <1>1 DEF DigestInv, ClientInv, Behind
<1>8. p.type = "DIGEST" => p.nonce # 0 /\ p.nonce \in Nonces
  BY <1>7, NonceFacts DEF DigestInv, Behind
<1>9. parames_.nc \in Nat \ {0} /\ parames_'.nc \in Nat \ {0}
  BY <1>3 DEF DigestInv, ClientInv, Parameters
<1>10. ASSUME NEW r \in Digests PROVE RequestInv(r)'
  <2>1. RequestInv(r)
    BY DEF DigestInv, RequestsInv
  <2>2. r.auth.nonce = parames_.nonce => r.auth.nc < parames_'.nc
    BY <1>3, <1>9, <2>1 DEF RequestInv
  <2> QED
    BY <1>2, <1>3, <1>4, <2>1, <2>2 DEF RequestInv
<1>11. SeenInv'
  BY <1>2, <1>3, <1>4, <1>9 DEF DigestInv, SeenInv
<1>12. CASE ~Answers(p)
  <2>1. Digests' = Digests
    BY <1>2, <1>6, <1>12 DEF Digests
  <2>2. p.type = "DIGEST" => ~p.realm
    BY <1>8, <1>12 DEF Answers
  <2>3. q.auth.type = "DIGEST" => q.challenge \in Nonces /\ ~issued[q.challenge].realm
    BY <1>6, <1>7, <2>2 DEF Behind
  <2>4. RequestsInv'
    BY <1>2, <1>4, <1>10, <2>1, <2>3 DEF DigestInv, RequestsInv, CountsDiffer
  <2>5. AnswersInv'
    BY <1>2, <1>3, <1>4, <2>1 DEF DigestInv, AnswersInv, Issued, Untraced
  <2> QED
    BY <1>2, <1>4, <1>5, <1>11, <2>4, <2>5 DEF DigestInv, NeverTakenForAnother
<1>13. CASE Answers(p)
  <2>1. p.type = "DIGEST" /\ Behind(p)
    BY <1>7, <1>13 DEF Answers
  <2>2. /\ q.auth.nonce = parames_.nonce /\ q.auth.nonce \in Nonces
        /\ q.auth.qop = issued[q.auth.nonce].qop /\ q.challenge = q.auth.nonce
        /\ q.auth.qop = p.qopstr
        /\ q.auth.nc = IF q.auth.qop = {} THEN 0 ELSE parames_.nc
    BY <1>1, <1>6, <1>13, <2>1 DEF Behind
  <2>3. Digests' = Digests \cup {q}
    BY <1>2, <1>6, <1>8, <1>13, <2>1 DEF Digests
  <2>4. q.auth.nc \in Nat /\ q.auth.nc < parames_'.nc
    BY <1>3, <1>9, <1>13, <2>2
  <2>5. q.auth.qop # {} => <<q.auth.nonce, q.auth.nc>> \notin seen
    BY <2>2, <1>9 DEF DigestInv, SeenInv
  <2>6. Deviations(issued[q.auth.nonce], q.auth, q.entity) = {} =>
          q.auth.response = Expected(issued[q.auth.nonce], q.auth, q.entity)
    <3>1. q.auth = Authorization(p, uri) /\ q.entity = entity /\ q.auth.nonce = p.nonce
      BY <1>b, <1>6, <1>13
    <3>2. NoncesInv
      BY DEF DigestInv
    <3> QED
      BY <1>1, <1>13, <2>1, <3>1, <3>2, ResponseExpected
  <2>7. RequestInv(q)'
    BY <1>2, <1>4, <2>2, <2>4, <2>5, <2>6 DEF RequestInv
  <2>8. ASSUME NEW r \in Digests, r.auth.nonce = q.auth.nonce,
               r.auth.qop # {} \/ q.auth.qop # {}
        PROVE  r.auth.nc # q.auth.nc
    <3>1. RequestInv(r) /\ r.auth.qop = q.auth.qop
      BY <2>2, <2>8 DEF DigestInv, RequestsInv, RequestInv
    <3> QED
      BY <1>9, <2>2, <2>8, <3>1 DEF RequestInv
  <2>9. CountsDiffer'
    BY <2>3, <2>8 DEF DigestInv, RequestsInv, CountsDiffer
  <2>10. q.auth.nonce # 0
    BY <1>6, <1>8, <1>13, <2>1
  <2>11. RequestsInv'
    BY <1>2, <1>4, <1>10, <2>3, <2>7, <2>9, <2>10 DEF DigestInv, RequestsInv
  <2>12. AnswersInv'
    BY <1>2, <1>3, <1>4, <2>2, <2>3 DEF DigestInv, AnswersInv, Issued, Untraced
  <2> QED
    BY <1>2, <1>4, <1>5, <1>11, <2>11, <2>12 DEF DigestInv, NeverTakenForAnother
<1> QED
  BY <1>12, <1>13

(* A challenge that arrives: its nonce is new to the client, and to its     *)
(* requests.                                                                *)
LEMMA ChallengedKeeps ==
  ASSUME DigestInv, Challenged
  PROVE  DigestInv'
<1>1. PICK c \in answers :
        /\ ParseChallenge(c)
        /\ answers' = answers \ {c}
        /\ UNCHANGED <<sent, requests, issued, expired, seen, refusals>>
  BY DEF Challenged, server
<1>2. /\ Issued(c) /\ Untraced(c.nonce)
      /\ c.nonce \in Nonces /\ issued[c.nonce] \in Offers
  BY DEF DigestInv, AnswersInv, NoncesInv, Issued
<1>3. /\ c.scheme \in {"NONE", "BASIC", "DIGEST"} /\ c.qop \in QopLists
      /\ c.realm \in BOOLEAN
  BY <1>2, OfferIs DEF Issued
<1>4. Nonces' = Nonces /\ Digests' = Digests /\ Nonces \subseteq Nat \ {0}
  BY <1>1, NonceFacts DEF DigestInv, Nonces, Digests
<1>5. /\ parames_' \in Parameters /\ parames_'.nc = 1
      /\ \/ parames_'.type = "DIGEST" /\ parames_'.nonce = c.nonce /\ Behind(parames_)'
         \/ parames_'.type # "DIGEST" /\ parames_'.nonce = 0
  <2>1. c.nonce \in Nat
    BY <1>2, <1>4
  <2>2. Cleared \in Parameters
    BY DEF Cleared, Parameters, QopLists, Known
  <2>3. CASE c.scheme # "DIGEST"
    BY <1>1, <1>3, <2>2, <2>3 DEF ParseChallenge, Cleared, Parameters
  <2>4. CASE c.scheme = "DIGEST" /\ ~c.decodes
    BY <1>1, <2>2, <2>4 DEF ParseChallenge, Cleared
  <2>5. CASE c.scheme = "DIGEST" /\ c.decodes
    <3>1. PICK algo \in Known : algo = IF c.algo \in Known THEN c.algo ELSE "MD5"
      BY DEF Known
    <3>2. parames_' = [type |-> "DIGEST", algo |-> algo, nc |-> 1, qopstr |-> c.qop,
                       realm |-> c.realm, nonce |-> c.nonce, cnonce |-> 0]
      BY <1>1, <2>5, <3>1 DEF ParseChallenge, Cleared
    <3>3. parames_' \in Parameters
      BY <1>3, <2>1, <3>2 DEF Parameters
    <3>4. Behind(parames_)'
      BY <1>1, <1>2, <1>4, <3>1, <3>2 DEF Behind, Issued
    <3> QED
      BY <3>2, <3>3, <3>4
  <2> QED
    BY <2>3, <2>4, <2>5
<1>6. NoncesInv'
  BY <1>1, <1>4 DEF DigestInv, NoncesInv
<1>7. ClientInv'
  BY <1>1, <1>5 DEF DigestInv, ClientInv
<1>8. \A r \in Digests : r.auth.nonce # parames_'.nonce
  BY <1>2, <1>4, <1>5 DEF DigestInv, Untraced, RequestsInv, RequestInv
<1>9. RequestsInv'
  <2>1. ASSUME NEW r \in Digests PROVE RequestInv(r)'
    <3>1. RequestInv(r)
      BY DEF DigestInv, RequestsInv
    <3> QED
      BY <1>1, <1>4, <1>8, <3>1 DEF RequestInv
  <2> QED
    BY <1>1, <1>4, <2>1 DEF DigestInv, RequestsInv, CountsDiffer
<1>10. SeenInv'
  <2> SUFFICES ASSUME NEW x \in seen
               PROVE  \E m \in Nonces, k \in Nat :
                        x = <<m, k>> /\ (m = parames_'.nonce => k < parames_'.nc)
    BY <1>1, <1>4 DEF SeenInv
  <2>1. PICK m \in Nonces, k \in Nat : x = <<m, k>>
    BY DEF DigestInv, SeenInv
  <2>2. m # c.nonce
    BY <1>2, <2>1 DEF Untraced
  <2>3. m # parames_'.nonce
    BY <1>4, <1>5, <2>2
  <2> QED
    BY <2>1, <2>3
<1>11. AnswersInv'
  <2>1. \A d \in answers' : d \in answers /\ d.nonce # c.nonce
    BY <1>1 DEF DigestInv, AnswersInv
  <2>2. \A d \in answers' : d.nonce # parames_'.nonce
    BY <1>4, <1>5, <2>1 DEF DigestInv, AnswersInv, Issued
  <2> QED
    BY <1>1, <1>4, <2>1, <2>2 DEF DigestInv, AnswersInv, Issued, Untraced
<1> QED
  BY <1>1, <1>6, <1>7, <1>9, <1>10, <1>11 DEF DigestInv, NeverTakenForAnother

-----------------------------------------------------------------------------
(* The server. *)

(* What a request can be refused for. *)
Fair(f) ==
  \/ f.verdict \in {"no digest", "stale"}
  \/ f.verdict = "no nonce" /\ "realm" \in f.because
  \/ f.verdict = "bad credentials" /\ f.because # {}

LEMMA FairIsNoOther == (\A f \in refusals : Fair(f)) <=> NeverTakenForAnother
BY DEF Fair, NeverTakenForAnother

(* A verdict is settled by what holds of the request. *)
LEMMA VerdictIsFair ==
  ASSUME DigestInv, NEW r \in requests
  PROVE  /\ Verdict(r) = "accepted" => r \in Digests
         /\ Verdict(r) # "accepted" => Fair(Refusal(r, Verdict(r)))
<1>1. CASE r.auth.type # "DIGEST"
  <2>1. Verdict(r) = "no digest"
    BY <1>1 DEF Verdict
  <2> QED
    BY <2>1 DEF Fair, Refusal
<1>2. CASE r.auth.type = "DIGEST" /\ r.auth.nonce = 0
  <2>1. Verdict(r) = "no nonce"
    BY <1>2 DEF Verdict
  <2>2. r.challenge \in Nonces /\ ~issued[r.challenge].realm
    BY <1>2 DEF DigestInv, RequestsInv
  <2>3. "realm" \in Deviations(issued[r.challenge], r.auth, r.entity)
    BY <2>2 DEF Deviations
  <2> QED
    BY <2>1, <2>2, <2>3 DEF Fair, Refusal
<1>3. CASE r.auth.type = "DIGEST" /\ r.auth.nonce # 0
  <2>1. r \in Digests /\ RequestInv(r)
    BY <1>3 DEF DigestInv, RequestsInv, Digests
  <2>2. PICK o \in Offers : o = issued[r.auth.nonce]
    BY <2>1 DEF DigestInv, NoncesInv, RequestInv
  <2>3. CASE Deviations(o, r.auth, r.entity) = {}
    <3>1. r.auth.response = Expected(o, r.auth, r.entity) /\ r.auth.qop = o.qop
      BY <2>1, <2>2, <2>3 DEF RequestInv
    <3>2. o.qop # {"auth", "auth-int"}
      <4>1. "list" \notin Deviations(o, r.auth, r.entity)
        BY <2>3
      <4> QED
        BY <4>1 DEF Deviations
    <3>3. o.qop \in {{}, {"auth"}, {"auth-int"}}
      BY <3>2, OfferIs DEF QopLists
    <3>4. QopAllowed(o, r.auth)
      BY <3>1, <3>3 DEF QopAllowed
    <3>5. Verdict(r) \in {"stale", "accepted"}
      BY <1>3, <2>1, <2>2, <3>1, <3>4 DEF Verdict, RequestInv
    <3> QED
      BY <2>1, <3>5 DEF Fair, Refusal
  <2>4. CASE Deviations(o, r.auth, r.entity) # {}
    <3>1. Refusal(r, Verdict(r)).because # {}
      BY <2>1, <2>2, <2>4 DEF Refusal, RequestInv
    <3>2. Verdict(r) \in {"bad credentials", "stale", "accepted"}
      BY <1>3, <2>1 DEF Verdict, RequestInv
    <3> QED
      BY <2>1, <3>1, <3>2 DEF Fair, Refusal
  <2> QED
    BY <2>3, <2>4
<1> QED
  BY <1>1, <1>2, <1>3

LEMMA AcceptKeeps ==
  ASSUME DigestInv, NEW r \in Digests, requests' = requests \ {r},
         seen' = seen \cup {<<r.auth.nonce, r.auth.nc>>},
         UNCHANGED <<parames_, sent, expired, answers, issued, refusals>>
  PROVE  DigestInv'
<1>1. RequestInv(r)
  BY DEF DigestInv, RequestsInv
<1>2. Nonces' = Nonces /\ Digests' = Digests \ {r}
  BY DEF Nonces, Digests
<1>3. NoncesInv' /\ ClientInv'
  BY <1>2 DEF DigestInv, NoncesInv, ClientInv, Behind
<1>4. ASSUME NEW s \in Digests' PROVE RequestInv(s)'
  <2>1. s \in Digests /\ s # r /\ RequestInv(s)
    BY <1>2 DEF DigestInv, RequestsInv
  <2>2. s.auth.qop # {} /\ s.auth.nonce = r.auth.nonce => s.auth.nc # r.auth.nc
    BY <2>1 DEF DigestInv, RequestsInv, CountsDiffer
  <2>3. s.auth.qop # {} => <<s.auth.nonce, s.auth.nc>> \notin seen'
    BY <2>1, <2>2 DEF RequestInv
  <2> QED
    BY <1>2, <2>1, <2>3 DEF RequestInv
<1>5. RequestsInv'
  BY <1>2, <1>4 DEF DigestInv, RequestsInv, CountsDiffer
<1>6. SeenInv'
  BY <1>1, <1>2 DEF DigestInv, SeenInv, RequestInv
<1>7. AnswersInv'
  <2>1. ASSUME NEW c \in answers PROVE Issued(c)' /\ Untraced(c.nonce)'
    <3>1. Issued(c) /\ Untraced(c.nonce) /\ c.nonce # r.auth.nonce
      BY DEF DigestInv, AnswersInv, Untraced
    <3> QED
      BY <1>2, <3>1 DEF Issued, Untraced
  <2> QED
    BY <2>1 DEF DigestInv, AnswersInv
<1> QED
  BY <1>3, <1>5, <1>6, <1>7 DEF DigestInv, NeverTakenForAnother

(* A challenge with a new nonce. *)
LEMMA ChallengeKeeps ==
  ASSUME DigestInv, NEW r \in requests, NEW o \in Offers,
         NEW fresh, fresh = Cardinality(Nonces) + 1,
         NEW c, c = [scheme |-> o.scheme, decodes |-> o.decodes, realm |-> o.realm,
                     algo |-> o.algo, qop |-> o.qop, nonce |-> fresh],
         requests' = requests \ {r}, answers' = answers \cup {c},
         issued' = [m \in 1 .. fresh |-> IF m = fresh THEN o ELSE issued[m]],
         refusals' = refusals \cup {Refusal(r, Verdict(r))}, Verdict(r) # "accepted",
         UNCHANGED <<parames_, sent, expired, seen>>
  PROVE  DigestInv'
<1>1. /\ Nonces \subseteq Nat \ {0} /\ fresh \in Nat \ {0} /\ fresh \notin Nonces
      /\ 1 .. fresh = Nonces \cup {fresh}
  BY NonceFacts DEF DigestInv
<1>2. Nonces' = Nonces \cup {fresh}
  BY <1>1 DEF Nonces
<1>3. issued'[fresh] = o /\ \A m \in Nonces : issued'[m] = issued[m]
  BY <1>1
<1>4. NoncesInv'
  BY <1>1, <1>2, <1>3 DEF DigestInv, NoncesInv
<1>5. NeverTakenForAnother'
  BY VerdictIsFair, FairIsNoOther DEF DigestInv, NeverTakenForAnother, Fair
<1>6. ClientInv'
  BY <1>2, <1>3 DEF DigestInv, ClientInv, Behind
<1>7. Digests' \subseteq Digests
  BY DEF Digests
<1>8. ASSUME NEW s \in Digests PROVE RequestInv(s)'
  <2>1. RequestInv(s)
    BY DEF DigestInv, RequestsInv
  <2> QED
    BY <1>2, <1>3, <2>1 DEF RequestInv
<1>9. ASSUME NEW s \in requests', s.auth.type = "DIGEST", s.auth.nonce = 0
      PROVE  s.challenge \in Nonces' /\ ~issued'[s.challenge].realm
  BY <1>2, <1>3, <1>9 DEF DigestInv, RequestsInv
<1>10. RequestsInv'
  BY <1>7, <1>8, <1>9 DEF DigestInv, RequestsInv, CountsDiffer
<1>11. SeenInv'
  BY <1>2 DEF DigestInv, SeenInv
<1>12. Issued(c)' /\ c.nonce = fresh
  BY <1>2, <1>3 DEF Issued
<1>13. Untraced(fresh)'
  <2>1. parames_.nonce # fresh
    BY <1>1 DEF DigestInv, ClientInv, Behind
  <2>2. \A s \in Digests : s.auth.nonce # fresh
    BY <1>1 DEF DigestInv, RequestsInv, RequestInv
  <2>3. \A k \in Nat : <<fresh, k>> \notin seen
    BY <1>1 DEF DigestInv, SeenInv
  <2> QED
    BY <1>7, <2>1, <2>2, <2>3 DEF Untraced
<1>14. ASSUME NEW d \in answers
       PROVE  Issued(d)' /\ Untraced(d.nonce)' /\ d.nonce # fresh
  <2>1. Issued(d) /\ Untraced(d.nonce)
    BY DEF DigestInv, AnswersInv
  <2> QED
    BY <1>1, <1>2, <1>3, <1>7, <2>1 DEF Issued, Untraced
<1>15. AnswersInv'
  BY <1>12, <1>13, <1>14 DEF DigestInv, AnswersInv
<1> QED
  BY <1>4, <1>5, <1>6, <1>10, <1>11, <1>15 DEF DigestInv

LEMMA ServeKeeps ==
  ASSUME DigestInv, Serve
  PROVE  DigestInv'
<1>1. PICK r \in requests :
        LET verdict == Verdict(r)
            nonce == Cardinality(Nonces) + 1
        IN  /\ requests' = requests \ {r}
            /\ IF verdict = "accepted"
               THEN /\ seen' = seen \cup {<<r.auth.nonce, r.auth.nc>>}
                    /\ UNCHANGED <<answers, issued, refusals>>
               ELSE /\ nonce <= MaxNonces
                    /\ \E o \in Offers :
                         /\ issued' = [m \in 1 .. nonce |-> IF m = nonce THEN o ELSE issued[m]]
                         /\ answers' = answers \cup
                              {[scheme |-> o.scheme, decodes |-> o.decodes, realm |-> o.realm,
                                algo |-> o.algo, qop |-> o.qop, nonce |-> nonce]}
                    /\ refusals' = refusals \cup {Refusal(r, verdict)}
                    /\ UNCHANGED seen
            /\ UNCHANGED <<parames_, sent, expired>>
  BY DEF Serve
<1>2. CASE Verdict(r) = "accepted"
  <2>1. r \in Digests
    BY <1>2, VerdictIsFair
  <2> QED
    BY <1>1, <1>2, <2>1, AcceptKeeps
<1>3. CASE Verdict(r) # "accepted"
  <2>1. PICK fresh : fresh = Cardinality(Nonces) + 1
    OBVIOUS
  <2>2. PICK o \in Offers :
          /\ answers' = answers \cup
               {[scheme |-> o.scheme, decodes |-> o.decodes, realm |-> o.realm,
                 algo |-> o.algo, qop |-> o.qop, nonce |-> fresh]}
          /\ issued' = [m \in 1 .. fresh |-> IF m = fresh THEN o ELSE issued[m]]
    BY <1>1, <1>3, <2>1
  <2>3. PICK c : c = [scheme |-> o.scheme, decodes |-> o.decodes, realm |-> o.realm,
                      algo |-> o.algo, qop |-> o.qop, nonce |-> fresh]
    OBVIOUS
  <2> QED
    BY <1>1, <1>3, <2>1, <2>2, <2>3, ChallengeKeeps
<1> QED
  BY <1>2, <1>3

(* What is lost or over takes nothing away from the others. *)
LEMMA FewerKeeps ==
  ASSUME DigestInv, requests' \subseteq requests, answers' \subseteq answers,
         UNCHANGED <<parames_, sent, issued, seen, refusals>>
  PROVE  DigestInv'
<1>1. Nonces' = Nonces /\ Digests' \subseteq Digests
  BY DEF Nonces, Digests
<1>2. NoncesInv' /\ ClientInv'
  BY <1>1 DEF DigestInv, NoncesInv, ClientInv, Behind
<1>3. RequestsInv'
  BY <1>1 DEF DigestInv, RequestsInv, CountsDiffer, RequestInv
<1>4. SeenInv'
  BY <1>1 DEF DigestInv, SeenInv
<1>5. AnswersInv'
  BY <1>1 DEF DigestInv, AnswersInv, Issued, Untraced
<1> QED
  BY <1>2, <1>3, <1>4, <1>5 DEF DigestInv, NeverTakenForAnother

(* With the right password a client is refused as a wrong one only in       *)
(* answer to what it computes otherwise than the RFCs, and never as a       *)
(* repeated one, in whatever order challenges and requests arrive.          *)
THEOREM NeverRefusedAsAnother == DigestSpec => []NeverTakenForAnother
<1>1. DigestInv /\ [DigestNext]_digestVars => DigestInv'
  <2> SUFFICES ASSUME DigestInv, [DigestNext]_digestVars PROVE DigestInv'
    OBVIOUS
  <2>1. CASE \E uri \in Uris, entity \in Bodies : Request(uri, entity)
    BY <2>1, RequestKeeps
  <2>2. CASE Challenged
    BY <2>2, ChallengedKeeps
  <2>3. CASE Serve
    BY <2>3, ServeKeeps
  <2>4. CASE Expire
    BY <2>4, FewerKeeps DEF Expire
  <2>5. CASE Lose
    BY <2>5, FewerKeeps DEF Lose, server
  <2>6. CASE UNCHANGED digestVars
    BY <2>6, FewerKeeps DEF digestVars
  <2> QED
    BY <2>1, <2>2, <2>3, <2>4, <2>5, <2>6 DEF DigestNext
<1>2. DigestInv => NeverTakenForAnother
  BY DEF DigestInv
<1> QED
  BY InitDigest, <1>1, <1>2, PTL DEF DigestSpec

-----------------------------------------------------------------------------
(* Base64. *)

Byte == 0 .. 255
Char == 0 .. 64

(* Four characters give the three bytes they were made of. *)
LEMMA TripleBack ==
  ASSUME NEW a \in Byte, NEW b \in Byte, NEW c \in Byte, NEW f,
         \A i \in 1 .. 4 : f[i] = Sextets(a, b, c)[i]
  PROVE  Triple(f) = <<a, b, c>> /\ \A i \in 1 .. 4 : Sextets(a, b, c)[i] \in 0 .. 63
<1>1. PICK a1 \in 0 .. 63, a0 \in 0 .. 3 : a = 4 * a1 + a0 /\ a \div 4 = a1 /\ a % 4 = a0
  <2>1. a \in Nat /\ 4 \in Nat \ {0} /\ a <= 255
    BY DEF Byte
  <2>2. a \div 4 \in Nat /\ a % 4 \in 0 .. 3 /\ a = 4 * (a \div 4) + (a % 4)
    BY <2>1, DivMod
  <2> QED BY <2>1, <2>2
<1>2. PICK b1 \in 0 .. 15, b0 \in 0 .. 15 : b = 16 * b1 + b0 /\ b \div 16 = b1 /\ b % 16 = b0
  <2>1. b \in Nat /\ 16 \in Nat \ {0} /\ b <= 255
    BY DEF Byte
  <2>2. b \div 16 \in Nat /\ b % 16 \in 0 .. 15 /\ b = 16 * (b \div 16) + (b % 16)
    BY <2>1, DivMod
  <2> QED BY <2>1, <2>2
<1>3. PICK c1 \in 0 .. 3, c0 \in 0 .. 63 : c = 64 * c1 + c0 /\ c \div 64 = c1 /\ c % 64 = c0
  <2>1. c \in Nat /\ 64 \in Nat \ {0} /\ c <= 255
    BY DEF Byte
  <2>2. c \div 64 \in Nat /\ c % 64 \in 0 .. 63 /\ c = 64 * (c \div 64) + (c % 64)
    BY <2>1, DivMod
  <2> QED BY <2>1, <2>2
<1>4. Sextets(a, b, c) = <<a1, 16 * a0 + b1, 4 * b0 + c1, c0>>
  BY <1>1, <1>2, <1>3 DEF Sextets
<1>5. f[1] = a1 /\ f[2] = 16 * a0 + b1 /\ f[3] = 4 * b0 + c1 /\ f[4] = c0
  BY <1>4
<1>6. (4 * a1) % 256 = 4 * a1
  <2>1. 4 * a1 \in 0 .. 256 - 1 /\ 4 * a1 = 256 * 0 + 4 * a1 /\ 256 \in Nat \ {0} /\ 4 * a1 \in Nat
        /\ 0 \in Int
    OBVIOUS
  <2> QED BY <2>1, DivModIs
<1>7. (16 * a0 + b1) \div 16 = a0 /\ (16 * a0 + b1) % 16 = b1
  <2>1. 16 * a0 + b1 \in Nat /\ 16 \in Nat \ {0} /\ b1 \in 0 .. 16 - 1 /\ a0 \in Int
    OBVIOUS
  <2> QED BY <2>1, DivModIs
<1>8. (4 * b0 + c1) \div 4 = b0 /\ (4 * b0 + c1) % 4 = c1
  <2>1. 4 * b0 + c1 \in Nat /\ 4 \in Nat \ {0} /\ c1 \in 0 .. 4 - 1 /\ b0 \in Int
    OBVIOUS
  <2> QED BY <2>1, DivModIs
<1>9. a0 % 4 = a0 /\ b0 % 16 = b0
  OBVIOUS
<1>10. Triple(f) = <<4 * a1 + a0, 16 * b1 + b0, 64 * c1 + c0>>
  BY <1>5, <1>6, <1>7, <1>8, <1>9 DEF Triple
<1>11. \A i \in 1 .. 4 : Sextets(a, b, c)[i] \in 0 .. 63
  <2>1. a1 \in 0 .. 63 /\ 16 * a0 + b1 \in 0 .. 63 /\ 4 * b0 + c1 \in 0 .. 63 /\ c0 \in 0 .. 63
    OBVIOUS
  <2>2. \A i \in 1 .. 4 : i = 1 \/ i = 2 \/ i = 3 \/ i = 4
    OBVIOUS
  <2> QED BY <1>4, <2>1, <2>2
<1> QED BY <1>1, <1>2, <1>3, <1>10, <1>11

(* Where there is no byte the characters are 0. *)
LEMMA NoByte ==
  ASSUME NEW a \in Byte, NEW b \in Byte
  PROVE  /\ Sextets(a, 0, 0)[3] = 0 /\ Sextets(a, 0, 0)[4] = 0
         /\ Sextets(a, b, 0)[4] = 0
<1>1. 0 % 16 = 0 /\ 0 \div 64 = 0 /\ 0 % 64 = 0
  OBVIOUS
<1> QED BY <1>1 DEF Sextets

(* Sequences of m elements, one behind the other. *)
InBlocks(S, m, k, s, w) ==
  /\ w \in Seq(S) /\ Len(w) = m * k
  /\ \A j \in 0 .. k - 1 : \A i \in 1 .. m : w[m * j + i] = s[j + 1][i]

LEMMA FlattenBlocks ==
  ASSUME NEW S, NEW m \in {3, 4}, NEW k \in Nat, NEW s \in [1 .. k -> Seq(S)],
         \A j \in 1 .. k : Len(s[j]) = m
  PROVE  InBlocks(S, m, k, s, FlattenSeq(s))
<1> DEFINE F(h) == FlattenSeq([j \in 1 .. h |-> s[j]])
           Placed(h) == /\ F(h) \in Seq(S) /\ Len(F(h)) = m * h
                        /\ \A j \in 0 .. h - 1 : \A i \in 1 .. m : F(h)[m * j + i] = s[j + 1][i]
           G == {h \in 0 .. k : Placed(h)}
<1>1. Placed(0)
  <2>1. [j \in 1 .. 0 |-> s[j]] = <<>>
    OBVIOUS
  <2>2. F(0) = <<>>
    BY <2>1, FlattenEmpty
  <2> HIDE DEF F
  <2>3. <<>> \in Seq(S) /\ Len(<<>>) = 0 /\ m * 0 = 0 /\ 0 .. 0 - 1 = {}
    OBVIOUS
  <2> QED BY <2>2, <2>3
<1>2. ASSUME NEW h \in 0 .. k - 1, Placed(h) PROVE Placed(h + 1)
  <2>0. h \in Nat /\ h + 1 \in 1 .. k
    OBVIOUS
  <2> DEFINE w == [j \in 1 .. h + 1 |-> s[j]]
             x == s[h + 1]
  <2>1. \A j \in 1 .. h + 1 : j \in 1 .. k
    OBVIOUS
  <2>2. w \in [1 .. h + 1 -> Seq(S)] /\ w[h + 1] = x /\ [j \in 1 .. h |-> w[j]] = [j \in 1 .. h |-> s[j]]
    BY <2>0, <2>1
  <2>3. F(h + 1) = F(h) \o x
    <3>1. FlattenSeq(w) = FlattenSeq([j \in 1 .. h |-> w[j]]) \o w[h + 1]
      <4> HIDE DEF w
      <4> QED BY <2>0, <2>2, FlattenOneMore
    <3> QED BY <2>2, <3>1
  <2>4. x \in Seq(S) /\ Len(x) = m
    BY <2>0
  <2>5. F(h) \in Seq(S) /\ Len(F(h)) = m * h
        /\ \A j \in 0 .. h - 1 : \A i \in 1 .. m : F(h)[m * j + i] = s[j + 1][i]
    BY <1>2
  <2> HIDE DEF F, w
  <2>6. PICK u \in Seq(S) : u = F(h)
    BY <2>5
  <2>7. /\ u \o x \in Seq(S) /\ Len(u \o x) = m * h + m
        /\ \A i \in 1 .. m * h : (u \o x)[i] = u[i]
        /\ \A i \in 1 .. m : (u \o x)[m * h + i] = x[i]
    <3>1. Len(u) = m * h /\ Len(x) = m
      BY <2>4, <2>5, <2>6
    <3> HIDE DEF x
    <3>2. x \in Seq(S)
      BY <2>4
    <3>3. /\ u \o x \in Seq(S)
          /\ Len(u \o x) = Len(u) + Len(x)
          /\ \A i \in 1 .. Len(u) : (u \o x)[i] = u[i]
          /\ \A i \in 1 .. Len(x) : (u \o x)[Len(u) + i] = x[i]
      BY <3>2, ConcatIndex
    <3> QED BY <3>1, <3>3
  <2>8. m * (h + 1) = m * h + m
    OBVIOUS
  <2>9. ASSUME NEW j \in 0 .. (h + 1) - 1, NEW i \in 1 .. m
        PROVE  (u \o x)[m * j + i] = s[j + 1][i]
    <3>1. CASE j = h
      BY <2>7, <3>1
    <3>2. CASE j # h
      <4>1. j \in 0 .. h - 1 /\ h \in Nat
        BY <2>0, <3>2
      <4>2. m * j + i \in 1 .. m * h
        <5>1. CASE m = 3
          BY <4>1, <5>1
        <5>2. CASE m = 4
          BY <4>1, <5>2
        <5> QED BY <5>1, <5>2
      <4>3. (u \o x)[m * j + i] = u[m * j + i]
        BY <4>2, <2>7
      <4> QED BY <4>1, <4>3, <2>5, <2>6
    <3> QED BY <3>1, <3>2
  <2> HIDE DEF x
  <2> QED BY <2>3, <2>6, <2>7, <2>8, <2>9
<1> HIDE DEF Placed
<1>3. 0 \in G /\ \A h \in 0 .. k - 1 : h \in G => h + 1 \in G
  BY <1>1, <1>2
<1>4. \A h \in 0 .. k : h \in G
  <2> HIDE DEF G
  <2> QED BY <1>3, CountUp
<1>5. Placed(k)
  BY <1>4
<1>6. [j \in 1 .. k |-> s[j]] = s
  OBVIOUS
<1> QED BY <1>5, <1>6 DEF Placed, InBlocks

(* A number is so many groups and a rest. *)
LEMMA SplitByGroup ==
  ASSUME NEW m \in {3, 4}, NEW x \in Nat
  PROVE  \E k \in Nat, d \in 0 .. m - 1 : x = m * k + d
<1>1. m \in Nat \ {0}
  OBVIOUS
<1>2. x \div m \in Nat /\ x % m \in 0 .. m - 1 /\ x = m * (x \div m) + (x % m)
  BY <1>1, DivMod
<1> QED BY <1>2

(* The division of the decoder finds them. *)
LEMMA GroupsAndRest ==
  ASSUME NEW m \in Nat, NEW q \in Nat, NEW d \in 0 .. 3, m = 4 * q + d
  PROVE  m \div 4 = q /\ m % 4 = d
<1>1. 4 \in Nat \ {0} /\ d \in 0 .. 4 - 1 /\ q \in Int
  OBVIOUS
<1> QED BY <1>1, DivModIs

LEMMA FirstOf ==
  ASSUME NEW S, NEW w \in Seq(S), NEW r \in 0 .. Len(w)
  PROVE  SubSeq(w, 1, r) \in Seq(S) /\ Len(SubSeq(w, 1, r)) = r
         /\ \A i \in 1 .. r : SubSeq(w, 1, r)[i] = w[i]
  OBVIOUS

ByteAt(in, k, i) == IF i <= Len(in) - 3 * k THEN in[3 * k + i] ELSE 0
SextetsAt(in, k) == Sextets(ByteAt(in, k, 1), ByteAt(in, k, 2), ByteAt(in, k, 3))

(* What a group is made of, and that its characters are of the alphabet. *)
LEMMA BytesAre ==
  ASSUME NEW in \in Seq(Byte), NEW k \in Nat
  PROVE  /\ \A i \in 1 .. 3 : ByteAt(in, k, i) \in Byte
         /\ \A i \in 1 .. 4 : SextetsAt(in, k)[i] \in 0 .. 63
         /\ \A f : (\A i \in 1 .. 4 : f[i] = SextetsAt(in, k)[i]) =>
                     Triple(f) = <<ByteAt(in, k, 1), ByteAt(in, k, 2), ByteAt(in, k, 3)>>
<1>1. ASSUME NEW i \in 1 .. 3 PROVE ByteAt(in, k, i) \in Byte
  <2>1. CASE i <= Len(in) - 3 * k
    <3>1. 3 * k + i \in 1 .. Len(in)
      BY <2>1
    <3>2. in[3 * k + i] \in Byte
      BY <3>1
    <3> QED BY <2>1, <3>2 DEF ByteAt
  <2>2. CASE ~(i <= Len(in) - 3 * k)
    BY <2>2 DEF ByteAt, Byte
  <2> QED BY <2>1, <2>2
<1>2. PICK a \in Byte : a = ByteAt(in, k, 1)
  BY <1>1
<1>3. PICK b \in Byte : b = ByteAt(in, k, 2)
  BY <1>1
<1>4. PICK c \in Byte : c = ByteAt(in, k, 3)
  BY <1>1
<1>5. SextetsAt(in, k) = Sextets(a, b, c)
  BY <1>2, <1>3, <1>4 DEF SextetsAt
<1>6. \A i \in 1 .. 4 : Sextets(a, b, c)[i] \in 0 .. 63
  <2> DEFINE f == Sextets(a, b, c)
  <2>1. \A i \in 1 .. 4 : f[i] = Sextets(a, b, c)[i]
    OBVIOUS
  <2> HIDE DEF f
  <2> QED BY <2>1, TripleBack
<1>7. ASSUME NEW f, \A i \in 1 .. 4 : f[i] = SextetsAt(in, k)[i]
      PROVE  Triple(f) = <<a, b, c>>
  <2>1. \A i \in 1 .. 4 : f[i] = Sextets(a, b, c)[i]
    BY <1>5, <1>7
  <2> QED BY <2>1, TripleBack
<1> QED BY <1>1, <1>2, <1>3, <1>4, <1>5, <1>6, <1>7

(* What a group of the encoder is: characters, then padding. *)
LEMMA GroupIs ==
  ASSUME NEW in \in Seq(Byte), NEW k \in Nat
  PROVE  /\ EncodeGroup(in, k) \in Seq(Char) /\ Len(EncodeGroup(in, k)) = 4
         /\ \A i \in 1 .. 4 :
              EncodeGroup(in, k)[i] = IF i <= Len(in) - 3 * k + 1 THEN SextetsAt(in, k)[i] ELSE 64
<1> DEFINE g(i) == IF i <= Len(in) - 3 * k + 1 THEN SextetsAt(in, k)[i] ELSE 64
<1>1. EncodeGroup(in, k) = [i \in 1 .. 4 |-> g(i)]
  BY DEF EncodeGroup, SextetsAt, ByteAt, Pad
<1>2. \A i \in 1 .. 4 : g(i) \in Char
  <2>1. \A i \in 1 .. 4 : SextetsAt(in, k)[i] \in 0 .. 63
    BY BytesAre
  <2>2. 64 \in Char /\ \A x \in 0 .. 63 : x \in Char
    BY DEF Char
  <2> QED BY <2>1, <2>2
<1> HIDE DEF g
<1>3. [i \in 1 .. 4 |-> g(i)] \in Seq(Char) /\ Len([i \in 1 .. 4 |-> g(i)]) = 4
      /\ \A i \in 1 .. 4 : [j \in 1 .. 4 |-> g(j)][i] = g(i)
  BY <1>2
<1> QED BY <1>1, <1>3 DEF g

Groups(in) == (Len(in) + 2) \div 3

(* Four characters for every three bytes or what is left of them. *)
LEMMA EncodedIs ==
  ASSUME NEW in \in Seq(Byte)
  PROVE  /\ Groups(in) \in Nat
         /\ base64_encode(in) \in Seq(Char) /\ Len(base64_encode(in)) = 4 * Groups(in)
         /\ encoded_size(Len(in)) = 4 * Groups(in)
         /\ \A k \in 0 .. Groups(in) - 1 : \A i \in 1 .. 4 :
              base64_encode(in)[4 * k + i] = EncodeGroup(in, k)[i]
<1> DEFINE g == Groups(in)
           s == [k \in 1 .. g |-> EncodeGroup(in, k - 1)]
<1>1. g \in Nat /\ encoded_size(Len(in)) = 4 * g
  <2>1. Len(in) + 2 \in Nat /\ 3 \in Nat \ {0}
    OBVIOUS
  <2>2. (Len(in) + 2) \div 3 \in Nat
    BY <2>1, DivMod
  <2> QED BY <2>2 DEF Groups, encoded_size
<1>2. encoded_size(Len(in)) \div 4 = g
  <2> HIDE DEF g
  <2>1. 4 * g \in Nat /\ 4 \in Nat \ {0} /\ g \in Int /\ 0 \in 0 .. 4 - 1 /\ 4 * g = 4 * g + 0
    BY <1>1
  <2>2. (4 * g) \div 4 = g
    BY <2>1, DivModIs
  <2> QED BY <1>1, <2>2
<1>3. base64_encode(in) = FlattenSeq(s)
  BY <1>2 DEF base64_encode
<1> HIDE DEF g
<1>4. ASSUME NEW k \in 1 .. g PROVE EncodeGroup(in, k - 1) \in Seq(Char) /\ Len(EncodeGroup(in, k - 1)) = 4
  <2>1. k - 1 \in Nat
    BY <1>1
  <2> QED BY <2>1, GroupIs
<1>5. s \in [1 .. g -> Seq(Char)] /\ \A j \in 1 .. g : Len(s[j]) = 4 /\ s[j] = EncodeGroup(in, j - 1)
  BY <1>4
<1> HIDE DEF s
<1>6. /\ FlattenSeq(s) \in Seq(Char) /\ Len(FlattenSeq(s)) = 4 * g
      /\ \A j \in 0 .. g - 1 : \A i \in 1 .. 4 : FlattenSeq(s)[4 * j + i] = s[j + 1][i]
  <2>1. PICK m \in {3, 4} : m = 4
    OBVIOUS
  <2>2. g \in Nat /\ s \in [1 .. g -> Seq(Char)] /\ \A j \in 1 .. g : Len(s[j]) = m
    BY <1>1, <1>5, <2>1
  <2>3. InBlocks(Char, m, g, s, FlattenSeq(s))
    BY <2>2, FlattenBlocks
  <2> QED BY <2>1, <2>3 DEF InBlocks
<1>7. ASSUME NEW k \in 0 .. g - 1, NEW i \in 1 .. 4
      PROVE  FlattenSeq(s)[4 * k + i] = EncodeGroup(in, k)[i]
  <2>1. k + 1 \in 1 .. g /\ (k + 1) - 1 = k
    BY <1>1
  <2>2. s[k + 1] = EncodeGroup(in, (k + 1) - 1)
    BY <2>1, <1>5
  <2>3. EncodeGroup(in, (k + 1) - 1) = EncodeGroup(in, k)
    BY <2>1
  <2>4. FlattenSeq(s)[4 * k + i] = s[k + 1][i]
    BY <1>6
  <2> QED BY <2>2, <2>3, <2>4
<1> QED BY <1>1, <1>3, <1>6, <1>7 DEF g

-----------------------------------------------------------------------------
(* Decoding. *)

Stops(t, m) == (m = Len(t) \/ t[m + 1] \notin 0 .. 63) /\ \A i \in 1 .. m : t[i] \in 0 .. 63
CharAt(t, m, i) == IF i <= m THEN t[i] ELSE 0
GroupAt(t, m, k) == Triple([i \in 1 .. 4 |-> CharAt(t, m, 4 * k + i)])
DecodedTo(t, m) ==
  FlattenSeq([k \in 1 .. m \div 4 |-> GroupAt(t, m, k - 1)])
    \o SubSeq(GroupAt(t, m, m \div 4), 1, tail(m % 4))

(* Only one number of characters stops the decoder. *)
LEMMA DecodedIs ==
  ASSUME NEW t, Len(t) \in Nat, NEW m \in 0 .. Len(t), Stops(t, m)
  PROVE  base64_decode(t) = DecodedTo(t, m)
<1> DEFINE stop == CHOOSE k \in 0 .. Len(t) : Stops(t, k)
<1>1. base64_decode(t) = DecodedTo(t, stop)
  BY DEF base64_decode, DecodedTo, GroupAt, CharAt, Stops
<1>2. stop \in 0 .. Len(t) /\ Stops(t, stop)
  OBVIOUS
<1> HIDE DEF stop
<1>3. CASE stop < m
  <2>1. stop + 1 \in 1 .. m /\ stop # Len(t)
    BY <1>2, <1>3
  <2> QED BY <1>2, <2>1 DEF Stops
<1>4. CASE m < stop
  <2>1. m + 1 \in 1 .. stop /\ m # Len(t)
    BY <1>2, <1>4
  <2> QED BY <1>2, <2>1 DEF Stops
<1>5. CASE stop = m
  BY <1>1, <1>5
<1> QED BY <1>2, <1>3, <1>4, <1>5

(* A text that begins with what was encoded, and goes on only behind padding. *)
BeginsWith(t, in, q, r) ==
  /\ Len(in) = 3 * q + r
  /\ \A k \in 0 .. q : 4 * k + 4 <= Len(t) /\ (k < q \/ r # 0) =>
       \A i \in 1 .. 4 : t[4 * k + i] = EncodeGroup(in, k)[i]
  /\ IF r = 0 THEN Len(t) = 4 * q ELSE Len(t) >= 4 * q + 4

(* It decodes to what was encoded: whole groups give three bytes each, the last its rest. *)
LEMMA Decodes ==
  ASSUME NEW in \in Seq(Byte), NEW q \in Nat, NEW r \in 0 .. 2, NEW t, Len(t) \in Nat,
         BeginsWith(t, in, q, r)
  PROVE  base64_decode(t) = in
<1> DEFINE m == IF r = 0 THEN 4 * q ELSE 4 * q + r + 1
<1>1. m \in 0 .. Len(t) /\ m \in Nat
  BY DEF BeginsWith
<1>2. Len(in) = 3 * q + r /\ Len(in) \in Nat
  BY DEF BeginsWith
<1>3. ASSUME NEW k \in 0 .. q - 1, NEW i \in 1 .. 4
      PROVE  t[4 * k + i] = SextetsAt(in, k)[i] /\ 4 * k + i <= m
  <2>1. k \in Nat /\ k \in 0 .. q /\ k < q /\ 4 * k + 4 <= Len(t) /\ i <= Len(in) - 3 * k + 1
    BY <1>2 DEF BeginsWith
  <2>2. t[4 * k + i] = EncodeGroup(in, k)[i]
    BY <2>1 DEF BeginsWith
  <2>3. EncodeGroup(in, k)[i] = SextetsAt(in, k)[i]
    BY <2>1, GroupIs
  <2> QED BY <2>1, <2>2, <2>3
<1>4. ASSUME r # 0, NEW i \in 1 .. 4
      PROVE  t[4 * q + i] = IF i <= r + 1 THEN SextetsAt(in, q)[i] ELSE 64
  <2>1. q \in 0 .. q /\ 4 * q + 4 <= Len(t)
    BY <1>4 DEF BeginsWith
  <2>2. t[4 * q + i] = EncodeGroup(in, q)[i]
    BY <1>4, <2>1 DEF BeginsWith
  <2>3. EncodeGroup(in, q)[i] = IF i <= Len(in) - 3 * q + 1 THEN SextetsAt(in, q)[i] ELSE 64
    BY GroupIs
  <2>4. Len(in) - 3 * q = r
    BY <1>2
  <2> QED BY <2>2, <2>3, <2>4
<1>5. Stops(t, m)
  <2>1. ASSUME NEW p \in 1 .. m PROVE t[p] \in 0 .. 63
    <3>1. PICK k \in Nat, i \in 1 .. 4 : p = 4 * k + i
      <4>1. PICK x \in Nat, c \in {3, 4} : x = p - 1 /\ c = 4
        BY <1>1
      <4>2. PICK k \in Nat, d \in 0 .. 3 : x = 4 * k + d
        <5>1. PICK k \in Nat, d \in 0 .. c - 1 : x = c * k + d
          BY SplitByGroup
        <5>2. d \in 0 .. 3 /\ x = 4 * k + d
          BY <4>1, <5>1
        <5> QED BY <5>2
      <4>3. d + 1 \in 1 .. 4 /\ p = 4 * k + (d + 1)
        BY <4>1, <4>2
      <4> QED BY <4>2, <4>3
    <3>2. CASE k < q
      <4>1. k \in 0 .. q - 1
        BY <3>2
      <4> QED BY <3>1, <4>1, <1>3, BytesAre
    <3>3. CASE ~(k < q)
      <4>1. r # 0 /\ k = q /\ i <= r + 1
        BY <3>1, <3>3
      <4> QED BY <3>1, <4>1, <1>4, BytesAre
    <3> QED BY <3>2, <3>3
  <2>2. m = Len(t) \/ t[m + 1] \notin 0 .. 63
    <3>1. CASE r = 0
      BY <3>1 DEF BeginsWith
    <3>2. CASE r # 0
      <4>1. r + 2 \in 1 .. 4 /\ ~(r + 2 <= r + 1) /\ m + 1 = 4 * q + (r + 2)
        BY <3>2
      <4>2. t[4 * q + (r + 2)] = 64
        BY <3>2, <4>1, <1>4
      <4> HIDE DEF m
      <4>3. t[m + 1] = 64
        BY <4>1, <4>2
      <4> QED BY <4>3
    <3> QED BY <3>1, <3>2
  <2> HIDE DEF m
  <2> QED BY <2>1, <2>2 DEF Stops
<1>6. base64_decode(t) = DecodedTo(t, m)
  <2> HIDE DEF m
  <2> QED BY <1>1, <1>5, DecodedIs
<1>7. m \div 4 = q /\ tail(m % 4) = r
  <2> DEFINE d == IF r = 0 THEN 0 ELSE r + 1
  <2>1. d \in 0 .. 3 /\ m = 4 * q + d
    OBVIOUS
  <2>2. tail(d) = r
    BY DEF tail
  <2> HIDE DEF d, m
  <2>3. m \div 4 = q /\ m % 4 = d
    BY <1>1, <2>1, GroupsAndRest
  <2> QED BY <2>2, <2>3
<1>8. ASSUME NEW k \in 0 .. q - 1
      PROVE  GroupAt(t, m, k) = <<in[3 * k + 1], in[3 * k + 2], in[3 * k + 3]>>
  <2> DEFINE f == [i \in 1 .. 4 |-> CharAt(t, m, 4 * k + i)]
  <2>1. \A i \in 1 .. 4 : f[i] = SextetsAt(in, k)[i]
    BY <1>3 DEF CharAt
  <2>2. k \in Nat /\ 3 <= Len(in) - 3 * k
    BY <1>2
  <2>3. ByteAt(in, k, 1) = in[3 * k + 1] /\ ByteAt(in, k, 2) = in[3 * k + 2]
        /\ ByteAt(in, k, 3) = in[3 * k + 3]
    BY <2>2, <1>2 DEF ByteAt
  <2> HIDE DEF f, m
  <2>4. Triple(f) = <<ByteAt(in, k, 1), ByteAt(in, k, 2), ByteAt(in, k, 3)>>
    BY <2>1, <2>2, BytesAre
  <2> QED BY <2>3, <2>4 DEF GroupAt, f
<1>9. ASSUME r # 0
      PROVE  GroupAt(t, m, q) = <<ByteAt(in, q, 1), ByteAt(in, q, 2), ByteAt(in, q, 3)>>
  <2> DEFINE f == [i \in 1 .. 4 |-> CharAt(t, m, 4 * q + i)]
  <2>1. ASSUME NEW i \in 1 .. 4 PROVE f[i] = SextetsAt(in, q)[i]
    <3>1. CASE i <= r + 1
      <4>1. 4 * q + i <= m
        BY <1>9, <3>1
      <4> QED BY <4>1, <3>1, <1>4, <1>9 DEF CharAt
    <3>2. CASE ~(i <= r + 1)
      <4>1. ~(4 * q + i <= m)
        BY <1>9, <3>2
      <4>2. f[i] = 0
        BY <4>1 DEF CharAt
      <4>3. Len(in) - 3 * q = r
        BY <1>2
      <4>4. ByteAt(in, q, 1) \in Byte /\ ByteAt(in, q, 2) \in Byte
        BY BytesAre
      <4>5. CASE r = 1
        <5>1. ByteAt(in, q, 2) = 0 /\ ByteAt(in, q, 3) = 0 /\ (i = 3 \/ i = 4)
          BY <3>2, <4>3, <4>5 DEF ByteAt
        <5> QED BY <4>2, <4>4, <5>1, NoByte DEF SextetsAt
      <4>6. CASE r = 2
        <5>1. ByteAt(in, q, 3) = 0 /\ i = 4
          BY <3>2, <4>3, <4>6 DEF ByteAt
        <5> QED BY <4>2, <4>4, <5>1, NoByte DEF SextetsAt
      <4> QED BY <4>5, <4>6, <1>9
    <3> QED BY <3>1, <3>2
  <2> HIDE DEF f, m
  <2>2. Triple(f) = <<ByteAt(in, q, 1), ByteAt(in, q, 2), ByteAt(in, q, 3)>>
    BY <2>1, BytesAre
  <2> QED BY <2>2 DEF GroupAt, f
<1> HIDE DEF m
<1> DEFINE s == [k \in 1 .. q |-> GroupAt(t, m, k - 1)]
           v == SubSeq(GroupAt(t, m, q), 1, r)
<1>10. /\ FlattenSeq(s) \in Seq(Byte) /\ Len(FlattenSeq(s)) = 3 * q
       /\ \A j \in 0 .. q - 1 : \A i \in 1 .. 3 : FlattenSeq(s)[3 * j + i] = in[3 * j + i]
  <2>1. ASSUME NEW j \in 0 .. q - 1
        PROVE  /\ s[j + 1] \in Seq(Byte) /\ Len(s[j + 1]) = 3
               /\ \A i \in 1 .. 3 : s[j + 1][i] = in[3 * j + i]
    <3>1. s[j + 1] = GroupAt(t, m, j)
      OBVIOUS
    <3>2. 3 * j + 1 \in 1 .. Len(in) /\ 3 * j + 2 \in 1 .. Len(in) /\ 3 * j + 3 \in 1 .. Len(in)
      BY <1>2
    <3>3. in[3 * j + 1] \in Byte /\ in[3 * j + 2] \in Byte /\ in[3 * j + 3] \in Byte
      BY <3>2
    <3>4. \A a, b, c \in Byte : /\ <<a, b, c>> \in Seq(Byte) /\ Len(<<a, b, c>>) = 3
                                /\ <<a, b, c>>[1] = a /\ <<a, b, c>>[2] = b /\ <<a, b, c>>[3] = c
      OBVIOUS
    <3>5. \A i \in 1 .. 3 : i = 1 \/ i = 2 \/ i = 3
      OBVIOUS
    <3> HIDE DEF s
    <3>6. PICK a \in Byte, b \in Byte, c \in Byte :
            a = in[3 * j + 1] /\ b = in[3 * j + 2] /\ c = in[3 * j + 3]
      BY <3>3
    <3>7. s[j + 1] = <<a, b, c>>
      BY <3>1, <3>6, <1>8
    <3>8. \A i \in 1 .. 3 : <<a, b, c>>[i] = in[3 * j + i]
      BY <3>4, <3>5, <3>6
    <3> QED BY <3>4, <3>7, <3>8
  <2>2. \A j \in 1 .. q : j - 1 \in 0 .. q - 1 /\ (j - 1) + 1 = j
    OBVIOUS
  <2>3. s \in [1 .. q -> Seq(Byte)]
    <3>1. \A j \in 1 .. q : s[j] \in Seq(Byte)
      <4> HIDE DEF s
      <4> QED BY <2>1, <2>2
    <3>2. s = [j \in 1 .. q |-> s[j]]
      OBVIOUS
    <3> HIDE DEF s
    <3> QED BY <3>1, <3>2
  <2> HIDE DEF s
  <2>4. \A j \in 1 .. q : Len(s[j]) = 3
    BY <2>1, <2>2
  <2>5. 3 \in {3, 4}
    OBVIOUS
  <2>6. InBlocks(Byte, 3, q, s, FlattenSeq(s))
    BY <2>3, <2>4, <2>5, FlattenBlocks
  <2> QED BY <2>1, <2>6 DEF InBlocks
<1>11. v \in Seq(Byte) /\ Len(v) = r /\ \A i \in 1 .. r : v[i] = in[3 * q + i]
  <2>1. CASE r = 0
    <3>1. v = <<>>
      BY <2>1
    <3>2. <<>> \in Seq(Byte) /\ Len(<<>>) = 0
      OBVIOUS
    <3> HIDE DEF v
    <3> QED BY <2>1, <3>1, <3>2
  <2>2. CASE r # 0
    <3> DEFINE w == GroupAt(t, m, q)
    <3>1. w = <<ByteAt(in, q, 1), ByteAt(in, q, 2), ByteAt(in, q, 3)>>
      BY <1>9, <2>2
    <3>2. ByteAt(in, q, 1) \in Byte /\ ByteAt(in, q, 2) \in Byte /\ ByteAt(in, q, 3) \in Byte
      BY BytesAre
    <3> HIDE DEF w
    <3>3. w \in Seq(Byte) /\ Len(w) = 3 /\ w[1] = ByteAt(in, q, 1) /\ w[2] = ByteAt(in, q, 2)
          /\ w[3] = ByteAt(in, q, 3)
      BY <3>1, <3>2
    <3>4. SubSeq(w, 1, r) \in Seq(Byte) /\ Len(SubSeq(w, 1, r)) = r
          /\ \A i \in 1 .. r : SubSeq(w, 1, r)[i] = w[i]
      <4>1. PICK x \in Seq(Byte) : x = w
        BY <3>3
      <4>2. r \in 0 .. Len(x)
        BY <3>3, <4>1
      <4> QED BY <4>1, <4>2, FirstOf
    <3>5. ASSUME NEW i \in 1 .. r PROVE w[i] = in[3 * q + i]
      <4>1. ByteAt(in, q, i) = in[3 * q + i]
        BY <1>2 DEF ByteAt
      <4>2. i = 1 \/ i = 2
        OBVIOUS
      <4> QED BY <3>3, <4>1, <4>2
    <3> QED BY <3>4, <3>5 DEF w
  <2> QED BY <2>1, <2>2
<1>12. DecodedTo(t, m) = FlattenSeq(s) \o v
  BY <1>7 DEF DecodedTo
<1> HIDE DEF s, v
<1>13. FlattenSeq(s) \o v = in
  <2>1. PICK u \in Seq(Byte) : u = FlattenSeq(s)
    BY <1>10
  <2>2. /\ u \o v \in Seq(Byte) /\ Len(u \o v) = 3 * q + r
        /\ \A i \in 1 .. 3 * q : (u \o v)[i] = u[i]
        /\ \A i \in 1 .. r : (u \o v)[3 * q + i] = v[i]
    <3>1. Len(u) = 3 * q /\ Len(v) = r
      BY <1>10, <1>11, <2>1
    <3> QED BY <3>1, <1>11, ConcatIndex
  <2>3. ASSUME NEW p \in 1 .. Len(in) PROVE (u \o v)[p] = in[p]
    <3>1. CASE p <= 3 * q
      <4>1. PICK j \in Nat, d \in 0 .. 2 : p - 1 = 3 * j + d
        <5>1. PICK x \in Nat, c \in {3, 4} : x = p - 1 /\ c = 3
          BY <1>2
        <5>2. \E j \in Nat, d \in 0 .. c - 1 : x = c * j + d
          BY SplitByGroup
        <5> QED BY <5>1, <5>2
      <4>2. j \in 0 .. q - 1 /\ d + 1 \in 1 .. 3 /\ p = 3 * j + (d + 1) /\ p \in 1 .. 3 * q
        BY <1>2, <3>1, <4>1
      <4>3. u[3 * j + (d + 1)] = in[3 * j + (d + 1)]
        BY <4>2, <1>10, <2>1
      <4> QED BY <2>2, <4>2, <4>3
    <3>2. CASE ~(p <= 3 * q)
      <4>1. p - 3 * q \in 1 .. r /\ 3 * q + (p - 3 * q) = p
        BY <1>2, <3>2
      <4>2. (u \o v)[3 * q + (p - 3 * q)] = v[p - 3 * q] /\ v[p - 3 * q] = in[3 * q + (p - 3 * q)]
        BY <4>1, <2>2, <1>11
      <4> QED BY <4>1, <4>2
    <3> QED BY <3>1, <3>2
  <2>4. Len(u \o v) = Len(in)
    BY <2>2, <1>2
  <2>5. u \o v = in
    BY <2>2, <2>3, <2>4, SameElements
  <2> QED BY <2>1, <2>5
<1> QED BY <1>6, <1>12, <1>13

(* The encoder makes such a text, alone or with itself behind the padding. *)
LEMMA RoundTrip ==
  ASSUME octets \in Seq(Byte)
  PROVE  Base64RoundTrip
<1> DEFINE L == Len(octets)
           e == base64_encode(octets)
           q == L \div 3
           r == L % 3
           g == Groups(octets)
<1>1. L \in Nat /\ q \in Nat /\ r \in 0 .. 2 /\ L = 3 * q + r
  <2>1. L \in Nat /\ 3 \in Nat \ {0}
    OBVIOUS
  <2> HIDE DEF L
  <2> QED BY <2>1, DivMod
<1>2. /\ g \in Nat /\ e \in Seq(Char) /\ Len(e) = 4 * g /\ encoded_size(L) = 4 * g
      /\ \A k \in 0 .. g - 1 : \A i \in 1 .. 4 : e[4 * k + i] = EncodeGroup(octets, k)[i]
  BY EncodedIs
<1>3. g = IF r = 0 THEN q ELSE q + 1
  <2>1. g = (L + 2) \div 3
    BY DEF Groups
  <2> HIDE DEF L, q, r, g
  <2>2. PICK d \in 0 .. 3 - 1 : L + 2 = 3 * (IF r = 0 THEN q ELSE q + 1) + d
    <3>1. CASE r = 0
      BY <1>1, <3>1
    <3>2. CASE r = 1
      BY <1>1, <3>2
    <3>3. CASE r = 2
      BY <1>1, <3>3
    <3> QED BY <1>1, <3>1, <3>2, <3>3
  <2>3. PICK h \in Nat : h = IF r = 0 THEN q ELSE q + 1
    BY <1>1
  <2>4. L + 2 \in Nat /\ L + 2 = 3 * h + d /\ 3 \in Nat \ {0} /\ h \in Int
    BY <1>1, <2>2, <2>3
  <2>5. (L + 2) \div 3 = h
    BY <2>4, DivModIs
  <2> QED BY <2>1, <2>3, <2>5
<1> HIDE DEF e, g, q, r
<1>4. Len(octets) = 3 * q + r
  BY <1>1
<1>5. ASSUME NEW t, Len(t) \in Nat, \A i \in 1 .. 4 * g : t[i] = e[i], Len(t) >= 4 * g,
             r = 0 => Len(t) = 4 * g
      PROVE  base64_decode(t) = octets
  <2>1. ASSUME NEW k \in 0 .. q, k < q \/ r # 0, NEW i \in 1 .. 4
        PROVE  t[4 * k + i] = EncodeGroup(octets, k)[i]
    <3>1. k \in 0 .. g - 1 /\ 4 * k + i \in 1 .. 4 * g
      BY <1>1, <1>2, <1>3, <2>1
    <3> QED BY <1>2, <1>5, <3>1
  <2>2. BeginsWith(t, octets, q, r)
    BY <1>1, <1>3, <1>4, <1>5, <2>1 DEF BeginsWith
  <2> QED BY <1>1, <1>5, <2>2, Decodes
<1>6. base64_decode(e) = octets
  <2>1. Len(e) \in Nat /\ Len(e) >= 4 * g
    BY <1>2
  <2> QED BY <1>2, <1>5, <2>1
<1>7. ASSUME r # 0 PROVE base64_decode(e \o e) = octets
  <2>1. Len(e \o e) = 4 * g + 4 * g /\ \A i \in 1 .. 4 * g : (e \o e)[i] = e[i]
    <3>1. PICK f \in Seq(Char) : f = e
      BY <1>2
    <3>2. Len(f \o f) = Len(f) + Len(f) /\ \A i \in 1 .. Len(f) : (f \o f)[i] = f[i]
      BY ConcatIndex
    <3> QED BY <1>2, <3>1, <3>2
  <2>2. Len(e \o e) \in Nat /\ Len(e \o e) >= 4 * g
    BY <1>2, <2>1
  <2> QED BY <1>5, <1>7, <2>1, <2>2
<1>8. L <= decoded_size(Len(e))
  <2>1. 4 * g \in Nat /\ 4 \in Nat \ {0} /\ 0 \in 0 .. 4 - 1 /\ 4 * g = 4 * g + 0 /\ g \in Int
    BY <1>2
  <2>2. (4 * g) \div 4 = g
    BY <2>1, DivModIs
  <2>3. decoded_size(Len(e)) = g * 3
    BY <1>2, <2>2 DEF decoded_size
  <2> QED BY <1>1, <1>2, <1>3, <2>3
<1>9. \A i \in DOMAIN e : e[i] \in 0 .. Pad
  <2>1. PICK f \in Seq(Char) : f = e
    BY <1>2
  <2>2. \A i \in DOMAIN f : f[i] \in Char
    OBVIOUS
  <2> QED BY <2>1, <2>2 DEF Char, Pad
<1> QED BY <1>2, <1>6, <1>7, <1>8, <1>9 DEF Base64RoundTrip, e, r

(* base64_decode (zpkg) gives back what base64_encode was given, for every   *)
(* sequence of bytes, and stops at its padding; both results fit the        *)
(* memory that is set aside for them.                                       *)
THEOREM DecodedIsEncoded == Base64Spec => []Base64RoundTrip
<1> DEFINE Inv == octets \in Seq(Byte)
<1>1. Base64Init => Inv
  BY DEF Base64Init
<1>2. Inv /\ [Base64Next]_octets => Inv'
  <2>1. \A v \in Octets : v \in Byte
    BY Base64Assumption DEF Byte
  <2> QED BY <2>1 DEF Base64Next
<1>3. Inv => Base64RoundTrip
  BY RoundTrip
<1> HIDE DEF Inv
<1> QED BY <1>1, <1>2, <1>3, PTL DEF Base64Spec

=============================================================================
