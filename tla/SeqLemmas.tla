----------------------------- MODULE SeqLemmas -----------------------------
(***************************************************************************)
(* Facts about sequences that the proofs rest on, and about what a         *)
(* recursion computes.  Induction is stated here with the property as a    *)
(* set: a set that has 0 and with each number the next has them all.  It   *)
(* gives every recursion over 0 .. n, up or down, a function that is its   *)
(* one solution, and every fold over the subsets of 1 .. n.  Last, what    *)
(* div and mod do with a sum.                                              *)
(***************************************************************************)
EXTENDS Integers, Sequences, SequencesExt, WellFoundedInduction, TLAPS

LEMMA FunctionIsSeq ==
  ASSUME NEW S, NEW n \in Nat, NEW s \in [1 .. n -> S]
  PROVE  s \in Seq(S)
  OBVIOUS

LEMMA EmptyConcat ==
  ASSUME NEW S, NEW s \in Seq(S)
  PROVE  <<>> \o s = s /\ s \o <<>> = s
  OBVIOUS

LEMMA AppendConcat ==
  ASSUME NEW S, NEW s \in Seq(S), NEW u \in Seq(S), NEW x \in S
  PROVE  s \o Append(u, x) = Append(s \o u, x)
  OBVIOUS

LEMMA SeqOfMore ==
  ASSUME NEW A, NEW B, A \subseteq B, NEW s \in Seq(A)
  PROVE  s \in Seq(B)
  OBVIOUS

LEMMA AssocConcat ==
  ASSUME NEW S, NEW s \in Seq(S), NEW u \in Seq(S), NEW v \in Seq(S)
  PROVE  (s \o u) \o v = s \o (u \o v)
  OBVIOUS

LEMMA HeadTailType ==
  ASSUME NEW S, NEW s \in Seq(S), s # <<>>
  PROVE  Head(s) \in S /\ Tail(s) \in Seq(S)
  OBVIOUS

LEMMA HeadTailConcat ==
  ASSUME NEW S, NEW s \in Seq(S), NEW u \in Seq(S), s # <<>>
  PROVE  Head(s \o u) = Head(s) /\ Tail(s \o u) = Tail(s) \o u
  OBVIOUS

(* Moving the head of a queue to the end of a log keeps their concatenation. *)
LEMMA MoveHead ==
  ASSUME NEW S, NEW s \in Seq(S), NEW u \in Seq(S), u # <<>>
  PROVE  Append(s, Head(u)) \o Tail(u) = s \o u
  OBVIOUS

LEMMA RangeIndex ==
  ASSUME NEW S, NEW s \in Seq(S)
  PROVE  Range(s) = {s[i] : i \in 1 .. Len(s)} /\ Range(s) \subseteq S
  BY DEF Range

LEMMA ConcatIndex ==
  ASSUME NEW S, NEW s \in Seq(S), NEW u \in Seq(S)
  PROVE  /\ s \o u \in Seq(S)
         /\ Len(s \o u) = Len(s) + Len(u)
         /\ \A i \in 1 .. Len(s) : (s \o u)[i] = s[i]
         /\ \A i \in 1 .. Len(u) : (s \o u)[Len(s) + i] = u[i]
  OBVIOUS

LEMMA PrefixConcat ==
  ASSUME NEW S, NEW s \in Seq(S), NEW u \in Seq(S)
  PROVE  /\ {(s \o u)[i] : i \in 1 .. Len(s)} = Range(s)
         /\ SubSeq(s \o u, Len(s) + 1, Len(s \o u)) = u
<1>1. {(s \o u)[i] : i \in 1 .. Len(s)} = Range(s)
  BY ConcatIndex, RangeIndex
<1>2. SubSeq(s \o u, Len(s) + 1, Len(s \o u)) = u
  OBVIOUS
<1> QED
  BY <1>1, <1>2

LEMMA RangeMember ==
  ASSUME NEW S, NEW s \in Seq(S)
  PROVE  \A x : x \in Range(s) <=> \E i \in 1 .. Len(s) : x = s[i]
  BY DEF Range

LEMMA RangeConcat ==
  ASSUME NEW S, NEW s \in Seq(S), NEW u \in Seq(S)
  PROVE  Range(s \o u) = Range(s) \cup Range(u)
<1> DEFINE v == s \o u
<1>0. /\ v \in Seq(S) /\ Len(v) = Len(s) + Len(u)
      /\ Len(s) \in Nat /\ Len(u) \in Nat
      /\ \A i \in 1 .. Len(s) : v[i] = s[i]
      /\ \A i \in 1 .. Len(u) : v[Len(s) + i] = u[i]
  BY ConcatIndex
<1>1. \A x : x \in Range(v) <=> \E i \in 1 .. Len(v) : x = v[i]
  BY <1>0, RangeMember
<1>2. \A x : x \in Range(s) <=> \E i \in 1 .. Len(s) : x = s[i]
  BY RangeMember
<1>3. \A x : x \in Range(u) <=> \E i \in 1 .. Len(u) : x = u[i]
  BY RangeMember
<1> HIDE DEF v
<1>4. ASSUME NEW i \in 1 .. Len(v) PROVE v[i] \in Range(s) \cup Range(u)
  <2>1. CASE i <= Len(s)
    <3>1. i \in 1 .. Len(s) /\ v[i] = s[i]
      BY <1>0, <2>1
    <3> QED
      BY <1>2, <3>1
  <2>2. CASE i > Len(s)
    <3>1. i - Len(s) \in 1 .. Len(u) /\ i = Len(s) + (i - Len(s))
      BY <1>0, <2>2
    <3>2. v[i] = u[i - Len(s)]
      BY <1>0, <3>1
    <3> QED
      BY <1>3, <3>1, <3>2
  <2> QED
    BY <1>0, <2>1, <2>2
<1>5. ASSUME NEW i \in 1 .. Len(s) PROVE s[i] \in Range(v)
  <2>1. i \in 1 .. Len(v) /\ v[i] = s[i]
    BY <1>0
  <2> QED
    BY <1>1, <2>1
<1>6. ASSUME NEW i \in 1 .. Len(u) PROVE u[i] \in Range(v)
  <2>1. Len(s) + i \in 1 .. Len(v) /\ v[Len(s) + i] = u[i]
    BY <1>0
  <2> QED
    BY <1>1, <2>1
<1>7. Range(v) = Range(s) \cup Range(u)
  <2>1. ASSUME NEW x \in Range(v) PROVE x \in Range(s) \cup Range(u)
    BY <1>1, <1>4, <2>1
  <2>2. ASSUME NEW x \in Range(s) PROVE x \in Range(v)
    BY <1>2, <1>5, <2>2
  <2>3. ASSUME NEW x \in Range(u) PROVE x \in Range(v)
    BY <1>3, <1>6, <2>3
  <2> QED
    BY <2>1, <2>2, <2>3
<1> QED
  BY <1>7 DEF v

LEMMA RangeAppend ==
  ASSUME NEW S, NEW s \in Seq(S), NEW x \in S
  PROVE  Range(Append(s, x)) = Range(s) \cup {x}
<1> DEFINE v == Append(s, x)
<1>0. /\ v \in Seq(S) /\ Len(v) = Len(s) + 1 /\ Len(s) \in Nat
      /\ \A i \in 1 .. Len(s) : v[i] = s[i]
      /\ v[Len(s) + 1] = x
  OBVIOUS
<1>1. \A y : y \in Range(v) <=> \E i \in 1 .. Len(v) : y = v[i]
  BY <1>0, RangeMember
<1>2. \A y : y \in Range(s) <=> \E i \in 1 .. Len(s) : y = s[i]
  BY RangeMember
<1> HIDE DEF v
<1>3. ASSUME NEW y \in Range(v) PROVE y \in Range(s) \cup {x}
  <2>1. PICK i \in 1 .. Len(v) : y = v[i]
    BY <1>1, <1>3
  <2>2. i \in 1 .. Len(s) \/ i = Len(s) + 1
    BY <1>0, <2>1
  <2> QED
    BY <1>0, <1>2, <2>1, <2>2
<1>4. ASSUME NEW y \in Range(s) PROVE y \in Range(v)
  <2>1. PICK i \in 1 .. Len(s) : y = s[i]
    BY <1>2, <1>4
  <2>2. i \in 1 .. Len(v) /\ v[i] = y
    BY <1>0, <2>1
  <2> QED
    BY <1>1, <2>2
<1>5. x \in Range(v)
  <2>1. Len(s) + 1 \in 1 .. Len(v)
    BY <1>0
  <2> QED
    BY <1>0, <1>1, <2>1
<1>6. Range(v) = Range(s) \cup {x}
  BY <1>3, <1>4, <1>5
<1> QED
  BY <1>6 DEF v

(* The head is one element of a sequence, the rest of them are in its tail. *)
LEMMA RangeHeadTail ==
  ASSUME NEW S, NEW s \in Seq(S), s # <<>>
  PROVE  /\ Head(s) = s[1] /\ Len(s) \in Nat \ {0} /\ Len(Tail(s)) = Len(s) - 1
         /\ \A i \in 1 .. Len(s) - 1 : Tail(s)[i] = s[i + 1]
         /\ Range(s) = {Head(s)} \cup Range(Tail(s))
<1>1. /\ Head(s) = s[1] /\ Len(s) \in Nat \ {0} /\ Len(Tail(s)) = Len(s) - 1
      /\ \A i \in 1 .. Len(s) - 1 : Tail(s)[i] = s[i + 1]
      /\ Tail(s) \in Seq(S)
  OBVIOUS
<1>2. \A x : x \in Range(s) <=> \E i \in 1 .. Len(s) : x = s[i]
  BY RangeMember
<1>3. \A x : x \in Range(Tail(s)) <=> \E i \in 1 .. Len(s) - 1 : x = s[i + 1]
  <2>1. \A x : x \in Range(Tail(s)) <=> \E i \in 1 .. Len(Tail(s)) : x = Tail(s)[i]
    BY <1>1, RangeMember
  <2> QED
    BY <1>1, <2>1
<1>4. ASSUME NEW i \in 1 .. Len(s) PROVE s[i] = Head(s) \/ s[i] \in Range(Tail(s))
  <2>1. i = 1 \/ (i - 1 \in 1 .. Len(s) - 1 /\ i = (i - 1) + 1)
    BY <1>1
  <2> QED
    BY <1>1, <1>3, <2>1
<1>5. \A i \in 1 .. Len(s) - 1 : i + 1 \in 1 .. Len(s)
  BY <1>1
<1>6. 1 \in 1 .. Len(s)
  BY <1>1
<1>7. Range(s) = {Head(s)} \cup Range(Tail(s))
  <2>1. ASSUME NEW x \in Range(s) PROVE x \in {Head(s)} \cup Range(Tail(s))
    BY <1>2, <1>4
  <2>2. ASSUME NEW x \in Range(Tail(s)) PROVE x \in Range(s)
    BY <1>2, <1>3, <1>5
  <2>3. Head(s) \in Range(s)
    BY <1>1, <1>2, <1>6
  <2> QED
    BY <2>1, <2>2, <2>3
<1> QED
  BY <1>1, <1>7

(* What InsertAt of the community modules makes. *)
LEMMA InsertIndex ==
  ASSUME NEW S, NEW s \in Seq(S), NEW x \in S, NEW p \in 1 .. Len(s) + 1
  PROVE  /\ InsertAt(s, p, x) \in Seq(S)
         /\ Len(InsertAt(s, p, x)) = Len(s) + 1
         /\ InsertAt(s, p, x)[p] = x
         /\ \A i \in 1 .. Len(s) : i < p => InsertAt(s, p, x)[i] = s[i]
         /\ \A i \in 1 .. Len(s) : i >= p => InsertAt(s, p, x)[i + 1] = s[i]
<1> DEFINE left == SubSeq(s, 1, p - 1)
           right == SubSeq(s, p, Len(s))
<1>1. /\ left \in Seq(S) /\ Len(left) = p - 1
      /\ \A i \in 1 .. p - 1 : left[i] = s[i]
  OBVIOUS
<1>2. /\ right \in Seq(S) /\ Len(right) = Len(s) + 1 - p
      /\ \A i \in 1 .. Len(s) + 1 - p : right[i] = s[p + i - 1]
  OBVIOUS
<1>3. <<x>> \in Seq(S) /\ Len(<<x>>) = 1 /\ <<x>>[1] = x
  OBVIOUS
<1>4. InsertAt(s, p, x) = (left \o <<x>>) \o right
  BY DEF InsertAt
<1> HIDE DEF left, right
<1> DEFINE most == left \o <<x>>
<1>5. /\ most \in Seq(S) /\ Len(most) = p
      /\ \A i \in 1 .. p - 1 : most[i] = s[i]
      /\ most[p] = x
  BY <1>1, <1>3
<1> HIDE DEF most
<1> DEFINE all == most \o right
<1>6. /\ all \in Seq(S) /\ Len(all) = Len(s) + 1
      /\ \A i \in 1 .. p : all[i] = most[i]
      /\ \A i \in 1 .. Len(s) + 1 - p : all[p + i] = right[i]
  BY <1>2, <1>5, ConcatIndex
<1> HIDE DEF all
<1>7. all[p] = x /\ \A i \in 1 .. Len(s) : i < p => all[i] = s[i]
  BY <1>5, <1>6
<1>8. ASSUME NEW i \in 1 .. Len(s), i >= p
      PROVE  all[i + 1] = s[i]
  <2>1. /\ i + 1 - p \in 1 .. Len(s) + 1 - p
        /\ p + (i + 1 - p) = i + 1 /\ p + (i + 1 - p) - 1 = i
    BY <1>8
  <2>2. all[p + (i + 1 - p)] = right[i + 1 - p]
    BY <1>6, <2>1
  <2>3. right[i + 1 - p] = s[p + (i + 1 - p) - 1]
    BY <1>2, <2>1
  <2> QED
    BY <2>1, <2>2, <2>3
<1> QED
  BY <1>4, <1>6, <1>7, <1>8 DEF all, most

LEMMA RangeInsert ==
  ASSUME NEW S, NEW s \in Seq(S), NEW x \in S, NEW p \in 1 .. Len(s) + 1
  PROVE  Range(InsertAt(s, p, x)) = Range(s) \cup {x}
<1> DEFINE u == InsertAt(s, p, x)
<1>1. /\ u \in Seq(S) /\ Len(u) = Len(s) + 1 /\ u[p] = x
      /\ \A i \in 1 .. Len(s) : i < p => u[i] = s[i]
      /\ \A i \in 1 .. Len(s) : i >= p => u[i + 1] = s[i]
  <2>1. /\ InsertAt(s, p, x) \in Seq(S) /\ Len(InsertAt(s, p, x)) = Len(s) + 1
        /\ InsertAt(s, p, x)[p] = x
    BY InsertIndex
  <2>2. \A i \in 1 .. Len(s) : i < p => InsertAt(s, p, x)[i] = s[i]
    BY InsertIndex
  <2>3. \A i \in 1 .. Len(s) : i >= p => InsertAt(s, p, x)[i + 1] = s[i]
    BY InsertIndex
  <2> QED
    BY <2>1, <2>2, <2>3
<1>0. Len(s) \in Nat
  OBVIOUS
<1> HIDE DEF u
<1>2. \A y : y \in Range(u) <=> \E i \in 1 .. Len(s) + 1 : y = u[i]
  BY <1>0, <1>1, RangeMember
<1>3. \A y : y \in Range(s) <=> \E i \in 1 .. Len(s) : y = s[i]
  BY RangeMember
<1>4. ASSUME NEW i \in 1 .. Len(s) + 1 PROVE u[i] \in Range(s) \cup {x}
  <2>1. CASE i < p
    <3>1. i \in 1 .. Len(s)
      BY <1>0, <1>1, <2>1
    <3> QED
      BY <1>0, <1>1, <1>3, <2>1, <3>1
  <2>2. CASE i = p
    BY <1>0, <1>1, <2>2
  <2>3. CASE i > p
    <3>1. i - 1 \in 1 .. Len(s) /\ i - 1 >= p /\ u[i] = u[(i - 1) + 1]
      BY <1>0, <1>1, <2>3
    <3> QED
      BY <1>0, <1>1, <1>3, <2>3, <3>1
  <2> QED
    BY <1>0, <1>1, <2>1, <2>2, <2>3
<1>5. ASSUME NEW i \in 1 .. Len(s) PROVE s[i] \in Range(u)
  <2>1. CASE i < p
    <3>1. i \in 1 .. Len(s) + 1 /\ u[i] = s[i]
      BY <1>0, <1>1, <2>1
    <3> QED
      BY <1>2, <3>1
  <2>2. CASE i >= p
    <3>1. i + 1 \in 1 .. Len(s) + 1 /\ u[i + 1] = s[i]
      BY <1>0, <1>1, <2>2
    <3> QED
      BY <1>2, <3>1
  <2> QED
    BY <1>0, <1>1, <2>1, <2>2
<1>6. x \in Range(u)
  BY <1>0, <1>1, <1>2
<1>7. Range(u) = Range(s) \cup {x}
  BY <1>2, <1>3, <1>4, <1>5, <1>6
<1> QED
  BY <1>7 DEF u

(* A pair with an element appended is a triple. *)
LEMMA AppendIndex ==
  ASSUME NEW S, NEW s \in Seq(S), NEW x \in S
  PROVE  /\ Append(s, x) \in Seq(S) /\ Len(Append(s, x)) = Len(s) + 1
         /\ \A i \in 1 .. Len(s) : Append(s, x)[i] = s[i]
         /\ Append(s, x)[Len(s) + 1] = x
  OBVIOUS

LEMMA SameElements ==
  ASSUME NEW S, NEW s \in Seq(S), NEW u \in Seq(S), Len(s) = Len(u),
         \A i \in 1 .. Len(s) : s[i] = u[i]
  PROVE  s = u
  OBVIOUS

LEMMA AppendIsTriple ==
  ASSUME NEW S, NEW s \in Seq(S), NEW u \in Seq(S), NEW c \in S,
         Len(s) = 2, Len(u) = 3, u[1] = s[1], u[2] = s[2], u[3] = c
  PROVE  Append(s, c) = u
<1>1. /\ Append(s, c) \in Seq(S) /\ Len(Append(s, c)) = Len(s) + 1
      /\ \A i \in 1 .. Len(s) : Append(s, c)[i] = s[i]
      /\ Append(s, c)[Len(s) + 1] = c
  BY ONLY s \in Seq(S), c \in S, AppendIndex
<1>2. Len(s) + 1 = 3 /\ 1 \in 1 .. Len(s) /\ 2 \in 1 .. Len(s)
  BY Len(s) = 2
<1>3. Len(Append(s, c)) = Len(u)
  BY <1>1, <1>2, Zenon
<1>4. Append(s, c)[1] = u[1] /\ Append(s, c)[2] = u[2] /\ Append(s, c)[3] = u[3]
  BY <1>1, <1>2, Zenon
<1>5. \A i \in 1 .. Len(Append(s, c)) : i = 1 \/ i = 2 \/ i = 3
  <2>1. Len(Append(s, c)) = 3
    BY <1>1, <1>2, Zenon
  <2>2. \A n, i : n = 3 /\ i \in 1 .. n => i = 1 \/ i = 2 \/ i = 3
    OBVIOUS
  <2> QED
    BY <2>1, <2>2, Zenon
<1>6. \A i \in 1 .. Len(Append(s, c)) : Append(s, c)[i] = u[i]
  BY <1>4, <1>5, Zenon
<1> QED
  BY <1>1, <1>3, <1>6, SameElements, Zenon

LEMMA AppendToPair ==
  ASSUME NEW S, NEW a \in S, NEW b \in S, NEW c \in S
  PROVE  Append(<<a, b>>, c) = <<a, b, c>>
<1>1. /\ <<a, b>> \in Seq(S) /\ Len(<<a, b>>) = 2
      /\ <<a, b, c>> \in Seq(S) /\ Len(<<a, b, c>>) = 3
      /\ <<a, b, c>>[1] = <<a, b>>[1] /\ <<a, b, c>>[2] = <<a, b>>[2] /\ <<a, b, c>>[3] = c
  OBVIOUS
<1> QED
  BY ONLY <1>1, AppendIsTriple, c \in S, Zenon

-----------------------------------------------------------------------------
(* Induction and recursion. *)

(* A set of numbers has a smallest. *)
LEMMA SmallestElement ==
  ASSUME NEW T \in SUBSET Nat, T # {}
  PROVE  \E t \in T : \A u \in T : t <= u
<1>1. \E t \in T : \A u \in T : ~ (<<u, t>> \in OpToRel(<, Nat))
  BY NatLessThanWellFounded, WFMin, Zenon
<1>2. PICK t \in T : \A u \in T : ~ (<<u, t>> \in OpToRel(<, Nat))
  BY <1>1
<1>3. ASSUME NEW u \in T PROVE t <= u
  <2>1. ~ (u < t)
    BY <1>2 DEF OpToRel
  <2> QED
    BY <2>1
<1> QED
  BY <1>3

(* Induction, the property as a set. *)
LEMMA NatSetInduction ==
  ASSUME NEW G, 0 \in G, \A n \in Nat : n \in G => n + 1 \in G
  PROVE  Nat \subseteq G
<1>1. SUFFICES ASSUME Nat \ G # {} PROVE FALSE
  OBVIOUS
<1>2. \E t \in Nat \ G : \A u \in Nat \ G : ~ (<<u, t>> \in OpToRel(<, Nat))
  BY <1>1, NatLessThanWellFounded, WFMin, Zenon
<1>3. PICK t \in Nat \ G : \A u \in Nat \ G : ~ (<<u, t>> \in OpToRel(<, Nat))
  BY <1>2
<1>4. t # 0 /\ t - 1 \in Nat /\ (t - 1) + 1 = t
  OBVIOUS
<1>5. t - 1 \notin G
  BY <1>4
<1>6. <<t - 1, t>> \in OpToRel(<, Nat)
  BY <1>4 DEF OpToRel
<1> QED
  BY <1>3, <1>4, <1>5, <1>6

Steps(g, n, v0, F) ==
  g[0] = v0 /\ \A i \in 0 .. n - 1 : g[i + 1] = F[i][g[i]]

LEMMA StepsAgree ==
  ASSUME NEW v0, NEW F, NEW n \in Nat, NEW g, NEW h, Steps(g, n, v0, F), Steps(h, n + 1, v0, F)
  PROVE  g[n] = h[n]
<1> DEFINE E == {i \in Nat : i <= n => g[i] = h[i]}
<1>1. 0 \in E
  BY DEF Steps
<1>2. ASSUME NEW i \in Nat, i \in E PROVE i + 1 \in E
  <2> SUFFICES ASSUME i + 1 <= n PROVE g[i + 1] = h[i + 1]
    OBVIOUS
  <2>1. i \in 0 .. n - 1 /\ i \in 0 .. (n + 1) - 1 /\ g[i] = h[i]
    BY <1>2
  <2> QED BY <2>1 DEF Steps
<1>3. Nat \subseteq E
  <2> HIDE DEF E
  <2> QED BY <1>1, <1>2, NatSetInduction
<1> QED
  BY <1>3

Iterates(f, v0, F) == f[0] = v0 /\ \A n \in Nat : f[n + 1] = F[n][f[n]]

LEMMA PrimitiveRecursion ==
  ASSUME NEW V, NEW v0 \in V, NEW F \in [Nat -> [V -> V]]
  PROVE  \E f \in [Nat -> V] : Iterates(f, v0, F)
<1> DEFINE G == {n \in Nat : \E g \in [0 .. n -> V] : Steps(g, n, v0, F)}
<1>1. 0 \in G
  <2> DEFINE g == [i \in 0 .. 0 |-> v0]
  <2>1. g \in [0 .. 0 -> V] /\ Steps(g, 0, v0, F)
    BY DEF Steps
  <2> HIDE DEF g
  <2> QED BY <2>1
<1>2. ASSUME NEW n \in Nat, n \in G PROVE n + 1 \in G
  <2>1. PICK g \in [0 .. n -> V] : Steps(g, n, v0, F)
    BY <1>2
  <2> DEFINE h == [i \in 0 .. n + 1 |-> IF i = n + 1 THEN F[n][g[n]] ELSE g[i]]
  <2>2. h \in [0 .. n + 1 -> V]
    BY <2>1
  <2>3. h[0] = v0
    BY <2>1 DEF Steps
  <2>4. ASSUME NEW i \in 0 .. (n + 1) - 1 PROVE h[i + 1] = F[i][h[i]]
    <3>1. CASE i = n
      BY <3>1
    <3>2. CASE i # n
      <4>1. i \in 0 .. n - 1 /\ h[i] = g[i] /\ h[i + 1] = g[i + 1]
        BY <3>2
      <4> QED
        BY <4>1, <2>1 DEF Steps
    <3> QED BY <3>1, <3>2
  <2> HIDE DEF h
  <2>5. Steps(h, n + 1, v0, F)
    BY <2>3, <2>4 DEF Steps
  <2> QED BY <2>2, <2>5
<1>3. \A n \in Nat : \E g \in [0 .. n -> V] : Steps(g, n, v0, F)
  <2>1. Nat \subseteq G
    <3> HIDE DEF G
    <3> QED BY <1>1, <1>2, NatSetInduction
  <2> QED BY <2>1
<1> DEFINE H == [n \in Nat |-> CHOOSE g \in [0 .. n -> V] : Steps(g, n, v0, F)]
           f == [n \in Nat |-> H[n][n]]
<1>4. \A n \in Nat : H[n] \in [0 .. n -> V] /\ Steps(H[n], n, v0, F)
  BY <1>3
<1> HIDE DEF H
<1>5. ASSUME NEW n \in Nat PROVE H[n][n] = H[n + 1][n]
  <2>1. n + 1 \in Nat
    OBVIOUS
  <2>2. Steps(H[n], n, v0, F) /\ Steps(H[n + 1], n + 1, v0, F)
    BY <1>4, <2>1
  <2> QED BY <2>2, StepsAgree
<1>6. f \in [Nat -> V] /\ f[0] = v0
  BY <1>4 DEF Steps
<1>7. ASSUME NEW n \in Nat PROVE f[n + 1] = F[n][f[n]]
  <2>1. f[n+1] = H[n+1][n+1] /\ f[n] = H[n][n]
    OBVIOUS
  <2> HIDE DEF f
  <2>2. n \in 0 .. (n + 1) - 1 /\ Steps(H[n + 1], n + 1, v0, F)
    BY <1>4
  <2>3. H[n+1][n+1] = F[n][H[n+1][n]]
    BY <2>2 DEF Steps
  <2> QED BY <2>1, <2>3, <1>5
<1> QED BY <1>6, <1>7 DEF Iterates

Flat(f, s) ==
  /\ f = [i \in 1 .. Len(s) |-> IF i = 1 THEN s[i] ELSE f[i - 1] \o s[i]]

LEMMA FlattenFunction ==
  ASSUME NEW S, NEW s \in Seq(Seq(S)), Len(s) > 0
  PROVE \E f : Flat(f, s) /\ FlattenSeq(s) = f[Len(s)]
<1> DEFINE V == Seq(S)
           F == [i \in Nat |-> [v \in V |-> IF i + 2 \in 1 .. Len(s) THEN v \o s[i + 2] ELSE v]]
<1>0. Len(s) \in Nat /\ \A i \in 1 .. Len(s) : s[i] \in V
  OBVIOUS
<1>1. F \in [Nat -> [V -> V]] /\ s[1] \in V
  BY <1>0
<1>a. \A i \in 2 .. Len(s), v \in V : F[i - 2][v] = v \o s[i]
  BY <1>0
<1> HIDE DEF V, F
<1>2. PICK f \in [Nat -> V] : f[0] = s[1] /\ \A n \in Nat : f[n + 1] = F[n][f[n]]
  <2> DEFINE v0 == s[1]
  <2>1. v0 \in V
    BY <1>1
  <2> HIDE DEF v0
  <2>2. \E f \in [Nat -> V] : Iterates(f, v0, F)
    BY <2>1, <1>1, PrimitiveRecursion
  <2> QED BY <2>2 DEF v0, Iterates
<1> DEFINE g == [i \in 1 .. Len(s) |-> f[i - 1]]
<1>3. g[1] = s[1]
  <2>1. 1 \in 1 .. Len(s) /\ 1 - 1 = 0
    BY <1>0
  <2>2. g[1] = f[1 - 1]
    BY <2>1
  <2> HIDE DEF g
  <2> QED BY <2>1, <2>2, <1>2
<1>4. ASSUME NEW i \in 2 .. Len(s) PROVE g[i] = g[i-1] \o s[i]
  <2>2. i - 2 \in Nat /\ (i - 2) + 2 = i /\ (i - 2) + 1 = i - 1 /\ i - 1 \in 1 .. Len(s) /\ (i - 1) - 1 = i - 2
    BY <1>0
  <2>1. f[(i - 2) + 1] = F[i - 2][f[i - 2]]
    BY <1>2, <2>2
  <2>3. f[i - 2] \in V
    BY <2>2
  <2>4. F[i - 2][f[i - 2]] = f[i - 2] \o s[i]
    BY <1>a, <2>3
  <2>5. g[i] = f[i - 1] /\ g[i - 1] = f[i - 2]
    BY <2>2, <1>0
  <2> QED BY <2>1, <2>2, <2>4, <2>5
<1>5. Flat(g, s)
  <2>1. ASSUME NEW i \in 1 .. Len(s) PROVE g[i] = IF i = 1 THEN s[i] ELSE g[i - 1] \o s[i]
    <3>1. i = 1 \/ i \in 2 .. Len(s)
      BY <1>0
    <3> HIDE DEF g
    <3> QED BY <3>1, <1>3, <1>4
  <2> QED BY <2>1 DEF Flat
<1> HIDE DEF g
<1> DEFINE c == CHOOSE h : Flat(h, s)
<1>6. Flat(c, s)
  BY <1>5
<1>7. FlattenSeq(s) = c[Len(s)]
  BY DEF FlattenSeq, Flat
<1> QED BY <1>6, <1>7

(* A function that at i stops with a value or goes on further up.          *)
Searches(h, n, Stop, val, next) ==
  h = [i \in 1 .. n |-> IF i \in Stop THEN val[i] ELSE h[next[i]]]

LEMMA SearchExists ==
  ASSUME NEW n \in Nat, NEW Stop, NEW val, NEW next,
         \A i \in 1 .. n : i \in Stop \/ next[i] \in i + 1 .. n
  PROVE  \E h : Searches(h, n, Stop, val, next)
<1> DEFINE Turn(h, i) == IF i \in Stop THEN val[i] ELSE h[next[i]]
           Upper(h, k) == \A i \in 1 .. n : i > n - k => h[i] = Turn(h, i)
           G == {k \in Nat : \E h : Upper(h, k)}
<1>1. 0 \in G
  OBVIOUS
<1>2. ASSUME NEW k \in Nat, k \in G PROVE k + 1 \in G
  <2>1. PICK g : Upper(g, k)
    BY <1>2
  <2> DEFINE t == Turn(g, n - k)
             h == [i \in 1 .. n |-> IF i = n - k THEN t ELSE g[i]]
  <2>2. \A i \in 1 .. n : h[i] = IF i = n - k THEN t ELSE g[i]
    OBVIOUS
  <2> HIDE DEF h, t
  <2>3. ASSUME NEW i \in 1 .. n, i > n - (k + 1) PROVE h[i] = Turn(h, i)
    <3>1. i \in Stop \/ (next[i] \in 1 .. n /\ next[i] # n - k)
      BY <2>3
    <3>2. Turn(h, i) = Turn(g, i)
      BY <3>1, <2>2
    <3>3. h[i] = Turn(g, i)
      <4>1. CASE i = n - k
        BY <4>1, <2>2 DEF t
      <4>2. CASE i # n - k
        <5>1. i > n - k
          BY <4>2, <2>3
        <5> QED
          BY <5>1, <4>2, <2>1, <2>2
      <4> QED BY <4>1, <4>2
    <3> HIDE DEF Turn
    <3> QED BY <3>2, <3>3
  <2>4. Upper(h, k + 1)
    BY <2>3
  <2> QED BY <2>4
<1>3. n \in G
  <2>1. Nat \subseteq G
    <3> HIDE DEF G
    <3> QED BY <1>1, <1>2, NatSetInduction
  <2> HIDE DEF G
  <2> QED BY <2>1
<1>4. PICK h : Upper(h, n)
  BY <1>3
<1> DEFINE f == [i \in 1 .. n |-> h[i]]
<1>5. \A i \in 1 .. n : f[i] = h[i]
  OBVIOUS
<1> HIDE DEF f
<1>6. \A i \in 1 .. n : h[i] = Turn(f, i)
  <2> SUFFICES ASSUME NEW i \in 1 .. n PROVE h[i] = Turn(f, i)
    OBVIOUS
  <2>1. i > n - n
    OBVIOUS
  <2>2. h[i] = Turn(h, i)
    BY <1>4, <2>1
  <2>3. i \in Stop \/ next[i] \in 1 .. n
    OBVIOUS
  <2> QED
    BY <2>2, <2>3, <1>5
<1>7. f = [i \in 1 .. n |-> Turn(f, i)]
  <2>1. f = [i \in 1 .. n |-> h[i]]
    BY DEF f
  <2> HIDE DEF Turn, f
  <2> QED BY <2>1, <1>6
<1> QED BY <1>7 DEF Searches

(* What holds of every value it stops with, and of no less further down,    *)
(* holds of its results.                                                   *)
LEMMA SearchKeeps ==
  ASSUME NEW n \in Nat, NEW Stop, NEW val, NEW next, NEW h, NEW R,
         Searches(h, n, Stop, val, next),
         \A i \in 1 .. n : i \in Stop => val[i] \in R[i],
         \A i \in 1 .. n : i \notin Stop => next[i] \in i + 1 .. n /\ R[next[i]] \subseteq R[i]
  PROVE  \A i \in 1 .. n : h[i] \in R[i]
<1> DEFINE E == {k \in Nat : \A i \in 1 .. n : i > n - k => h[i] \in R[i]}
<1>1. 0 \in E
  OBVIOUS
<1>2. ASSUME NEW k \in Nat, k \in E PROVE k + 1 \in E
  <2> SUFFICES ASSUME NEW i \in 1 .. n, i > n - (k + 1) PROVE h[i] \in R[i]
    OBVIOUS
  <2>1. h[i] = IF i \in Stop THEN val[i] ELSE h[next[i]]
    BY DEF Searches
  <2>2. CASE i \in Stop
    BY <2>1, <2>2
  <2>3. CASE i \notin Stop
    <3>1. next[i] \in 1 .. n /\ next[i] > n - k
      BY <2>3
    <3>2. h[next[i]] \in R[next[i]]
      BY <3>1, <1>2
    <3> QED
      BY <3>2, <2>1, <2>3
  <2> QED BY <2>2, <2>3
<1>3. n \in E
  <2>1. Nat \subseteq E
    <3> HIDE DEF E
    <3> QED BY <1>1, <1>2, NatSetInduction
  <2> HIDE DEF E
  <2> QED BY <2>1
<1> QED BY <1>3

(* Induction up to n. *)
LEMMA CountUp ==
  ASSUME NEW n \in Nat, NEW G, 0 \in G, \A k \in 0 .. n - 1 : k \in G => k + 1 \in G
  PROVE  \A k \in 0 .. n : k \in G
<1> DEFINE H == {k \in Nat : k <= n => k \in G}
<1>1. 0 \in H /\ \A k \in Nat : k \in H => k + 1 \in H
  OBVIOUS
<1> HIDE DEF H
<1>2. Nat \subseteq H
  BY <1>1, NatSetInduction
<1> QED BY <1>2 DEF H

-----------------------------------------------------------------------------
(* Folds. *)

(* What the recursion of FoldLeft over 1 .. n does: F[i] takes in the i-th. *)
Folds(h, n, v0, F) ==
  \A s \in SUBSET (1 .. n) :
    h[s] = IF s = {} THEN v0 ELSE F[Max(s)][h[s \ {Max(s)}]]

LEMMA MaxIs ==
  ASSUME NEW n \in Nat, NEW s \in SUBSET (1 .. n), s # {}
  PROVE  Max(s) \in s /\ \A u \in s : u <= Max(s)
<1> DEFINE P(k) == \A t \in SUBSET (1 .. k) : t # {} => \E m \in t : \A u \in t : m >= u
<1>1. P(0)
  <2>1. 1 .. 0 = {}
    OBVIOUS
  <2> QED BY <2>1
<1>2. ASSUME NEW k \in Nat, P(k) PROVE P(k + 1)
  <2> SUFFICES ASSUME NEW t \in SUBSET (1 .. k + 1), t # {}
               PROVE  \E m \in t : \A u \in t : m >= u
    OBVIOUS
  <2>1. CASE k + 1 \in t
    BY <2>1
  <2>2. CASE k + 1 \notin t
    <3>1. t \in SUBSET (1 .. k)
      BY <2>2
    <3> QED BY <3>1, <1>2
  <2> QED BY <2>1, <2>2
<1>3. P(n)
  <2> DEFINE G == {k \in Nat : P(k)}
  <2> HIDE DEF P
  <2>1. 0 \in G /\ \A k \in Nat : k \in G => k + 1 \in G
    BY <1>1, <1>2
  <2> HIDE DEF G
  <2>2. Nat \subseteq G
    BY <2>1, NatSetInduction
  <2> QED BY <2>2 DEF G
<1>4. \E m \in s : \A u \in s : m >= u
  BY <1>3
<1>5. Max(s) \in s /\ \A u \in s : Max(s) >= u
  BY <1>4 DEF Max
<1> QED BY <1>5

(* Such a function, with its values.                                        *)
FoldOf(h, n, v0, F, V) == h \in [SUBSET (1 .. n) -> V] /\ Folds(h, n, v0, F)

LEMMA FoldExists ==
  ASSUME NEW n \in Nat, NEW V, NEW v0 \in V, NEW F \in [1 .. n -> [V -> V]]
  PROVE  \E h : FoldOf(h, n, v0, F, V)
<1> DEFINE P(k) == k <= n => \E h : FoldOf(h, k, v0, F, V)
<1>1. P(0)
  <2> DEFINE h == [s \in SUBSET (1 .. 0) |-> v0]
  <2>0. \A s \in SUBSET (1 .. 0) : s = {}
    OBVIOUS
  <2>1. h \in [SUBSET (1 .. 0) -> V] /\ \A s \in SUBSET (1 .. 0) : s = {} /\ h[s] = v0
    BY <2>0
  <2> HIDE DEF h
  <2>2. Folds(h, 0, v0, F)
    BY <2>1 DEF Folds
  <2> QED BY <2>1, <2>2 DEF FoldOf
<1>2. ASSUME NEW k \in Nat, P(k) PROVE P(k + 1)
  <2> SUFFICES ASSUME k + 1 <= n PROVE \E h : FoldOf(h, k + 1, v0, F, V)
    OBVIOUS
  <2>0. PICK g : FoldOf(g, k, v0, F, V)
    BY <1>2
  <2>1. g \in [SUBSET (1 .. k) -> V] /\ Folds(g, k, v0, F)
    BY <2>0 DEF FoldOf
  <2> DEFINE h == [s \in SUBSET (1 .. k + 1) |->
                     IF k + 1 \in s THEN F[k + 1][g[s \ {k + 1}]] ELSE g[s]]
  <2>2. ASSUME NEW s \in SUBSET (1 .. k + 1)
        PROVE  IF k + 1 \in s THEN s \ {k + 1} \in SUBSET (1 .. k) ELSE s \in SUBSET (1 .. k)
    OBVIOUS
  <2>3. h \in [SUBSET (1 .. k + 1) -> V]
    <3>1. k + 1 \in 1 .. n
      OBVIOUS
    <3> SUFFICES ASSUME NEW s \in SUBSET (1 .. k + 1)
                 PROVE  (IF k + 1 \in s THEN F[k + 1][g[s \ {k + 1}]] ELSE g[s]) \in V
      OBVIOUS
    <3> QED BY <3>1, <2>2, <2>1
  <2>4. \A s \in SUBSET (1 .. k + 1) : h[s] = IF k + 1 \in s THEN F[k + 1][g[s \ {k + 1}]] ELSE g[s]
    OBVIOUS
  <2> HIDE DEF h
  <2>5. \A s \in SUBSET (1 .. k) : s \in SUBSET (1 .. k + 1) /\ k + 1 \notin s /\ h[s] = g[s]
    BY <2>4
  <2>6. ASSUME NEW s \in SUBSET (1 .. k + 1)
        PROVE  h[s] = IF s = {} THEN v0 ELSE F[Max(s)][h[s \ {Max(s)}]]
    <3>1. CASE k + 1 \in s
      <4>0. s # {} /\ k + 1 \in Nat
        BY <3>1
      <4>1. Max(s) \in s /\ \A u \in s : u <= Max(s)
        BY <4>0, MaxIs
      <4>2. Max(s) = k + 1
        <5>1. Max(s) \in 1 .. k + 1 /\ k + 1 <= Max(s)
          BY <4>1, <3>1
        <5> QED BY <5>1
      <4>3. s \ {k + 1} \in SUBSET (1 .. k)
        BY <2>2, <3>1
      <4> QED BY <2>4, <2>5, <3>1, <4>2, <4>3
    <3>2. CASE k + 1 \notin s
      <4>1. s \in SUBSET (1 .. k) /\ h[s] = g[s]
        BY <2>2, <2>5, <3>2
      <4>2. s # {} => Max(s) \in s
        BY <4>1, MaxIs
      <4>3. s \ {Max(s)} \in SUBSET (1 .. k) /\ h[s \ {Max(s)}] = g[s \ {Max(s)}]
        BY <4>1, <2>5
      <4>4. g[s] = IF s = {} THEN v0 ELSE F[Max(s)][g[s \ {Max(s)}]]
        BY <4>1, <2>1 DEF Folds
      <4> QED BY <4>1, <4>3, <4>4
    <3> QED BY <3>1, <3>2
  <2>7. Folds(h, k + 1, v0, F)
    BY <2>6 DEF Folds
  <2> QED BY <2>3, <2>7 DEF FoldOf
<1>3. P(n)
  <2> DEFINE G == {k \in Nat : P(k)}
  <2> HIDE DEF P
  <2>1. 0 \in G /\ \A k \in Nat : k \in G => k + 1 \in G
    BY <1>1, <1>2
  <2> HIDE DEF G
  <2>2. Nat \subseteq G
    BY <2>1, NatSetInduction
  <2> QED BY <2>2 DEF G
<1> QED BY <1>3

LEMMA IntervalMax ==
  ASSUME NEW n \in Nat, NEW k \in 0 .. n - 1
  PROVE  /\ 1 .. k + 1 \in SUBSET (1 .. n) /\ 1 .. k + 1 # {}
         /\ Max(1 .. k + 1) = k + 1 /\ (1 .. k + 1) \ {k + 1} = 1 .. k
<1> DEFINE s == 1 .. k + 1
<1>1. s \in SUBSET (1 .. n) /\ s # {} /\ k + 1 \in s /\ \A u \in s : u <= k + 1
  OBVIOUS
<1>4. s \ {k + 1} = 1 .. k
  OBVIOUS
<1> HIDE DEF s
<1>2. Max(s) \in s /\ \A u \in s : u <= Max(s)
  BY <1>1, MaxIs
<1>3. Max(s) = k + 1
  <2>1. Max(s) \in 1 .. n
    BY <1>1, <1>2
  <2>2. k + 1 <= Max(s) /\ Max(s) <= k + 1
    BY <1>1, <1>2
  <2> QED BY <2>1, <2>2
<1> QED BY <1>1, <1>3, <1>4 DEF s

-----------------------------------------------------------------------------
(* FlattenSeq. *)

LEMMA FlatIs ==
  ASSUME NEW s, NEW f, Flat(f, s)
  PROVE  \A i \in 1 .. Len(s) : f[i] = IF i = 1 THEN s[i] ELSE f[i - 1] \o s[i]
<1> DEFINE F(i) == IF i = 1 THEN s[i] ELSE f[i - 1] \o s[i]
<1>1. f = [i \in 1 .. Len(s) |-> F(i)]
  BY DEF Flat
<1> HIDE DEF F
<1>2. \A i \in 1 .. Len(s) : f[i] = F(i)
  BY <1>1
<1> QED BY <1>2 DEF F

Precedes(s, t) == Len(s) <= Len(t) /\ \A i \in 1 .. Len(s) : s[i] = t[i]

LEMMA FlatAgree ==
  ASSUME NEW s, NEW t, NEW f, NEW g, Flat(f, s), Flat(g, t), Len(s) \in Nat, Len(t) \in Nat,
         Precedes(s, t)
  PROVE  \A i \in 1 .. Len(s) : f[i] = g[i]
<1> DEFINE P(k) == k \in 1 .. Len(s) => f[k] = g[k]
<1>0. \A i \in 1 .. Len(s) : /\ i \in 1 .. Len(t) /\ f[i] = IF i = 1 THEN s[i] ELSE f[i - 1] \o s[i]
                             /\ g[i] = IF i = 1 THEN t[i] ELSE g[i - 1] \o t[i]
  <2>1. \A i \in 1 .. Len(s) : i \in 1 .. Len(t)
    BY DEF Precedes
  <2> QED BY <2>1, FlatIs
<1>1. P(0)
  OBVIOUS
<1>2. ASSUME NEW k \in Nat, P(k) PROVE P(k + 1)
  <2> SUFFICES ASSUME k + 1 \in 1 .. Len(s) PROVE f[k + 1] = g[k + 1]
    OBVIOUS
  <2>1. CASE k = 0
    BY <1>0, <2>1 DEF Precedes
  <2>2. CASE k # 0
    <3>1. k \in 1 .. Len(s) /\ k + 1 # 1 /\ (k + 1) - 1 = k
      BY <2>2
    <3>2. f[k] = g[k]
      BY <3>1, <1>2
    <3>a. s[k + 1] = t[k + 1]
      BY DEF Precedes
    <3>3. f[k + 1] = f[(k + 1) - 1] \o s[k + 1] /\ g[k + 1] = g[(k + 1) - 1] \o t[k + 1]
      BY <3>1, <1>0
    <3> QED BY <3>1, <3>2, <3>3, <3>a
  <2> QED BY <2>1, <2>2
<1> DEFINE G == {k \in Nat : P(k)}
<1>3. \A k \in Nat : P(k)
  <2> HIDE DEF P
  <2>1. 0 \in G /\ \A k \in Nat : k \in G => k + 1 \in G
    BY <1>1, <1>2
  <2> HIDE DEF G
  <2>2. Nat \subseteq G
    BY <2>1, NatSetInduction
  <2> QED BY <2>2 DEF G
<1> QED BY <1>3

LEMMA FlattenEmpty == FlattenSeq(<<>>) = <<>>
  BY DEF FlattenSeq

LEMMA FlattenAppend ==
  ASSUME NEW S, NEW s \in Seq(Seq(S)), NEW x \in Seq(S)
  PROVE  FlattenSeq(Append(s, x)) = FlattenSeq(s) \o x
<1> DEFINE t == Append(s, x)
<1>1. /\ t \in Seq(Seq(S)) /\ Len(t) = Len(s) + 1 /\ Len(s) \in Nat /\ Len(t) \in Nat /\ Len(t) > 0
      /\ \A i \in 1 .. Len(s) : s[i] = t[i]
  OBVIOUS
<1>a. t[Len(s) + 1] = x
  OBVIOUS
<1> HIDE DEF t
<1>2. PICK g : Flat(g, t) /\ FlattenSeq(t) = g[Len(t)]
  BY <1>1, FlattenFunction
<1>3. \A i \in 1 .. Len(t) : g[i] = IF i = 1 THEN t[i] ELSE g[i - 1] \o t[i]
  BY <1>2, FlatIs
<1>4. CASE Len(s) = 0
  <2>1. s = <<>> /\ FlattenSeq(s) = <<>>
    BY <1>4, FlattenEmpty
  <2>2. g[Len(t)] = x
    BY <1>1, <1>a, <1>3, <1>4
  <2> QED BY <1>2, <2>1, <2>2 DEF t
<1>5. CASE Len(s) # 0
  <2>0. Len(s) > 0 /\ Len(s) <= Len(t)
    BY <1>1, <1>5
  <2>1. PICK f : Flat(f, s) /\ FlattenSeq(s) = f[Len(s)]
    BY <2>0, FlattenFunction
  <2>2. f[Len(s)] = g[Len(s)]
    <3>0. Precedes(s, t)
      BY <1>1, <2>0 DEF Precedes
    <3>1. \A i \in 1 .. Len(s) : f[i] = g[i]
      BY <3>0, <1>1, <1>2, <2>0, <2>1, FlatAgree
    <3> QED BY <3>1, <1>1, <1>5
  <2>3. Len(t) \in 1 .. Len(t) /\ Len(t) # 1 /\ Len(t) - 1 = Len(s)
    BY <1>1, <1>5
  <2>4. g[Len(t)] = g[Len(t) - 1] \o t[Len(t)]
    BY <1>3, <2>3
  <2> QED BY <1>1, <1>a, <1>2, <2>1, <2>2, <2>3, <2>4 DEF t
<1> QED BY <1>4, <1>5

LEMMA FlattenType ==
  ASSUME NEW S, NEW s \in Seq(Seq(S))
  PROVE  FlattenSeq(s) \in Seq(S)
<1>1. CASE Len(s) = 0
  <2>1. s = <<>>
    BY <1>1
  <2>2. FlattenSeq(s) = <<>>
    BY <2>1, FlattenEmpty
  <2> QED BY <2>2
<1>2. CASE Len(s) # 0
  <2>1. PICK f : Flat(f, s) /\ FlattenSeq(s) = f[Len(s)]
    BY <1>2, FlattenFunction
  <2>2. \A i \in 1 .. Len(s) : f[i] = IF i = 1 THEN s[i] ELSE f[i - 1] \o s[i]
    BY <2>1, FlatIs
  <2>3. \A i \in 1 .. Len(s) : s[i] \in Seq(S)
    OBVIOUS
  <2> DEFINE P(k) == k \in 1 .. Len(s) => f[k] \in Seq(S)
  <2>4. P(0)
    OBVIOUS
  <2>5. ASSUME NEW k \in Nat, P(k) PROVE P(k + 1)
    <3> SUFFICES ASSUME k + 1 \in 1 .. Len(s) PROVE f[k + 1] \in Seq(S)
      OBVIOUS
    <3>1. CASE k = 0
      BY <2>2, <2>3, <3>1
    <3>2. CASE k # 0
      <4>1. k \in 1 .. Len(s) /\ k + 1 # 1 /\ (k + 1) - 1 = k
        BY <3>2
      <4>2. f[k] \in Seq(S) /\ s[k + 1] \in Seq(S)
        BY <4>1, <2>3, <2>5
      <4>3. f[k + 1] = f[(k + 1) - 1] \o s[k + 1]
        BY <2>2, <4>1
      <4>4. f[k + 1] = f[k] \o s[k + 1]
        BY <4>1, <4>3
      <4> QED BY <4>2, <4>4
    <3> QED BY <3>1, <3>2
  <2> DEFINE G == {k \in Nat : P(k)}
  <2>6. \A k \in Nat : P(k)
    <3> HIDE DEF P
    <3>1. 0 \in G /\ \A k \in Nat : k \in G => k + 1 \in G
      BY <2>4, <2>5
    <3> HIDE DEF G
    <3>2. Nat \subseteq G
      BY <3>1, NatSetInduction
    <3> QED BY <3>2 DEF G
  <2>7. Len(s) \in 1 .. Len(s) /\ Len(s) \in Nat
    BY <1>2
  <2> QED BY <2>1, <2>6, <2>7
<1> QED BY <1>1, <1>2

LEMMA FlattenConcatStep ==
  ASSUME NEW S, NEW s \in Seq(Seq(S)), NEW v \in Seq(Seq(S)), NEW x \in Seq(S),
         FlattenSeq(s \o v) = FlattenSeq(s) \o FlattenSeq(v)
  PROVE  FlattenSeq(s \o Append(v, x)) = FlattenSeq(s) \o FlattenSeq(Append(v, x))
<1>1. s \o Append(v, x) = Append(s \o v, x) /\ s \o v \in Seq(Seq(S))
  BY AppendConcat
<1>2. FlattenSeq(Append(s \o v, x)) = FlattenSeq(s \o v) \o x
  BY <1>1, FlattenAppend
<1>3. FlattenSeq(Append(v, x)) = FlattenSeq(v) \o x
  BY FlattenAppend
<1>4. PICK a \in Seq(S) : a = FlattenSeq(s)
  BY FlattenType
<1>5. PICK b \in Seq(S) : b = FlattenSeq(v)
  BY FlattenType
<1>6. (a \o b) \o x = a \o (b \o x)
  BY AssocConcat
<1> QED BY <1>1, <1>2, <1>3, <1>4, <1>5, <1>6

LEMMA FlattenConcat ==
  ASSUME NEW S, NEW s \in Seq(Seq(S)), NEW t \in Seq(Seq(S))
  PROVE  FlattenSeq(s \o t) = FlattenSeq(s) \o FlattenSeq(t)
<1> DEFINE Q(u) == FlattenSeq(s \o u) = FlattenSeq(s) \o FlattenSeq(u)
           P(k) == \A u \in Seq(Seq(S)) : Len(u) = k => Q(u)
<1>1. P(0)
  <2> SUFFICES ASSUME NEW u \in Seq(Seq(S)), Len(u) = 0 PROVE Q(u)
    OBVIOUS
  <2>1. u = <<>> /\ s \o u = s
    OBVIOUS
  <2>2. FlattenSeq(s) \o <<>> = FlattenSeq(s)
    BY FlattenType, EmptyConcat
  <2> QED BY <2>1, <2>2, FlattenEmpty
<1>2. ASSUME NEW k \in Nat, P(k) PROVE P(k + 1)
  <2> SUFFICES ASSUME NEW u \in Seq(Seq(S)), Len(u) = k + 1 PROVE Q(u)
    OBVIOUS
  <2> DEFINE v == SubSeq(u, 1, k)
             x == u[k + 1]
  <2>1. v \in Seq(Seq(S)) /\ Len(v) = k /\ x \in Seq(S)
    OBVIOUS
  <2>2. u = Append(v, x)
    <3>1. Append(v, x) \in Seq(Seq(S)) /\ Len(Append(v, x)) = k + 1
      BY <2>1
    <3>2. \A i \in 1 .. k + 1 : Append(v, x)[i] = u[i]
      OBVIOUS
    <3> DEFINE w == Append(v, x)
    <3> HIDE DEF v, x, w
    <3>3. w \in Seq(Seq(S)) /\ Len(w) = Len(u) /\ \A i \in 1 .. Len(w) : w[i] = u[i]
      BY <3>1, <3>2 DEF w
    <3>4. w = u
      BY <3>3, SameElements
    <3> QED BY <3>4 DEF w
  <2> HIDE DEF v, x
  <2>3. Q(v)
    BY <1>2, <2>1
  <2>4. FlattenSeq(s \o Append(v, x)) = FlattenSeq(s) \o FlattenSeq(Append(v, x))
    BY <2>1, <2>3, FlattenConcatStep
  <2> QED BY <2>2, <2>4
<1> DEFINE G == {k \in Nat : P(k)}
<1>3. \A k \in Nat : P(k)
  <2> HIDE DEF P
  <2>1. 0 \in G /\ \A k \in Nat : k \in G => k + 1 \in G
    BY <1>1, <1>2
  <2> HIDE DEF G
  <2>2. Nat \subseteq G
    BY <2>1, NatSetInduction
  <2> QED BY <2>2 DEF G
<1>4. Len(t) \in Nat
  OBVIOUS
<1> QED BY <1>3, <1>4

(* One more of a sequence of sequences. *)
LEMMA FlattenOneMore ==
  ASSUME NEW S, NEW k \in Nat, NEW s \in [1 .. k + 1 -> Seq(S)]
  PROVE  FlattenSeq(s) = FlattenSeq([j \in 1 .. k |-> s[j]]) \o s[k + 1]
<1> DEFINE u == [j \in 1 .. k |-> s[j]]
<1>1. u \in Seq(Seq(S)) /\ Len(u) = k /\ s[k + 1] \in Seq(S)
  OBVIOUS
<1>2. Append(u, s[k + 1]) \in Seq(Seq(S)) /\ Len(Append(u, s[k + 1])) = k + 1
      /\ \A j \in 1 .. k + 1 : Append(u, s[k + 1])[j] = IF j = k + 1 THEN s[k + 1] ELSE u[j]
  BY <1>1
<1>3. s \in Seq(Seq(S)) /\ Len(s) = k + 1
  OBVIOUS
<1>4. \A j \in 1 .. k + 1 : s[j] = Append(u, s[k + 1])[j]
  <2>1. \A j \in 1 .. k + 1 : j # k + 1 => j \in 1 .. k
    OBVIOUS
  <2> QED BY <1>2, <2>1
<1>5. s = Append(u, s[k + 1])
  BY <1>2, <1>3, <1>4, SameElements
<1> QED BY <1>1, <1>5, FlattenAppend

-----------------------------------------------------------------------------
(* Division. *)

LEMMA DivMod ==
  ASSUME NEW n \in Nat, NEW d \in Nat \ {0}
  PROVE  n \div d \in Nat /\ n % d \in 0 .. d - 1 /\ n = d * (n \div d) + (n % d)
<1>1. n % d \in 0 .. d - 1
  OBVIOUS
<1>2. n = d * (n \div d) + (n % d)
  OBVIOUS
<1>3. n \div d \in Int
  OBVIOUS
<1>4. n \div d >= 0
  <2> DEFINE q == n \div d
  <2>0. n = d * q + (n % d) /\ q \in Int
    BY <1>2, <1>3
  <2> HIDE DEF q
  <2>1. SUFFICES ASSUME q <= -1 PROVE FALSE
    BY <2>0 DEF q
  <2>2. d * q <= -d /\ d * q \in Int
    BY <2>0, <2>1
  <2> QED BY <1>1, <2>0, <2>2
<1> QED BY <1>1, <1>2, <1>3, <1>4

LEMMA DivModIs ==
  ASSUME NEW d \in Nat \ {0}, NEW q \in Int, NEW r \in 0 .. d - 1, NEW n \in Nat, n = d * q + r
  PROVE  n \div d = q /\ n % d = r
<1>1. PICK p \in Nat : p = n \div d
  BY DivMod
<1>2. PICK s \in 0 .. d - 1 : s = n % d
  BY DivMod
<1>3. n = d * p + s
  BY <1>1, <1>2, DivMod
<1>4. d * (q - p) = s - r
  <2>1. d * q \in Int /\ d * p \in Int /\ d * (q - p) = d * q - d * p
    OBVIOUS
  <2> QED BY <1>3, <2>1
<1>5. CASE q - p >= 1
  <2>1. d * (q - p) >= d
    BY <1>5
  <2> QED BY <1>4, <2>1
<1>6. CASE q - p <= -1
  <2>1. d * (q - p) <= -d
    BY <1>6
  <2> QED BY <1>4, <2>1
<1>7. CASE q = p
  BY <1>1, <1>2, <1>4, <1>7
<1> QED BY <1>5, <1>6, <1>7

LEMMA DivModAdd ==
  ASSUME NEW d \in Nat \ {0}, NEW a \in Nat, NEW b \in Nat
  PROVE  (a + b) % d = ((a % d) + b) % d /\ (a + b) \div d = a \div d + ((a % d) + b) \div d
<1>1. PICK q \in Nat, r \in 0 .. d - 1 : q = a \div d /\ r = a % d /\ a = d * q + r
  BY DivMod
<1>2. PICK p \in Nat, s \in 0 .. d - 1 : p = (r + b) \div d /\ s = (r + b) % d /\ r + b = d * p + s
  <2>1. r + b \in Nat
    OBVIOUS
  <2> QED BY <2>1, DivMod
<1>3. d * q \in Int /\ d * p \in Int /\ d * (q + p) = d * q + d * p
  OBVIOUS
<1>4. a + b = d * (q + p) + s
  BY <1>1, <1>2, <1>3
<1>5. (a + b) \div d = q + p /\ (a + b) % d = s
  <2> DEFINE n == a + b
             k == q + p
  <2>1. n \in Nat /\ k \in Int /\ n = d * k + s
    BY <1>4
  <2> HIDE DEF n, k
  <2>2. n \div d = k /\ n % d = s
    BY <2>1, DivModIs
  <2> QED BY <2>2 DEF n, k
<1> QED BY <1>1, <1>2, <1>5

=============================================================================
