------------------------- MODULE SocketProxy_proofs -------------------------
(***************************************************************************)
(* The connections of the socket proxy, for any number of pairs, pieces    *)
(* and pool threads.                                                       *)
(*                                                                         *)
(* What is under way for a pair, outstanding or with its handler waiting,  *)
(* is the connect or one read or write for each direction: each step puts  *)
(* one in the place of another (PairInv).  So the buffer of a direction is *)
(* used by one of them at a time (DataInv).                                *)
(***************************************************************************)
EXTENDS SocketProxy, SeqLemmas, TLAPS

-----------------------------------------------------------------------------
(* The inductive invariant. *)

(* What is under way for a pair, and of it what belongs to a direction. *)
Under(p) == ops[p] \cup done[p]
Of(p, d) == {x \in Under(p) : x[2] = d}

(* Nothing was sent yet. *)
Still(p) == \A d \in Dir : taken[p][d] = 0 /\ delivered[p][d] = <<>>

Fresh(p) == Under(p) = {} /\ Still(p)
Connecting(p) == Still(p) /\ \E x : Under(p) = {x} /\ x[1] = "connect"
Moving(p) == \A d \in Dir : \E x : Of(p, d) = {x} /\ x[1] # "connect"

PairOK(p) ==
  \/ pair[p] = "deleted" /\ ops[p] = {}
  \/ pair[p] # "deleted" /\ Fresh(p)
  \/ pair[p] = "made" /\ (Connecting(p) \/ Moving(p))

PairInv == \A p \in Id : PairOK(p)

(* The pair that waits to be accepted is the last one made. *)
AcceptInv ==
  /\ proxy_count >= 2
  /\ accept \in Result => proxy_count <= MaxPairs
  /\ \A p \in Id :
       /\ p >= Accepting => Fresh(p)
       /\ p = Accepting => pair[p] = "made"
       /\ p > Accepting => pair[p] = "none"

(* A piece is in the buffer from the end of its read to the end of its write. *)
Loaded(p, d) == <<"write", d>> \in ops[p] \/ <<"read", d, "ok">> \in done[p]
Empty(p, d) == <<"read", d>> \in ops[p] \/ <<"write", d, "ok">> \in done[p]
DataOK(p, d) ==
  /\ \A i \in 1 .. Len(delivered[p][d]) : delivered[p][d][i] = i
  /\ taken[p][d] = Len(delivered[p][d]) \/ taken[p][d] = Len(delivered[p][d]) + 1
  /\ Loaded(p, d) => taken[p][d] = Len(delivered[p][d]) + 1 /\ buffer[p][d] = taken[p][d]
  /\ Empty(p, d) => taken[p][d] = Len(delivered[p][d])

DataInv == \A p \in Id, d \in Dir : DataOK(p, d)

ProxyInv == TypeOK /\ PairInv /\ AcceptInv /\ DataInv /\ MapInStep

-----------------------------------------------------------------------------
(* What is under way has one of two shapes. *)

Kind == {"read", "write", "connect"}
Completion == {Append(op, r) : op \in Op, r \in Result}

LEMMA OpShape ==
  ASSUME NEW op \in Op
  PROVE  /\ op[1] \in Kind /\ op[2] \in Dir /\ op = <<op[1], op[2]>>
         /\ \A r \in Result : Append(op, r) = <<op[1], op[2], r>>
<1>1. \E k \in Kind, d \in Dir : op = <<k, d>>
  BY DEF Op, Kind, Dir
<1>2. PICK k \in Kind, d \in Dir : op = <<k, d>>
  BY <1>1
<1>3. ASSUME NEW r \in Result PROVE Append(<<k, d>>, r) = <<k, d, r>>
  <2> DEFINE S == Kind \cup Dir \cup Result
  <2>1. k \in S /\ d \in S /\ r \in S
    OBVIOUS
  <2> HIDE DEF S
  <2> QED
    BY <2>1, AppendToPair
<1> QED
  BY <1>2, <1>3

LEMMA CompletionShape ==
  ASSUME NEW c \in Completion
  PROVE  /\ c[1] \in Kind /\ c[2] \in Dir /\ c[3] \in Result
         /\ c = <<c[1], c[2], c[3]>> /\ c \notin Op
<1>1. PICK op \in Op, r \in Result : c = Append(op, r)
  BY DEF Completion
<1>2. /\ op[1] \in Kind /\ op[2] \in Dir
      /\ c = <<op[1], op[2], r>>
  BY <1>1, OpShape
<1>3. ASSUME c \in Op PROVE FALSE
  <2>1. c = <<c[1], c[2]>>
    BY <1>3, OpShape
  <2>2. Len(c) = 2
    BY <2>1
  <2>3. Len(c) = 3
    BY <1>2
  <2> QED
    BY <2>2, <2>3
<1> QED
  BY <1>2, <1>3

(* Putting y in the place of x, of the same direction. *)
LEMMA Replaced ==
  ASSUME NEW U, NEW V, NEW x \in U, NEW y,
         V = (U \ {x}) \cup {y}, y[2] = x[2]
  PROVE  /\ \A d : d # x[2] => {z \in V : z[2] = d} = {z \in U : z[2] = d}
         /\ \A w : {z \in U : z[2] = x[2]} = {w} => {z \in V : z[2] = x[2]} = {y}
         /\ \A w : U = {w} => V = {y} /\ w = x
<1>1. ASSUME NEW d, d # x[2]
      PROVE  {z \in V : z[2] = d} = {z \in U : z[2] = d}
  BY <1>1
<1>2. ASSUME NEW w, {z \in U : z[2] = x[2]} = {w}
      PROVE  {z \in V : z[2] = x[2]} = {y}
  <2>1. \A z \in U : z[2] = x[2] => z = w
    BY <1>2
  <2>2. x = w
    BY <2>1
  <2>3. \A z \in V : z[2] = x[2] <=> z = y
    BY <2>1, <2>2
  <2> QED
    BY <2>3
<1> QED
  BY <1>1, <1>2

-----------------------------------------------------------------------------
(* What a step does to the pairs it is not about. *)

Same(q) ==
  /\ pair'[q] = pair[q] /\ ops'[q] = ops[q] /\ done'[q] = done[q]
  /\ buffer'[q] = buffer[q] /\ taken'[q] = taken[q] /\ delivered'[q] = delivered[q]

LEMMA SameKept ==
  ASSUME NEW q, Same(q)
  PROVE  /\ PairOK(q) => PairOK(q)'
         /\ Fresh(q) => Fresh(q)'
         /\ \A d : DataOK(q, d) => DataOK(q, d)'
<1>1. Under(q)' = Under(q) /\ (Still(q) => Still(q)')
  BY DEF Same, Under, Still
<1>2. Fresh(q) => Fresh(q)'
  BY <1>1 DEF Fresh
<1>3. Connecting(q) => Connecting(q)'
  BY <1>1 DEF Connecting
<1>4. Moving(q) => Moving(q)'
  BY <1>1 DEF Moving, Of
<1>5. PairOK(q) => PairOK(q)'
  BY <1>2, <1>3, <1>4 DEF PairOK, Same
<1>6. ASSUME NEW d PROVE DataOK(q, d) => DataOK(q, d)'
  BY DEF DataOK, Loaded, Empty, Same
<1> QED
  BY <1>2, <1>5, <1>6

LEMMA OthersKept ==
  ASSUME TypeOK, PairInv, AcceptInv, DataInv, NEW p \in Id, Under(p) # {},
         UNCHANGED <<proxy_count, accept>>, \A q \in Id : q # p => Same(q),
         PairOK(p)', \A d \in Dir : DataOK(p, d)'
  PROVE  PairInv' /\ AcceptInv' /\ DataInv'
<1>1. PairInv'
  BY SameKept DEF PairInv
<1>2. DataInv'
  BY SameKept DEF DataInv
<1>3. p < Accepting /\ Accepting' = Accepting
  BY DEF AcceptInv, Fresh, Accepting, TypeOK, Id
<1>4. ASSUME NEW q \in Id
      PROVE  /\ q >= Accepting => Fresh(q)'
             /\ q = Accepting => pair'[q] = "made"
             /\ q > Accepting => pair'[q] = "none"
  <2>1. CASE q = p
    BY <1>3, <2>1 DEF Accepting, TypeOK, Id
  <2>2. CASE q # p
    BY <2>2, SameKept DEF AcceptInv, Same
  <2> QED
    BY <2>1, <2>2
<1>5. AcceptInv'
  BY <1>3, <1>4 DEF AcceptInv
<1> QED
  BY <1>1, <1>2, <1>5

(* A step that changes no pair. *)
LEMMA PairsKept ==
  ASSUME TypeOK, PairInv, AcceptInv, DataInv, MapInStep,
         UNCHANGED <<pairs, ops, done, streams>>,
         accept' = accept \/ proxy_count <= MaxPairs
  PROVE  PairInv' /\ AcceptInv' /\ DataInv' /\ MapInStep'
<1>1. \A q \in Id : Same(q)
  BY DEF Same, pairs, streams
<1>2. PairInv' /\ DataInv'
  BY <1>1, SameKept DEF PairInv, DataInv
<1>3. AcceptInv'
  BY <1>1, SameKept DEF AcceptInv, pairs, Accepting, Same
<1>4. MapInStep'
  BY DEF MapInStep, pairs
<1> QED
  BY <1>2, <1>3, <1>4

-----------------------------------------------------------------------------
(* An operation completes. *)

LEMMA CompleteUnder ==
  ASSUME TypeOK, NEW p \in Id, NEW op, NEW r \in Result, Complete(p, op, r)
  PROVE  /\ op \in ops[p] /\ op \in Op
         /\ ops'[p] = ops[p] \ {op}
         /\ done'[p] = done[p] \cup {<<op[1], op[2], r>>}
         /\ \A q \in Id : q # p => ops'[q] = ops[q] /\ done'[q] = done[q]
         /\ op \in Under(p)
         /\ Under(p)' = (Under(p) \ {op}) \cup {<<op[1], op[2], r>>}
<1>1. op \in ops[p] /\ op \in Op
  BY DEF Complete, TypeOK
<1>2. Append(op, r) = <<op[1], op[2], r>>
  BY <1>1, OpShape
<1>3. /\ ops'[p] = ops[p] \ {op}
      /\ done'[p] = done[p] \cup {<<op[1], op[2], r>>}
      /\ \A q \in Id : q # p => ops'[q] = ops[q] /\ done'[q] = done[q]
  BY <1>2 DEF Complete, TypeOK
<1>4. op \notin done[p]
  <2>1. done[p] \subseteq Completion
    BY DEF TypeOK, Completion
  <2> QED
    BY <1>1, <2>1, CompletionShape
<1> QED
  BY <1>1, <1>3, <1>4 DEF Under

(* What is under way for a pair when an operation that is no connect is. *)
LEMMA IsMoving ==
  ASSUME NEW p, NEW x \in Under(p), x[1] # "connect", PairOK(p),
         pair[p] # "deleted" \/ ops[p] # {}
  PROVE  pair[p] = "made" /\ Moving(p)
<1>1. ~ Fresh(p)
  BY DEF Fresh
<1>2. ~ Connecting(p)
  BY DEF Connecting
<1> QED
  BY <1>1, <1>2 DEF PairOK

LEMMA MoveKept ==
  ASSUME NEW p, NEW x \in Under(p), NEW y, y[2] = x[2], y[1] # "connect", x[2] \in Dir,
         Under(p)' = (Under(p) \ {x}) \cup {y}, Moving(p)
  PROVE  Moving(p)' /\ Of(p, x[2])' = {y}
<1>1. /\ \A d : d # x[2] => Of(p, d)' = Of(p, d)
      /\ \A w : Of(p, x[2]) = {w} => Of(p, x[2])' = {y}
  <2> DEFINE U == Under(p)
             V == (Under(p))'
  <2>1. V = (U \ {x}) \cup {y} /\ x \in U
    OBVIOUS
  <2>2. /\ \A d : Of(p, d) = {z \in U : z[2] = d}
        /\ \A d : Of(p, d)' = {z \in V : z[2] = d}
    BY DEF Of
  <2> HIDE DEF U, V
  <2>3. /\ \A d : d # x[2] => {z \in V : z[2] = d} = {z \in U : z[2] = d}
        /\ \A w : {z \in U : z[2] = x[2]} = {w} => {z \in V : z[2] = x[2]} = {y}
    BY <2>1, Replaced
  <2> QED
    BY <2>2, <2>3
<1>2. Of(p, x[2])' = {y}
  BY <1>1 DEF Moving
<1>3. ASSUME NEW d \in Dir PROVE \E w : Of(p, d)' = {w} /\ w[1] # "connect"
  <2>1. CASE d = x[2]
    BY <1>2, <2>1
  <2>2. CASE d # x[2]
    BY <1>1, <2>2 DEF Moving
  <2> QED
    BY <2>1, <2>2
<1>4. Moving(p)'
  BY <1>3 DEF Moving
<1> QED
  BY <1>2, <1>4

LEMMA ConnectKept ==
  ASSUME NEW p, NEW x \in Under(p), NEW y, y[1] = x[1], y[2] = x[2],
         Under(p)' = (Under(p) \ {x}) \cup {y}, Connecting(p), UNCHANGED streams
  PROVE  Connecting(p)'
<1>1. PICK w : Under(p) = {w} /\ w[1] = "connect"
  BY DEF Connecting
<1>2. Under(p)' = {y} /\ y[1] = "connect"
  BY <1>1
<1>3. Still(p)'
  BY DEF Connecting, Still, streams
<1> QED
  BY <1>2, <1>3 DEF Connecting

(* No data is moved: the operation fails, or it is the connect. *)
LEMMA NoDataStep ==
  ASSUME ProxyInv, NEW p \in Id, NEW op, NEW r \in Result, Complete(p, op, r),
         UNCHANGED streams, r = "error" \/ op[1] = "connect"
  PROVE  PairInv' /\ AcceptInv' /\ DataInv' /\ MapInStep'
<1> DEFINE y == <<op[1], op[2], r>>
<1>1. /\ op \in ops[p] /\ op \in Op /\ op \in Under(p)
      /\ ops'[p] = ops[p] \ {op} /\ done'[p] = done[p] \cup {y}
      /\ \A q \in Id : q # p => ops'[q] = ops[q] /\ done'[q] = done[q]
      /\ Under(p)' = (Under(p) \ {op}) \cup {y}
  BY CompleteUnder DEF ProxyInv
<1>2. \A q \in Id : q # p => Same(q)
  BY <1>1 DEF Same, Complete, pairs, streams
<1>3. /\ y[1] = op[1] /\ y[2] = op[2] /\ y[3] = r
      /\ op[2] \in Dir
  BY <1>1, OpShape
<1> HIDE DEF y
<1>4. PairOK(p) /\ pair' = pair
  BY DEF ProxyInv, PairInv, Complete, pairs
<1>5. PairOK(p)'
  <2>1. CASE op[1] = "connect"
    <3>1. ~ Moving(p)
      <4>1. op \in Of(p, op[2])
        BY <1>1 DEF Of
      <4> QED
        BY <1>3, <2>1, <4>1 DEF Moving
    <3>2. pair[p] = "made" /\ Connecting(p)
      BY <1>1, <1>4, <3>1 DEF PairOK, Fresh
    <3>3. Connecting(p)'
      BY <1>1, <1>3, <3>2, ConnectKept
    <3> QED
      BY <1>4, <3>2, <3>3 DEF PairOK
  <2>2. CASE op[1] # "connect"
    <3>1. pair[p] = "made" /\ Moving(p)
      BY <1>1, <1>4, <2>2, IsMoving
    <3>2. Moving(p)'
      BY <1>1, <1>3, <2>2, <3>1, MoveKept
    <3> QED
      BY <1>4, <3>1, <3>2 DEF PairOK
  <2> QED
    BY <2>1, <2>2
<1>6. ASSUME NEW d \in Dir PROVE DataOK(p, d)'
  <2>1. y # <<"read", d, "ok">> /\ y # <<"write", d, "ok">>
    BY <1>3
  <2>2. (Loaded(p, d)' => Loaded(p, d)) /\ (Empty(p, d)' => Empty(p, d))
    BY <1>1, <2>1 DEF Loaded, Empty
  <2>3. DataOK(p, d)
    BY DEF ProxyInv, DataInv
  <2> QED
    BY <2>2, <2>3 DEF DataOK, streams
<1>7. Under(p) # {} /\ UNCHANGED <<proxy_count, accept>>
  BY <1>1 DEF Complete, pairs
<1>8. MapInStep'
  BY DEF ProxyInv, MapInStep, Complete, pairs
<1> QED
  BY <1>2, <1>5, <1>6, <1>7, <1>8, OthersKept DEF ProxyInv

(* A read or a write that ends as it should. *)
LEMMA DataStep ==
  ASSUME ProxyInv, NEW p \in Id, NEW d \in Dir, NEW k \in {"read", "write"},
         Complete(p, <<k, d>>, "ok")
  PROVE  /\ pair[p] = "made" /\ <<k, d>> \in ops[p]
         /\ \A q \in Id : q # p => ops'[q] = ops[q] /\ done'[q] = done[q]
         /\ PairOK(p)'
         /\ \A j \in {"read", "write"} :
              /\ <<j, d>> \notin ops'[p]
              /\ <<j, d, "ok">> \in done'[p] => j = k
         /\ \A e \in Dir : e # d =>
              (Loaded(p, e)' => Loaded(p, e)) /\ (Empty(p, e)' => Empty(p, e))
         /\ Under(p) # {} /\ UNCHANGED <<proxy_count, accept>> /\ MapInStep'
<1> DEFINE x == <<k, d>>
           y == <<k, d, "ok">>
<1>0. /\ x[1] = k /\ x[2] = d /\ y[1] = k /\ y[2] = d
      /\ k # "connect" /\ "ok" \in Result
  BY DEF Result
<1>1. /\ x \in ops[p] /\ x \in Under(p)
      /\ ops'[p] = ops[p] \ {x} /\ done'[p] = done[p] \cup {y}
      /\ \A q \in Id : q # p => ops'[q] = ops[q] /\ done'[q] = done[q]
      /\ Under(p)' = (Under(p) \ {x}) \cup {y}
  BY <1>0, CompleteUnder DEF ProxyInv
<1>2. pair' = pair /\ UNCHANGED <<proxy_count, accept>> /\ MapInStep'
  BY DEF ProxyInv, MapInStep, Complete, pairs
<1>3. pair[p] = "made" /\ Moving(p)
  BY <1>0, <1>1, IsMoving DEF ProxyInv, PairInv
<1>4. Moving(p)' /\ Of(p, d)' = {y}
  <2> HIDE DEF x, y
  <2> QED
    BY <1>0, <1>1, <1>3, MoveKept
<1>5. PairOK(p)'
  BY <1>2, <1>3, <1>4 DEF PairOK
<1>6. ASSUME NEW j \in {"read", "write"}
      PROVE  <<j, d>> \notin ops'[p] /\ (<<j, d, "ok">> \in done'[p] => j = k)
  <2>1. <<j, d>>[2] = d /\ <<j, d, "ok">>[2] = d
    OBVIOUS
  <2>2. <<j, d>> \in ops'[p] => <<j, d>> = y
    BY <1>4, <2>1 DEF Of, Under
  <2>3. <<j, d, "ok">> \in done'[p] => <<j, d, "ok">> = y
    BY <1>4, <2>1 DEF Of, Under
  <2>4. <<j, d>> # y
    <3>1. Len(<<j, d>>) = 2 /\ Len(y) = 3
      OBVIOUS
    <3> QED
      BY <3>1
  <2> QED
    BY <2>2, <2>3, <2>4
<1>7. ASSUME NEW e \in Dir, e # d
      PROVE  (Loaded(p, e)' => Loaded(p, e)) /\ (Empty(p, e)' => Empty(p, e))
  BY <1>1, <1>7 DEF Loaded, Empty
<1> QED
  BY <1>1, <1>2, <1>3, <1>5, <1>6, <1>7

LEMMA ReadSomeStep ==
  ASSUME ProxyInv, NEW p \in Id, NEW d \in Dir, ReadSome(p, d)
  PROVE  PairInv' /\ AcceptInv' /\ DataInv' /\ MapInStep'
<1>1. Complete(p, <<"read", d>>, "ok")
  BY DEF ReadSome
<1>2. /\ pair[p] = "made" /\ <<"read", d>> \in ops[p]
      /\ \A q \in Id : q # p => ops'[q] = ops[q] /\ done'[q] = done[q]
      /\ PairOK(p)'
      /\ \A j \in {"read", "write"} :
           /\ <<j, d>> \notin ops'[p]
           /\ <<j, d, "ok">> \in done'[p] => j = "read"
      /\ \A e \in Dir : e # d =>
           (Loaded(p, e)' => Loaded(p, e)) /\ (Empty(p, e)' => Empty(p, e))
      /\ Under(p) # {} /\ UNCHANGED <<proxy_count, accept>> /\ MapInStep'
  BY <1>1, DataStep
<1>3. \A q \in Id : q # p => Same(q)
  BY <1>1, <1>2 DEF Same, ReadSome, Complete, pairs, ProxyInv, TypeOK
<1>4. ASSUME NEW e \in Dir, e # d PROVE DataOK(p, e)'
  <2>1. /\ buffer'[p][e] = buffer[p][e] /\ taken'[p][e] = taken[p][e]
        /\ delivered' = delivered
    BY <1>4 DEF ReadSome, ProxyInv, TypeOK
  <2>2. DataOK(p, e)
    BY DEF ProxyInv, DataInv
  <2> QED
    BY <1>2, <1>4, <2>1, <2>2 DEF DataOK
<1>5. DataOK(p, d)'
  <2>1. Empty(p, d) /\ DataOK(p, d)
    BY <1>2 DEF Empty, ProxyInv, DataInv
  <2>2. taken[p][d] = Len(delivered[p][d])
    BY <2>1 DEF DataOK
  <2>3. /\ taken'[p][d] = taken[p][d] + 1 /\ buffer'[p][d] = taken[p][d] + 1
        /\ delivered' = delivered
    BY DEF ReadSome, ProxyInv, TypeOK
  <2>4. ~ Empty(p, d)'
    BY <1>2 DEF Empty
  <2> QED
    BY <2>1, <2>2, <2>3, <2>4 DEF DataOK
<1> QED
  BY <1>2, <1>3, <1>4, <1>5, OthersKept DEF ProxyInv

LEMMA WrittenStep ==
  ASSUME ProxyInv, NEW p \in Id, NEW d \in Dir, Written(p, d)
  PROVE  /\ PairInv' /\ AcceptInv' /\ DataInv' /\ MapInStep'
         /\ buffer[p][d] \in 1 .. MaxChunks
<1>1. Complete(p, <<"write", d>>, "ok")
  BY DEF Written
<1>2. /\ pair[p] = "made" /\ <<"write", d>> \in ops[p]
      /\ \A q \in Id : q # p => ops'[q] = ops[q] /\ done'[q] = done[q]
      /\ PairOK(p)'
      /\ \A j \in {"read", "write"} :
           /\ <<j, d>> \notin ops'[p]
           /\ <<j, d, "ok">> \in done'[p] => j = "write"
      /\ \A e \in Dir : e # d =>
           (Loaded(p, e)' => Loaded(p, e)) /\ (Empty(p, e)' => Empty(p, e))
      /\ Under(p) # {} /\ UNCHANGED <<proxy_count, accept>> /\ MapInStep'
  BY <1>1, DataStep
<1>3. \A q \in Id : q # p => Same(q)
  BY <1>1, <1>2 DEF Same, Written, Complete, pairs, ProxyInv, TypeOK
<1>4. ASSUME NEW e \in Dir, e # d PROVE DataOK(p, e)'
  <2>1. /\ buffer' = buffer /\ taken' = taken
        /\ delivered'[p][e] = delivered[p][e]
    BY <1>4 DEF Written, ProxyInv, TypeOK
  <2>2. DataOK(p, e)
    BY DEF ProxyInv, DataInv
  <2> QED
    BY <1>2, <1>4, <2>1, <2>2 DEF DataOK
<1>5. Loaded(p, d) /\ DataOK(p, d)
  BY <1>2 DEF Loaded, ProxyInv, DataInv
<1>6. taken[p][d] = Len(delivered[p][d]) + 1 /\ buffer[p][d] = taken[p][d]
  BY <1>5 DEF DataOK
<1>7. delivered[p][d] \in Seq(1 .. MaxChunks) /\ taken[p][d] \in 0 .. MaxChunks
  BY DEF ProxyInv, TypeOK
<1>8. buffer[p][d] \in 1 .. MaxChunks /\ Len(delivered[p][d]) \in Nat
  <2>1. Len(delivered[p][d]) \in Nat
    BY <1>7
  <2> QED
    BY <1>6, <1>7, <2>1, SocketProxyAssumption
<1>9. DataOK(p, d)'
  <2>1. /\ Len(delivered'[p][d]) = Len(delivered[p][d]) + 1
        /\ \A i \in 1 .. Len(delivered[p][d]) : delivered'[p][d][i] = delivered[p][d][i]
        /\ delivered'[p][d][Len(delivered[p][d]) + 1] = buffer[p][d]
    <3>1. delivered'[p][d] = Append(delivered[p][d], buffer[p][d])
      BY DEF Written, ProxyInv, TypeOK
    <3> QED
      BY <1>7, <1>8, <3>1, AppendIndex
  <2>2. ~ Loaded(p, d)'
    BY <1>2 DEF Loaded
  <2>3. taken' = taken
    BY DEF Written
  <2>4. ASSUME NEW i \in 1 .. Len(delivered'[p][d]) PROVE delivered'[p][d][i] = i
    <3>1. i \in 1 .. Len(delivered[p][d]) \/ i = Len(delivered[p][d]) + 1
      BY <1>8, <2>1
    <3> QED
      BY <1>5, <1>6, <2>1, <3>1 DEF DataOK
  <2> QED
    BY <1>6, <2>1, <2>2, <2>3, <2>4 DEF DataOK
<1> QED
  BY <1>2, <1>3, <1>4, <1>8, <1>9, OthersKept DEF ProxyInv

-----------------------------------------------------------------------------
(* A handler runs. *)

LEMMA HandlerOf ==
  ASSUME ProxyInv, NEW p \in Id, NEW c, Runs(p, c)
  PROVE  /\ c \in done[p] /\ c \in Completion /\ c \in Under(p) /\ c \notin ops[p]
         /\ pair[p] = "made" /\ PairOK(p)
<1>1. c \in done[p] /\ done[p] \subseteq Completion /\ ops[p] \subseteq Op
  BY DEF Runs, ProxyInv, TypeOK, Completion
<1>2. c \notin Op
  BY <1>1, CompletionShape
<1> QED
  BY <1>1, <1>2 DEF Runs, Under, ProxyInv, PairInv

LEMMA ContinueOthers ==
  ASSUME ProxyInv, NEW p \in Id, NEW c, NEW next, Continue(p, c, next)
  PROVE  /\ Runs(p, c)
         /\ done'[p] = done[p] \ {c} /\ ops'[p] = ops[p] \cup next
         /\ \A q \in Id : q # p => Same(q)
         /\ pair' = pair /\ UNCHANGED streams
         /\ UNCHANGED <<proxy_count, accept>> /\ MapInStep'
<1>1. /\ done'[p] = done[p] \ {c} /\ ops'[p] = ops[p] \cup next
      /\ \A q \in Id : q # p => ops'[q] = ops[q] /\ done'[q] = done[q]
  BY DEF Continue, ProxyInv, TypeOK
<1>2. \A q \in Id : q # p => Same(q)
  BY <1>1 DEF Same, Continue, pairs, streams
<1>3. MapInStep'
  BY DEF Continue, ProxyInv, MapInStep, pairs
<1> QED
  BY <1>1, <1>2, <1>3 DEF Continue, pairs

(* WriteOn and ReadOn: the read is followed by the write, the write by the read. *)
LEMMA TurnStep ==
  ASSUME ProxyInv, NEW p \in Id, NEW d \in Dir,
         NEW k \in {"read", "write"}, NEW j \in {"read", "write"}, j # k,
         Continue(p, <<k, d, "ok">>, {<<j, d>>})
  PROVE  PairInv' /\ AcceptInv' /\ DataInv' /\ MapInStep'
<1> DEFINE x == <<k, d, "ok">>
           y == <<j, d>>
<1>0. /\ x[1] = k /\ x[2] = d /\ y[1] = j /\ y[2] = d
      /\ k # "connect" /\ j # "connect"
  OBVIOUS
<1>1. /\ Runs(p, x)
      /\ done'[p] = done[p] \ {x} /\ ops'[p] = ops[p] \cup {y}
      /\ \A q \in Id : q # p => Same(q)
      /\ pair' = pair /\ UNCHANGED streams
      /\ UNCHANGED <<proxy_count, accept>> /\ MapInStep'
  BY ContinueOthers
<1>2. /\ x \in done[p] /\ x \in Under(p) /\ x \notin ops[p]
      /\ pair[p] = "made" /\ PairOK(p)
  BY <1>1, HandlerOf
<1>3. y \notin done[p]
  <2>1. y \in Op
    BY DEF Op
  <2>2. done[p] \subseteq Completion
    BY DEF ProxyInv, TypeOK, Completion
  <2> QED
    BY <2>1, <2>2, CompletionShape
<1>4. Under(p)' = (Under(p) \ {x}) \cup {y}
  BY <1>1, <1>2, <1>3 DEF Under
<1>5. PairOK(p)'
  <2> HIDE DEF x, y
  <2>1. Moving(p)
    BY <1>0, <1>2, IsMoving
  <2>2. Moving(p)'
    BY <1>0, <1>2, <1>4, <2>1, MoveKept
  <2> QED
    BY <1>1, <1>2, <2>2 DEF PairOK
<1>6. ASSUME NEW e \in Dir PROVE DataOK(p, e)'
  <2>1. (Loaded(p, e)' => Loaded(p, e)) /\ (Empty(p, e)' => Empty(p, e))
    BY <1>1, <1>2 DEF Loaded, Empty
  <2>2. DataOK(p, e)
    BY DEF ProxyInv, DataInv
  <2> QED
    BY <1>1, <2>1, <2>2 DEF DataOK, streams
<1> QED
  BY <1>1, <1>2, <1>5, <1>6, OthersKept DEF ProxyInv

LEMMA StartStep ==
  ASSUME ProxyInv, NEW p \in Id, startproxy(p)
  PROVE  PairInv' /\ AcceptInv' /\ DataInv' /\ MapInStep'
<1> DEFINE x == <<"connect", "down", "ok">>
<1>1. /\ Runs(p, x)
      /\ done'[p] = done[p] \ {x}
      /\ ops'[p] = ops[p] \cup {<<"read", "up">>, <<"read", "down">>}
      /\ \A q \in Id : q # p => Same(q)
      /\ pair' = pair /\ UNCHANGED streams
      /\ UNCHANGED <<proxy_count, accept>> /\ MapInStep'
  BY ContinueOthers DEF startproxy
<1>2. /\ x \in done[p] /\ x \in Under(p) /\ x \notin ops[p]
      /\ pair[p] = "made" /\ PairOK(p)
  BY <1>1, HandlerOf
<1>3. ~ Moving(p)
  <2>1. x[1] = "connect" /\ x[2] = "down" /\ "down" \in Dir
    BY DEF Dir
  <2>2. x \in Of(p, "down")
    BY <1>2, <2>1 DEF Of
  <2> QED
    BY <2>1, <2>2 DEF Moving
<1>4. Under(p) = {x} /\ Still(p)
  BY <1>2, <1>3 DEF PairOK, Fresh, Connecting
<1>5. Under(p)' = {<<"read", "up">>, <<"read", "down">>}
  BY <1>1, <1>2, <1>4 DEF Under
<1>6. Moving(p)'
  <2>1. Of(p, "up")' = {<<"read", "up">>}
    BY <1>5 DEF Of
  <2>2. Of(p, "down")' = {<<"read", "down">>}
    BY <1>5 DEF Of
  <2>3. ASSUME NEW d \in Dir PROVE \E w : Of(p, d)' = {w} /\ w[1] # "connect"
    <3>1. <<"read", d>>[1] # "connect" /\ (d = "up" \/ d = "down")
      BY DEF Dir
    <3>2. Of(p, d)' = {<<"read", d>>}
      BY <2>1, <2>2, <3>1
    <3> QED
      BY <3>1, <3>2
  <2> QED
    BY <2>3 DEF Moving
<1>7. PairOK(p)'
  BY <1>1, <1>2, <1>6 DEF PairOK
<1>8. ASSUME NEW d \in Dir PROVE DataOK(p, d)'
  <2>1. ~ Loaded(p, d)'
    <3>1. \A z \in Under(p)' : z[1] = "read" /\ Len(z) = 2
      BY <1>5
    <3>2. <<"write", d>>[1] = "write" /\ Len(<<"read", d, "ok">>) = 3
      OBVIOUS
    <3> QED
      BY <3>1, <3>2 DEF Loaded, Under
  <2>2. /\ taken[p][d] = 0 /\ delivered[p][d] = <<>>
        /\ taken' = taken /\ delivered' = delivered
    BY <1>1, <1>4 DEF Still, streams
  <2> QED
    BY <2>1, <2>2 DEF DataOK
<1> QED
  BY <1>1, <1>2, <1>7, <1>8, OthersKept DEF ProxyInv

LEMMA CloseStep ==
  ASSUME ProxyInv, NEW p \in Id, NEW c, OnClose(p, c)
  PROVE  PairInv' /\ AcceptInv' /\ DataInv' /\ MapInStep'
<1> DEFINE Aborted == {Append(op, "error") : op \in ops[p]}
<1>1. /\ c \in done[p] /\ c \in Under(p) /\ pair[p] = "made"
  BY HandlerOf DEF OnClose
<1>2. /\ pair'[p] = "deleted" /\ ops'[p] = {}
      /\ done'[p] = (done[p] \ {c}) \cup Aborted
      /\ UNCHANGED <<proxy_count, accept>> /\ UNCHANGED streams
      /\ \A q \in Id : q # p =>
           pair'[q] = pair[q] /\ ops'[q] = ops[q] /\ done'[q] = done[q]
  BY DEF OnClose, ProxyInv, TypeOK
<1>3. \A q \in Id : q # p => Same(q)
  BY <1>2 DEF Same, streams
<1>4. PairOK(p)'
  BY <1>2 DEF PairOK
<1>5. ASSUME NEW z \in Aborted PROVE z[3] = "error"
  <2>1. PICK op \in ops[p] : z = Append(op, "error")
    BY <1>5
  <2>2. op \in Op /\ "error" \in Result
    BY DEF ProxyInv, TypeOK, Result
  <2>3. z = <<op[1], op[2], "error">>
    BY <2>1, <2>2, OpShape
  <2> QED
    BY <2>3
<1>6. ASSUME NEW d \in Dir PROVE DataOK(p, d)'
  <2>1. <<"read", d, "ok">> \notin Aborted /\ <<"write", d, "ok">> \notin Aborted
    <3>1. <<"read", d, "ok">>[3] = "ok" /\ <<"write", d, "ok">>[3] = "ok"
      OBVIOUS
    <3> QED
      BY <1>5, <3>1
  <2>2. (Loaded(p, d)' => Loaded(p, d)) /\ (Empty(p, d)' => Empty(p, d))
    BY <1>2, <2>1 DEF Loaded, Empty
  <2>3. DataOK(p, d)
    BY DEF ProxyInv, DataInv
  <2> QED
    BY <1>2, <2>2, <2>3 DEF DataOK, streams
<1>7. MapInStep'
  <2>1. proxy_socket_pairs' = proxy_socket_pairs \ {p}
    BY DEF OnClose
  <2> QED
    BY <1>2, <2>1 DEF ProxyInv, MapInStep
<1> QED
  BY <1>1, <1>2, <1>3, <1>4, <1>6, <1>7, OthersKept DEF ProxyInv

-----------------------------------------------------------------------------
(* The accept handler. *)

LEMMA AcceptedStep ==
  ASSUME ProxyInv, Accepted
  PROVE  /\ PairInv' /\ AcceptInv' /\ DataInv' /\ MapInStep'
         /\ Accepting \in Id /\ proxy_count \in Id
<1>0. Accepting \in Id /\ proxy_count \in Id
  <2>1. proxy_count \in 1 .. MaxPairs + 1 /\ proxy_count >= 2 /\ proxy_count <= MaxPairs
    BY DEF Accepted, ProxyInv, AcceptInv, TypeOK
  <2> QED
    BY <2>1, SocketProxyAssumption DEF Accepting, Id
<1> PICK a \in Id, n \in Id : a = Accepting /\ n = proxy_count
  BY <1>0
<1>1. /\ a \in Id /\ n \in Id /\ n \in Nat /\ n = a + 1
      /\ Fresh(a) /\ Fresh(n) /\ pair[a] = "made" /\ pair[n] = "none"
  BY DEF Accepted, ProxyInv, AcceptInv, TypeOK, Accepting, Id
<1>2. /\ pair' = [pair EXCEPT ![n] = "made"] /\ proxy_count' = n + 1
      /\ proxy_socket_pairs' = proxy_socket_pairs \cup {n}
      /\ ops' = [ops EXCEPT ![a] = {<<"connect", "down">>}] \/ ops' = ops
      /\ accept' = "outstanding" /\ UNCHANGED <<done, streams>>
  BY DEF Accepted, DoAccept
<1>3. ASSUME NEW q \in Id, q # a, q # n PROVE Same(q)
  BY <1>2, <1>3 DEF Same, streams, ProxyInv, TypeOK
<1>4. pair'[n] = "made" /\ Fresh(n)'
  <2>1. pair'[n] = "made" /\ ops'[n] = ops[n]
    BY <1>1, <1>2 DEF ProxyInv, TypeOK
  <2> QED
    BY <1>1, <1>2, <2>1 DEF Fresh, Under, Still, streams
<1>5. pair'[a] = "made" /\ Still(a)' /\ done'[a] = {} /\ ops[a] = {}
  BY <1>1, <1>2 DEF Fresh, Under, Still, streams, ProxyInv, TypeOK
<1>6. ops'[a] = {<<"connect", "down">>} \/ ops'[a] = {}
  BY <1>1, <1>2, <1>5 DEF ProxyInv, TypeOK
<1>7. PairOK(a)'
  <2>1. CASE ops'[a] = {}
    BY <1>5, <2>1 DEF PairOK, Fresh, Under
  <2>2. CASE ops'[a] = {<<"connect", "down">>}
    <3>1. Under(a)' = {<<"connect", "down">>} /\ <<"connect", "down">>[1] = "connect"
      BY <1>5, <2>2 DEF Under
    <3>2. Connecting(a)'
      BY <1>5, <3>1 DEF Connecting
    <3> QED
      BY <1>5, <3>2 DEF PairOK
  <2> QED
    BY <1>6, <2>1, <2>2
<1>8. PairInv'
  <2>1. PairOK(n)'
    BY <1>4 DEF PairOK
  <2>2. ASSUME NEW q \in Id, q # a, q # n PROVE PairOK(q)'
    BY <1>3, <2>2, SameKept DEF ProxyInv, PairInv
  <2> QED
    BY <1>7, <2>1, <2>2 DEF PairInv
<1>9. DataInv'
  <2>1. ASSUME NEW q \in {a, n}, NEW d \in Dir PROVE DataOK(q, d)'
    <3>1. /\ taken'[q][d] = 0 /\ delivered'[q][d] = <<>>
          /\ done'[q] = {} /\ \A z \in ops'[q] : z[1] = "connect"
      BY <1>4, <1>5, <1>6 DEF Fresh, Still, Under
    <3>2. <<"write", d>>[1] = "write"
      OBVIOUS
    <3>3. ~ Loaded(q, d)'
      BY <3>1, <3>2 DEF Loaded
    <3> QED
      BY <3>1, <3>3 DEF DataOK
  <2>2. ASSUME NEW q \in Id, q # a, q # n, NEW d \in Dir PROVE DataOK(q, d)'
    BY <1>3, <2>2, SameKept DEF ProxyInv, DataInv
  <2> QED
    BY <2>1, <2>2 DEF DataInv
<1>10. AcceptInv'
  <2>1. Accepting' = n /\ proxy_count' >= 2
    BY <1>1, <1>2 DEF Accepting, Id
  <2>2. ASSUME NEW q \in Id, q > n
        PROVE  Fresh(q)' /\ pair'[q] = "none"
    <3>1. q # a /\ q # n /\ q > Accepting
      BY <1>1, <2>2 DEF Id
    <3>2. Fresh(q) /\ pair[q] = "none"
      BY <3>1 DEF ProxyInv, AcceptInv, Accepting, TypeOK, Id
    <3> QED
      BY <1>3, <3>1, <3>2, SameKept DEF Same
  <2>3. \A q \in Id : q >= n => q > n \/ q = n
    BY <1>1 DEF Id
  <2>4. ~ (n > n)
    BY <1>1
  <2>5. accept' \notin Result
    BY <1>2 DEF Result
  <2> QED
    BY <1>4, <2>1, <2>2, <2>3, <2>4, <2>5 DEF AcceptInv
<1>11. MapInStep'
  BY <1>1, <1>2 DEF ProxyInv, MapInStep, TypeOK
<1> QED
  BY <1>0, <1>8, <1>9, <1>10, <1>11

-----------------------------------------------------------------------------
(* The types. *)

LEMMA NextIoContextType ==
  ASSUME NEW n \in Nat
  PROVE  NextIoContext(n) \in 0 .. pool_size - 1
BY SocketProxyAssumption DEF NextIoContext

LEMMA CompleteTypes ==
  ASSUME TypeOK, NEW p \in Id, NEW op, NEW r \in Result, Complete(p, op, r)
  PROVE  /\ ops' \in [Id -> SUBSET Op] /\ done' \in [Id -> SUBSET Completion]
         /\ UNCHANGED <<pairs, accept, process>>
<1>1. op \in Op
  BY DEF TypeOK, Complete
<1>2. Append(op, r) \in Completion
  BY <1>1 DEF Completion
<1>3. done \in [Id -> SUBSET Completion] /\ ops \in [Id -> SUBSET Op]
  BY DEF TypeOK, Completion
<1> QED
  BY <1>2, <1>3 DEF Complete

LEMMA ContinueTypes ==
  ASSUME TypeOK, NEW p \in Id, NEW c, NEW next \in SUBSET Op, Continue(p, c, next)
  PROVE  TypeOK'
<1>1. done \in [Id -> SUBSET Completion] /\ ops \in [Id -> SUBSET Op]
  BY DEF TypeOK, Completion
<1>2. done' \in [Id -> SUBSET Completion] /\ ops' \in [Id -> SUBSET Op]
  BY <1>1 DEF Continue
<1> QED
  BY <1>2 DEF TypeOK, Completion, Continue, pairs, streams

LEMMA StepTypes ==
  ASSUME ProxyInv, Next
  PROVE  TypeOK'
<1> USE DEF ProxyInv
<1>1. ASSUME NEW r \in Result, AcceptCompletes(r) PROVE TypeOK'
  BY <1>1 DEF AcceptCompletes, pairs, streams, TypeOK
<1>2. CASE Accepted
  <2>1. Accepting \in Id /\ proxy_count \in Id
    BY <1>2, AcceptedStep
  <2>2. /\ now_io_context' \in Nat
        /\ NextIoContext(now_io_context') \in 0 .. pool_size - 1
    BY <1>2, NextIoContextType DEF Accepted, DoAccept, TypeOK
  <2>3. ioc' \in [Id -> 0 .. pool_size - 1]
    <3>1. ioc' = [ioc EXCEPT ![proxy_count] = NextIoContext(now_io_context')]
      BY <1>2 DEF Accepted, DoAccept
    <3>2. ioc \in [Id -> 0 .. pool_size - 1]
      BY DEF TypeOK
    <3> QED
      BY <2>2, <3>1, <3>2
  <2>4. proxy_count' \in 1 .. MaxPairs + 1
    BY <1>2, <2>1, SocketProxyAssumption DEF Accepted, DoAccept, Id
  <2>5. /\ pair' \in [Id -> {"none", "made", "deleted"}]
        /\ proxy_socket_pairs' \subseteq Id
        /\ accept' = "outstanding"
    BY <1>2, <2>1 DEF Accepted, DoAccept, TypeOK
  <2>6. ops' \in [Id -> SUBSET Op]
    <3>1. {<<"connect", "down">>} \subseteq Op /\ ops \in [Id -> SUBSET Op]
      BY DEF Op, TypeOK
    <3> QED
      BY <1>2, <3>1 DEF Accepted
  <2> QED
    BY <1>2, <2>2, <2>3, <2>4, <2>5, <2>6 DEF TypeOK, Accepted, streams
<1>3. CASE AcceptedThrows
  BY <1>3 DEF AcceptedThrows, TypeOK, pairs, streams
<1>4. ASSUME NEW p \in Id, startproxy(p) PROVE TypeOK'
  <2>1. {<<"read", "up">>, <<"read", "down">>} \subseteq Op
    BY DEF Op, Dir
  <2> QED
    BY <1>4, <2>1, ContinueTypes DEF startproxy
<1>5. ASSUME NEW p \in Id, NEW d \in Dir, WriteOn(p, d) \/ ReadOn(p, d) PROVE TypeOK'
  <2>1. {<<"read", d>>} \subseteq Op /\ {<<"write", d>>} \subseteq Op
    BY DEF Op
  <2> QED
    BY <1>5, <2>1, ContinueTypes DEF WriteOn, ReadOn
<1>6. ASSUME NEW p \in Id, NEW c, OnClose(p, c) PROVE TypeOK'
  <2>1. {Append(op, "error") : op \in ops[p]} \subseteq Completion
    BY DEF TypeOK, Completion, Result
  <2>2. done \in [Id -> SUBSET Completion]
    BY DEF TypeOK, Completion
  <2>3. done' \in [Id -> SUBSET Completion]
    BY <1>6, <2>1, <2>2 DEF OnClose
  <2>4. ops' \in [Id -> SUBSET Op] /\ pair' \in [Id -> {"none", "made", "deleted"}]
    BY <1>6 DEF OnClose, TypeOK
  <2>5. /\ proxy_socket_pairs' \subseteq Id
        /\ UNCHANGED <<now_io_context, proxy_count, ioc, accept, streams, process>>
    BY <1>6 DEF OnClose, TypeOK
  <2> QED
    BY <2>3, <2>4, <2>5 DEF TypeOK, Completion, streams
<1>7. ASSUME NEW p \in Id, CloseReadsFreed(p) \/ StaleHandler(p) PROVE TypeOK'
  BY <1>7 DEF CloseReadsFreed, StaleHandler, TypeOK, pairs, streams
<1>8. ASSUME NEW p \in Id, Connected(p) PROVE TypeOK'
  <2>1. /\ ops' \in [Id -> SUBSET Op] /\ done' \in [Id -> SUBSET Completion]
        /\ UNCHANGED <<pairs, accept, process>> /\ UNCHANGED streams
    BY <1>8, CompleteTypes DEF Connected, Result
  <2> QED
    BY <2>1 DEF TypeOK, Completion, pairs, streams
<1>9. ASSUME NEW p \in Id, NEW op, Fails(p, op) PROVE TypeOK'
  <2>1. /\ ops' \in [Id -> SUBSET Op] /\ done' \in [Id -> SUBSET Completion]
        /\ UNCHANGED <<pairs, accept, process>> /\ UNCHANGED streams
    BY <1>9, CompleteTypes DEF Fails, Result
  <2> QED
    BY <2>1 DEF TypeOK, Completion, pairs, streams
<1>10. ASSUME NEW p \in Id, NEW d \in Dir, ReadSome(p, d) PROVE TypeOK'
  <2>1. /\ ops' \in [Id -> SUBSET Op] /\ done' \in [Id -> SUBSET Completion]
        /\ UNCHANGED <<pairs, accept, process>>
    BY <1>10, CompleteTypes DEF ReadSome, Result
  <2>2. taken[p][d] + 1 \in 0 .. MaxChunks
    BY <1>10, SocketProxyAssumption DEF ReadSome, TypeOK
  <2>3. /\ taken' \in [Id -> [Dir -> 0 .. MaxChunks]]
        /\ buffer' \in [Id -> [Dir -> 0 .. MaxChunks]]
    BY <1>10, <2>2 DEF ReadSome, TypeOK
  <2> QED
    BY <1>10, <2>1, <2>3 DEF TypeOK, Completion, ReadSome, pairs
<1>11. ASSUME NEW p \in Id, NEW d \in Dir, Written(p, d) PROVE TypeOK'
  <2>1. /\ ops' \in [Id -> SUBSET Op] /\ done' \in [Id -> SUBSET Completion]
        /\ UNCHANGED <<pairs, accept, process>>
    BY <1>11, CompleteTypes DEF Written, Result
  <2>2. buffer[p][d] \in 1 .. MaxChunks
    BY <1>11, WrittenStep
  <2>3. Append(delivered[p][d], buffer[p][d]) \in Seq(1 .. MaxChunks)
    BY <2>2 DEF TypeOK
  <2>4. delivered' \in [Id -> [Dir -> Seq(1 .. MaxChunks)]]
    BY <1>11, <2>3 DEF Written, TypeOK
  <2> QED
    BY <1>11, <2>1, <2>4 DEF TypeOK, Completion, Written, pairs
<1>12. CASE MapRace
  BY <1>12 DEF MapRace, TypeOK, pairs, streams
<1> QED
  BY <1>1, <1>2, <1>3, <1>4, <1>5, <1>6, <1>7, <1>8, <1>9, <1>10, <1>11, <1>12
  DEF Next, Handlers

-----------------------------------------------------------------------------
(* The invariant. *)

LEMMA InitInvariant ==
  ASSUME Init
  PROVE  ProxyInv
<1>1. \A p \in Id : Fresh(p)
  BY DEF Init, Fresh, Under, Still
<1>2. 1 \in Id
  BY SocketProxyAssumption DEF Id
<1>3. TypeOK
  <2>1. 1 % pool_size \in 0 .. pool_size - 1
    BY SocketProxyAssumption
  <2>2. 2 \in 1 .. MaxPairs + 1 /\ 0 \in 0 .. MaxChunks
    BY SocketProxyAssumption
  <2>3. ioc \in [Id -> 0 .. pool_size - 1]
    BY <2>1 DEF Init
  <2>4. /\ buffer \in [Id -> [Dir -> 0 .. MaxChunks]]
        /\ taken \in [Id -> [Dir -> 0 .. MaxChunks]]
    BY <2>2 DEF Init
  <2>5. delivered \in [Id -> [Dir -> Seq(1 .. MaxChunks)]]
    BY DEF Init
  <2> QED
    BY <1>2, <2>2, <2>3, <2>4, <2>5 DEF Init, TypeOK
<1>4. PairInv
  BY <1>1 DEF PairInv, PairOK, Init
<1>5. AcceptInv
  BY <1>1 DEF AcceptInv, Accepting, Init, Result, Id
<1>6. DataInv
  <2>1. ASSUME NEW p \in Id, NEW d \in Dir PROVE DataOK(p, d)
    <3>1. /\ taken[p][d] = 0 /\ delivered[p][d] = <<>>
          /\ ops[p] = {} /\ done[p] = {}
      BY DEF Init
    <3> QED
      BY <3>1 DEF DataOK, Loaded
  <2> QED
    BY <2>1 DEF DataInv
<1>7. MapInStep
  BY <1>2 DEF MapInStep, Init
<1> QED
  BY <1>3, <1>4, <1>5, <1>6, <1>7 DEF ProxyInv

LEMMA StepInvariant ==
  ASSUME ProxyInv, [Next]_vars
  PROVE  ProxyInv'
<1> DEFINE Rest == PairInv /\ AcceptInv /\ DataInv /\ MapInStep
<1>1. ASSUME NEW r \in Result, AcceptCompletes(r) PROVE Rest'
  BY <1>1, PairsKept DEF AcceptCompletes, ProxyInv
<1>2. ASSUME Accepted PROVE Rest'
  BY <1>2, AcceptedStep
<1>3. ASSUME AcceptedThrows PROVE Rest'
  BY <1>3, PairsKept DEF AcceptedThrows, ProxyInv
<1>4. ASSUME NEW p \in Id, startproxy(p) PROVE Rest'
  BY <1>4, StartStep
<1>5. ASSUME NEW p \in Id, NEW d \in Dir, WriteOn(p, d) PROVE Rest'
  BY <1>5, TurnStep DEF WriteOn
<1>6. ASSUME NEW p \in Id, NEW d \in Dir, ReadOn(p, d) PROVE Rest'
  BY <1>6, TurnStep DEF ReadOn
<1>7. ASSUME NEW p \in Id, NEW c, OnClose(p, c) PROVE Rest'
  BY <1>7, CloseStep
<1>8. ASSUME NEW p \in Id, CloseReadsFreed(p) \/ StaleHandler(p) PROVE Rest'
  BY <1>8, PairsKept DEF CloseReadsFreed, StaleHandler, ProxyInv
<1>9. ASSUME NEW p \in Id, Connected(p) PROVE Rest'
  <2>1. <<"connect", "down">>[1] = "connect" /\ "ok" \in Result
    BY DEF Result
  <2> QED
    BY <1>9, <2>1, NoDataStep DEF Connected
<1>10. ASSUME NEW p \in Id, NEW op, Fails(p, op) PROVE Rest'
  BY <1>10, NoDataStep DEF Fails, Result
<1>11. ASSUME NEW p \in Id, NEW d \in Dir, ReadSome(p, d) PROVE Rest'
  BY <1>11, ReadSomeStep
<1>12. ASSUME NEW p \in Id, NEW d \in Dir, Written(p, d) PROVE Rest'
  BY <1>12, WrittenStep
<1>13. ASSUME MapRace PROVE Rest'
  BY <1>13, PairsKept DEF MapRace, ProxyInv
<1>14. CASE UNCHANGED vars
  <2>1. Rest'
    BY <1>14, PairsKept DEF vars, ProxyInv
  <2>2. TypeOK'
    BY <1>14 DEF vars, pairs, streams, TypeOK, ProxyInv
  <2> QED
    BY <2>1, <2>2 DEF ProxyInv
<1>15. CASE Next
  <2>1. Rest'
    BY <1>1, <1>2, <1>3, <1>4, <1>5, <1>6, <1>7, <1>8, <1>9, <1>10, <1>11, <1>12, <1>13, <1>15
    DEF Next, Handlers
  <2>2. TypeOK'
    BY <1>15, StepTypes
  <2> QED
    BY <2>1, <2>2 DEF ProxyInv
<1> QED
  BY <1>14, <1>15

LEMMA Invariance == Spec => []ProxyInv
<1>1. Init => ProxyInv
  BY InitInvariant
<1>2. ProxyInv /\ [Next]_vars => ProxyInv'
  BY StepInvariant
<1> QED
  BY <1>1, <1>2, PTL DEF Spec

-----------------------------------------------------------------------------
(* What it implies. *)

(* The variables have the types of the members they stand for: the accept  *)
(* handler never counts past the last pair, and the io_context it hands    *)
(* out is one of the pool's.                                               *)
THEOREM ProxyTypes == Spec => []TypeOK
<1>1. ProxyInv => TypeOK
  BY DEF ProxyInv
<1> QED
  BY <1>1, Invariance, PTL

(* on_close_ deletes a pair and erases its entry in one handler, do_accept *)
(* makes and enters it in one: the map holds the pairs that exist.         *)
THEOREM MapKeptInStep == Spec => []MapInStep
<1>1. ProxyInv => MapInStep
  BY DEF ProxyInv
<1> QED
  BY <1>1, Invariance, PTL

(* Whatever fails, is aborted or closed meanwhile, a side receives what    *)
(* the other side sent, in order and from the beginning.                   *)
THEOREM StreamsInOrder == Spec => []StreamOrder
<1>1. ProxyInv => StreamOrder
  <2> SUFFICES ASSUME ProxyInv, NEW p \in Id, NEW d \in Dir
               PROVE  /\ \A i \in DOMAIN delivered[p][d] : delivered[p][d][i] = i
                      /\ taken[p][d] - Len(delivered[p][d]) \in {0, 1}
    BY DEF StreamOrder
  <2>1. DataOK(p, d)
    BY DEF ProxyInv, DataInv
  <2>2. delivered[p][d] \in Seq(1 .. MaxChunks) /\ taken[p][d] \in 0 .. MaxChunks
    BY DEF ProxyInv, TypeOK
  <2>3. DOMAIN delivered[p][d] = 1 .. Len(delivered[p][d]) /\ Len(delivered[p][d]) \in Nat
    BY <2>2
  <2> QED
    BY <2>1, <2>2, <2>3 DEF DataOK
<1> QED
  BY <1>1, Invariance, PTL

(* A connection that has moved data has a read or a write of each          *)
(* direction under way until it is closed: neither side is forgotten.      *)
THEOREM DirectionsKeptAlive == Spec => []BothDirectionsMove
<1>1. ProxyInv => BothDirectionsMove
  <2> SUFFICES ASSUME ProxyInv, NEW p \in Id, pair[p] = "made",
                      taken[p] # [d \in Dir |-> 0], NEW d \in Dir
               PROVE  \E k \in {"read", "write"} :
                        <<k, d>> \in ops[p] \/ \E r \in Result : <<k, d, r>> \in done[p]
    BY DEF BothDirectionsMove
  <2>1. ~ Still(p)
    BY DEF Still, ProxyInv, TypeOK
  <2>2. Moving(p)
    BY <2>1 DEF ProxyInv, PairInv, PairOK, Fresh, Connecting
  <2>3. PICK x : Of(p, d) = {x} /\ x[1] # "connect"
    BY <2>2 DEF Moving
  <2>4. x \in Under(p) /\ x[2] = d
    BY <2>3 DEF Of
  <2>5. CASE x \in ops[p]
    <3>1. x \in Op
      BY <2>5 DEF ProxyInv, TypeOK
    <3>2. x = <<x[1], d>> /\ x[1] \in Kind
      BY <2>4, <3>1, OpShape
    <3> QED
      BY <2>3, <2>5, <3>2 DEF Kind
  <2>6. CASE x \in done[p]
    <3>1. x \in Completion
      BY <2>6 DEF ProxyInv, TypeOK, Completion
    <3>2. x = <<x[1], d, x[3]>> /\ x[1] \in Kind /\ x[3] \in Result
      BY <2>4, <3>1, CompletionShape
    <3> QED
      BY <2>3, <2>6, <3>2 DEF Kind
  <2> QED
    BY <2>4, <2>5, <2>6 DEF Under
<1> QED
  BY <1>1, Invariance, PTL

=============================================================================
