--------------------------- MODULE Timers_proofs ---------------------------
(***************************************************************************)
(* The timers of an event loop, for any timers, any intervals, any number  *)
(* of tasks and any time their callbacks take.                             *)
(*                                                                         *)
(* A task is at one place: with its timer, in the queue, in the multimap   *)
(* or in the pass (PlacesInv).  A timer knows its task and has cancelled   *)
(* the others (OwnerInv).  The multimap stays in order, because emplace    *)
(* puts an entry behind all that are due before it, and no entry is early  *)
(* or further ahead than its interval, seen from the clock reading of the  *)
(* pass (DueInv).                                                          *)
(***************************************************************************)
EXTENDS Timers, SeqLemmas, FiniteSetTheorems, TLAPS

-----------------------------------------------------------------------------
(* Sequences of entries. *)

(* In the order of their keys. *)
Sorted(s) == \A i, j \in 1 .. Len(s) : i <= j => s[i].at <= s[j].at

(* No task has two entries. *)
Distinct(s) == \A i, j \in 1 .. Len(s) : s[i].task = s[j].task => i = j

TasksOf(s) == {e.task : e \in Range(s)}

(* A set of indices that holds with each the ones below it.                 *)
LEMMA InitialIndices ==
  ASSUME NEW n \in Nat, NEW B \in SUBSET (1 .. n),
         \A i \in B : \A j \in 1 .. i : j \in B
  PROVE  Cardinality(B) \in 0 .. n /\ B = 1 .. Cardinality(B)
<1> DEFINE c == Cardinality(B)
<1>1. IsFiniteSet(1 .. n) /\ Cardinality(1 .. n) = n
  BY FS_Interval
<1>2. IsFiniteSet(B) /\ c \in Nat /\ c <= n
  BY <1>1, FS_Subset, FS_CardinalityType
<1>3. ASSUME NEW i \in B PROVE i <= c
  <2>1. 1 .. i \in SUBSET B /\ Cardinality(1 .. i) = i
    BY FS_Interval
  <2> QED
    BY <1>2, <2>1, FS_Subset
<1>4. B \in SUBSET (1 .. c)
  BY <1>2, <1>3
<1>5. IsFiniteSet(1 .. c) /\ Cardinality(1 .. c) = c
  BY <1>2, FS_Interval
<1>6. B = 1 .. c
  BY <1>4, <1>5, FS_Subset
<1> QED
  BY <1>2, <1>6

LEMMA EntryIndex ==
  ASSUME NEW s \in Seq(Entry)
  PROVE  /\ Len(s) \in Nat
         /\ \A i \in 1 .. Len(s) : s[i] \in Entry /\ s[i].at \in Nat /\ s[i].task \in TaskId
         /\ Range(s) \subseteq Entry /\ TasksOf(s) \subseteq TaskId
         /\ \A e : e \in Range(s) <=> \E i \in 1 .. Len(s) : e = s[i]
         /\ \A k : k \in TasksOf(s) <=> \E i \in 1 .. Len(s) : k = s[i].task
<1>1. \A i \in 1 .. Len(s) : s[i] \in Entry /\ s[i].at \in Nat /\ s[i].task \in TaskId
  <2>1. \A i \in 1 .. Len(s) : s[i] \in Entry
    OBVIOUS
  <2>2. \A e \in Entry : e.at \in Nat /\ e.task \in TaskId
    BY DEF Entry
  <2> QED
    BY <2>1, <2>2
<1>2. \A e : e \in Range(s) <=> \E i \in 1 .. Len(s) : e = s[i]
  BY RangeMember
<1>3. \A k : k \in TasksOf(s) <=> \E i \in 1 .. Len(s) : k = s[i].task
  BY <1>2 DEF TasksOf
<1> QED
  BY <1>1, <1>2, <1>3

(* The first entry is the earliest, and its task has no other.              *)
LEMMA TailEntries ==
  ASSUME NEW s \in Seq(Entry), s # <<>>
  PROVE  /\ Head(s) \in Entry /\ Tail(s) \in Seq(Entry)
         /\ Head(s) \in Range(s) /\ Range(Tail(s)) \subseteq Range(s)
         /\ TasksOf(s) = {Head(s).task} \cup TasksOf(Tail(s))
         /\ Distinct(s) => Distinct(Tail(s)) /\ Head(s).task \notin TasksOf(Tail(s))
         /\ Sorted(s) => /\ Sorted(Tail(s))
                         /\ \A i \in 1 .. Len(Tail(s)) : Head(s).at <= Tail(s)[i].at
<1> DEFINE u == Tail(s)
<1>1. /\ Head(s) = s[1] /\ Len(s) \in Nat \ {0} /\ Len(u) = Len(s) - 1
      /\ \A i \in 1 .. Len(s) - 1 : u[i] = s[i + 1]
      /\ Range(s) = {Head(s)} \cup Range(u)
  BY RangeHeadTail
<1>2. Head(s) \in Entry /\ u \in Seq(Entry)
  BY HeadTailType
<1> HIDE DEF u
<1>3. \A i \in 1 .. Len(u) : i + 1 \in 1 .. Len(s) /\ u[i] = s[i + 1] /\ i + 1 # 1
  BY <1>1
<1>4. TasksOf(s) = {Head(s).task} \cup TasksOf(u)
  BY <1>1 DEF TasksOf
<1>5. ASSUME Distinct(s) PROVE Distinct(u) /\ Head(s).task \notin TasksOf(u)
  <2>1. Distinct(u)
    BY <1>1, <1>3, <1>5 DEF Distinct
  <2>2. ASSUME NEW i \in 1 .. Len(u) PROVE u[i].task # Head(s).task
    <3>1. i + 1 \in 1 .. Len(s) /\ 1 \in 1 .. Len(s) /\ i + 1 # 1
      BY <1>1, <1>3
    <3> QED
      BY <1>1, <1>3, <1>5, <3>1 DEF Distinct
  <2> QED
    BY <1>2, <2>1, <2>2, EntryIndex
<1>6. ASSUME Sorted(s)
      PROVE  Sorted(u) /\ \A i \in 1 .. Len(u) : Head(s).at <= u[i].at
  <2>1. ASSUME NEW i \in 1 .. Len(u), NEW j \in 1 .. Len(u), i <= j
        PROVE  u[i].at <= u[j].at
    <3>1. i + 1 \in 1 .. Len(s) /\ j + 1 \in 1 .. Len(s) /\ i + 1 <= j + 1
      BY <1>1, <2>1
    <3> QED
      BY <1>3, <1>6, <3>1 DEF Sorted
  <2>2. ASSUME NEW i \in 1 .. Len(u) PROVE Head(s).at <= u[i].at
    <3>1. i + 1 \in 1 .. Len(s) /\ 1 \in 1 .. Len(s) /\ 1 <= i + 1
      BY <1>1
    <3> QED
      BY <1>1, <1>3, <1>6, <3>1 DEF Sorted
  <2> QED
    BY <2>1, <2>2 DEF Sorted
<1> QED
  BY <1>1, <1>2, <1>4, <1>5, <1>6 DEF u

LEMMA ConcatEntries ==
  ASSUME NEW s \in Seq(Entry), NEW e \in Entry
  PROVE  /\ s \o <<e>> \in Seq(Entry)
         /\ Len(s \o <<e>>) = Len(s) + 1
         /\ Range(s \o <<e>>) = Range(s) \cup {e}
         /\ TasksOf(s \o <<e>>) = TasksOf(s) \cup {e.task}
         /\ Distinct(s) /\ e.task \notin TasksOf(s) => Distinct(s \o <<e>>)
<1> DEFINE u == s \o <<e>>
<1>1. /\ u \in Seq(Entry) /\ Len(u) = Len(s) + 1 /\ Len(s) \in Nat
      /\ \A i \in 1 .. Len(s) : u[i] = s[i]
      /\ u[Len(s) + 1] = e
      /\ u = Append(s, e)
  OBVIOUS
<1>2. Range(u) = Range(s) \cup {e}
  <2>1. Range(Append(s, e)) = Range(s) \cup {e}
    BY RangeAppend
  <2> QED
    BY <1>1, <2>1
<1> HIDE DEF u
<1>3. TasksOf(u) = TasksOf(s) \cup {e.task}
  BY <1>2 DEF TasksOf
<1>4. ASSUME Distinct(s), e.task \notin TasksOf(s) PROVE Distinct(u)
  <2>1. \A i \in 1 .. Len(s) : u[i].task # e.task
    BY <1>1, <1>4, EntryIndex
  <2>2. \A i \in 1 .. Len(u) : i \in 1 .. Len(s) \/ i = Len(s) + 1
    BY <1>1
  <2> QED
    BY <1>1, <1>4, <2>1, <2>2 DEF Distinct
<1> QED
  BY <1>1, <1>2, <1>3, <1>4 DEF u

(* emplace keeps the order, adds the one entry and loses none.              *)
LEMMA EmplaceEntries ==
  ASSUME NEW s \in Seq(Entry), NEW e \in Entry, Sorted(s)
  PROVE  /\ Emplace(s, e) \in Seq(Entry) /\ Emplace(s, e) # <<>>
         /\ Sorted(Emplace(s, e))
         /\ Range(Emplace(s, e)) = Range(s) \cup {e}
         /\ TasksOf(Emplace(s, e)) = TasksOf(s) \cup {e.task}
         /\ Distinct(s) /\ e.task \notin TasksOf(s) => Distinct(Emplace(s, e))
<1> DEFINE before == {i \in DOMAIN s : s[i].at <= e.at}
           p == Cardinality(before) + 1
           u == InsertAt(s, p, e)
<1>1. /\ Len(s) \in Nat /\ e.at \in Nat /\ e.task \in TaskId
      /\ \A i \in 1 .. Len(s) : s[i] \in Entry /\ s[i].at \in Nat
  BY EntryIndex DEF Entry
<1>2. /\ before \in SUBSET (1 .. Len(s))
      /\ \A i \in before : \A j \in 1 .. i : j \in before
  <2>1. before \in SUBSET (1 .. Len(s))
    OBVIOUS
  <2>2. ASSUME NEW i \in before, NEW j \in 1 .. i PROVE j \in before
    <3>1. i \in 1 .. Len(s) /\ j \in 1 .. Len(s) /\ j <= i /\ s[i].at <= e.at
      BY <1>1
    <3>2. s[j].at <= s[i].at
      BY <3>1 DEF Sorted
    <3>3. s[j].at <= e.at
      BY <1>1, <3>1, <3>2
    <3> QED
      BY <3>1, <3>3
  <2> QED
    BY <2>1, <2>2
<1> HIDE DEF before
<1>3. Cardinality(before) \in 0 .. Len(s) /\ before = 1 .. Cardinality(before)
  BY <1>1, <1>2, InitialIndices
<1>4. p \in 1 .. Len(s) + 1 /\ \A i \in 1 .. Len(s) : i < p <=> s[i].at <= e.at
  <2>1. \A i \in 1 .. Len(s) : i \in before <=> s[i].at <= e.at
    BY DEF before
  <2>2. \A i \in 1 .. Len(s) : i \in before <=> i < p
    BY <1>3
  <2> QED
    BY <1>1, <1>3, <2>1, <2>2
<1> HIDE DEF p
<1>5. /\ u \in Seq(Entry) /\ Len(u) = Len(s) + 1 /\ u[p] = e
      /\ \A i \in 1 .. Len(s) : i < p => u[i] = s[i]
      /\ \A i \in 1 .. Len(s) : i >= p => u[i + 1] = s[i]
  BY <1>4, InsertIndex
<1>6. Range(u) = Range(s) \cup {e}
  BY <1>4, RangeInsert
<1>7. Emplace(s, e) = u
  BY DEF Emplace, p, before
<1> HIDE DEF u
<1>8. TasksOf(u) = TasksOf(s) \cup {e.task}
  BY <1>6 DEF TasksOf
(* Where each entry comes from: its old index. *)
<1> DEFINE from(i) == IF i < p THEN i ELSE i - 1
<1>9. ASSUME NEW i \in 1 .. Len(u), i # p
      PROVE  from(i) \in 1 .. Len(s) /\ u[i] = s[from(i)]
  <2>1. CASE i < p
    BY <1>1, <1>4, <1>5, <2>1
  <2>2. CASE i > p
    <3>1. i - 1 \in 1 .. Len(s) /\ i - 1 >= p /\ (i - 1) + 1 = i
      BY <1>1, <1>4, <1>5, <2>2
    <3>2. u[(i - 1) + 1] = s[i - 1]
      BY <1>5, <3>1
    <3>3. from(i) = i - 1
      BY <1>4, <2>2
    <3> QED
      BY <3>1, <3>2, <3>3
  <2> QED
    BY <1>4, <1>9, <2>1, <2>2
<1>10. Sorted(u)
  <2> SUFFICES ASSUME NEW i \in 1 .. Len(u), NEW j \in 1 .. Len(u), i <= j
               PROVE  u[i].at <= u[j].at
    BY DEF Sorted
  <2>1. CASE i = p /\ j = p
    BY <1>1, <1>5, <2>1
  <2>2. CASE i # p /\ j = p
    <3>1. from(i) \in 1 .. Len(s) /\ from(i) < p
      BY <1>4, <1>5, <1>9, <2>2
    <3> QED
      BY <1>4, <1>5, <1>9, <2>2, <3>1
  <2>3. CASE i = p /\ j # p
    <3>1. from(j) \in 1 .. Len(s) /\ ~(from(j) < p)
      BY <1>4, <1>5, <1>9, <2>3
    <3>2. e.at <= s[from(j)].at
      BY <1>1, <1>4, <3>1
    <3> QED
      BY <1>5, <1>9, <2>3, <3>2
  <2>4. CASE i # p /\ j # p
    <3>1. /\ from(i) \in 1 .. Len(s) /\ from(j) \in 1 .. Len(s) /\ from(i) <= from(j)
          /\ u[i] = s[from(i)] /\ u[j] = s[from(j)]
      BY <1>4, <1>5, <1>9, <2>4
    <3> QED
      BY <3>1 DEF Sorted
  <2> QED
    BY <2>1, <2>2, <2>3, <2>4
<1>11. ASSUME Distinct(s), e.task \notin TasksOf(s) PROVE Distinct(u)
  <2> SUFFICES ASSUME NEW i \in 1 .. Len(u), NEW j \in 1 .. Len(u), u[i].task = u[j].task
               PROVE  i = j
    BY DEF Distinct
  <2>1. ASSUME NEW x \in 1 .. Len(u), x # p PROVE u[x].task # e.task
    BY <1>9, <1>11, <2>1, EntryIndex
  <2>2. CASE i = p \/ j = p
    BY <1>5, <2>1, <2>2
  <2>3. CASE i # p /\ j # p
    <3>1. /\ from(i) \in 1 .. Len(s) /\ from(j) \in 1 .. Len(s)
          /\ u[i] = s[from(i)] /\ u[j] = s[from(j)]
      BY <1>9, <2>3
    <3>2. from(i) = from(j)
      BY <1>11, <3>1 DEF Distinct
    <3> QED
      BY <1>4, <1>5, <2>3, <3>2
  <2> QED
    BY <2>2, <2>3
<1>12. u # <<>>
  BY <1>1, <1>5
<1> QED
  BY <1>5, <1>6, <1>7, <1>8, <1>10, <1>11, <1>12

(* What the rest of a batch loses and what stays in the queue.              *)
LEMMA DropEntries ==
  ASSUME NEW s \in Seq(Entry), NEW n \in 0 .. Len(s)
  PROVE  LET dropped == {s[i].task : i \in 1 .. n}
             kept == SubSeq(s, n + 1, Len(s))
         IN  /\ kept \in Seq(Entry) /\ Range(kept) \subseteq Range(s)
             /\ TasksOf(s) = dropped \cup TasksOf(kept)
             /\ Distinct(s) => Distinct(kept) /\ dropped \cap TasksOf(kept) = {}
<1> DEFINE dropped == {s[i].task : i \in 1 .. n}
           kept == SubSeq(s, n + 1, Len(s))
<1>1. /\ kept \in Seq(Entry) /\ Len(kept) = Len(s) - n /\ Len(s) \in Nat
      /\ \A i \in 1 .. Len(s) - n : kept[i] = s[n + i]
  OBVIOUS
<1> HIDE DEF kept
<1>2. \A i \in 1 .. Len(kept) : kept[i] = s[n + i] /\ n + i \in 1 .. Len(s) /\ n + i > n
  BY <1>1
<1>3. Range(kept) \subseteq Range(s)
  BY <1>1, <1>2, EntryIndex
<1>4. TasksOf(s) = dropped \cup TasksOf(kept)
  <2>1. ASSUME NEW i \in 1 .. Len(s) PROVE s[i].task \in dropped \cup TasksOf(kept)
    <3>1. CASE i <= n
      BY <3>1
    <3>2. CASE i > n
      <4>1. i - n \in 1 .. Len(kept) /\ n + (i - n) = i
        BY <1>1, <3>2
      <4>2. kept[i - n] = s[i]
        BY <1>2, <4>1
      <4> QED
        BY <1>1, <4>1, <4>2, EntryIndex
    <3> QED
      BY <3>1, <3>2
  <2>2. TasksOf(kept) \subseteq TasksOf(s)
    BY <1>3 DEF TasksOf
  <2>3. dropped \subseteq TasksOf(s)
    <3>1. \A i \in 1 .. n : i \in 1 .. Len(s)
      BY <1>1
    <3> QED
      BY <3>1, EntryIndex
  <2>4. TasksOf(s) \subseteq dropped \cup TasksOf(kept)
    BY <2>1, EntryIndex
  <2> QED
    BY <2>2, <2>3, <2>4
<1>5. ASSUME Distinct(s) PROVE Distinct(kept) /\ dropped \cap TasksOf(kept) = {}
  <2>1. Distinct(kept)
    <3> SUFFICES ASSUME NEW i \in 1 .. Len(kept), NEW j \in 1 .. Len(kept),
                        kept[i].task = kept[j].task
                 PROVE  i = j
      BY DEF Distinct
    <3>1. n + i = n + j
      BY <1>2, <1>5 DEF Distinct
    <3> QED
      BY <3>1
  <2>2. ASSUME NEW i \in 1 .. n, NEW j \in 1 .. Len(kept) PROVE s[i].task # kept[j].task
    <3>1. i \in 1 .. Len(s) /\ n + j \in 1 .. Len(s) /\ i # n + j /\ kept[j] = s[n + j]
      BY <1>1, <1>2
    <3> QED
      BY <1>5, <3>1 DEF Distinct
  <2> QED
    BY <1>1, <2>1, <2>2, EntryIndex
<1> QED
  BY <1>1, <1>3, <1>4, <1>5 DEF kept

LEMMA EmptyEntries ==
  /\ <<>> \in Seq(Entry) /\ Len(<<>>) = 0 /\ TasksOf(<<>>) = {} /\ Range(<<>>) = {}
  /\ Sorted(<<>>) /\ Distinct(<<>>)
<1>1. <<>> \in Seq(Entry) /\ Len(<<>>) = 0
  OBVIOUS
<1>2. Range(<<>>) = {}
  BY DEF Range
<1> QED
  BY <1>1, <1>2 DEF TasksOf, Sorted, Distinct

(* What a timer is about to queue: one insertion.                           *)
LEMMA OneEntry ==
  ASSUME NEW s \in Seq(Entry), s # <<>>, Len(s) <= 1
  PROVE  /\ s[1] \in Entry /\ s = <<s[1]>>
         /\ Range(s) = {s[1]} /\ TasksOf(s) = {s[1].task}
<1>1. s[1] \in Entry /\ s = <<s[1]>> /\ Len(s) = 1
  OBVIOUS
<1>2. Range(s) = {s[1]}
  BY <1>1, EntryIndex
<1> QED
  BY <1>1, <1>2 DEF TasksOf

-----------------------------------------------------------------------------
(* The inductive invariant. *)

Timed == TasksOf(time_after_tasks)
Queued == TasksOf(queue)
Adding == UNION {TasksOf(adding[t]) : t \in Timers}
Placed == Timed \cup Queued \cup Adding \cup Running

Calling == {"call", "invoke", "callback"}
InPass == {"scan"} \cup Calling

(* What the loop thread's position says of its locals. *)
PhaseInv ==
  /\ task # None <=> pc \in Calling
  /\ pc = "scan" => time_after_tasks # <<>>
  /\ batch > 0 => pc = "events"
  /\ pc \in InPass => /\ read_shift <= now_time /\ now_time <= pass_ms
                      /\ pass_ms - now_time <= MaxBusy

(* A timer's user is in one call of reset at a time. *)
OneAdded == \A t \in Timers : Len(adding[t]) <= 1

(* A task is in one place at most, and in one unless it has ended or will   *)
(* not be called.                                                           *)
PlacesInv ==
  /\ Timed \cap Queued = {}
  /\ Adding \cap (Timed \cup Queued \cup Running) = {}
  /\ Running \cap (Timed \cup Queued) = {}
  /\ Placed \cup ended \cup fired \subseteq 1 .. created
  /\ Placed \cap ended = {}
  /\ \A k \in 1 .. created : k \in Placed \/ k \in ended \/ canceled[k]

DistinctInv == Distinct(time_after_tasks) /\ Distinct(queue)

(* A timer knows its task by weak_call_, what else is left of it is         *)
(* cancelled, and what it is about to queue is its own.                     *)
OwnerInv ==
  /\ \A k \in 1 .. created : owner[k] \in Timers
  /\ \A t \in Timers :
       weak_call[t] # None => weak_call[t] \in 1 .. created /\ owner[weak_call[t]] = t
  /\ \A k \in Placed : canceled[k] \/ weak_call[owner[k]] = k
  /\ \A t \in Timers : \A k \in TasksOf(adding[t]) : owner[k] = t

(* The loop thread's timers are not cancelled between the look at canceled_ *)
(* and the call; another thread's may be, and its task is not called again. *)
LateInv ==
  /\ pc = "invoke" /\ canceled[task] => owner[task] \notin LoopTimers
  /\ \A k \in TaskId :
       \/ late[k] = 0
       \/ /\ k \in 1 .. created /\ late[k] = 1
          /\ canceled[k] /\ owner[k] \notin LoopTimers /\ ~(pc = "invoke" /\ task = k)

(* No entry is early, or further ahead than its interval and what the clock *)
(* may be set back.                                                         *)
Slack(k) == IF k \in fired THEN MaxBusy ELSE 0
Reading == IF pc \in InPass THEN now_time - read_shift ELSE now
DueAt(e, time) ==
  /\ since[e.task] + after_msec[e.task] - Slack(e.task) <= e.at
  /\ \E u \in Shifts : e.at <= time + u + after_msec[e.task]
DueInv ==
  /\ \A e \in Range(time_after_tasks) : DueAt(e, Reading)
  /\ \A e \in Range(queue) : DueAt(e, now)
  /\ \A t \in Timers : \A e \in Range(adding[t]) : DueAt(e, now)
  /\ pc \in {"call", "invoke"} => since[task] + after_msec[task] - Slack(task) <= now_time
  /\ pc = "callback" => since[task] - now_time <= MaxBusy /\ task \in fired

TimersInv ==
  /\ TypeOK /\ PhaseInv /\ OneAdded /\ Sorted(time_after_tasks) /\ DistinctInv
  /\ PlacesInv /\ OwnerInv /\ LateInv /\ DueInv

-----------------------------------------------------------------------------
(* Types. *)

LEMMA ClockTypes ==
  ASSUME TypeOK
  PROVE  /\ now \in Nat /\ shift \in Nat /\ read_shift \in Nat /\ now_time \in Nat
         /\ now_ms \in Nat /\ pass_ms \in Nat /\ MaxBusy \in Nat
         /\ 0 \in Shifts /\ \A u \in Shifts : u \in Nat
<1>1. 0 \in Shifts /\ MaxBusy \in Nat /\ \A u \in Shifts : u \in Nat
  BY TimersAssumption DEF TimersAssumption
<1> QED
  BY <1>1 DEF TypeOK, now_ms, pass_ms

LEMMA AfterIsNat == \A i \in Intervals \cup {0} : i \in Nat
<1>1. \A i \in Intervals : i \in Nat
  BY TimersAssumption, Zenon DEF TimersAssumption
<1> QED
  BY <1>1

LEMMA PollType ==
  ASSUME TypeOK, NEW timed \in Int, Poll(timed), now' = now
  PROVE  /\ pc' \in Phase /\ poll_until' \in Nat \cup {Forever}
         /\ task' \in TaskId \cup {None} /\ now_time' \in Nat /\ read_shift' \in Shifts
  BY TimersAssumption DEF TypeOK, Poll, Phase, TimersAssumption

LEMMA IterateType ==
  ASSUME TypeOK, NEW s \in Seq(Entry), Iterate(s), now' = now
  PROVE  /\ time_after_tasks' \in Seq(Entry)
         /\ pc' \in Phase /\ poll_until' \in Nat \cup {Forever}
         /\ task' \in TaskId \cup {None} /\ now_time' \in Nat /\ read_shift' \in Shifts
<1>1. CASE s = <<>>
  BY <1>1, PollType DEF Iterate
<1>2. CASE s # <<>>
  BY <1>2 DEF Iterate, reading, TypeOK, Phase
<1> QED
  BY <1>1, <1>2

(* The wait until the first entry is some int. *)
LEMMA WaitIsInt ==
  ASSUME TypeOK, PhaseInv, pc = "scan", Head(time_after_tasks).at > now_time
  PROVE  ToInt(Head(time_after_tasks).at - now_time) \in Int
<1>1. Head(time_after_tasks) \in Entry
  BY HeadTailType DEF TypeOK, PhaseInv
<1>2. Head(time_after_tasks).at - now_time \in Nat
  BY <1>1 DEF TypeOK, Entry
<1>3. \A x \in Nat : x % IntSpan \in Int
  BY TimersAssumption DEF TimersAssumption
<1> QED
  BY <1>2, <1>3, TimersAssumption DEF ToInt, TimersAssumption

LEMMA CancelledType ==
  ASSUME TypeOK, NEW t \in Timers
  PROVE  Cancelled(t) \in [TaskId -> BOOLEAN]
  BY DEF TypeOK, Cancelled

LEMMA NextEntry ==
  ASSUME TypeOK, PhaseInv, pc = "callback"
  PROVE  /\ task \in TaskId
         /\ [at |-> NextDeadline(task), task |-> task] \in Entry
<1>1. task \in TaskId
  BY DEF TypeOK, PhaseInv, Calling
<1>2. after_msec[task] \in Intervals \cup {0} /\ now_time \in Nat
  BY <1>1, TimersAssumption DEF TypeOK, TimersAssumption
<1>3. now_time + after_msec[task] \in Nat
  BY <1>2, AfterIsNat
<1> QED
  BY <1>1, <1>3 DEF NextDeadline, Entry

LEMMA TypeKept ==
  ASSUME TypeOK, PhaseInv, LateInv, Sorted(time_after_tasks), [Next]_vars
  PROVE  TypeOK'
<1> USE DEF loop, reading, clock, object, history
<1>1. CASE UNCHANGED vars
  BY <1>1 DEF vars, TypeOK
<1>2. ASSUME NEW t \in Timers, NEW i \in Intervals, Reset(t, i)
      PROVE  TypeOK'
  <2>1. [at |-> now_ms + i, task |-> created + 1] \in Entry
    BY <1>2, ClockTypes, AfterIsNat DEF Reset, Entry
  <2>2. adding' \in [Timers -> Seq(Entry)]
    BY <1>2, <2>1 DEF Reset, TypeOK
  <2>3. canceled' \in [TaskId -> BOOLEAN]
    BY <1>2, CancelledType DEF Reset
  <2>4. created' \in 0 .. MaxTasks
    BY <1>2 DEF Reset, TypeOK, TaskId
  <2>5. /\ owner' \in [TaskId -> Timers \cup {None}]
        /\ after_msec' \in [TaskId -> Intervals \cup {0}]
        /\ weak_call' \in [Timers -> TaskId \cup {None}]
    BY <1>2 DEF Reset, TypeOK
  <2>6. since' \in [TaskId -> Nat]
    BY <1>2, ClockTypes DEF Reset, TypeOK
  <2>7. UNCHANGED <<now, shift, read_shift, time_after_tasks, queue, batch, pc, now_time, task, poll_until, fired, late, ended>>
    BY <1>2 DEF Reset
  <2> QED
    BY <2>2, <2>3, <2>4, <2>5, <2>6, <2>7 DEF TypeOK
<1>3. ASSUME NEW t \in Timers, AddTimeTask(t)
      PROVE  TypeOK'
  <2>1. queue' \in Seq(Entry) /\ Len(queue') = Len(queue) + Len(adding[t]) /\ Len(adding[t]) \in Nat
    BY <1>3 DEF AddTimeTask, TypeOK
  <2>2. adding' \in [Timers -> Seq(Entry)]
    BY <1>3, EmptyEntries DEF AddTimeTask, TypeOK
  <2>3. batch' \in 0 .. Len(queue')
    BY <1>3, <2>1 DEF AddTimeTask, TypeOK
  <2> QED
    BY <1>3, <2>1, <2>2, <2>3 DEF AddTimeTask, TypeOK
<1>4. ASSUME NEW t \in Timers, Cancel(t)
      PROVE  TypeOK'
  BY <1>4, CancelledType DEF Cancel, TypeOK
<1>5. CASE PassNothing
  BY <1>5, PollType DEF PassNothing, TypeOK
<1>6. CASE PassBegin
  BY <1>6, ClockTypes DEF PassBegin, TypeOK, Phase
<1>7. CASE ScanFuture
  <2>1. /\ pc' \in Phase /\ poll_until' \in Nat \cup {Forever}
        /\ task' \in TaskId \cup {None} /\ now_time' \in Nat /\ read_shift' \in Shifts
    BY <1>7, WaitIsInt, PollType DEF ScanFuture
  <2> QED
    BY <1>7, <2>1 DEF ScanFuture, TypeOK
<1>8. CASE ScanExpired
  <2>1. Head(time_after_tasks) \in Entry /\ Tail(time_after_tasks) \in Seq(Entry)
    BY <1>8, HeadTailType DEF ScanExpired, PhaseInv, TypeOK
  <2> QED
    BY <1>8, <2>1 DEF ScanExpired, TypeOK, Phase, Entry
<1>9. CASE CallCanceled
  <2>1. /\ time_after_tasks' \in Seq(Entry)
        /\ pc' \in Phase /\ poll_until' \in Nat \cup {Forever}
        /\ task' \in TaskId \cup {None} /\ now_time' \in Nat /\ read_shift' \in Shifts
    BY <1>9, IterateType DEF CallCanceled, TypeOK
  <2> QED
    BY <1>9, <2>1 DEF CallCanceled, TypeOK
<1>10. CASE CallActive
  BY <1>10 DEF CallActive, TypeOK, Phase
<1>11. CASE Invoke
  <2>1. task \in TaskId
    BY <1>11 DEF Invoke, PhaseInv, Calling, TypeOK
  <2>2. late[task] = 0
    BY <1>11, <2>1 DEF Invoke, LateInv
  <2>3. late' \in [TaskId -> 0 .. 2]
    BY <1>11, <2>1, <2>2 DEF Invoke, TypeOK
  <2>4. since' \in [TaskId -> Nat]
    BY <1>11, ClockTypes DEF Invoke, TypeOK
  <2> QED
    BY <1>11, <2>1, <2>3, <2>4 DEF Invoke, TypeOK, Phase
<1>12. CASE CallbackTrue
  <2>1. /\ time_after_tasks' \in Seq(Entry)
        /\ pc' \in Phase /\ poll_until' \in Nat \cup {Forever}
        /\ task' \in TaskId \cup {None} /\ now_time' \in Nat /\ read_shift' \in Shifts
    BY <1>12, NextEntry, EmplaceEntries, IterateType DEF CallbackTrue, TypeOK
  <2> QED
    BY <1>12, <2>1 DEF CallbackTrue, TypeOK
<1>13. CASE CallbackFalse
  <2>1. /\ time_after_tasks' \in Seq(Entry)
        /\ pc' \in Phase /\ poll_until' \in Nat \cup {Forever}
        /\ task' \in TaskId \cup {None} /\ now_time' \in Nat /\ read_shift' \in Shifts
    BY <1>13, IterateType DEF CallbackFalse, TypeOK
  <2>2. task \in TaskId
    BY <1>13 DEF CallbackFalse, PhaseInv, Calling, TypeOK
  <2> QED
    BY <1>13, <2>1, <2>2 DEF CallbackFalse, TypeOK
<1>14. CASE PollWakeUp
  BY <1>14, ClockTypes DEF PollWakeUp, PollReturns, TypeOK, Phase
<1>15. CASE PollTimeout
  BY <1>15, ClockTypes DEF PollTimeout, PollReturns, TypeOK, Phase
<1>16. CASE PollOther
  BY <1>16, ClockTypes DEF PollOther, PollReturns, TypeOK, Phase
<1>17. CASE RunInsertion
  <2>1. queue # <<>> /\ Head(queue) \in Entry /\ Tail(queue) \in Seq(Entry)
        /\ Len(Tail(queue)) = Len(queue) - 1 /\ Len(queue) \in Nat
    BY <1>17 DEF RunInsertion, TypeOK
  <2>2. time_after_tasks' \in Seq(Entry)
    BY <1>17, <2>1, EmplaceEntries DEF RunInsertion, TypeOK
  <2>3. batch' \in 0 .. Len(queue')
    BY <1>17, <2>1 DEF RunInsertion, TypeOK
  <2> QED
    BY <1>17, <2>1, <2>2, <2>3 DEF RunInsertion, TypeOK
<1>18. CASE TaskThrows
  <2>1. queue' \in Seq(Entry)
    BY <1>18, DropEntries DEF TaskThrows, TypeOK
  <2>2. {queue[i].task : i \in 1 .. batch} \subseteq TaskId
    BY EntryIndex DEF TypeOK
  <2>3. batch' \in 0 .. Len(queue')
    BY <1>18, <2>1 DEF TaskThrows
  <2> QED
    BY <1>18, <2>1, <2>2, <2>3 DEF TaskThrows, TypeOK
<1>19. CASE EventsDone
  BY <1>19 DEF EventsDone, TypeOK, Phase
<1>20. CASE Tick
  <2>1. now' \in 0 .. MaxTime
    BY <1>20, TimersAssumption DEF Tick, TypeOK, TimersAssumption
  <2> QED
    BY <1>20, <2>1 DEF Tick, TypeOK
<1>21. CASE SetClock
  BY <1>21 DEF SetClock, TypeOK
<1> QED
  BY <1>1, <1>2, <1>3, <1>4, <1>5, <1>6, <1>7, <1>8, <1>9, <1>10, <1>11, <1>12,
     <1>13, <1>14, <1>15, <1>16, <1>17, <1>18, <1>19, <1>20, <1>21
  DEF Next, LoopStep, Pass

-----------------------------------------------------------------------------
(* The loop thread's position. *)

(* An iteration ends in scan with an entry to look at, or in poll without.  *)
LEMMA IterateEnds ==
  ASSUME NEW s, Iterate(s)
  PROVE  /\ time_after_tasks' = s /\ task' = None
         /\ \/ s = <<>> /\ pc' = "poll"
            \/ s # <<>> /\ pc' = "scan" /\ now_time' = now_time /\ read_shift' = read_shift
  BY DEF Iterate, Poll, reading

LEMMA PhaseKept ==
  ASSUME TypeOK, PhaseInv, [Next]_vars
  PROVE  PhaseInv'
<1> USE DEF loop, reading, clock, object, history, Calling, InPass, pass_ms
<1>0. /\ now \in Nat /\ shift \in Nat /\ read_shift \in Nat /\ now_time \in Nat
      /\ batch \in Nat /\ MaxBusy \in Nat /\ None \notin TaskId
  BY ClockTypes, TimersAssumption DEF TypeOK, TimersAssumption
<1>1. CASE UNCHANGED vars
  BY <1>1 DEF vars, PhaseInv
<1>2. ASSUME NEW t \in Timers,
             AddTimeTask(t) \/ Cancel(t) \/ \E i \in Intervals : Reset(t, i)
      PROVE  PhaseInv'
  BY <1>2 DEF AddTimeTask, Cancel, Reset, PhaseInv
<1>3. CASE PassNothing \/ ScanFuture
  BY <1>0, <1>3 DEF PassNothing, ScanFuture, Poll, PhaseInv
<1>4. CASE PassBegin
  BY <1>0, <1>4 DEF PassBegin, PhaseInv, now_ms
<1>5. CASE ScanExpired
  <2>1. Head(time_after_tasks) \in Entry
    BY <1>5, HeadTailType DEF ScanExpired, PhaseInv, TypeOK
  <2>2. task' # None
    BY <1>0, <1>5, <2>1 DEF ScanExpired, Entry
  <2> QED
    BY <1>0, <1>5, <2>2 DEF ScanExpired, PhaseInv
<1>6. CASE CallActive \/ Invoke
  BY <1>6 DEF CallActive, Invoke, PhaseInv
<1>7. CASE CallCanceled
  BY <1>0, <1>7, IterateEnds DEF CallCanceled, PhaseInv
<1>8. CASE CallbackTrue
  <2> DEFINE s == Emplace(time_after_tasks, [at |-> NextDeadline(task), task |-> task])
  <2>1. Iterate(s)
    BY <1>8 DEF CallbackTrue
  <2> HIDE DEF s
  <2> QED
    BY <1>0, <1>8, <2>1, IterateEnds DEF CallbackTrue, PhaseInv
<1>9. CASE CallbackFalse
  BY <1>0, <1>9, IterateEnds DEF CallbackFalse, PhaseInv
<1>10. CASE PollWakeUp \/ PollTimeout \/ PollOther
  BY <1>0, <1>10 DEF PollWakeUp, PollTimeout, PollOther, PollReturns, PhaseInv
<1>11. CASE RunInsertion \/ TaskThrows
  BY <1>0, <1>11 DEF RunInsertion, TaskThrows, PhaseInv
<1>12. CASE EventsDone
  BY <1>0, <1>12 DEF EventsDone, PhaseInv
<1>13. CASE Tick
  <2>1. pc \in InPass => (now + 1) + read_shift - now_time <= MaxBusy
    BY <1>0, <1>13 DEF Tick
  <2> QED
    BY <1>0, <1>13, <2>1 DEF Tick, PhaseInv
<1>14. CASE SetClock
  BY <1>14 DEF SetClock, PhaseInv
<1> QED
  BY <1>1, <1>2, <1>3, <1>4, <1>5, <1>6, <1>7, <1>8, <1>9, <1>10, <1>11, <1>12, <1>13, <1>14
  DEF Next, LoopStep, Pass

LEMMA OneAddedKept ==
  ASSUME TypeOK, OneAdded, [Next]_vars
  PROVE  OneAdded'
<1> USE DEF loop, reading, clock, object, history
<1>1. CASE UNCHANGED adding
  BY <1>1 DEF OneAdded
<1>2. ASSUME NEW t \in Timers, NEW i \in Intervals, Reset(t, i)
      PROVE  OneAdded'
  <2>1. \A e : Len(<<e>>) = 1
    OBVIOUS
  <2>2. adding' = [adding EXCEPT ![t] = <<[at |-> now_ms + i, task |-> created + 1]>>]
    BY <1>2 DEF Reset
  <2>3. \A u \in Timers : Len(adding'[u]) <= 1
    BY <2>1, <2>2 DEF TypeOK, OneAdded
  <2> QED
    BY <2>3 DEF OneAdded
<1>3. ASSUME NEW t \in Timers, AddTimeTask(t)
      PROVE  OneAdded'
  <2>1. Len(<<>>) = 0
    OBVIOUS
  <2>2. \A u \in Timers : Len(adding'[u]) <= 1
    BY <1>3, <2>1 DEF AddTimeTask, TypeOK, OneAdded
  <2> QED
    BY <2>2 DEF OneAdded
<1> QED
  BY <1>1, <1>2, <1>3
  DEF vars, Next, LoopStep, Pass, Cancel, PassNothing, PassBegin, ScanFuture, ScanExpired,
      CallCanceled, CallActive, Invoke, CallbackTrue, CallbackFalse, PollWakeUp,
      PollTimeout, PollOther, RunInsertion, TaskThrows, EventsDone, Tick, SetClock

-----------------------------------------------------------------------------
(* Where tasks go in each step. *)

(* reset makes a new task and begins to queue it.                           *)
LEMMA ResetMoves ==
  ASSUME TypeOK, NEW t \in Timers, NEW i \in Intervals, Reset(t, i)
  PROVE  /\ created + 1 \in TaskId /\ created' = created + 1
         /\ adding[t] = <<>> /\ TasksOf(adding'[t]) = {created + 1}
         /\ \A u \in Timers : u # t => adding'[u] = adding[u]
         /\ Range(adding'[t]) = {[at |-> now_ms + i, task |-> created + 1]}
         /\ Adding' = Adding \cup {created + 1}
         /\ UNCHANGED <<Timed, Queued, Running>>
<1> DEFINE e == [at |-> now_ms + i, task |-> created + 1]
<1>1. /\ created + 1 \in TaskId /\ created' = created + 1
      /\ adding[t] = <<>> /\ adding' = [adding EXCEPT ![t] = <<e>>]
      /\ UNCHANGED <<time_after_tasks, queue, pc, task>>
  BY DEF Reset, MayCall, loop, reading, clock
<1>2. e \in Entry /\ e.task = created + 1
  BY <1>1, ClockTypes, AfterIsNat DEF Entry
<1> HIDE DEF e
<1>3. <<e>> \in Seq(Entry) /\ <<e>> # <<>> /\ Len(<<e>>) <= 1 /\ <<e>>[1] = e
  BY <1>2
<1>4. Range(<<e>>) = {e} /\ TasksOf(<<e>>) = {created + 1}
  BY <1>2, <1>3, OneEntry
<1>5. adding'[t] = <<e>> /\ \A u \in Timers : u # t => adding'[u] = adding[u]
  BY <1>1 DEF TypeOK
<1>6. TasksOf(adding[t]) = {}
  BY <1>1, EmptyEntries
<1>7. Adding' = Adding \cup {created + 1}
  BY <1>4, <1>5, <1>6 DEF Adding
<1> QED
  BY <1>1, <1>4, <1>5, <1>7 DEF Timed, Queued, Running, e

(* The insertion goes from its timer to the queue.                          *)
LEMMA AddMoves ==
  ASSUME TypeOK, OneAdded, OwnerInv, NEW t \in Timers, AddTimeTask(t)
  PROVE  \E e \in Entry :
           /\ Range(adding[t]) = {e} /\ TasksOf(adding[t]) = {e.task}
           /\ queue' = queue \o <<e>>
           /\ adding'[t] = <<>> /\ \A u \in Timers : u # t => adding'[u] = adding[u]
           /\ e.task \in Adding
           /\ Queued' = Queued \cup {e.task} /\ Adding' = Adding \ {e.task}
           /\ UNCHANGED <<Timed, Running>>
<1> DEFINE e == adding[t][1]
<1>1. adding[t] \in Seq(Entry) /\ adding[t] # <<>> /\ Len(adding[t]) <= 1
  BY DEF AddTimeTask, TypeOK, OneAdded
<1>2. /\ e \in Entry /\ adding[t] = <<e>>
      /\ Range(adding[t]) = {e} /\ TasksOf(adding[t]) = {e.task}
  BY <1>1, OneEntry
<1> HIDE DEF e
<1>3. queue' = queue \o <<e>> /\ UNCHANGED <<time_after_tasks, pc, task>>
  BY <1>2 DEF AddTimeTask, loop, reading, clock
<1>4. Queued' = Queued \cup {e.task}
  BY <1>2, <1>3, ConcatEntries DEF Queued, TypeOK
<1>5. adding'[t] = <<>> /\ \A u \in Timers : u # t => adding'[u] = adding[u]
  BY DEF AddTimeTask, TypeOK
<1>6. TasksOf(adding'[t]) = {}
  BY <1>5, EmptyEntries
<1>7. \A u \in Timers : u # t => e.task \notin TasksOf(adding[u])
  BY <1>2 DEF OwnerInv
<1>8. Adding' = Adding \ {e.task} /\ e.task \in Adding
  BY <1>2, <1>5, <1>6, <1>7 DEF Adding
<1> QED
  BY <1>2, <1>3, <1>4, <1>5, <1>8 DEF Timed, Running

(* The first entry's task goes from the multimap to the pass.               *)
LEMMA ExpiredMoves ==
  ASSUME TypeOK, PhaseInv, DistinctInv, ScanExpired
  PROVE  /\ Head(time_after_tasks) \in Range(time_after_tasks)
         /\ task' = Head(time_after_tasks).task
         /\ Range(time_after_tasks') \subseteq Range(time_after_tasks)
         /\ task' \in Timed /\ Timed' = Timed \ {task'}
         /\ Running = {} /\ Running' = {task'}
         /\ UNCHANGED <<Queued, Adding>>
<1>1. /\ pc = "scan" /\ pc' = "call" /\ task' = Head(time_after_tasks).task
      /\ time_after_tasks' = Tail(time_after_tasks) /\ UNCHANGED <<queue, adding>>
      /\ time_after_tasks \in Seq(Entry) /\ time_after_tasks # <<>>
  BY DEF ScanExpired, PhaseInv, TypeOK
<1>2. /\ Head(time_after_tasks) \in Range(time_after_tasks)
      /\ Range(time_after_tasks') \subseteq Range(time_after_tasks)
      /\ Timed = {task'} \cup Timed' /\ task' \notin Timed'
  BY <1>1, TailEntries DEF Timed, DistinctInv
<1>3. Running = {} /\ Running' = {task'}
  BY <1>1 DEF Running
<1> QED
  BY <1>1, <1>2, <1>3 DEF Queued, Adding

(* An iteration ends: its task goes back to the multimap or nowhere.        *)
LEMMA IterateMoves ==
  ASSUME TypeOK, PhaseInv, pc \in {"call", "callback"}, NEW s \in Seq(Entry), Iterate(s),
         UNCHANGED <<queue, adding>>
  PROVE  /\ Running = {task} /\ Running' = {} /\ Timed' = TasksOf(s)
         /\ UNCHANGED <<Queued, Adding>>
<1>1. Running = {task} /\ Running' = {}
  BY IterateEnds DEF Running
<1>2. Timed' = TasksOf(s)
  BY IterateEnds DEF Timed
<1> QED
  BY <1>1, <1>2 DEF Queued, Adding

LEMMA TrueMoves ==
  ASSUME TypeOK, PhaseInv, Sorted(time_after_tasks), CallbackTrue
  PROVE  LET e == [at |-> NextDeadline(task), task |-> task]
         IN  /\ e \in Entry /\ e.task = task /\ time_after_tasks' = Emplace(time_after_tasks, e)
             /\ Range(time_after_tasks') = Range(time_after_tasks) \cup {e}
             /\ Running = {task} /\ Running' = {} /\ Timed' = Timed \cup {task}
             /\ UNCHANGED <<Queued, Adding>>
<1> DEFINE e == [at |-> NextDeadline(task), task |-> task]
<1>1. /\ pc = "callback" /\ UNCHANGED <<queue, adding>>
      /\ Iterate(Emplace(time_after_tasks, e))
  BY DEF CallbackTrue
<1>2. e \in Entry /\ e.task = task
  BY <1>1, NextEntry
<1> HIDE DEF e
<1>3. /\ time_after_tasks \in Seq(Entry)
      /\ Emplace(time_after_tasks, e) \in Seq(Entry)
      /\ TasksOf(Emplace(time_after_tasks, e)) = Timed \cup {task}
      /\ Range(Emplace(time_after_tasks, e)) = Range(time_after_tasks) \cup {e}
  BY <1>2, EmplaceEntries DEF TypeOK, Timed
<1>4. time_after_tasks' = Emplace(time_after_tasks, e)
  BY <1>1, IterateEnds
<1>5. /\ Running = {task} /\ Running' = {} /\ Timed' = Timed \cup {task}
      /\ UNCHANGED <<Queued, Adding>>
  BY <1>1, <1>3, IterateMoves
<1> QED
  BY <1>2, <1>3, <1>4, <1>5 DEF e

(* An insertion goes from the queue to the multimap.                        *)
LEMMA InsertionMoves ==
  ASSUME TypeOK, Sorted(time_after_tasks), DistinctInv, RunInsertion
  PROVE  /\ Head(queue) \in Entry /\ Head(queue) \in Range(queue)
         /\ Range(queue') \subseteq Range(queue)
         /\ time_after_tasks' = Emplace(time_after_tasks, Head(queue))
         /\ Range(time_after_tasks') = Range(time_after_tasks) \cup {Head(queue)}
         /\ Head(queue).task \in Queued /\ Queued' = Queued \ {Head(queue).task}
         /\ Timed' = Timed \cup {Head(queue).task}
         /\ Distinct(queue')
         /\ UNCHANGED <<Adding, Running>>
<1>1. /\ queue \in Seq(Entry) /\ queue # <<>> /\ queue' = Tail(queue)
      /\ time_after_tasks \in Seq(Entry)
      /\ time_after_tasks' = Emplace(time_after_tasks, Head(queue))
      /\ UNCHANGED <<adding, pc, task>>
  BY DEF RunInsertion, TypeOK, loop, reading, clock
<1>2. /\ Head(queue) \in Entry /\ Head(queue) \in Range(queue)
      /\ Range(queue') \subseteq Range(queue)
      /\ Queued = {Head(queue).task} \cup Queued' /\ Head(queue).task \notin Queued'
      /\ Distinct(queue')
  BY <1>1, TailEntries DEF Queued, DistinctInv
<1>3. /\ Range(time_after_tasks') = Range(time_after_tasks) \cup {Head(queue)}
      /\ Timed' = Timed \cup {Head(queue).task}
  BY <1>1, <1>2, EmplaceEntries DEF Timed
<1> QED
  BY <1>1, <1>2, <1>3 DEF Adding, Running

(* The rest of the batch is dropped.                                        *)
LEMMA ThrowMoves ==
  ASSUME TypeOK, DistinctInv, TaskThrows
  PROVE  \E dropped \in SUBSET Queued :
           /\ ended' = ended \cup dropped /\ Queued' = Queued \ dropped
           /\ Range(queue') \subseteq Range(queue) /\ Distinct(queue')
           /\ UNCHANGED <<Timed, Adding, Running>>
<1> DEFINE dropped == {queue[i].task : i \in 1 .. batch}
<1>1. /\ queue \in Seq(Entry) /\ batch \in 0 .. Len(queue)
      /\ ended' = ended \cup dropped
      /\ queue' = SubSeq(queue, batch + 1, Len(queue))
      /\ UNCHANGED <<time_after_tasks, adding, pc, task>>
  BY DEF TaskThrows, TypeOK, loop, reading, clock
<1>2. /\ Range(queue') \subseteq Range(queue) /\ Distinct(queue')
      /\ Queued = dropped \cup Queued' /\ dropped \cap Queued' = {}
  BY <1>1, DropEntries DEF Queued, DistinctInv
<1> HIDE DEF dropped
<1>3. dropped \in SUBSET Queued /\ Queued' = Queued \ dropped
  BY <1>2
<1> QED
  BY <1>1, <1>2, <1>3 DEF Timed, Adding, Running

(* The other steps move no task.                                            *)
Stands ==
  \/ UNCHANGED vars
  \/ \E t \in Timers : Cancel(t)
  \/ PassNothing \/ PassBegin \/ ScanFuture \/ CallActive \/ Invoke
  \/ PollWakeUp \/ PollTimeout \/ PollOther \/ EventsDone \/ Tick \/ SetClock

LEMMA StandsMoves ==
  ASSUME Stands
  PROVE  UNCHANGED <<time_after_tasks, queue, adding, created, owner, after_msec, ended,
                     Timed, Queued, Adding, Running>>
<1> USE DEF Stands, vars, loop, reading, clock, object, history, Cancel, PassNothing, PassBegin, ScanFuture,
            CallActive, Invoke, PollWakeUp, PollTimeout, PollOther, PollReturns, EventsDone,
            Tick, SetClock, Poll
<1>1. UNCHANGED <<time_after_tasks, queue, adding, created, owner, after_msec, ended>>
  OBVIOUS
<1>2. Running' = Running
  BY DEF Running
<1> QED
  BY <1>1, <1>2 DEF Timed, Queued, Adding

(* Every step is one of these.                                              *)
LEMMA StepMoves ==
  ASSUME [Next]_vars
  PROVE  \/ Stands
         \/ \E t \in Timers : AddTimeTask(t) \/ \E i \in Intervals : Reset(t, i)
         \/ ScanExpired \/ CallCanceled \/ CallbackTrue \/ CallbackFalse
         \/ RunInsertion \/ TaskThrows
  BY DEF Next, LoopStep, Pass, Stands

-----------------------------------------------------------------------------
(* One lemma for each part of the invariant. *)

LEMMA SortedKept ==
  ASSUME TypeOK, PhaseInv, Sorted(time_after_tasks), DistinctInv, [Next]_vars
  PROVE  Sorted(time_after_tasks')
<1>0. time_after_tasks \in Seq(Entry)
  BY DEF TypeOK
<1>1. CASE UNCHANGED time_after_tasks
  BY <1>1
<1>2. CASE ScanExpired
  <2>1. time_after_tasks # <<>> /\ time_after_tasks' = Tail(time_after_tasks)
    BY <1>2 DEF ScanExpired, PhaseInv
  <2> QED
    BY <1>0, <2>1, TailEntries
<1>3. CASE CallbackTrue
  <2> DEFINE e == [at |-> NextDeadline(task), task |-> task]
  <2>1. e \in Entry /\ time_after_tasks' = Emplace(time_after_tasks, e)
    BY <1>3, TrueMoves
  <2> HIDE DEF e
  <2> QED
    BY <1>0, <2>1, EmplaceEntries
<1>4. CASE RunInsertion
  <2>1. Head(queue) \in Entry /\ time_after_tasks' = Emplace(time_after_tasks, Head(queue))
    BY <1>4, InsertionMoves
  <2> QED
    BY <1>0, <2>1, EmplaceEntries
<1>5. CASE CallCanceled \/ CallbackFalse
  BY <1>1, <1>5, IterateEnds DEF CallCanceled, CallbackFalse
<1>6. CASE TaskThrows
  BY <1>1, <1>6 DEF TaskThrows
<1>7. CASE \E t \in Timers : AddTimeTask(t) \/ \E i \in Intervals : Reset(t, i)
  BY <1>1, <1>7 DEF AddTimeTask, Reset
<1> QED
  BY <1>1, <1>2, <1>3, <1>4, <1>5, <1>6, <1>7, StepMoves, StandsMoves

LEMMA DistinctKept ==
  ASSUME TypeOK, PhaseInv, OneAdded, Sorted(time_after_tasks), DistinctInv, PlacesInv,
         OwnerInv, [Next]_vars
  PROVE  DistinctInv'
<1>0. time_after_tasks \in Seq(Entry) /\ queue \in Seq(Entry)
  BY DEF TypeOK
<1>1. CASE UNCHANGED <<time_after_tasks, queue>>
  BY <1>1 DEF DistinctInv
<1>2. ASSUME NEW t \in Timers, AddTimeTask(t)
      PROVE  DistinctInv'
  <2>1. PICK e \in Entry : e.task \in Adding /\ queue' = queue \o <<e>>
    BY <1>2, AddMoves
  <2>2. e.task \notin TasksOf(queue)
    BY <2>1 DEF PlacesInv, Queued
  <2>3. Distinct(queue')
    BY <1>0, <2>1, <2>2, ConcatEntries DEF DistinctInv
  <2> QED
    BY <1>2, <2>3 DEF DistinctInv, AddTimeTask
<1>3. CASE ScanExpired
  <2>1. time_after_tasks # <<>> /\ time_after_tasks' = Tail(time_after_tasks) /\ queue' = queue
    BY <1>3 DEF ScanExpired, PhaseInv
  <2> QED
    BY <1>0, <2>1, TailEntries DEF DistinctInv
<1>4. CASE CallbackTrue
  <2> DEFINE e == [at |-> NextDeadline(task), task |-> task]
  <2>1. /\ e \in Entry /\ e.task = task /\ time_after_tasks' = Emplace(time_after_tasks, e)
        /\ Running = {task}
    BY <1>4, TrueMoves
  <2> HIDE DEF e
  <2>2. e.task \notin TasksOf(time_after_tasks)
    BY <2>1 DEF PlacesInv, Timed
  <2>3. Distinct(time_after_tasks')
    BY <1>0, <2>1, <2>2, EmplaceEntries DEF DistinctInv
  <2> QED
    BY <1>4, <2>3 DEF DistinctInv, CallbackTrue
<1>5. CASE RunInsertion
  <2>1. /\ Head(queue) \in Entry /\ Head(queue).task \in Queued /\ Distinct(queue')
        /\ time_after_tasks' = Emplace(time_after_tasks, Head(queue))
    BY <1>5, InsertionMoves
  <2>2. Head(queue).task \notin TasksOf(time_after_tasks)
    BY <2>1 DEF PlacesInv, Timed
  <2> QED
    BY <1>0, <2>1, <2>2, EmplaceEntries DEF DistinctInv
<1>6. CASE TaskThrows
  BY <1>6, ThrowMoves DEF DistinctInv, TaskThrows
<1>7. CASE CallCanceled \/ CallbackFalse
  BY <1>1, <1>7, IterateEnds DEF CallCanceled, CallbackFalse
<1>8. ASSUME NEW t \in Timers, NEW i \in Intervals, Reset(t, i)
      PROVE  DistinctInv'
  BY <1>1, <1>8 DEF Reset
<1> QED
  BY <1>1, <1>2, <1>3, <1>4, <1>5, <1>6, <1>7, <1>8, StepMoves, StandsMoves

(* What weak_call_.lock() finds.                                            *)
LEMMA AliveIsPlaced ==
  ASSUME TypeOK
  PROVE  Alive = Placed
<1> DEFINE entries == Range(time_after_tasks) \cup Range(queue)
                      \cup UNION {Range(adding[t]) : t \in Timers}
<1>1. {e.task : e \in entries} = Timed \cup Queued \cup Adding
  BY DEF TasksOf, Timed, Queued, Adding
<1> QED
  BY <1>1 DEF Alive, Placed

LEMMA PlacedIsTask ==
  ASSUME TypeOK, PhaseInv
  PROVE  Placed \subseteq TaskId
<1>1. Timed \subseteq TaskId /\ Queued \subseteq TaskId
  BY EntryIndex DEF TypeOK, Timed, Queued
<1>2. \A t \in Timers : TasksOf(adding[t]) \subseteq TaskId
  BY EntryIndex DEF TypeOK
<1>3. Running \subseteq TaskId
  BY DEF Running, TypeOK, PhaseInv, Calling
<1> QED
  BY <1>1, <1>2, <1>3 DEF Adding, Placed

(* A cancel reaches the timer's task wherever it is, and no other; what was *)
(* cancelled stays so.                                                      *)
LEMMA CancelReaches ==
  ASSUME TypeOK, PhaseInv, NEW t \in Timers
  PROVE  \A k \in TaskId :
           Cancelled(t)[k] <=> canceled[k] \/ (k \in Placed /\ k = weak_call[t])
<1>1. CASE weak_call[t] \in Placed
  <2>1. weak_call[t] \in TaskId
    BY <1>1, PlacedIsTask
  <2>2. Cancelled(t) = [canceled EXCEPT ![weak_call[t]] = TRUE]
    BY <1>1, AliveIsPlaced DEF Cancelled
  <2> QED
    BY <1>1, <2>1, <2>2 DEF TypeOK
<1>2. CASE weak_call[t] \notin Placed
  <2>1. Cancelled(t) = canceled
    BY <1>2, AliveIsPlaced DEF Cancelled
  <2> QED
    BY <1>2, <2>1
<1> QED
  BY <1>1, <1>2

LEMMA CanceledStays ==
  ASSUME TypeOK, PhaseInv, [Next]_vars
  PROVE  \A k \in TaskId : canceled[k] => canceled'[k]
<1>1. ASSUME NEW t \in Timers, canceled' = Cancelled(t)
      PROVE  \A k \in TaskId : canceled[k] => canceled'[k]
  BY <1>1, CancelReaches
<1> QED
  BY <1>1
  DEF Next, LoopStep, Pass, vars, Reset, AddTimeTask, Cancel, PassNothing, PassBegin,
      ScanFuture, ScanExpired, CallCanceled, CallActive, Invoke, CallbackTrue, CallbackFalse,
      PollWakeUp, PollTimeout, PollOther, RunInsertion, TaskThrows, EventsDone, Tick, SetClock

LEMMA CreatedRange ==
  ASSUME TypeOK
  PROVE  created \in Nat /\ 1 .. created \subseteq TaskId
<1>1. created \in Nat /\ MaxTasks \in Nat /\ created <= MaxTasks
  BY TimersAssumption DEF TypeOK, TimersAssumption
<1>2. \A k \in 1 .. created : k \in 1 .. MaxTasks
  BY <1>1
<1> QED
  BY <1>1, <1>2 DEF TaskId

LEMMA PlacesKept ==
  ASSUME TypeOK, PhaseInv, OneAdded, Sorted(time_after_tasks), DistinctInv, PlacesInv,
         OwnerInv, [Next]_vars
  PROVE  PlacesInv'
<1>0. \A k \in TaskId : canceled[k] => canceled'[k]
  BY CanceledStays
<1>a. created \in Nat /\ 1 .. created \subseteq TaskId
  BY CreatedRange
<1> USE DEF PlacesInv, Placed
<1>1. CASE Stands
  <2>1. UNCHANGED <<created, ended, Timed, Queued, Adding, Running>>
    BY <1>1, StandsMoves
  <2>2. fired' \subseteq 1 .. created
    <3>1. CASE Invoke
      <4>1. fired' = fired \cup {task} /\ task \in Running
        BY <3>1 DEF Invoke, Running
      <4> QED
        BY <4>1
    <3>2. CASE ~Invoke
      <4>1. fired' = fired
        BY <1>1, <3>2 DEF Stands, vars, history, Cancel, PassNothing, PassBegin, ScanFuture,
                          CallActive, PollWakeUp, PollTimeout, PollOther, EventsDone, Tick, SetClock
      <4> QED
        BY <4>1
    <3> QED
      BY <3>1, <3>2
  <2> QED
    BY <1>0, <1>a, <2>1, <2>2
<1>2. ASSUME NEW t \in Timers, NEW i \in Intervals, Reset(t, i)
      PROVE  PlacesInv'
  <2>1. /\ created' = created + 1 /\ Adding' = Adding \cup {created + 1}
        /\ UNCHANGED <<Timed, Queued, Running>>
    BY <1>2, ResetMoves
  <2>2. UNCHANGED <<ended, fired>>
    BY <1>2 DEF Reset
  <2>3. 1 .. created' = 1 .. created \cup {created + 1} /\ created + 1 \notin 1 .. created
    BY <1>a, <2>1
  <2> QED
    BY <1>0, <1>a, <2>1, <2>2, <2>3
<1>3. ASSUME NEW t \in Timers, AddTimeTask(t)
      PROVE  PlacesInv'
  <2>1. PICK e \in Entry : /\ e.task \in Adding /\ Queued' = Queued \cup {e.task}
                           /\ Adding' = Adding \ {e.task} /\ UNCHANGED <<Timed, Running>>
    BY <1>3, AddMoves
  <2>2. UNCHANGED <<created, ended, fired, canceled>>
    BY <1>3 DEF AddTimeTask, object, history
  <2> QED
    BY <2>1, <2>2
<1>4. CASE ScanExpired
  <2>1. /\ task' \in Timed /\ Timed' = Timed \ {task'}
        /\ Running = {} /\ Running' = {task'} /\ UNCHANGED <<Queued, Adding>>
    BY <1>4, ExpiredMoves
  <2>2. UNCHANGED <<created, ended, fired, canceled>>
    BY <1>4 DEF ScanExpired, object, history
  <2> QED
    BY <2>1, <2>2
<1>5. CASE CallCanceled
  <2>1. /\ Running = {task} /\ Running' = {} /\ UNCHANGED <<Timed, Queued, Adding>>
    BY <1>5, IterateMoves DEF CallCanceled, Timed, TypeOK
  <2>2. UNCHANGED <<created, ended, fired, canceled>> /\ canceled[task]
    BY <1>5 DEF CallCanceled, object, history
  <2> QED
    BY <2>1, <2>2
<1>6. CASE CallbackTrue
  <2>1. /\ Running = {task} /\ Running' = {} /\ Timed' = Timed \cup {task}
        /\ UNCHANGED <<Queued, Adding>>
    BY <1>6, TrueMoves
  <2>2. UNCHANGED <<created, ended, fired, canceled>>
    BY <1>6 DEF CallbackTrue, object, history
  <2> QED
    BY <2>1, <2>2
<1>7. CASE CallbackFalse
  <2>1. /\ Running = {task} /\ Running' = {} /\ UNCHANGED <<Timed, Queued, Adding>>
    BY <1>7, IterateMoves DEF CallbackFalse, Timed, TypeOK
  <2>2. UNCHANGED <<created, fired, canceled>> /\ ended' = ended \cup {task}
    BY <1>7 DEF CallbackFalse, object
  <2> QED
    BY <2>1, <2>2
<1>8. CASE RunInsertion
  <2>1. /\ Head(queue).task \in Queued /\ Queued' = Queued \ {Head(queue).task}
        /\ Timed' = Timed \cup {Head(queue).task} /\ UNCHANGED <<Adding, Running>>
    BY <1>8, InsertionMoves
  <2>2. UNCHANGED <<created, ended, fired, canceled>>
    BY <1>8 DEF RunInsertion, object, history
  <2> QED
    BY <2>1, <2>2
<1>9. CASE TaskThrows
  <2>1. PICK dropped \in SUBSET Queued :
          /\ ended' = ended \cup dropped /\ Queued' = Queued \ dropped
          /\ UNCHANGED <<Timed, Adding, Running>>
    BY <1>9, ThrowMoves
  <2>2. UNCHANGED <<created, fired, canceled>>
    BY <1>9 DEF TaskThrows, object
  <2> QED
    BY <2>1, <2>2
<1> QED
  BY <1>1, <1>2, <1>3, <1>4, <1>5, <1>6, <1>7, <1>8, <1>9, StepMoves

LEMMA OwnerKept ==
  ASSUME TypeOK, PhaseInv, OneAdded, Sorted(time_after_tasks), DistinctInv, PlacesInv,
         OwnerInv, [Next]_vars
  PROVE  OwnerInv'
<1>0. created \in Nat /\ 1 .. created \subseteq TaskId /\ None \notin TaskId
  BY CreatedRange, TimersAssumption DEF TimersAssumption
<1>a. Placed \subseteq 1 .. created
  BY DEF PlacesInv
<1>1. ASSUME NEW t \in Timers, NEW i \in Intervals, Reset(t, i)
      PROVE  OwnerInv'
  <2> DEFINE k == created + 1
  <2>1. /\ k \in TaskId /\ created' = k /\ TasksOf(adding'[t]) = {k}
        /\ \A u \in Timers : u # t => adding'[u] = adding[u]
        /\ Placed' = Placed \cup {k}
    BY <1>1, ResetMoves DEF Placed
  <2>2. /\ canceled' = Cancelled(t)
        /\ owner' = [owner EXCEPT ![k] = t] /\ weak_call' = [weak_call EXCEPT ![t] = k]
    BY <1>1 DEF Reset
  <2>3. k \notin 1 .. created /\ \A j \in 1 .. created' : j \in 1 .. created \/ j = k
    BY <1>0, <2>1
  <2>4. /\ owner'[k] = t /\ \A j \in 1 .. created : owner'[j] = owner[j]
        /\ weak_call'[t] = k /\ \A u \in Timers : u # t => weak_call'[u] = weak_call[u]
    BY <1>0, <2>1, <2>2, <2>3 DEF TypeOK
  <2> HIDE DEF k
  <2>5. \A j \in 1 .. created' : owner'[j] \in Timers
    BY <2>3, <2>4 DEF OwnerInv
  <2>6. ASSUME NEW u \in Timers, weak_call'[u] # None
        PROVE  weak_call'[u] \in 1 .. created' /\ owner'[weak_call'[u]] = u
    <3>1. CASE u = t
      <4>1. k \in 1 .. created'
        BY <1>0, <2>1 DEF k
      <4> QED
        BY <2>4, <3>1, <4>1
    <3>2. CASE u # t
      <4>1. weak_call[u] \in 1 .. created /\ owner[weak_call[u]] = u
        BY <2>4, <2>6, <3>2 DEF OwnerInv
      <4>2. \A j \in 1 .. created : j \in 1 .. created'
        BY <1>0, <2>1 DEF k
      <4> QED
        BY <2>4, <3>2, <4>1, <4>2
    <3> QED
      BY <3>1, <3>2
  <2>7. ASSUME NEW j \in Placed'
        PROVE  canceled'[j] \/ weak_call'[owner'[j]] = j
    <3>1. CASE j = k
      BY <2>4, <3>1
    <3>2. CASE j # k
      <4>1. j \in Placed /\ j \in 1 .. created /\ j \in TaskId
        BY <1>0, <1>a, <2>1, <3>2
      <4>2. canceled[j] \/ weak_call[owner[j]] = j
        BY <4>1 DEF OwnerInv
      <4>3. canceled[j] \/ (weak_call[t] = j) => canceled'[j]
        BY <2>2, <4>1, CancelReaches
      <4>4. owner'[j] = owner[j] /\ owner[j] \in Timers
        BY <2>4, <4>1 DEF OwnerInv
      <4> QED
        BY <2>4, <4>2, <4>3, <4>4
    <3> QED
      BY <3>1, <3>2
  <2>8. ASSUME NEW u \in Timers, NEW j \in TasksOf(adding'[u])
        PROVE  owner'[j] = u
    <3>1. CASE u = t
      BY <2>1, <2>4, <3>1
    <3>2. CASE u # t
      <4>1. j \in TasksOf(adding[u])
        BY <2>1, <3>2
      <4>2. j \in 1 .. created
        BY <1>a, <4>1 DEF Placed, Adding
      <4> QED
        BY <2>4, <4>1, <4>2 DEF OwnerInv
    <3> QED
      BY <3>1, <3>2
  <2> QED
    BY <2>5, <2>6, <2>7, <2>8 DEF OwnerInv
<1>2. ASSUME NEW t \in Timers, Cancel(t)
      PROVE  OwnerInv'
  <2>1. /\ canceled' = Cancelled(t) /\ weak_call' = [weak_call EXCEPT ![t] = None]
        /\ UNCHANGED <<owner, created, adding>>
    BY <1>2 DEF Cancel
  <2>2. Placed' = Placed
    BY <1>2, StandsMoves DEF Stands, Placed
  <2>3. weak_call'[t] = None /\ \A u \in Timers : u # t => weak_call'[u] = weak_call[u]
    BY <2>1 DEF TypeOK
  <2>4. ASSUME NEW j \in Placed
        PROVE  canceled'[j] \/ weak_call'[owner[j]] = j
    <3>1. j \in 1 .. created /\ j \in TaskId
      BY <1>0, <1>a
    <3>2. canceled[j] \/ weak_call[owner[j]] = j
      BY DEF OwnerInv
    <3>3. canceled[j] \/ weak_call[t] = j => canceled'[j]
      BY <2>1, <3>1, CancelReaches
    <3>4. owner[j] \in Timers
      BY <3>1 DEF OwnerInv
    <3> QED
      BY <2>3, <3>2, <3>3, <3>4
  <2> QED
    BY <2>1, <2>2, <2>3, <2>4 DEF OwnerInv
<1>3. ASSUME UNCHANGED <<weak_call, owner, created>>, Placed' \subseteq Placed,
             \A u \in Timers : TasksOf(adding'[u]) \subseteq TasksOf(adding[u])
      PROVE  OwnerInv'
  <2>1. \A k \in TaskId : canceled[k] => canceled'[k]
    BY CanceledStays
  <2> QED
    BY <1>0, <1>3, <1>a, <2>1 DEF OwnerInv
<1>4. ASSUME NEW t \in Timers, AddTimeTask(t)
      PROVE  OwnerInv'
  <2>1. PICK e \in Entry : /\ e.task \in Adding /\ Queued' = Queued \cup {e.task}
                           /\ Adding' = Adding \ {e.task} /\ UNCHANGED <<Timed, Running>>
                           /\ adding'[t] = <<>> /\ \A u \in Timers : u # t => adding'[u] = adding[u]
    BY <1>4, AddMoves
  <2>2. Placed' \subseteq Placed
    BY <2>1 DEF Placed
  <2>3. \A u \in Timers : TasksOf(adding'[u]) \subseteq TasksOf(adding[u])
    BY <2>1, EmptyEntries
  <2> QED
    BY <1>3, <1>4, <2>2, <2>3 DEF AddTimeTask, object
<1>5. CASE ScanExpired
  <2>1. Placed' \subseteq Placed
    BY <1>5, ExpiredMoves DEF Placed
  <2> QED
    BY <1>3, <1>5, <2>1 DEF ScanExpired, object
<1>6. CASE CallCanceled \/ CallbackFalse
  <2>1. /\ Running' = {} /\ UNCHANGED <<Timed, Queued, Adding>>
    BY <1>6, IterateMoves DEF CallCanceled, CallbackFalse, Timed, TypeOK
  <2>2. Placed' \subseteq Placed
    BY <2>1 DEF Placed
  <2> QED
    BY <1>3, <1>6, <2>2 DEF CallCanceled, CallbackFalse, object
<1>7. CASE CallbackTrue
  <2>1. Placed' \subseteq Placed
    BY <1>7, TrueMoves DEF Placed
  <2> QED
    BY <1>3, <1>7, <2>1 DEF CallbackTrue, object
<1>8. CASE RunInsertion
  <2>1. Placed' \subseteq Placed
    BY <1>8, InsertionMoves DEF Placed
  <2> QED
    BY <1>3, <1>8, <2>1 DEF RunInsertion, object
<1>9. CASE TaskThrows
  <2>1. Placed' \subseteq Placed
    BY <1>9, ThrowMoves DEF Placed
  <2> QED
    BY <1>3, <1>9, <2>1 DEF TaskThrows, object
<1>10. CASE Stands /\ ~\E t \in Timers : Cancel(t)
  <2>1. UNCHANGED <<owner, created, adding, Placed>>
    BY <1>10, StandsMoves DEF Placed
  <2>2. weak_call' = weak_call
    BY <1>10 DEF Stands, vars, object, PassNothing, PassBegin, ScanFuture, CallActive, Invoke,
                 PollWakeUp, PollTimeout, PollOther, EventsDone, Tick, SetClock
  <2> QED
    BY <1>3, <2>1, <2>2
<1> QED
  BY <1>1, <1>2, <1>4, <1>5, <1>6, <1>7, <1>8, <1>9, <1>10, StepMoves

LEMMA LateKept ==
  ASSUME TypeOK, PhaseInv, PlacesInv, OwnerInv, LateInv, [Next]_vars
  PROVE  LateInv'
<1>0. created \in Nat /\ 1 .. created \subseteq TaskId /\ None \notin TaskId
  BY CreatedRange, TimersAssumption DEF TimersAssumption
<1>a. pc = "invoke" => task \in 1 .. created
  BY DEF PlacesInv, Placed, Running
<1>b. ASSUME NEW t \in Timers, MayCall(t), canceled' = Cancelled(t),
             UNCHANGED <<pc, task, late>>,
             \A k \in 1 .. created : owner'[k] = owner[k] /\ k \in 1 .. created'
      PROVE  LateInv'
  <2>1. ASSUME pc' = "invoke", canceled'[task'] PROVE owner'[task'] \notin LoopTimers
    <3>1. pc = "invoke" /\ task' = task /\ task \in 1 .. created /\ task \in TaskId
      BY <1>0, <1>a, <1>b, <2>1
    <3>2. canceled[task] \/ task = weak_call[t]
      BY <1>b, <2>1, <3>1, CancelReaches
    <3>3. CASE canceled[task]
      BY <1>b, <3>1, <3>3 DEF LateInv
    <3>4. CASE task = weak_call[t]
      <4>1. owner[task] = t
        BY <1>0, <3>1, <3>4 DEF OwnerInv
      <4>2. t \notin LoopTimers
        BY <1>b, <3>1 DEF MayCall
      <4> QED
        BY <1>b, <3>1, <4>1, <4>2
    <3> QED
      BY <3>2, <3>3, <3>4
  <2>2. \A k \in TaskId : canceled[k] => canceled'[k]
    BY CanceledStays
  <2> QED
    BY <1>b, <2>1, <2>2 DEF LateInv
<1>1. ASSUME NEW t \in Timers, NEW i \in Intervals, Reset(t, i)
      PROVE  LateInv'
  <2>1. \A k \in 1 .. created : owner'[k] = owner[k] /\ k \in 1 .. created'
    <3>1. created' = created + 1 /\ owner' = [owner EXCEPT ![created + 1] = t]
      BY <1>1 DEF Reset
    <3>2. \A k \in 1 .. created : k # created + 1 /\ k \in 1 .. created'
      BY <1>0, <3>1
    <3> QED
      BY <1>0, <3>1, <3>2 DEF TypeOK
  <2> QED
    BY <1>1, <1>b, <2>1 DEF Reset, loop, reading, clock
<1>2. ASSUME NEW t \in Timers, Cancel(t)
      PROVE  LateInv'
  BY <1>2, <1>b DEF Cancel, loop, reading, clock, history
<1>3. CASE CallActive
  <2>1. ~canceled[task] /\ task' = task
    BY <1>3 DEF CallActive
  <2> QED
    BY <1>3, <2>1 DEF CallActive, LateInv, object, history
<1>4. CASE Invoke
  <2>1. /\ pc = "invoke" /\ pc' = "callback" /\ UNCHANGED <<created, owner, canceled>>
        /\ late' = [late EXCEPT ![task] = IF canceled[task] THEN @ + 1 ELSE @]
    BY <1>4 DEF Invoke, object
  <2>2. task \in 1 .. created /\ task \in TaskId /\ late[task] = 0
    BY <1>0, <1>a, <2>1 DEF LateInv
  <2>3. late'[task] = IF canceled[task] THEN 1 ELSE 0
    BY <2>1, <2>2 DEF TypeOK
  <2>4. \A k \in TaskId : k # task => late'[k] = late[k]
    BY <2>1 DEF TypeOK
  <2> QED
    BY <2>1, <2>2, <2>3, <2>4 DEF LateInv
<1>5. ASSUME UNCHANGED <<late, canceled, created, owner>>, pc' # "invoke"
      PROVE  LateInv'
  BY <1>5 DEF LateInv
<1>6. ASSUME UNCHANGED <<late, canceled, created, owner, pc, task>>
      PROVE  LateInv'
  BY <1>6 DEF LateInv
<1>7. CASE \/ UNCHANGED vars \/ RunInsertion \/ TaskThrows \/ Tick \/ SetClock
           \/ \E t \in Timers : AddTimeTask(t)
  BY <1>6, <1>7 DEF vars, RunInsertion, TaskThrows, Tick, SetClock, AddTimeTask, loop, reading, clock, object, history
<1>8. CASE \/ PassNothing \/ PassBegin \/ ScanFuture \/ ScanExpired
           \/ PollWakeUp \/ PollTimeout \/ PollOther \/ EventsDone
  BY <1>5, <1>8 DEF PassNothing, PassBegin, ScanFuture, ScanExpired, PollWakeUp, PollTimeout,
                    PollOther, PollReturns, EventsDone, Poll, object, history
<1>9. CASE CallCanceled \/ CallbackTrue \/ CallbackFalse
  <2>1. pc' # "invoke"
    BY <1>9, IterateEnds DEF CallCanceled, CallbackTrue, CallbackFalse
  <2> QED
    BY <1>5, <1>9, <2>1 DEF CallCanceled, CallbackTrue, CallbackFalse, object, history
<1> QED
  BY <1>1, <1>2, <1>3, <1>4, <1>7, <1>8, <1>9 DEF Next, LoopStep, Pass

LEMMA DueTypes ==
  ASSUME TypeOK, PhaseInv
  PROVE  /\ now \in Nat /\ now_time \in Nat /\ MaxBusy \in Nat
         /\ read_shift \in Nat /\ pass_ms \in Nat
         /\ Reading \in Nat /\ Reading <= now
         /\ \A k \in TaskId : since[k] \in Nat /\ after_msec[k] \in Nat
         /\ \A e \in Entry : e.task \in TaskId /\ e.at \in Nat
         /\ \A u \in Shifts : u \in Nat
<1>1. \A k \in TaskId : since[k] \in Nat /\ after_msec[k] \in Intervals \cup {0}
  BY DEF TypeOK
<1>2. \A k \in TaskId : since[k] \in Nat /\ after_msec[k] \in Nat
  BY <1>1, AfterIsNat
<1>3. \A e \in Entry : e.task \in TaskId /\ e.at \in Nat
  BY DEF Entry
<1>4. Reading \in Nat /\ Reading <= now
  BY ClockTypes DEF Reading, PhaseInv, pass_ms
<1> QED
  BY <1>2, <1>3, <1>4, ClockTypes

(* The time a step compares the multimap with does not go back, however the *)
(* clock is set.                                                            *)
LEMMA ReadingGrows ==
  ASSUME TypeOK, PhaseInv, [Next]_vars
  PROVE  now <= now' /\ Reading <= Reading'
<1>0. /\ now \in Nat /\ now_time \in Nat /\ read_shift \in Nat /\ shift \in Nat
      /\ Reading \in Nat /\ Reading <= now
  BY DueTypes, ClockTypes
<1> USE DEF InPass, Calling, loop, reading, clock
<1>1. CASE now' = now /\ pc' = pc /\ now_time' = now_time /\ read_shift' = read_shift
  BY <1>0, <1>1 DEF Reading
<1>2. CASE Tick
  BY <1>0, <1>2 DEF Tick, Reading
<1>3. CASE PassBegin
  <2>1. Reading' = now /\ now' = now
    BY <1>0, <1>3 DEF PassBegin, Reading, now_ms
  <2> QED
    BY <1>0, <2>1
<1>4. CASE PassNothing \/ ScanFuture
  <2>1. Reading' = now /\ now' = now
    BY <1>0, <1>4 DEF PassNothing, ScanFuture, Poll, Reading
  <2> QED
    BY <1>0, <2>1
<1>5. CASE ScanExpired \/ CallActive \/ Invoke
  BY <1>0, <1>5 DEF ScanExpired, CallActive, Invoke, Reading
<1>6. CASE CallCanceled \/ CallbackTrue \/ CallbackFalse
  <2>1. now' = now /\ pc \in Calling /\ \E s : Iterate(s)
    BY <1>6 DEF CallCanceled, CallbackTrue, CallbackFalse
  <2>2. \/ pc' = "poll"
        \/ pc' = "scan" /\ now_time' = now_time /\ read_shift' = read_shift
    BY <2>1, IterateEnds
  <2> QED
    BY <1>0, <2>1, <2>2 DEF Reading
<1>7. CASE PollWakeUp \/ PollTimeout \/ PollOther \/ EventsDone
  <2>1. Reading' = now /\ now' = now
    BY <1>7 DEF PollWakeUp, PollTimeout, PollOther, PollReturns, EventsDone, Reading
  <2> QED
    BY <1>0, <2>1
<1>8. CASE SetClock
  BY <1>0, <1>8 DEF SetClock, Reading
<1> QED
  BY <1>1, <1>2, <1>3, <1>4, <1>5, <1>6, <1>7, <1>8
  DEF vars, Next, LoopStep, Pass, AddTimeTask, Cancel, Reset, RunInsertion, TaskThrows

(* What DueAt reads of a waiting task no step changes.                      *)
LEMMA WaitingStays ==
  ASSUME TypeOK, PhaseInv, PlacesInv, [Next]_vars
  PROVE  \A k \in Timed \cup Queued \cup Adding :
           /\ since'[k] = since[k] /\ after_msec'[k] = after_msec[k]
           /\ k \in fired' <=> k \in fired
<1>0. created \in Nat /\ 1 .. created \subseteq TaskId
  BY CreatedRange
<1>a. Timed \cup Queued \cup Adding \subseteq 1 .. created
  BY DEF PlacesInv, Placed
<1>1. ASSUME NEW t \in Timers, NEW i \in Intervals, Reset(t, i)
      PROVE  \A k \in 1 .. created :
               /\ since'[k] = since[k] /\ after_msec'[k] = after_msec[k]
               /\ k \in fired' <=> k \in fired
  <2>1. \A k \in 1 .. created : k # created + 1
    BY <1>0
  <2> QED
    BY <1>0, <1>1, <2>1 DEF Reset, TypeOK
<1>2. CASE Invoke
  <2>1. \A k \in Timed \cup Queued \cup Adding : k # task
    BY <1>2 DEF Invoke, PlacesInv, Running
  <2> QED
    BY <1>0, <1>2, <1>a, <2>1 DEF Invoke, TypeOK, object
<1>3. CASE UNCHANGED <<since, after_msec, fired>>
  BY <1>3
<1> QED
  BY <1>1, <1>2, <1>3, <1>a
  DEF vars, object, history, Next, LoopStep, Pass, AddTimeTask, Cancel, PassNothing, PassBegin,
      ScanFuture, ScanExpired, CallCanceled, CallActive, CallbackTrue, CallbackFalse,
      PollWakeUp, PollTimeout, PollOther, RunInsertion, TaskThrows, EventsDone, Tick, SetClock

(* So what is due of an entry stays as the time goes on.                    *)
LEMMA DueStays ==
  ASSUME NEW e \in Entry, NEW time \in Nat, NEW later \in Nat, TypeOK, TypeOK', PhaseInv,
         DueAt(e, time), time <= later,
         since'[e.task] = since[e.task], after_msec'[e.task] = after_msec[e.task],
         e.task \in fired' <=> e.task \in fired
  PROVE  /\ since'[e.task] + after_msec'[e.task] - (IF e.task \in fired' THEN MaxBusy ELSE 0) <= e.at
         /\ \E u \in Shifts : e.at <= later + u + after_msec'[e.task]
<1>1. /\ since[e.task] \in Nat /\ after_msec[e.task] \in Nat /\ MaxBusy \in Nat
      /\ e.at \in Nat /\ \A u \in Shifts : u \in Nat
  BY DueTypes
<1>2. PICK u \in Shifts : e.at <= time + u + after_msec[e.task]
  BY DEF DueAt
<1>3. e.at <= later + u + after_msec'[e.task]
  BY <1>1, <1>2
<1> QED
  BY <1>1, <1>3 DEF DueAt, Slack

(* An entry of the multimap was there, was queued or is put back.           *)
LEMMA TimedDueKept ==
  ASSUME TypeOK, TypeOK', PhaseInv, Sorted(time_after_tasks), DistinctInv, PlacesInv,
         DueInv, [Next]_vars, NEW e \in Range(time_after_tasks')
  PROVE  DueAt(e, Reading)'
<1>0. /\ now \in Nat /\ now_time \in Nat /\ MaxBusy \in Nat /\ Reading \in Nat /\ Reading' \in Nat
      /\ Reading <= Reading'
  <2>1. Reading \in Nat /\ now \in Nat /\ now_time \in Nat /\ MaxBusy \in Nat
    BY DueTypes
  <2>2. Reading' \in Nat
    <3>1. PhaseInv' /\ read_shift' \in Shifts
      BY PhaseKept DEF TypeOK
    <3>2. now' \in Nat /\ now_time' \in Nat /\ read_shift' \in Nat
      BY <3>1, ClockTypes DEF TypeOK
    <3>3. CASE (pc \in InPass)'
      <4>1. Reading' = now_time' - read_shift'
        BY <3>3 DEF Reading
      <4>2. read_shift' <= now_time'
        BY <3>1, <3>3 DEF PhaseInv
      <4>3. \A x, y \in Nat : y <= x => x - y \in Nat
        OBVIOUS
      <4>4. now_time' - read_shift' \in Nat
        BY <3>2, <4>2, <4>3
      <4> QED
        BY <4>1, <4>4, Zenon
    <3>4. CASE ~(pc \in InPass)'
      <4>1. Reading' = now'
        BY <3>4 DEF Reading
      <4> QED
        BY <3>2, <4>1
    <3> QED
      BY <3>3, <3>4
  <2> QED
    BY <2>1, <2>2, ReadingGrows
<1>1. CASE e \in Range(time_after_tasks)
  <2>1. e \in Entry /\ e.task \in Timed /\ DueAt(e, Reading)
    BY <1>1, EntryIndex DEF TypeOK, DueInv, Timed, TasksOf
  <2>2. /\ since'[e.task] = since[e.task] /\ after_msec'[e.task] = after_msec[e.task]
        /\ e.task \in fired' <=> e.task \in fired
    BY <2>1, WaitingStays
  <2> QED
    BY <1>0, <2>1, <2>2, DueStays DEF DueAt, Slack
<1>2. CASE RunInsertion
  <2>1. /\ Head(queue) \in Entry /\ Head(queue) \in Range(queue) /\ Head(queue).task \in Queued
        /\ Range(time_after_tasks') = Range(time_after_tasks) \cup {Head(queue)}
    BY <1>2, InsertionMoves
  <2>2. CASE e = Head(queue)
    <3>1. e \in Entry /\ e.task \in Queued /\ DueAt(e, now)
      BY <2>1, <2>2 DEF DueInv
    <3>2. /\ since'[e.task] = since[e.task] /\ after_msec'[e.task] = after_msec[e.task]
          /\ e.task \in fired' <=> e.task \in fired
      BY <3>1, WaitingStays
    <3>3. Reading' = now
      BY <1>2 DEF RunInsertion, loop, reading, clock, Reading, InPass, Calling
    <3> QED
      BY <1>0, <3>1, <3>2, <3>3, DueStays DEF DueAt, Slack
  <2> QED
    BY <1>1, <2>1, <2>2
<1>3. CASE CallbackTrue
  <2> DEFINE n == [at |-> NextDeadline(task), task |-> task]
  <2>1. /\ n \in Entry /\ time_after_tasks' = Emplace(time_after_tasks, n)
        /\ Range(time_after_tasks') = Range(time_after_tasks) \cup {n}
    BY <1>3, TrueMoves
  <2>2. CASE e = n
    <3>1. /\ task \in TaskId /\ e.task = task /\ e.at = now_time + after_msec[task]
          /\ since[task] \in Nat /\ after_msec[task] \in Nat
      BY <1>3, <2>2, NextEntry, DueTypes DEF CallbackTrue, NextDeadline
    <3>2. /\ since[task] - now_time <= MaxBusy /\ task \in fired
          /\ read_shift \in Shifts /\ read_shift \in Nat
      BY <1>3, ClockTypes DEF CallbackTrue, DueInv, TypeOK
    <3>3. UNCHANGED <<since, after_msec, fired>>
      BY <1>3 DEF CallbackTrue, object, history
    <3>4. Reading = now_time - read_shift
      BY <1>3 DEF CallbackTrue, Reading, InPass, Calling
    <3>5. e.at <= Reading' + read_shift + after_msec[task]
      BY <1>0, <3>1, <3>2, <3>4
    <3>6. since[task] + after_msec[task] - MaxBusy <= e.at
      BY <1>0, <3>1, <3>2
    <3> QED
      BY <3>1, <3>2, <3>3, <3>5, <3>6 DEF DueAt, Slack
  <2> QED
    BY <1>1, <2>1, <2>2
<1>4. CASE ScanExpired
  BY <1>1, <1>4, ExpiredMoves
<1>5. CASE CallCanceled \/ CallbackFalse \/ TaskThrows
  BY <1>1, <1>5, IterateEnds DEF CallCanceled, CallbackFalse, TaskThrows
<1>6. CASE \E t \in Timers : AddTimeTask(t) \/ \E i \in Intervals : Reset(t, i)
  BY <1>1, <1>6 DEF AddTimeTask, Reset
<1> QED
  BY <1>1, <1>2, <1>3, <1>4, <1>5, <1>6, StepMoves, StandsMoves

(* A queued insertion was queued or was its timer's.                        *)
LEMMA QueuedDueKept ==
  ASSUME TypeOK, TypeOK', PhaseInv, OneAdded, DistinctInv, PlacesInv, OwnerInv,
         Sorted(time_after_tasks), DueInv, [Next]_vars, NEW e \in Range(queue')
  PROVE  DueAt(e, now)'
<1>0. now \in Nat /\ now' \in Nat /\ now <= now'
  BY DueTypes, ReadingGrows DEF TypeOK
<1>1. ASSUME e \in Entry, e.task \in Queued \cup Adding, DueAt(e, now)
      PROVE  DueAt(e, now)'
  <2>1. /\ since'[e.task] = since[e.task] /\ after_msec'[e.task] = after_msec[e.task]
        /\ e.task \in fired' <=> e.task \in fired
    BY <1>1, WaitingStays
  <2> QED
    BY <1>0, <1>1, <2>1, DueStays DEF DueAt, Slack
<1>2. CASE e \in Range(queue)
  <2>1. e \in Entry /\ e.task \in Queued /\ DueAt(e, now)
    BY <1>2, EntryIndex DEF TypeOK, DueInv, Queued, TasksOf
  <2> QED
    BY <1>1, <2>1
<1>3. ASSUME NEW t \in Timers, AddTimeTask(t)
      PROVE  DueAt(e, now)'
  <2>1. PICK n \in Entry : /\ Range(adding[t]) = {n} /\ n.task \in Adding
                           /\ queue' = queue \o <<n>>
    BY <1>3, AddMoves
  <2>2. Range(queue') = Range(queue) \cup {n}
    BY <2>1, ConcatEntries DEF TypeOK
  <2>3. DueAt(n, now)
    BY <2>1 DEF DueInv
  <2> QED
    BY <1>1, <1>2, <2>1, <2>2, <2>3
<1>4. CASE RunInsertion
  BY <1>2, <1>4, InsertionMoves
<1>5. CASE TaskThrows
  BY <1>2, <1>5, ThrowMoves
<1>6. CASE UNCHANGED queue
  BY <1>2, <1>6
<1>7. CASE \/ ScanExpired \/ CallCanceled \/ CallbackTrue \/ CallbackFalse
           \/ \E t \in Timers, i \in Intervals : Reset(t, i)
  BY <1>6, <1>7 DEF ScanExpired, CallCanceled, CallbackTrue, CallbackFalse, Reset
<1> QED
  BY <1>3, <1>4, <1>5, <1>6, <1>7, StepMoves, StandsMoves

(* What a timer is about to queue is due at its interval from reset.        *)
LEMMA AddingDueKept ==
  ASSUME TypeOK, TypeOK', PhaseInv, OneAdded, DistinctInv, PlacesInv, OwnerInv,
         DueInv, [Next]_vars, NEW u \in Timers, NEW e \in Range(adding'[u])
  PROVE  DueAt(e, now)'
<1>0. now \in Nat /\ now' \in Nat /\ now <= now' /\ MaxBusy \in Nat
  <2>1. now \in Nat /\ MaxBusy \in Nat
    BY DueTypes
  <2>2. now' \in Nat
    BY DEF TypeOK
  <2> QED
    BY <2>1, <2>2, ReadingGrows
<1>1. CASE e \in Range(adding[u])
  <2>0. adding[u] \in Seq(Entry)
    BY DEF TypeOK
  <2>1. e \in Entry /\ e.task \in TasksOf(adding[u]) /\ DueAt(e, now)
    BY <1>1, <2>0, EntryIndex DEF DueInv, TasksOf
  <2>3. e.task \in Adding
    BY <2>1 DEF Adding
  <2>2. /\ since'[e.task] = since[e.task] /\ after_msec'[e.task] = after_msec[e.task]
        /\ e.task \in fired' <=> e.task \in fired
    BY <2>3, WaitingStays
  <2> QED
    BY <1>0, <2>1, <2>2, DueStays DEF DueAt, Slack
<1>2. ASSUME NEW t \in Timers, NEW i \in Intervals, Reset(t, i)
      PROVE  DueAt(e, now)'
  <2>1. /\ created + 1 \in TaskId /\ Range(adding'[t]) = {[at |-> now_ms + i, task |-> created + 1]}
        /\ \A v \in Timers : v # t => adding'[v] = adding[v]
    BY <1>2, ResetMoves
  <2>2. CASE u = t
    <3>1. e.at = now + shift + i /\ e.task = created + 1
      BY <2>1, <2>2 DEF now_ms
    <3>2. /\ now' = now /\ since'[created + 1] = now + shift /\ after_msec'[created + 1] = i
      BY <1>2, <2>1 DEF Reset, TypeOK, now_ms, clock
    <3>3. i \in Nat /\ shift \in Nat /\ shift \in Shifts
      BY AfterIsNat, ClockTypes DEF TypeOK
    <3>4. now + shift + i - (IF created + 1 \in fired' THEN MaxBusy ELSE 0) <= now + shift + i
      BY <1>0, <3>3
    <3>5. \E v \in Shifts : now + shift + i <= now + v + i
      BY <1>0, <3>3
    <3> QED
      BY <3>1, <3>2, <3>4, <3>5 DEF DueAt, Slack
  <2>3. CASE u # t
    BY <1>1, <2>1, <2>3
  <2> QED
    BY <2>2, <2>3
<1>3. ASSUME NEW t \in Timers, AddTimeTask(t)
      PROVE  DueAt(e, now)'
  <2>1. adding'[t] = <<>> /\ \A v \in Timers : v # t => adding'[v] = adding[v]
    BY <1>3, AddMoves
  <2>2. u # t
    BY <2>1, EmptyEntries
  <2> QED
    BY <1>1, <2>1, <2>2
<1>4. CASE UNCHANGED adding
  BY <1>1, <1>4
<1>5. CASE \/ ScanExpired \/ CallCanceled \/ CallbackTrue \/ CallbackFalse
           \/ RunInsertion \/ TaskThrows
  BY <1>4, <1>5 DEF ScanExpired, CallCanceled, CallbackTrue, CallbackFalse, RunInsertion,
                    TaskThrows
<1> QED
  BY <1>2, <1>3, <1>4, <1>5, StepMoves, StandsMoves

(* What the pass knows of the running task.                                 *)
RunningDue ==
  /\ pc \in {"call", "invoke"} => since[task] + after_msec[task] - Slack(task) <= now_time
  /\ pc = "callback" => since[task] - now_time <= MaxBusy /\ task \in fired

LEMMA RunningDueKept ==
  ASSUME TypeOK, TypeOK', PhaseInv, DistinctInv, PlacesInv, DueInv, [Next]_vars
  PROVE  RunningDue'
<1>0. /\ now \in Nat /\ now_time \in Nat /\ pass_ms \in Nat /\ MaxBusy \in Nat
      /\ created \in Nat /\ 1 .. created \subseteq TaskId
      /\ \A k \in TaskId : since[k] \in Nat /\ after_msec[k] \in Nat
      /\ \A e \in Entry : e.task \in TaskId /\ e.at \in Nat
  BY DueTypes, CreatedRange
<1>1. CASE ScanExpired
  <2> DEFINE e == Head(time_after_tasks)
  <2>1. /\ e \in Range(time_after_tasks) /\ e \in Entry
    BY <1>1, TailEntries DEF ScanExpired, PhaseInv, TypeOK
  <2>2. /\ pc = "scan" /\ pc' = "call" /\ task' = e.task /\ e.at <= now_time
        /\ UNCHANGED <<now_time, since, after_msec, fired>>
    BY <1>1 DEF ScanExpired, reading, object, history
  <2>3. since[e.task] + after_msec[e.task] - Slack(e.task) <= e.at
    BY <2>1 DEF DueInv, DueAt
  <2>4. e.task \in TaskId /\ e.at \in Nat
    BY <1>0, <2>1
  <2> HIDE DEF e
  <2> QED
    BY <1>0, <2>2, <2>3, <2>4 DEF RunningDue, Slack
<1>2. CASE CallActive
  BY <1>2 DEF CallActive, reading, DueInv, RunningDue, Slack, object, history
<1>3. CASE Invoke
  <2>1. /\ pc' = "callback" /\ task' = task /\ now_time' = now_time
        /\ since' = [since EXCEPT ![task] = pass_ms] /\ task \in fired'
    BY <1>3 DEF Invoke, reading
  <2>2. task \in TaskId
    BY <1>3 DEF Invoke, PhaseInv, Calling, TypeOK
  <2>3. since'[task] = pass_ms
    BY <2>1, <2>2 DEF TypeOK
  <2>4. pass_ms - now_time <= MaxBusy
    BY <1>3 DEF Invoke, PhaseInv, InPass, Calling
  <2> QED
    BY <1>0, <2>1, <2>3, <2>4 DEF RunningDue
<1>4. ASSUME NEW t \in Timers, NEW i \in Intervals, Reset(t, i)
      PROVE  RunningDue'
  <2>1. UNCHANGED <<pc, task, now_time, fired>>
    BY <1>4 DEF Reset, loop, reading, clock
  <2>2. pc \in Calling => task \in 1 .. created
    BY DEF PlacesInv, Placed, Running, Calling
  <2>3. \A k \in 1 .. created : since'[k] = since[k] /\ after_msec'[k] = after_msec[k]
    <3>1. \A k \in 1 .. created : k # created + 1
      BY <1>0
    <3> QED
      BY <1>0, <1>4, <3>1 DEF Reset, TypeOK
  <2> QED
    BY <2>1, <2>2, <2>3 DEF DueInv, RunningDue, Slack, Calling
<1>5. CASE \/ UNCHANGED vars \/ RunInsertion \/ TaskThrows \/ Tick \/ SetClock
           \/ \E t \in Timers : AddTimeTask(t) \/ Cancel(t)
  BY <1>5 DEF vars, RunInsertion, TaskThrows, Tick, SetClock, AddTimeTask, Cancel, loop, reading, clock, object, history,
              DueInv, RunningDue, Slack
<1>6. CASE \/ PassNothing \/ PassBegin \/ ScanFuture \/ PollWakeUp \/ PollTimeout \/ PollOther
           \/ EventsDone
  BY <1>6 DEF PassNothing, PassBegin, ScanFuture, PollWakeUp, PollTimeout, PollOther,
              PollReturns, EventsDone, Poll, RunningDue
<1>7. CASE CallCanceled \/ CallbackTrue \/ CallbackFalse
  <2>1. pc' \in {"poll", "scan"}
    BY <1>7, IterateEnds DEF CallCanceled, CallbackTrue, CallbackFalse
  <2> QED
    BY <2>1 DEF RunningDue
<1> QED
  BY <1>1, <1>2, <1>3, <1>4, <1>5, <1>6, <1>7 DEF Next, LoopStep, Pass

LEMMA DueKept ==
  ASSUME TypeOK, TypeOK', PhaseInv, OneAdded, Sorted(time_after_tasks), DistinctInv,
         PlacesInv, OwnerInv, DueInv, [Next]_vars
  PROVE  DueInv'
<1>1. \A e \in Range(time_after_tasks') : DueAt(e, Reading)'
  BY TimedDueKept
<1>2. \A e \in Range(queue') : DueAt(e, now)'
  BY QueuedDueKept
<1>3. \A t \in Timers : \A e \in Range(adding'[t]) : DueAt(e, now)'
  BY AddingDueKept
<1> QED
  BY <1>1, <1>2, <1>3, RunningDueKept DEF DueInv, RunningDue, DueAt, Slack

-----------------------------------------------------------------------------
(* The invariant, and what it gives. *)

LEMMA InvInit ==
  ASSUME Init
  PROVE  TimersInv
<1>1. TypeOK
  <2>1. /\ MaxTime \in Nat /\ MaxTasks \in Nat /\ 0 \in Shifts
    BY TimersAssumption DEF TimersAssumption
  <2> QED
    BY <2>1, EmptyEntries DEF Init, TypeOK, Phase
<1>2. /\ Timed = {} /\ Queued = {} /\ Adding = {} /\ Running = {} /\ Placed = {}
  BY EmptyEntries DEF Init, Timed, Queued, Adding, Running, Placed
<1>3. PhaseInv
  BY TimersAssumption DEF Init, PhaseInv, Calling, InPass, TimersAssumption
<1>4. OneAdded /\ Sorted(time_after_tasks) /\ DistinctInv
  BY EmptyEntries DEF Init, OneAdded, DistinctInv
<1>5. PlacesInv
  BY <1>2 DEF Init, PlacesInv
<1>6. OwnerInv /\ LateInv
  BY <1>2, EmptyEntries DEF Init, OwnerInv, LateInv
<1>7. DueInv
  BY EmptyEntries DEF Init, DueInv
<1> QED
  BY <1>1, <1>3, <1>4, <1>5, <1>6, <1>7 DEF TimersInv

LEMMA InvKept ==
  ASSUME TimersInv, [Next]_vars
  PROVE  TimersInv'
<1> USE DEF TimersInv
<1>1. TypeOK'
  BY TypeKept
<1>2. PhaseInv' /\ OneAdded'
  BY PhaseKept, OneAddedKept
<1>3. Sorted(time_after_tasks') /\ DistinctInv'
  BY SortedKept, DistinctKept
<1>4. PlacesInv' /\ OwnerInv' /\ LateInv'
  BY PlacesKept, OwnerKept, LateKept
<1>5. DueInv'
  BY <1>1, DueKept
<1> QED
  BY <1>1, <1>2, <1>3, <1>4, <1>5

LEMMA TimersInvariant == Spec => []TimersInv
<1>1. Init => TimersInv
  BY InvInit
<1>2. TimersInv /\ [Next]_vars => TimersInv'
  BY InvKept
<1> QED
  BY <1>1, <1>2, PTL DEF Spec

(* The members of the timers and of the loop keep their types.              *)
THEOREM TimersTypes == Spec => []TypeOK
<1>1. TimersInv => TypeOK
  BY DEF TimersInv
<1> QED
  BY TimersInvariant, <1>1, PTL

(* The entries of a task, counted.                                          *)
LEMMA CountEntries ==
  ASSUME NEW s \in Seq(Entry), Distinct(s), NEW k
  PROVE  Cardinality({i \in DOMAIN s : s[i].task = k}) = IF k \in TasksOf(s) THEN 1 ELSE 0
<1> DEFINE at == {i \in DOMAIN s : s[i].task = k}
<1>1. \A i : i \in at <=> i \in 1 .. Len(s) /\ s[i].task = k
  OBVIOUS
<1> HIDE DEF at
<1>2. CASE k \in TasksOf(s)
  <2>1. PICK i \in 1 .. Len(s) : s[i].task = k
    BY <1>2, EntryIndex
  <2>2. at = {i}
    BY <1>1, <2>1 DEF Distinct
  <2>3. Cardinality(at) = 1
    BY <2>2, FS_Singleton
  <2> QED
    BY <1>2, <2>3 DEF at
<1>3. CASE k \notin TasksOf(s)
  <2>1. at = {}
    BY <1>1, <1>3, EntryIndex
  <2>2. Cardinality(at) = 0
    BY <2>1, FS_EmptySet
  <2> QED
    BY <1>3, <2>2 DEF at
<1> QED
  BY <1>2, <1>3

LEMMA CountPlaces ==
  ASSUME TimersInv, NEW k \in 1 .. created
  PROVE  Places(k) = IF k \in Placed THEN 1 ELSE 0
<1> USE DEF TimersInv
<1> DEFINE adders == {t \in Timers : {i \in DOMAIN adding[t] : adding[t][i].task = k} # {}}
<1>1. Cardinality({i \in DOMAIN time_after_tasks : time_after_tasks[i].task = k})
        = IF k \in Timed THEN 1 ELSE 0
  BY CountEntries DEF Timed, TypeOK, DistinctInv
<1>2. Cardinality({i \in DOMAIN queue : queue[i].task = k}) = IF k \in Queued THEN 1 ELSE 0
  BY CountEntries DEF Queued, TypeOK, DistinctInv
<1>3. Cardinality(adders) = IF k \in Adding THEN 1 ELSE 0
  <2>1. ASSUME NEW t \in Timers PROVE t \in adders <=> k \in TasksOf(adding[t])
    <3>1. adding[t] \in Seq(Entry)
      BY DEF TypeOK
    <3>2. DOMAIN adding[t] = 1 .. Len(adding[t])
      BY <3>1
    <3> QED
      BY <3>1, <3>2, EntryIndex
  <2>2. adders \subseteq Timers
    OBVIOUS
  <2> HIDE DEF adders
  <2>3. CASE k \in Adding
    <3>1. adders = {owner[k]}
      BY <2>1, <2>2, <2>3 DEF Adding, OwnerInv
    <3> QED
      BY <2>3, <3>1, FS_Singleton
  <2>4. CASE k \notin Adding
    <3>1. adders = {}
      BY <2>1, <2>2, <2>4 DEF Adding
    <3> QED
      BY <2>4, <3>1, FS_EmptySet
  <2> QED
    BY <2>3, <2>4
<1>4. Cardinality(Running \cap {k}) = IF k \in Running THEN 1 ELSE 0
  <2>1. CASE k \in Running
    <3>1. Running \cap {k} = {k}
      BY <2>1
    <3> QED
      BY <2>1, <3>1, FS_Singleton
  <2>2. CASE k \notin Running
    <3>1. Running \cap {k} = {}
      BY <2>2
    <3> QED
      BY <2>2, <3>1, FS_EmptySet
  <2> QED
    BY <2>1, <2>2
<1>5. Places(k) = Cardinality({i \in DOMAIN time_after_tasks : time_after_tasks[i].task = k})
                  + Cardinality({i \in DOMAIN queue : queue[i].task = k})
                  + Cardinality(adders) + Cardinality(Running \cap {k})
  BY DEF Places
<1> HIDE DEF adders
<1>6. /\ k \in Timed => k \notin Queued /\ k \notin Adding /\ k \notin Running
      /\ k \in Queued => k \notin Timed /\ k \notin Adding /\ k \notin Running
      /\ k \in Adding => k \notin Timed /\ k \notin Queued /\ k \notin Running
      /\ k \in Running => k \notin Timed /\ k \notin Queued /\ k \notin Adding
  BY DEF PlacesInv
<1>7. k \in Placed <=> k \in Timed \/ k \in Queued \/ k \in Adding \/ k \in Running
  BY DEF Placed
<1> QED
  BY <1>1, <1>2, <1>3, <1>4, <1>5, <1>6, <1>7

(* No task is lost or doubled on its way from reset through the queue and   *)
(* the multimap to the pass and back.                                       *)
THEOREM NoTaskLostOrDoubled == Spec => []TaskInOnePlace
<1>1. TimersInv => TaskInOnePlace
  <2> SUFFICES ASSUME TimersInv, NEW k \in 1 .. created
               PROVE  /\ Places(k) <= IF k \in ended THEN 0 ELSE 1
                      /\ k \notin ended /\ ~canceled[k] => Places(k) = 1
    BY DEF TaskInOnePlace
  <2>1. Places(k) = IF k \in Placed THEN 1 ELSE 0
    BY CountPlaces
  <2>2. k \in Placed => k \notin ended
    BY DEF TimersInv, PlacesInv
  <2>3. k \in Placed \/ k \in ended \/ canceled[k]
    BY DEF TimersInv, PlacesInv
  <2> QED
    BY <2>1, <2>2, <2>3
<1> QED
  BY TimersInvariant, <1>1, PTL

(* Of a timer's tasks at most one can still call back.                      *)
THEOREM OneTaskCallsBack == Spec => []OneActiveTask
<1>1. TimersInv => OneActiveTask
  BY AliveIsPlaced DEF TimersInv, OneActiveTask, OwnerInv
<1> QED
  BY TimersInvariant, <1>1, PTL

(* The loop thread's cancel and reset are final, another thread's can be    *)
(* overtaken once.                                                          *)
THEOREM CancelFinal == Spec => []CancelIsFinal
<1>1. TimersInv => CancelIsFinal
  <2> SUFFICES ASSUME TimersInv, NEW k \in 1 .. created
               PROVE  late[k] <= IF owner[k] \in LoopTimers THEN 0 ELSE 1
    BY DEF CancelIsFinal
  <2>1. k \in TaskId
    BY CreatedRange DEF TimersInv
  <2>2. late[k] = 0 \/ (late[k] = 1 /\ owner[k] \notin LoopTimers)
    BY <2>1 DEF TimersInv, LateInv
  <2> QED
    BY <2>2
<1> QED
  BY TimersInvariant, <1>1, PTL

(* By the clock as the pass has read it, no callback starts before its      *)
(* interval has passed, whenever and however far the clock is set.          *)
THEOREM NoneEarly == Spec => []NotEarly
<1>1. TimersInv => NotEarly
  <2> SUFFICES ASSUME TimersInv, pc = "invoke"
               PROVE  pass_ms >= since[task] + after_msec[task] - Slack(task)
    BY DEF NotEarly, Slack
  <2>1. pass_ms \in Nat /\ now_time \in Nat /\ MaxBusy \in Nat
    BY DueTypes DEF TimersInv
  <2>2. task \in TaskId
    BY DEF TimersInv, PhaseInv, Calling, TypeOK
  <2>3. since[task] \in Nat /\ after_msec[task] \in Nat
    BY <2>2, DueTypes DEF TimersInv
  <2>4. since[task] + after_msec[task] - Slack(task) <= now_time
    BY DEF TimersInv, DueInv
  <2>5. now_time <= pass_ms
    BY DEF TimersInv, PhaseInv, InPass, Calling
  <2> QED
    BY <2>1, <2>3, <2>4, <2>5 DEF Slack
<1> QED
  BY TimersInvariant, <1>1, PTL

(* Timers expire in the order of their deadlines.                           *)
THEOREM InOrderOfDeadlines == Spec => EarliestFirst
<1> DEFINE Earliest ==
      \A i \in DOMAIN time_after_tasks' :
        pc = "scan" /\ pc' = "call" => Head(time_after_tasks).at <= time_after_tasks'[i].at
<1>1. TimersInv /\ [Next]_vars => [Earliest]_vars
  <2> SUFFICES ASSUME TimersInv, Next, pc = "scan", pc' = "call",
                      NEW i \in DOMAIN time_after_tasks'
               PROVE  Head(time_after_tasks).at <= time_after_tasks'[i].at
    OBVIOUS
  <2>1. ScanExpired
    BY DEF Next, LoopStep, Pass, Reset, AddTimeTask, Cancel, PassNothing, PassBegin, ScanFuture,
           CallCanceled, CallActive, Invoke, CallbackTrue, CallbackFalse, PollWakeUp, PollTimeout,
           PollOther, RunInsertion, TaskThrows, EventsDone, Tick, SetClock, Poll, loop, reading, clock
  <2>2. /\ time_after_tasks \in Seq(Entry) /\ time_after_tasks # <<>>
        /\ time_after_tasks' = Tail(time_after_tasks) /\ Sorted(time_after_tasks)
    BY <2>1 DEF ScanExpired, TimersInv, TypeOK, PhaseInv
  <2>3. \A j \in 1 .. Len(Tail(time_after_tasks)) :
          Head(time_after_tasks).at <= Tail(time_after_tasks)[j].at
    BY <2>2, TailEntries
  <2>4. DOMAIN Tail(time_after_tasks) = 1 .. Len(Tail(time_after_tasks))
    BY <2>2
  <2> QED
    BY <2>2, <2>3, <2>4
<1> HIDE DEF Earliest
<1>2. Spec => [][Earliest]_vars
  BY TimersInvariant, <1>1, PTL DEF Spec
<1> QED
  BY <1>2 DEF EarliestFirst, Earliest

(* The wait until the first entry fits an int.                              *)
LEMMA WaitFits ==
  ASSUME TimersInv, \A i \in Intervals \cup {0}, u \in Shifts : i + u < IntSpan \div 2,
         pc = "scan", Head(time_after_tasks).at > now_time
  PROVE  /\ Head(time_after_tasks) \in Entry
         /\ ToInt(Head(time_after_tasks).at - now_time) = Head(time_after_tasks).at - now_time
<1> DEFINE e == Head(time_after_tasks)
           wait == e.at - now_time
<1>1. e \in Entry /\ e \in Range(time_after_tasks)
  BY TailEntries DEF TimersInv, PhaseInv, TypeOK
<1>2. PICK u \in Shifts : e.at <= (now_time - read_shift) + u + after_msec[e.task]
  BY <1>1 DEF TimersInv, DueInv, DueAt, Reading, InPass
<1>3. /\ now_time \in Nat /\ read_shift \in Nat /\ e.at \in Nat /\ after_msec[e.task] \in Nat
      /\ u \in Nat /\ after_msec[e.task] \in Intervals \cup {0}
  BY <1>1, DueTypes DEF TimersInv, TypeOK
<1>4. wait \in Nat /\ wait > 0 /\ wait <= after_msec[e.task] + u
  BY <1>2, <1>3
<1>5. after_msec[e.task] + u < IntSpan \div 2 /\ IntSpan \in Nat \ {0}
  BY <1>3, TimersAssumption DEF TimersAssumption
<1> HIDE DEF wait
<1>6. wait < IntSpan \div 2 /\ wait < IntSpan
  BY <1>3, <1>4, <1>5
<1>7. wait % IntSpan = wait
  BY <1>4, <1>5, <1>6
<1> QED
  BY <1>1, <1>6, <1>7 DEF ToInt, wait

(* With intervals that leave room in an int for what the clock may be set   *)
(* back, the loop does not sleep past the next deadline, by the clock as    *)
(* the pass has read it, by more than the callbacks of the pass took.       *)
THEOREM SleepBounded ==
  ASSUME \A i \in Intervals \cup {0}, u \in Shifts : i + u < IntSpan \div 2
  PROVE  Spec => []SleepIsBounded
<1>1. Init => SleepIsBounded
  BY DEF Init, SleepIsBounded
<1>2. TimersInv /\ SleepIsBounded /\ [Next]_vars => SleepIsBounded'
  <2> SUFFICES ASSUME TimersInv, SleepIsBounded, [Next]_vars,
                      pc' = "poll", time_after_tasks' # <<>>
               PROVE  /\ poll_until' # Forever
                      /\ poll_until' + read_shift' <= Head(time_after_tasks').at + MaxBusy
    BY DEF SleepIsBounded
  <2>1. CASE ScanFuture
    <3> DEFINE e == Head(time_after_tasks)
    <3>1. /\ pc = "scan" /\ e.at > now_time /\ Poll(ToInt(e.at - now_time))
          /\ time_after_tasks' = time_after_tasks
      BY <2>1 DEF ScanFuture
    <3>2. e \in Entry /\ ToInt(e.at - now_time) = e.at - now_time
      BY <3>1, WaitFits
    <3>3. /\ now \in Nat /\ now_time \in Nat /\ read_shift \in Nat /\ e.at \in Nat
          /\ MaxBusy \in Nat
      BY <3>2, DueTypes DEF TimersInv
    <3>4. now + read_shift - now_time <= MaxBusy
      <4>1. pc \in InPass
        BY <3>1 DEF InPass
      <4>2. pass_ms - now_time <= MaxBusy
        BY <4>1 DEF TimersInv, PhaseInv
      <4>3. pass_ms = now + read_shift
        BY DEF pass_ms
      <4> QED
        BY <3>3, <4>2, <4>3
    <3>5. poll_until' = now + (e.at - now_time) /\ read_shift' = read_shift
      BY <3>1, <3>2, <3>3 DEF Poll
    <3>6. poll_until' \in Int /\ Forever \notin Int
      BY <3>3, <3>5, TimersAssumption DEF TimersAssumption
    <3> HIDE DEF e
    <3>7. poll_until' + read_shift' <= e.at + MaxBusy
      BY <3>1, <3>3, <3>4, <3>5
    <3> QED
      BY <3>1, <3>6, <3>7 DEF e
  <2>2. CASE pc = "poll" /\ UNCHANGED <<time_after_tasks, poll_until, read_shift>>
    BY <2>2 DEF SleepIsBounded
  <2>3. CASE PassNothing
    BY <2>3 DEF PassNothing
  <2>4. CASE CallCanceled \/ CallbackTrue \/ CallbackFalse
    <3>1. \E s : Iterate(s)
      BY <2>4 DEF CallCanceled, CallbackTrue, CallbackFalse
    <3> QED
      BY <3>1, IterateEnds
  <2> QED
    BY <2>1, <2>2, <2>3, <2>4
    DEF vars, loop, reading, clock, Next, LoopStep, Pass, Reset, AddTimeTask, Cancel, PassBegin,
        ScanExpired, CallActive, Invoke, PollWakeUp, PollTimeout, PollOther, PollReturns,
        RunInsertion, TaskThrows, EventsDone, Tick, SetClock
<1> QED
  BY TimersInvariant, <1>1, <1>2, PTL DEF Spec

=============================================================================
