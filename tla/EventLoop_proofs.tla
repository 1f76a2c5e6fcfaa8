-------------------------- MODULE EventLoop_proofs --------------------------
(* Proofs about EventLoop for any loops, threads and pipe capacity. *)
EXTENDS EventLoop, SeqLemmas, TLAPS

(* Every step keeps the types. *)
LEMMA TypeStep == Types /\ [Next]_vars => Types'
<1> SUFFICES ASSUME Types, [Next]_vars PROVE Types'
  OBVIOUS
<1> USE EventLoopAssumption DEF Types, Posters
<1>1. ASSUME NEW t \in Posters, NEW l \in Loops, Push(t, l) PROVE Types'
  <2>1. posted[t][l] \in 0 .. MaxPosts
    OBVIOUS
  <2>2. posted' \in [Posters -> [Loops -> 0 .. MaxPosts]]
    <3>0. posted[t][l] < MaxPosts
      BY <1>1 DEF Push
    <3>1. posted[t][l] + 1 \in 0 .. MaxPosts
      <4> HIDE DEF Types
      <4> QED
        BY <2>1, <3>0
    <3>2. [posted[t] EXCEPT ![l] = @ + 1] \in [Loops -> 0 .. MaxPosts]
      BY <3>1
    <3> QED
      BY <1>1, <3>2 DEF Push
  <2>3. [from |-> t, n |-> posted[t][l] + 1] \in Task
    BY <2>1 DEF Task
  <2>4. async_tasks' \in [Loops -> Seq(Task)]
    BY <1>1, <2>3 DEF Push
  <2>5. waking' \in [Posters -> Loops \cup {None}]
    BY <1>1 DEF Push
  <2> QED
    BY <1>1, <2>2, <2>4, <2>5 DEF Push
<1>2. ASSUME NEW t \in Posters, WakeUp(t) PROVE Types'
  <2>1. waking[t] \in Loops /\ pipe[waking[t]] \in 0 .. PipeCapacity
    BY <1>2 DEF WakeUp
  <2>2. pipe' \in [Loops -> 0 .. PipeCapacity]
    BY <1>2, <2>1 DEF WakeUp
  <2>3. waking' \in [Posters -> Loops \cup {None}]
    BY <1>2 DEF WakeUp
  <2> QED
    BY <1>2, <2>2, <2>3 DEF WakeUp, history
<1>3. ASSUME NEW l \in Loops, LoopStep(l) PROVE Types'
  <2> USE DEF At, Goto, Phase, history
  <2>1. CASE TimersDone(l)
    BY <2>1 DEF TimersDone
  <2>2. CASE PollWakeUp(l)
    BY <2>2 DEF PollWakeUp
  <2>3. CASE InEvent(l)
    BY <2>3 DEF InEvent
  <2>4. CASE PollDone(l)
    BY <2>4 DEF PollDone
  <2>5. CASE ReadSome(l)
    BY <2>5 DEF ReadSome
  <2>6. CASE ReadAgain(l)
    BY <2>6 DEF ReadAgain
  <2>7. CASE SwapTasks(l)
    BY <2>7 DEF SwapTasks
  <2>8. CASE StartTask(l)
    <3>1. Head(swap_task[l]) \in Task /\ Tail(swap_task[l]) \in Seq(Task)
      BY <2>8, HeadTailType DEF StartTask
    <3> QED
      BY <2>8, <3>1 DEF StartTask
  <2>9. CASE TaskReturns(l)
    BY <2>9 DEF TaskReturns
  <2>10. CASE TaskThrows(l)
    <3>1. Range(swap_task[l]) \subseteq Task
      BY DEF Range
    <3> QED
      BY <2>10, <3>1 DEF TaskThrows
  <2>11. CASE WakeUpHandled(l)
    BY <2>11 DEF WakeUpHandled
  <2> QED
    BY <1>3, <2>1, <2>2, <2>3, <2>4, <2>5, <2>6, <2>7, <2>8, <2>9, <2>10, <2>11 DEF LoopStep
<1>4. ASSUME NEW l \in Loops, PollOther(l) PROVE Types'
  BY <1>4 DEF PollOther, At, Goto, Phase, history
<1>5. CASE UNCHANGED vars
  BY <1>5 DEF vars
<1> QED
  BY <1>1, <1>2, <1>3, <1>4, <1>5 DEF Next, Async, AddTimeTask

(* The members of every loop keep their types. *)
LEMMA TypesKept == Spec => []Types
<1>1. Init => Types
  BY EventLoopAssumption DEF Init, Types, Phase, Posters
<1> QED
  BY <1>1, TypeStep, PTL DEF Spec

-----------------------------------------------------------------------------

(* Only a drain empties the pipe, and only the swap that follows it leaves  *)
(* the drain; a task is queued by a thread that has yet to write.           *)
LEMMA WakeUpStep == Types /\ NoLostWakeUp /\ [Next]_vars => NoLostWakeUp'
<1> SUFFICES ASSUME Types, NoLostWakeUp, [Next]_vars,
                    NEW l \in Loops, async_tasks'[l] # <<>>
             PROVE  \/ pipe'[l] > 0
                    \/ \E t \in Posters : waking'[t] = l
                    \/ pc'[l] \in {"drain", "swap"}
  BY DEF NoLostWakeUp
<1> USE EventLoopAssumption DEF Types, Posters
<1>0. async_tasks[l] # <<>> =>
        pipe[l] > 0 \/ (\E t \in Posters : waking[t] = l) \/ pc[l] \in {"drain", "swap"}
  BY DEF NoLostWakeUp
<1>1. ASSUME NEW t \in Posters, NEW k \in Loops, Push(t, k)
      PROVE  pipe'[l] > 0 \/ (\E u \in Posters : waking'[u] = l) \/ pc'[l] \in {"drain", "swap"}
  <2>1. CASE k = l
    BY <1>1, <2>1 DEF Push
  <2>2. CASE k # l
    BY <1>0, <1>1, <2>2 DEF Push, MayCall
  <2> QED
    BY <2>1, <2>2
<1>2. ASSUME NEW t \in Posters, WakeUp(t)
      PROVE  pipe'[l] > 0 \/ (\E u \in Posters : waking'[u] = l) \/ pc'[l] \in {"drain", "swap"}
  <2>1. CASE waking[t] = l
    BY <1>2, <2>1 DEF WakeUp
  <2>2. CASE waking[t] # l
    BY <1>0, <1>2, <2>2 DEF WakeUp
  <2> QED
    BY <2>1, <2>2
<1>3. ASSUME NEW k \in Loops, LoopStep(k) \/ PollOther(k)
      PROVE  pipe'[l] > 0 \/ (\E u \in Posters : waking'[u] = l) \/ pc'[l] \in {"drain", "swap"}
  <2>1. CASE k # l
    BY <1>0, <1>3, <2>1 DEF LoopStep, TimersDone, PollWakeUp, InEvent, PollDone, ReadSome,
      ReadAgain, SwapTasks, StartTask, TaskReturns, TaskThrows, WakeUpHandled, PollOther, Goto
  <2>2. CASE k = l
    <3>1. CASE ReadSome(l)
      BY <3>1 DEF ReadSome, At
    <3>2. CASE ReadAgain(l)
      BY <3>2 DEF ReadAgain, Goto
    <3>3. CASE SwapTasks(l)
      BY <3>3 DEF SwapTasks
    <3>4. CASE TimersDone(l) \/ PollWakeUp(l) \/ InEvent(l) \/ PollDone(l) \/ PollOther(l)
      BY <1>0, <3>4 DEF TimersDone, PollWakeUp, InEvent, PollDone, PollOther, At, Goto
    <3>5. CASE StartTask(l) \/ TaskReturns(l) \/ TaskThrows(l) \/ WakeUpHandled(l)
      BY <1>0, <3>5 DEF StartTask, TaskReturns, TaskThrows, WakeUpHandled, At, Goto
    <3> QED
      BY <1>3, <2>2, <3>1, <3>2, <3>3, <3>4, <3>5 DEF LoopStep
  <2> QED
    BY <2>1, <2>2
<1>4. CASE UNCHANGED vars
  BY <1>0, <1>4 DEF vars
<1> QED
  BY <1>1, <1>2, <1>3, <1>4 DEF Next, Async, AddTimeTask

(* No wake-up is lost, for any number of threads and loops and a pipe of    *)
(* any capacity: see NoLostWakeUp.                                          *)
THEOREM WakeUpsKept == Spec => []NoLostWakeUp
<1>1. Init => NoLostWakeUp
  BY DEF Init, NoLostWakeUp
<1> QED
  BY <1>1, TypesKept, WakeUpStep, PTL DEF Spec

-----------------------------------------------------------------------------
(* The queue. *)

(* A loop that is not in on_wake_up's for statement holds no swapped tasks, *)
(* so the swap overwrites nothing: the strengthening the next proofs need.  *)
SwapIdle == \A l \in Loops : swap_task[l] # <<>> => pc[l] \in {"run", "task"}

LEMMA SwapIdleStep == Types /\ SwapIdle /\ [Next]_vars => SwapIdle'
<1> SUFFICES ASSUME Types, SwapIdle, [Next]_vars,
                    NEW l \in Loops, swap_task'[l] # <<>>
             PROVE  pc'[l] \in {"run", "task"}
  BY DEF SwapIdle
<1> USE DEF Types, Posters
<1>0. swap_task[l] # <<>> => pc[l] \in {"run", "task"}
  BY DEF SwapIdle
<1>1. ASSUME NEW t \in Posters, NEW k \in Loops, Push(t, k) \/ WakeUp(t)
      PROVE  pc'[l] \in {"run", "task"}
  BY <1>0, <1>1 DEF Push, WakeUp
<1>2. ASSUME NEW k \in Loops, LoopStep(k) \/ PollOther(k)
      PROVE  pc'[l] \in {"run", "task"}
  <2>1. CASE k # l
    BY <1>0, <1>2, <2>1 DEF LoopStep, TimersDone, PollWakeUp, InEvent, PollDone, ReadSome,
      ReadAgain, SwapTasks, StartTask, TaskReturns, TaskThrows, WakeUpHandled, PollOther, Goto
  <2>2. CASE k = l
    BY <1>0, <1>2, <2>2 DEF LoopStep, TimersDone, PollWakeUp, InEvent, PollDone, ReadSome,
      ReadAgain, SwapTasks, StartTask, TaskReturns, TaskThrows, WakeUpHandled, PollOther, Goto, At
  <2> QED
    BY <2>1, <2>2
<1>3. CASE UNCHANGED vars
  BY <1>0, <1>3 DEF vars
<1> QED
  BY <1>1, <1>2, <1>3 DEF Next, Async, AddTimeTask

LEMMA SwapIdleAlways == Spec => []SwapIdle
<1>1. Init => SwapIdle
  BY DEF Init, SwapIdle
<1> QED
  BY <1>1, TypesKept, SwapIdleStep, PTL DEF Spec

(* Only a loop that dispatches events has the pipe's among them. *)
EventIdle == \A l \in Loops : readable[l] => pc[l] = "dispatch"

LEMMA EventIdleStep == Types /\ EventIdle /\ [Next]_vars => EventIdle'
<1> SUFFICES ASSUME Types, EventIdle, [Next]_vars,
                    NEW l \in Loops, readable'[l]
             PROVE  pc'[l] = "dispatch"
  BY DEF EventIdle
<1> USE DEF Types, Posters
<1>0. readable[l] => pc[l] = "dispatch"
  BY DEF EventIdle
<1>1. ASSUME NEW t \in Posters, NEW k \in Loops, Push(t, k) \/ WakeUp(t)
      PROVE  pc'[l] = "dispatch"
  BY <1>0, <1>1 DEF Push, WakeUp
<1>2. ASSUME NEW k \in Loops, LoopStep(k) \/ PollOther(k)
      PROVE  pc'[l] = "dispatch"
  <2>1. CASE k # l
    BY <1>0, <1>2, <2>1 DEF LoopStep, TimersDone, PollWakeUp, InEvent, PollDone, ReadSome,
      ReadAgain, SwapTasks, StartTask, TaskReturns, TaskThrows, WakeUpHandled, PollOther, Goto
  <2>2. CASE k = l
    BY <1>0, <1>2, <2>2 DEF LoopStep, TimersDone, PollWakeUp, InEvent, PollDone, ReadSome,
      ReadAgain, SwapTasks, StartTask, TaskReturns, TaskThrows, WakeUpHandled, PollOther, Goto, At
  <2> QED
    BY <2>1, <2>2
<1>3. CASE UNCHANGED vars
  BY <1>0, <1>3 DEF vars
<1> QED
  BY <1>1, <1>2, <1>3 DEF Next, Async, AddTimeTask

(* The members of every loop keep their types, and its locals are empty     *)
(* outside the calls they belong to: see TypeOK.                            *)
THEOREM TypeCorrect == Spec => []TypeOK
<1>1. Init => EventIdle
  BY DEF Init, EventIdle
<1>2. Types /\ SwapIdle /\ EventIdle => TypeOK
  BY DEF TypeOK, LocalsInScope, SwapIdle, EventIdle
<1> QED
  BY <1>1, <1>2, TypesKept, SwapIdleAlways, EventIdleStep, PTL DEF Spec

(* What one step does to the queue of loop l, seen through its log: nothing, *)
(* a new task at the end, or the swapped tasks cut out of the middle.        *)
LogKept(l) ==
  /\ Log(l)' = Log(l)
  /\ dropped'[l] = dropped[l]
  /\ \A t \in Posters : posted'[t][l] = posted[t][l]

LogGrows(l) ==
  \E t \in Posters :
    /\ posted[t][l] < MaxPosts
    /\ posted' = [posted EXCEPT ![t][l] = @ + 1]
    /\ Log(l)' = Append(Log(l), [from |-> t, n |-> posted[t][l] + 1])
    /\ dropped'[l] = dropped[l]

LogCut(l) ==
  /\ Log(l)' = started[l] \o async_tasks[l]
  /\ dropped'[l] = dropped[l] \cup Range(swap_task[l])
  /\ posted' = posted

LEMMA LogStep ==
  ASSUME Types, SwapIdle, [Next]_vars, NEW l \in Loops
  PROVE  LogKept(l) \/ LogGrows(l) \/ LogCut(l)
<1> USE DEF Types
<1>0. /\ started[l] \in Seq(Task) /\ swap_task[l] \in Seq(Task) /\ async_tasks[l] \in Seq(Task)
      /\ started[l] \o swap_task[l] \in Seq(Task)
  BY ConcatIndex
<1>1. ASSUME NEW t \in Posters, NEW k \in Loops, Push(t, k) PROVE LogKept(l) \/ LogGrows(l)
  <2>1. CASE k = l
    <3> DEFINE x == [from |-> t, n |-> posted[t][l] + 1]
    <3>1. x \in Task
      BY DEF Task
    <3>2. (started[l] \o swap_task[l]) \o Append(async_tasks[l], x)
            = Append((started[l] \o swap_task[l]) \o async_tasks[l], x)
      <4> HIDE DEF x, Types
      <4>1. \A s, u \in Seq(Task) : s \o Append(u, x) = Append(s \o u, x)
        BY <3>1, AppendConcat
      <4> QED
        BY <1>0, <4>1, Zenon
    <3>3. /\ async_tasks'[l] = Append(async_tasks[l], x)
          /\ started' = started /\ swap_task' = swap_task
      BY <1>1, <2>1 DEF Push
    <3>4. Log(l)' = Append(Log(l), x)
      BY <3>2, <3>3 DEF Log
    <3> QED
      BY <1>1, <2>1, <3>4 DEF Push, LogGrows
  <2>2. CASE k # l
    BY <1>1, <2>2 DEF Push, LogKept, Log
  <2> QED
    BY <2>1, <2>2
<1>2. ASSUME NEW t \in Posters, WakeUp(t) PROVE LogKept(l)
  BY <1>2 DEF WakeUp, LogKept, Log, history
<1>3. ASSUME NEW k \in Loops, LoopStep(k) \/ PollOther(k) PROVE LogKept(l) \/ LogCut(l)
  <2>1. CASE k # l
    <3>1. /\ started'[l] = started[l] /\ swap_task'[l] = swap_task[l]
          /\ async_tasks'[l] = async_tasks[l] /\ dropped'[l] = dropped[l] /\ posted' = posted
      BY <1>3, <2>1 DEF LoopStep, TimersDone, PollWakeUp, InEvent, PollDone, ReadSome,
        ReadAgain, SwapTasks, StartTask, TaskReturns, TaskThrows, WakeUpHandled, PollOther, history
    <3> QED
      BY <3>1 DEF LogKept, Log
  <2>2. CASE k = l /\ SwapTasks(l)
    <3>1. swap_task[l] = <<>>
      BY <2>2 DEF SwapTasks, At, SwapIdle
    <3>2. /\ started' = started /\ dropped' = dropped /\ posted' = posted
          /\ swap_task'[l] = async_tasks[l] /\ async_tasks'[l] = <<>>
      BY <2>2 DEF SwapTasks, history
    <3>3. (started[l] \o async_tasks[l]) \o <<>> = (started[l] \o <<>>) \o async_tasks[l]
      BY <1>0, EmptyConcat, ConcatIndex
    <3> QED
      BY <3>1, <3>2, <3>3 DEF LogKept, Log
  <2>3. CASE k = l /\ StartTask(l)
    <3>1. /\ started'[l] = Append(started[l], Head(swap_task[l]))
          /\ swap_task'[l] = Tail(swap_task[l]) /\ swap_task[l] # <<>>
          /\ async_tasks' = async_tasks /\ dropped' = dropped /\ posted' = posted
      BY <2>3 DEF StartTask
    <3>2. Append(started[l], Head(swap_task[l])) \o Tail(swap_task[l]) = started[l] \o swap_task[l]
      BY <1>0, <3>1, MoveHead
    <3> QED
      BY <3>1, <3>2 DEF LogKept, Log
  <2>4. CASE k = l /\ TaskThrows(l)
    <3>1. /\ started' = started /\ swap_task'[l] = <<>> /\ async_tasks' = async_tasks
          /\ dropped'[l] = dropped[l] \cup Range(swap_task[l]) /\ posted' = posted
      BY <2>4 DEF TaskThrows
    <3>2. started[l] \o <<>> = started[l]
      BY <1>0, EmptyConcat
    <3> QED
      BY <3>1, <3>2 DEF LogCut, Log
  <2>5. CASE TimersDone(k) \/ PollWakeUp(k) \/ InEvent(k) \/ PollDone(k) \/ ReadSome(k)
          \/ ReadAgain(k) \/ TaskReturns(k) \/ WakeUpHandled(k) \/ PollOther(k)
    <3>1. UNCHANGED <<started, swap_task, async_tasks, dropped, posted>>
      BY <2>5 DEF TimersDone, PollWakeUp, InEvent, PollDone, ReadSome,
        ReadAgain, TaskReturns, WakeUpHandled, PollOther, history
    <3> QED
      BY <3>1 DEF LogKept, Log
  <2> QED
    BY <1>3, <2>1, <2>2, <2>3, <2>4, <2>5 DEF LoopStep
<1>4. CASE UNCHANGED vars
  BY <1>4 DEF vars, LogKept, Log
<1> QED
  BY <1>1, <1>2, <1>3, <1>4 DEF Next, Async, AddTimeTask

-----------------------------------------------------------------------------
(* Order and conservation. *)

Ordered(s) ==
  \A i, j \in 1 .. Len(s) : i < j /\ s[i].from = s[j].from => s[i].n < s[j].n

(* A task that outranks every earlier one of its thread may go to the end. *)
LEMMA OrderedAppend ==
  ASSUME NEW s \in Seq(Task), NEW x \in Task, Ordered(s),
         \A i \in 1 .. Len(s) : s[i].from = x.from => s[i].n < x.n
  PROVE  Ordered(Append(s, x))
<1> DEFINE v == Append(s, x)
<1>1. /\ Len(v) = Len(s) + 1 /\ Len(s) \in Nat
      /\ \A i \in 1 .. Len(s) : v[i] = s[i]
      /\ v[Len(s) + 1] = x
  OBVIOUS
<1> HIDE DEF v
<1>2. ASSUME NEW i \in 1 .. Len(v), NEW j \in 1 .. Len(v), i < j, v[i].from = v[j].from
      PROVE  v[i].n < v[j].n
  <2>1. i \in 1 .. Len(s) /\ v[i] = s[i]
    BY <1>1, <1>2
  <2>2. CASE j = Len(s) + 1
    BY <1>1, <1>2, <2>1, <2>2
  <2>3. CASE j # Len(s) + 1
    <3>1. j \in 1 .. Len(s) /\ v[j] = s[j]
      BY <1>1, <2>3
    <3> QED
      BY <1>2, <2>1, <3>1 DEF Ordered
  <2> QED
    BY <2>2, <2>3
<1>3. Ordered(v)
  BY <1>2 DEF Ordered
<1> QED
  BY <1>3 DEF v

(* A stretch cut out of the middle leaves the rest in order, and holds no   *)
(* task that the rest holds too.                                            *)
LEMMA OrderedCut ==
  ASSUME NEW s \in Seq(Task), NEW u \in Seq(Task), NEW v \in Seq(Task),
         Ordered((s \o u) \o v)
  PROVE  /\ Ordered(s \o v)
         /\ Range(u) \cap Range(s \o v) = {}
<1> DEFINE w == (s \o u) \o v
           c == s \o v
<1>1. /\ Len(s) \in Nat /\ Len(u) \in Nat /\ Len(v) \in Nat
      /\ w \in Seq(Task) /\ c \in Seq(Task)
      /\ Len(w) = Len(s) + Len(u) + Len(v)
      /\ Len(c) = Len(s) + Len(v)
  OBVIOUS
<1>2. \A i \in 1 .. Len(s) : w[i] = s[i] /\ c[i] = s[i]
  OBVIOUS
<1>3. \A i \in 1 .. Len(u) : w[Len(s) + i] = u[i]
  OBVIOUS
<1>4. \A i \in 1 .. Len(v) : w[Len(s) + Len(u) + i] = v[i] /\ c[Len(s) + i] = v[i]
  OBVIOUS
<1>5. Ordered(w)
  OBVIOUS
<1> HIDE DEF w, c
<1> DEFINE up(i) == IF i <= Len(s) THEN i ELSE i + Len(u)
<1>6. \A i \in 1 .. Len(c) : up(i) \in 1 .. Len(w) /\ c[i] = w[up(i)]
  <2> SUFFICES ASSUME NEW i \in 1 .. Len(c)
               PROVE  up(i) \in 1 .. Len(w) /\ c[i] = w[up(i)]
    OBVIOUS
  <2>1. CASE i <= Len(s)
    BY <1>1, <1>2, <2>1
  <2>2. CASE i > Len(s)
    <3>1. /\ i - Len(s) \in 1 .. Len(v) /\ Len(s) + (i - Len(s)) = i
          /\ Len(s) + Len(u) + (i - Len(s)) = i + Len(u)
      BY <1>1, <2>2
    <3>2. w[i + Len(u)] = c[i]
      BY <1>4, <3>1
    <3> QED
      BY <1>1, <2>2, <3>2
  <2> QED
    BY <1>1, <2>1, <2>2
<1>7. Ordered(c)
  <2> SUFFICES ASSUME NEW i \in 1 .. Len(c), NEW j \in 1 .. Len(c), i < j, c[i].from = c[j].from
               PROVE  c[i].n < c[j].n
    BY DEF Ordered
  <2>1. up(i) < up(j)
    BY <1>1
  <2>2. up(i) \in 1 .. Len(w) /\ up(j) \in 1 .. Len(w) /\ c[i] = w[up(i)] /\ c[j] = w[up(j)]
    BY <1>6
  <2> HIDE DEF up
  <2> QED
    BY <1>5, <2>1, <2>2 DEF Ordered
<1>8. ASSUME NEW i \in 1 .. Len(u), NEW j \in 1 .. Len(c) PROVE u[i] # c[j]
  <2>1. Len(s) + i \in 1 .. Len(w) /\ w[Len(s) + i] = u[i]
    <3>1. Len(s) + i \in 1 .. Len(w)
      BY <1>1
    <3>2. w[Len(s) + i] = u[i]
      BY <1>3
    <3> QED
      BY <3>1, <3>2
  <2>2. up(j) \in 1 .. Len(w) /\ c[j] = w[up(j)]
    BY <1>6
  <2>3. Len(s) + i < up(j) \/ up(j) < Len(s) + i
    BY <1>1
  <2>4. u[i] \in Task
    BY <1>1
  <2>5. u[i].n \in Nat
    BY <2>4 DEF Task
  <2> DEFINE a == Len(s) + i
             b == up(j)
  <2> HIDE DEF up, a, b
  <2>6. \A p, q \in 1 .. Len(w) : p < q /\ w[p] = w[q] => w[p].n < w[p].n
    BY <1>5 DEF Ordered
  <2>7. a \in 1 .. Len(w) /\ b \in 1 .. Len(w) /\ w[a] = u[i] /\ w[b] = c[j] /\ (a < b \/ b < a)
    BY <2>1, <2>2, <2>3 DEF a, b
  <2>8. ~(u[i].n < u[i].n)
    BY <2>5
  <2> QED
    BY <2>6, <2>7, <2>8
<1>9. Range(u) \cap Range(c) = {}
  <2>1. \A x : x \in Range(u) <=> \E i \in 1 .. Len(u) : x = u[i]
    BY RangeMember
  <2>2. \A x : x \in Range(c) <=> \E i \in 1 .. Len(c) : x = c[i]
    BY <1>1, RangeMember
  <2> QED
    BY <1>8, <2>1, <2>2
<1> QED
  BY <1>7, <1>9 DEF c

(* The tasks the threads have given to loop l so far. *)
Given(l) == {x \in Task : x.n \in 1 .. posted[x.from][l]}

(* The queue's part of the inductive invariant. *)
QueueInv ==
  \A l \in Loops :
    /\ Ordered(Log(l))
    /\ Range(Log(l)) \cup dropped[l] = Given(l)
    /\ Range(Log(l)) \cap dropped[l] = {}

LEMMA LogType == Types => \A l \in Loops : Log(l) \in Seq(Task)
  BY ConcatIndex DEF Types, Log

LEMMA QueueStep == Types /\ SwapIdle /\ QueueInv /\ [Next]_vars => QueueInv'
<1> SUFFICES ASSUME Types, SwapIdle, QueueInv, [Next]_vars, NEW l \in Loops
             PROVE  /\ Ordered(Log(l)')
                    /\ Range(Log(l)') \cup dropped'[l] = Given(l)'
                    /\ Range(Log(l)') \cap dropped'[l] = {}
  BY DEF QueueInv, Ordered
<1>0. /\ Ordered(Log(l))
      /\ Range(Log(l)) \cup dropped[l] = Given(l)
      /\ Range(Log(l)) \cap dropped[l] = {}
  BY DEF QueueInv
<1>1. Log(l) \in Seq(Task)
  BY LogType
<1>2. posted \in [Posters -> [Loops -> 0 .. MaxPosts]]
  BY DEF Types
<1>3. CASE LogKept(l)
  <2>1. Given(l)' = Given(l)
    BY <1>3 DEF Given, LogKept, Task
  <2> QED
    BY <1>0, <1>3, <2>1 DEF LogKept
<1>4. CASE LogGrows(l)
  <2>1. PICK t \in Posters :
          /\ posted' = [posted EXCEPT ![t][l] = @ + 1]
          /\ Log(l)' = Append(Log(l), [from |-> t, n |-> posted[t][l] + 1])
          /\ dropped'[l] = dropped[l]
    BY <1>4 DEF LogGrows
  <2> DEFINE x == [from |-> t, n |-> posted[t][l] + 1]
  <2>2. posted[t][l] \in Nat /\ x \in Task /\ x.from = t /\ x.n = posted[t][l] + 1
    BY <1>2 DEF Task
  <2>3. /\ posted'[t][l] = x.n
        /\ \A p \in Posters : p # t => posted'[p][l] = posted[p][l]
    BY <1>2, <2>1, <2>2
  <2>4. Log(l)' = Append(Log(l), x)
    BY <2>1
  <2> HIDE DEF x
  <2>5. \A y \in Given(l) : y.from = t => y.n < x.n
    BY <2>2 DEF Given, Task
  <2>6. x \notin Given(l)
    BY <2>2, <2>5
  <2>7. Given(l)' = Given(l) \cup {x}
    <3>1. ASSUME NEW y \in Given(l)' PROVE y \in Given(l) \cup {x}
      <4>1. y \in Task /\ y.n \in 1 .. posted'[y.from][l] /\ y.from \in Posters /\ y.n \in Nat
        BY <3>1 DEF Given, Task
      <4>2. CASE y.from = t /\ y.n = x.n
        <5>1. y = x
          BY <2>2, <4>1, <4>2 DEF Task
        <5> QED
          BY <5>1
      <4>3. CASE y.from = t /\ y.n # x.n
        BY <2>2, <2>3, <4>1, <4>3 DEF Given
      <4>4. CASE y.from # t
        BY <2>3, <4>1, <4>4 DEF Given
      <4> QED
        BY <4>2, <4>3, <4>4
    <3>2. ASSUME NEW y \in Given(l) PROVE y \in Given(l)'
      <4>1. y \in Task /\ y.n \in 1 .. posted[y.from][l] /\ y.from \in Posters /\ y.n \in Nat
        BY <3>2 DEF Given, Task
      <4>2. y.n \in 1 .. posted'[y.from][l]
        BY <2>2, <2>3, <4>1
      <4> QED
        BY <4>1, <4>2 DEF Given
    <3>3. x \in Given(l)'
      BY <2>2, <2>3 DEF Given
    <3> QED
      BY <3>1, <3>2, <3>3
  <2>8. \A i \in 1 .. Len(Log(l)) : Log(l)[i] \in Given(l)
    <3>1. \A i \in 1 .. Len(Log(l)) : Log(l)[i] \in Range(Log(l))
      BY <1>1, RangeMember
    <3> QED
      BY <1>0, <3>1
  <2>9. Ordered(Append(Log(l), x))
    <3>1. \A i \in 1 .. Len(Log(l)) : Log(l)[i].from = x.from => Log(l)[i].n < x.n
      BY <2>2, <2>5, <2>8
    <3> QED
      BY <1>0, <1>1, <2>2, <3>1, OrderedAppend
  <2>10. Range(Append(Log(l), x)) = Range(Log(l)) \cup {x}
    BY <1>1, <2>2, RangeAppend
  <2> QED
    BY <1>0, <2>1, <2>4, <2>6, <2>7, <2>9, <2>10
<1>5. CASE LogCut(l)
  <2> DEFINE s == started[l]
             u == swap_task[l]
             v == async_tasks[l]
  <2>1. /\ s \in Seq(Task) /\ u \in Seq(Task) /\ v \in Seq(Task)
        /\ Log(l) = (s \o u) \o v
        /\ Log(l)' = s \o v
        /\ dropped'[l] = dropped[l] \cup Range(u)
    BY <1>5 DEF Types, Log, LogCut
  <2>2. Given(l)' = Given(l)
    BY <1>5 DEF Given, LogCut
  <2> HIDE DEF s, u, v
  <2>3. Ordered(s \o v) /\ Range(u) \cap Range(s \o v) = {}
    BY <1>0, <2>1, OrderedCut
  <2>4. /\ Range(Log(l)) = Range(s) \cup Range(u) \cup Range(v)
        /\ Range(s \o v) = Range(s) \cup Range(v)
    <3>1. s \o u \in Seq(Task)
      BY <2>1, ConcatIndex
    <3>2. \A p, q \in Seq(Task) : Range(p \o q) = Range(p) \cup Range(q)
      BY RangeConcat
    <3> QED
      BY <2>1, <3>1, <3>2
  <2> QED
    BY <1>0, <2>1, <2>2, <2>3, <2>4
<1> QED
  BY <1>3, <1>4, <1>5, LogStep

LEMMA QueueAlways == Spec => []QueueInv
<1>1. Init => QueueInv
  <2> SUFFICES ASSUME Init, NEW l \in Loops
               PROVE  /\ Ordered(Log(l))
                      /\ Range(Log(l)) \cup dropped[l] = Given(l)
                      /\ Range(Log(l)) \cap dropped[l] = {}
    BY DEF QueueInv
  <2>1. Log(l) = <<>>
    BY DEF Init, Log
  <2>2. Range(<<>>) = {}
    BY DEF Range
  <2>3. Given(l) = {}
    BY DEF Init, Given, Task
  <2> QED
    BY <2>1, <2>2, <2>3 DEF Init, Ordered
<1> QED
  BY <1>1, TypesKept, SwapIdleAlways, QueueStep, PTL DEF Spec

(* Tasks of one thread start in the order it posted them and none twice,    *)
(* for any number of threads, loops and posts: see PosterOrder.             *)
THEOREM OrderKept == Spec => []PosterOrder
<1>1. Types /\ QueueInv => PosterOrder
  <2> SUFFICES ASSUME Types, QueueInv, NEW l \in Loops,
                      NEW i \in DOMAIN Log(l), NEW j \in DOMAIN Log(l),
                      i < j, Log(l)[i].from = Log(l)[j].from
               PROVE  Log(l)[i].n < Log(l)[j].n
    BY DEF PosterOrder
  <2>1. DOMAIN Log(l) = 1 .. Len(Log(l))
    BY LogType
  <2> QED
    BY <2>1 DEF QueueInv, Ordered
<1> QED
  BY <1>1, TypesKept, QueueAlways, PTL

(* Every accepted task is in exactly one place, for any number of threads,  *)
(* loops and posts: see TasksConserved.                                     *)
THEOREM TasksKept == Spec => []TasksConserved
<1>1. Types /\ QueueInv => TasksConserved
  <2> SUFFICES ASSUME Types, QueueInv, NEW l \in Loops
               PROVE  {x \in {[from |-> t, n |-> k] : t \in Posters, k \in 1 .. MaxPosts} :
                         x.n <= posted[x.from][l]} = Given(l)
    BY DEF TasksConserved, QueueInv
  <2> DEFINE given == {[from |-> t, n |-> k] : t \in Posters, k \in 1 .. MaxPosts}
  <2>1. \A t \in Posters : posted[t][l] \in 0 .. MaxPosts
    BY DEF Types
  <2>2. ASSUME NEW x \in given, x.n <= posted[x.from][l] PROVE x \in Given(l)
    <3>1. x \in Task /\ x.n \in 1 .. MaxPosts /\ x.from \in Posters
      BY EventLoopAssumption DEF Task
    <3> QED
      BY <2>1, <2>2, <3>1 DEF Given
  <2>3. ASSUME NEW x \in Given(l) PROVE x \in given /\ x.n <= posted[x.from][l]
    <3>1. /\ x \in Task /\ x.from \in Posters /\ x.n \in Nat
          /\ x.n \in 1 .. posted[x.from][l]
      BY DEF Given, Task
    <3>2. x.n \in 1 .. MaxPosts /\ x = [from |-> x.from, n |-> x.n]
      BY <2>1, <3>1, EventLoopAssumption DEF Task
    <3> QED
      BY <2>1, <3>1, <3>2
  <2> QED
    BY <2>2, <2>3
<1> QED
  BY <1>1, TypesKept, QueueAlways, PTL

-----------------------------------------------------------------------------
(* The mailbox. *)

PendingMap == [l \in Loops |-> Pending(l)]

LEMMA PendingType == Types => \A l \in Loops : Pending(l) \in Seq(Task)
  BY ConcatIndex DEF Types, Pending

(* A step that leaves the two queues of every loop and the history alone is *)
(* none of the mailbox.                                                     *)
LEMMA MailboxStutter ==
  ASSUME \A l \in Loops : Pending(l)' = Pending(l), UNCHANGED history
  PROVE  UNCHANGED Box!vars
<1>1. PendingMap' = PendingMap
  BY DEF PendingMap
<1> QED
  BY <1>1 DEF Box!vars, PendingMap, history

LEMMA MailboxPost ==
  ASSUME Types, NEW t \in Posters, NEW l \in Loops, Push(t, l)
  PROVE  Box!Post(t, l)
<1> DEFINE x == [from |-> t, n |-> posted[t][l] + 1]
<1> USE DEF Types
<1>1. x \in Task
  BY DEF Task
<1>2. \A s, u \in Seq(Task) : s \o Append(u, x) = Append(s \o u, x)
  <2> HIDE DEF x
  <2> QED
    BY <1>1, AppendConcat
<1>3. swap_task' = swap_task /\ async_tasks' = [async_tasks EXCEPT ![l] = Append(@, x)]
  BY DEF Push
<1> HIDE DEF x
<1>4. Pending(l)' = Append(Pending(l), x)
  BY <1>2, <1>3 DEF Pending
<1>5. \A k \in Loops : k # l => Pending(k)' = Pending(k)
  BY <1>3 DEF Pending
<1>6. PendingMap' = [PendingMap EXCEPT ![l] = Append(@, x)]
  BY <1>4, <1>5 DEF PendingMap
<1> QED
  BY <1>6 DEF Box!Post, Push, PendingMap, x

LEMMA MailboxStart ==
  ASSUME Types, NEW l \in Loops, StartTask(l)
  PROVE  Box!Start(l)
<1> USE DEF Types
<1>1. /\ swap_task[l] # <<>>
      /\ started' = [started EXCEPT ![l] = Append(@, Head(swap_task[l]))]
      /\ swap_task' = [swap_task EXCEPT ![l] = Tail(@)]
      /\ async_tasks' = async_tasks /\ dropped' = dropped /\ posted' = posted
  BY DEF StartTask
<1>2. /\ Head(Pending(l)) = Head(swap_task[l])
      /\ Tail(Pending(l)) = Tail(swap_task[l]) \o async_tasks[l]
  <2>1. \A s, u \in Seq(Task) : s # <<>> => Head(s \o u) = Head(s) /\ Tail(s \o u) = Tail(s) \o u
    BY HeadTailConcat
  <2> QED
    BY <1>1, <2>1 DEF Pending
<1>3. Pending(l) # <<>>
  BY <1>1, ConcatIndex DEF Pending
<1>4. Pending(l)' = Tail(Pending(l)) /\ \A k \in Loops : k # l => Pending(k)' = Pending(k)
  BY <1>1, <1>2 DEF Pending
<1>5. PendingMap' = [PendingMap EXCEPT ![l] = Tail(@)]
  BY <1>4 DEF PendingMap
<1> QED
  BY <1>1, <1>2, <1>3, <1>5 DEF Box!Start, PendingMap

LEMMA MailboxAbandon ==
  ASSUME Types, NEW l \in Loops, TaskThrows(l), swap_task[l] # <<>>
  PROVE  Box!Abandon(l)
<1> USE DEF Types
<1> DEFINE s == swap_task[l]
           u == async_tasks[l]
           k == Len(s)
<1>1. /\ s \in Seq(Task) /\ u \in Seq(Task) /\ s # <<>>
      /\ dropped' = [dropped EXCEPT ![l] = @ \cup Range(s)]
      /\ swap_task' = [swap_task EXCEPT ![l] = <<>>]
      /\ async_tasks' = async_tasks /\ posted' = posted /\ started' = started
  BY DEF TaskThrows
<1>2. Pending(l) = s \o u
  BY DEF Pending
<1>3. Pending(l)' = u /\ \A j \in Loops : j # l => Pending(j)' = Pending(j)
  BY <1>1, EmptyConcat DEF Pending
<1> HIDE DEF s, u
<1>4. /\ {(s \o u)[i] : i \in 1 .. k} = Range(s)
      /\ SubSeq(s \o u, k + 1, Len(s \o u)) = u
  BY <1>1, PrefixConcat
<1>5. k \in 1 .. Len(s \o u)
  BY <1>1, ConcatIndex
<1> HIDE DEF k
<1>6. PendingMap' = [PendingMap EXCEPT ![l] = SubSeq(@, k + 1, Len(@))]
  BY <1>2, <1>3, <1>4 DEF PendingMap
<1>7. PendingMap[l] = s \o u
  BY <1>2 DEF PendingMap
<1>8. dropped' = [dropped EXCEPT ![l] = @ \cup {PendingMap[l][i] : i \in 1 .. k}]
  BY <1>1, <1>4, <1>7
<1> QED
  BY <1>1, <1>5, <1>6, <1>7, <1>8 DEF Box!Abandon, PendingMap

LEMMA MailboxStep == Types /\ SwapIdle /\ [Next]_vars => [Box!Next]_(Box!vars)
<1> SUFFICES ASSUME Types, SwapIdle, [Next]_vars PROVE Box!Next \/ UNCHANGED Box!vars
  OBVIOUS
<1>1. ASSUME NEW t \in Posters, NEW l \in Loops, Push(t, l) PROVE Box!Next
  BY <1>1, MailboxPost DEF Box!Next
<1>2. ASSUME NEW t \in Posters, WakeUp(t) PROVE UNCHANGED Box!vars
  BY <1>2, MailboxStutter DEF WakeUp, Pending, history
<1>3. ASSUME NEW l \in Loops, LoopStep(l) \/ PollOther(l) PROVE Box!Next \/ UNCHANGED Box!vars
  <2>1. CASE StartTask(l)
    BY <2>1, MailboxStart DEF Box!Next
  <2>2. CASE TaskThrows(l) /\ swap_task[l] # <<>>
    BY <2>2, MailboxAbandon DEF Box!Next
  <2>3. CASE TaskThrows(l) /\ swap_task[l] = <<>>
    <3>1. UNCHANGED history /\ async_tasks' = async_tasks /\ swap_task' = swap_task
      BY <2>3 DEF TaskThrows, Types, history, Range
    <3> QED
      BY <3>1, MailboxStutter DEF Pending
  <2>4. CASE SwapTasks(l)
    <3>1. swap_task[l] = <<>>
      BY <2>4 DEF SwapTasks, At, SwapIdle
    <3>2. /\ swap_task' = [swap_task EXCEPT ![l] = async_tasks[l]]
          /\ async_tasks' = [async_tasks EXCEPT ![l] = <<>>]
          /\ UNCHANGED history
      BY <2>4 DEF SwapTasks
    <3>3. async_tasks[l] \o <<>> = <<>> \o async_tasks[l]
      BY EmptyConcat DEF Types
    <3>4. ASSUME NEW k \in Loops PROVE Pending(k)' = Pending(k)
      BY <3>1, <3>2, <3>3 DEF Pending, Types
    <3> QED
      BY <3>2, <3>4, MailboxStutter
  <2>5. CASE TimersDone(l) \/ PollWakeUp(l) \/ InEvent(l) \/ PollDone(l) \/ ReadSome(l)
          \/ ReadAgain(l) \/ TaskReturns(l) \/ WakeUpHandled(l) \/ PollOther(l)
    <3>1. UNCHANGED <<async_tasks, swap_task, history>>
      BY <2>5 DEF TimersDone, PollWakeUp, InEvent, PollDone, ReadSome,
        ReadAgain, TaskReturns, WakeUpHandled, PollOther, history
    <3> QED
      BY <3>1, MailboxStutter DEF Pending
  <2> QED
    BY <1>3, <2>1, <2>2, <2>3, <2>4, <2>5 DEF LoopStep
<1>4. CASE UNCHANGED vars
  BY <1>4, MailboxStutter DEF vars, history, Pending
<1> QED
  BY <1>1, <1>2, <1>3, <1>4 DEF Next, Async, AddTimeTask

(* The safety part of ImplementsMailbox, for any number of threads and      *)
(* loops and a pipe of any capacity: every step of EventLoop is a step of   *)
(* the mailbox or leaves it alone.                                          *)
THEOREM MailboxImplemented == Spec => Box!Spec
<1>1. Init => Box!Init
  BY DEF Init, Box!Init, Pending
<1> QED
  BY <1>1, TypesKept, SwapIdleAlways, MailboxStep, PTL DEF Spec, Box!Spec

=============================================================================
