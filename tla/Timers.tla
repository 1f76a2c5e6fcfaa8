------------------------------- MODULE Timers -------------------------------
(***************************************************************************)
(* event_timer_t, time_after_task and event_loop_impl's pass over the      *)
(* expired timers.                                                         *)
(*                                                                         *)
(* reset cancels the timer's previous task, makes a new one and sends its  *)
(* insertion into the multimap through the loop's task queue, stamped with *)
(* the deadline the caller computed.  The loop thread reads the clock once *)
(* per pass, runs what has expired at that time and sleeps in epoll_wait   *)
(* for the difference between the next deadline and that reading.          *)
(*                                                                         *)
(* Deadlines and readings are times of gettimeofday, a clock that can be   *)
(* set forward and back at any time; epoll_wait counts its timeout by a    *)
(* clock that only advances.                                               *)
(*                                                                         *)
(* The queue keeps what module Mailbox promises and EventLoop delivers;    *)
(* the tasks in it here are the insertions.  A timer is used by one thread *)
(* (it has no lock): by the loop's, from its callbacks, handlers and       *)
(* tasks, or by another.                                                   *)
(***************************************************************************)
EXTENDS Integers, Sequences, SequencesExt

CONSTANTS
  LoopTimers,    (* timers the loop thread uses                             *)
  ThreadTimers,  (* timers other threads use, each its own                  *)
  None,          (* no task                                                 *)
  Forever,       (* epoll_wait's -1                                         *)
  Intervals,     (* the msec_interval arguments of reset                    *)
  IntSpan,       (* 2^32 for a 32-bit int                                   *)
  MaxTasks,      (* bound: calls of reset                                   *)
  Shifts,        (* how far ahead of the advancing clock now_ms may be set  *)
  MaxTime,       (* bound: the clock that only advances                     *)
  MaxBusy        (* bound: the time the callbacks of one pass take          *)

Timers == LoopTimers \cup ThreadTimers
TaskId == 1 .. MaxTasks

ASSUME TimersAssumption ==
  /\ LoopTimers \cap ThreadTimers = {}
  /\ None \notin TaskId
  /\ Intervals \subseteq Nat
  /\ Shifts \subseteq Nat /\ 0 \in Shifts
  /\ Forever \notin Int
  /\ IntSpan \in Nat \ {0} /\ MaxTasks \in Nat /\ MaxTime \in Nat /\ MaxBusy \in Nat

VARIABLES
  now,               (* the clock epoll_wait counts by                      *)
  shift,             (* how far ahead of it the system's clock is set       *)
  time_after_tasks,  (* the multimap, as its entries in order               *)
  queue,             (* insertions waiting in the task queue                *)
  batch,             (* how many of them on_wake_up has swapped out         *)
  adding,            (* the insertion add_time_task is about to queue       *)
  weak_call,         (* each timer's weak_call_, None when reset            *)
  created,           (* tasks made so far                                   *)
  owner,             (* the timer a task was made for                       *)
  after_msec,        (* a task's after_msec_                                *)
  canceled,          (* a task's canceled_                                  *)
  pc,                (* where the loop thread is                            *)
  now_time,          (* the clock reading of the pass                       *)
  read_shift,        (* history: shift at that reading, kept until          *)
                     (* epoll_wait returns                                  *)
  task,              (* the task of the pass's current iteration            *)
  poll_until,        (* when epoll_wait's timeout ends                      *)
  since,             (* history: the clock at a task's creation or, as the  *)
                     (* pass had read it, at its last start                 *)
  fired,             (* history: tasks whose callback has started           *)
  late,              (* history: starts of a task after its cancel          *)
  ended              (* history: tasks that returned false, threw or whose  *)
                     (* insertion was dropped behind a task that threw      *)

clock == <<now, shift>>
reading == <<now_time, read_shift>>
loop == <<pc, reading, task, poll_until>>
object == <<weak_call, created, owner, after_msec>>
history == <<since, fired, late, ended>>
vars == <<clock, time_after_tasks, queue, batch, adding, object, canceled, loop, history>>

Entry == [at: Nat, task: TaskId]
Phase == {"pass", "scan", "call", "invoke", "callback", "poll", "events"}

-----------------------------------------------------------------------------

(* The loop was made and has yet to be run: its thread is in the program's  *)
(* code, as it is while poll calls a handler.                               *)
Init ==
  /\ now = 0
  /\ shift \in Shifts
  /\ time_after_tasks = <<>>
  /\ queue = <<>>
  /\ batch = 0
  /\ adding = [t \in Timers |-> <<>>]
  /\ weak_call = [t \in Timers |-> None]
  /\ created = 0
  /\ owner = [k \in TaskId |-> None]
  /\ after_msec = [k \in TaskId |-> 0]
  /\ canceled = [k \in TaskId |-> FALSE]
  /\ pc = "events"
  /\ now_time = 0
  /\ read_shift = 0
  /\ task = None
  /\ poll_until = Forever
  /\ since = [k \in TaskId |-> 0]
  /\ fired = {}
  /\ late = [k \in TaskId |-> 0]
  /\ ended = {}

(* times::now_ms *)
now_ms == now + shift

(* The time by the clock as it was set when the pass, or the pass before    *)
(* epoll_wait, read it.                                                     *)
pass_ms == now + read_shift

Running == IF pc \in {"call", "invoke", "callback"} THEN {task} ELSE {}

(* The tasks some shared_ptr keeps: weak_call_.lock() finds no other. *)
Alive ==
  LET entries == Range(time_after_tasks) \cup Range(queue) \cup UNION {Range(adding[t]) : t \in Timers}
  IN  {e.task : e \in entries} \cup Running

(* Seeded fault: the multimap is not kept in order. *)
FaultyEmplaceAtEnd(entries, e) == Append(entries, e)

(* multimap::emplace puts an entry behind those of the same key. *)
Emplace(entries, e) ==
  LET before == {i \in DOMAIN entries : entries[i].at <= e.at}
  IN  InsertAt(entries, Cardinality(before) + 1, e)

(* The loop thread uses its timers from the program's code only, and goes   *)
(* on when the call returns.                                                *)
MayCall(t) ==
  /\ adding[t] = <<>>
  /\ t \in LoopTimers =>
       /\ pc \in {"callback", "events"}
       /\ \A u \in LoopTimers : adding[u] = <<>>

LoopFree == \A t \in LoopTimers : adding[t] = <<>>

-----------------------------------------------------------------------------
(* event_timer_t *)

(* Seeded fault: only a task that reached the multimap is found. *)
FaultyCancelledInMap(t) ==
  IF weak_call[t] \in {e.task : e \in Range(time_after_tasks)}
  THEN [canceled EXCEPT ![weak_call[t]] = TRUE]
  ELSE canceled

Cancelled(t) ==
  IF weak_call[t] \in Alive THEN [canceled EXCEPT ![weak_call[t]] = TRUE] ELSE canceled

(* event_timer_t::reset, up to the deadline in add_time_task. *)
Reset(t, msec_interval) ==
  LET k == created + 1
  IN  /\ MayCall(t)
      /\ k \in TaskId
      /\ canceled' = Cancelled(t)
      /\ created' = k
      /\ owner' = [owner EXCEPT ![k] = t]
      /\ after_msec' = [after_msec EXCEPT ![k] = msec_interval]
      /\ weak_call' = [weak_call EXCEPT ![t] = k]
      /\ adding' = [adding EXCEPT ![t] = <<[at |-> now_ms + msec_interval, task |-> k]>>]
      /\ since' = [since EXCEPT ![k] = now_ms]
      /\ UNCHANGED <<clock, time_after_tasks, queue, batch, loop, fired, late, ended>>

(* The async call of add_time_task. *)
AddTimeTask(t) ==
  /\ adding[t] # <<>>
  /\ queue' = queue \o adding[t]
  /\ adding' = [adding EXCEPT ![t] = <<>>]
  /\ UNCHANGED <<clock, time_after_tasks, batch, object, canceled, loop, history>>

(* event_timer_t::cancel.  The destructor has the same body, and a new      *)
(* timer starts as this leaves one.                                         *)
Cancel(t) ==
  /\ MayCall(t)
  /\ weak_call[t] # None
  /\ canceled' = Cancelled(t)
  /\ weak_call' = [weak_call EXCEPT ![t] = None]
  /\ UNCHANGED <<clock, time_after_tasks, queue, batch, adding, created, owner, after_msec, loop, history>>

-----------------------------------------------------------------------------
(* event_loop_impl::execute_time_after_task, and the poll that follows. *)

(* uint64_t to int. *)
ToInt(x) == IF x % IntSpan < IntSpan \div 2 THEN x % IntSpan ELSE (x % IntSpan) - IntSpan

(* epoll_poller::poll(timed): 0 becomes -1, and a negative wait has no end. *)
Poll(timed) ==
  /\ pc' = "poll"
  /\ poll_until' = IF timed <= 0 THEN Forever ELSE now + timed
  /\ task' = None
  /\ now_time' = 0
  /\ UNCHANGED read_shift

PassNothing ==
  /\ pc = "pass"
  /\ time_after_tasks = <<>>
  /\ Poll(0)
  /\ UNCHANGED <<clock, time_after_tasks, queue, batch, adding, object, canceled, history>>

PassBegin ==
  /\ pc = "pass"
  /\ time_after_tasks # <<>>
  /\ now_time' = now_ms
  /\ read_shift' = shift
  /\ pc' = "scan"
  /\ UNCHANGED <<clock, time_after_tasks, queue, batch, adding, object, canceled, task, poll_until, history>>

(* Seeded fault: the loop sleeps until the last entry. *)
FaultyScanLast ==
  /\ pc = "scan"
  /\ Head(time_after_tasks).at > now_time
  /\ Poll(ToInt(Last(time_after_tasks).at - now_time))
  /\ UNCHANGED <<clock, time_after_tasks, queue, batch, adding, object, canceled, history>>

(* The first entry is still to come. *)
ScanFuture ==
  /\ pc = "scan"
  /\ Head(time_after_tasks).at > now_time
  /\ Poll(ToInt(Head(time_after_tasks).at - now_time))
  /\ UNCHANGED <<clock, time_after_tasks, queue, batch, adding, object, canceled, history>>

(* Seeded fault: an entry expires one millisecond early. *)
FaultyScanEarly ==
  /\ pc = "scan"
  /\ Head(time_after_tasks).at <= now_time + 1
  /\ task' = Head(time_after_tasks).task
  /\ time_after_tasks' = Tail(time_after_tasks)
  /\ pc' = "call"
  /\ UNCHANGED <<clock, queue, batch, adding, object, canceled, reading, poll_until, history>>

(* Seeded fault: the entry is not erased. *)
FaultyScanKeeps ==
  /\ pc = "scan"
  /\ Head(time_after_tasks).at <= now_time
  /\ task' = Head(time_after_tasks).task
  /\ pc' = "call"
  /\ UNCHANGED <<clock, time_after_tasks, queue, batch, adding, object, canceled, reading, poll_until, history>>

(* The first entry has expired: save its task and erase it. *)
ScanExpired ==
  /\ pc = "scan"
  /\ Head(time_after_tasks).at <= now_time
  /\ task' = Head(time_after_tasks).task
  /\ time_after_tasks' = Tail(time_after_tasks)
  /\ pc' = "call"
  /\ UNCHANGED <<clock, queue, batch, adding, object, canceled, reading, poll_until, history>>

(* Seeded fault: the pass returns 0 after one callback. *)
FaultyIterateOnce(entries) == time_after_tasks' = entries /\ Poll(0)

(* The end of an iteration of the do-while that leaves these entries. *)
Iterate(entries) ==
  /\ time_after_tasks' = entries
  /\ IF entries = <<>> THEN Poll(0)
     ELSE pc' = "scan" /\ task' = None /\ UNCHANGED <<reading, poll_until>>

(* time_after_task::call reads canceled_ ... *)
CallCanceled ==
  /\ pc = "call"
  /\ canceled[task]
  /\ Iterate(time_after_tasks)
  /\ UNCHANGED <<clock, queue, batch, adding, object, canceled, history>>

(* Seeded fault: canceled_ is not read. *)
FaultyCallAlways ==
  /\ pc = "call"
  /\ pc' = "invoke"
  /\ UNCHANGED <<clock, time_after_tasks, queue, batch, adding, object, canceled, reading, task, poll_until, history>>

CallActive ==
  /\ pc = "call"
  /\ ~canceled[task]
  /\ pc' = "invoke"
  /\ UNCHANGED <<clock, time_after_tasks, queue, batch, adding, object, canceled, reading, task, poll_until, history>>

(* ... and then calls boolean_cb_. *)
Invoke ==
  /\ pc = "invoke"
  /\ pc' = "callback"
  /\ since' = [since EXCEPT ![task] = pass_ms]
  /\ fired' = fired \cup {task}
  /\ late' = [late EXCEPT ![task] = IF canceled[task] THEN @ + 1 ELSE @]
  /\ UNCHANGED <<clock, time_after_tasks, queue, batch, adding, object, canceled, reading, task, poll_until, ended>>

(* Seeded fault: the interval is not added. *)
FaultyNextDeadline(k) == now_time

(* When a task whose callback returned true is due again. *)
NextDeadline(k) == now_time + after_msec[k]

(* The callback returned true.  With interval 0 the same pass finds the     *)
(* task again.                                                              *)
CallbackTrue ==
  /\ pc = "callback" /\ LoopFree
  /\ Iterate(Emplace(time_after_tasks, [at |-> NextDeadline(task), task |-> task]))
  /\ UNCHANGED <<clock, queue, batch, adding, object, canceled, history>>

(* The callback returned false or threw. *)
CallbackFalse ==
  /\ pc = "callback" /\ LoopFree
  /\ ended' = ended \cup {task}
  /\ Iterate(time_after_tasks)
  /\ UNCHANGED <<clock, queue, batch, adding, object, canceled, since, fired, late>>

-----------------------------------------------------------------------------
(* epoll_wait and what it dispatches. *)

PollReturns(phase) ==
  /\ pc' = phase
  /\ poll_until' = Forever
  /\ read_shift' = 0

(* The wake-up pipe was written, and on_wake_up swaps the queue out. *)
PollWakeUp ==
  /\ pc = "poll"
  /\ queue # <<>>
  /\ batch' = Len(queue)
  /\ PollReturns("events")
  /\ UNCHANGED <<clock, time_after_tasks, queue, adding, object, canceled, now_time, task, history>>

PollTimeout ==
  /\ pc = "poll"
  /\ poll_until # Forever
  /\ now >= poll_until
  /\ PollReturns("pass")
  /\ UNCHANGED <<clock, time_after_tasks, queue, batch, adding, object, canceled, now_time, task, history>>

(* Other descriptors are ready, or other tasks are queued. *)
PollOther ==
  /\ pc = "poll"
  /\ PollReturns("events")
  /\ UNCHANGED <<clock, time_after_tasks, queue, batch, adding, object, canceled, now_time, task, history>>

(* Seeded fault: the batch does not advance. *)
FaultyRunStuck ==
  /\ pc = "events" /\ LoopFree
  /\ batch > 0
  /\ time_after_tasks' = Emplace(time_after_tasks, Head(queue))
  /\ queue' = Tail(queue)
  /\ UNCHANGED <<clock, batch, adding, object, canceled, loop, history>>

(* The task add_time_task queued. *)
RunInsertion ==
  /\ pc = "events" /\ LoopFree
  /\ batch > 0
  /\ time_after_tasks' = Emplace(time_after_tasks, Head(queue))
  /\ queue' = Tail(queue)
  /\ batch' = batch - 1
  /\ UNCHANGED <<clock, adding, object, canceled, loop, history>>

(* Some other task of the batch throws: the rest of it is dropped. *)
TaskThrows ==
  /\ pc = "events" /\ LoopFree
  /\ batch > 0
  /\ ended' = ended \cup {queue[i].task : i \in 1 .. batch}
  /\ queue' = SubSeq(queue, batch + 1, Len(queue))
  /\ batch' = 0
  /\ UNCHANGED <<clock, time_after_tasks, adding, object, canceled, loop, since, fired, late>>

(* Seeded fault: after a wake-up the loop sleeps without looking at the     *)
(* timers.                                                                  *)
FaultyEventsDone ==
  /\ pc = "events" /\ LoopFree
  /\ batch = 0
  /\ Poll(0)
  /\ UNCHANGED <<clock, time_after_tasks, queue, batch, adding, object, canceled, history>>

EventsDone ==
  /\ pc = "events" /\ LoopFree
  /\ batch = 0
  /\ pc' = "pass"
  /\ UNCHANGED <<clock, time_after_tasks, queue, batch, adding, object, canceled, reading, task, poll_until, history>>

(* Time passes, on both clocks. *)
Tick ==
  /\ now < MaxTime
  /\ pc \in {"scan", "call", "invoke", "callback"} => pass_ms - now_time < MaxBusy
  /\ now' = now + 1
  /\ UNCHANGED <<shift, time_after_tasks, queue, batch, adding, object, canceled, loop, history>>

(* The system's clock is set, forward or back. *)
SetClock ==
  /\ shift' \in Shifts \ {shift}
  /\ UNCHANGED <<now, time_after_tasks, queue, batch, adding, object, canceled, loop, history>>

-----------------------------------------------------------------------------

Pass ==
  \/ PassNothing \/ PassBegin \/ ScanFuture \/ ScanExpired
  \/ CallCanceled \/ CallActive \/ Invoke \/ CallbackTrue \/ CallbackFalse

LoopStep == Pass \/ PollWakeUp \/ PollTimeout \/ RunInsertion \/ TaskThrows \/ EventsDone

Next ==
  \/ \E t \in Timers : (\E i \in Intervals : Reset(t, i)) \/ AddTimeTask(t) \/ Cancel(t)
  \/ LoopStep \/ PollOther \/ Tick \/ SetClock

(* Time passes, threads are scheduled and callbacks return.  epoll_wait     *)
(* need not return before its timeout or a wake-up, and a loop that keeps   *)
(* returning for other descriptors still gets to its queue: that is the     *)
(* liveness of Mailbox, which EventLoop implements.                         *)
Fairness ==
  /\ WF_vars(Tick)
  /\ WF_vars(LoopStep)
  /\ SF_vars(PollWakeUp)
  /\ \A t \in Timers : WF_vars(AddTimeTask(t))

Spec == Init /\ [][Next]_vars
FairSpec == Spec /\ Fairness

-----------------------------------------------------------------------------
(* Properties. *)

(* The variables have the types of the members they stand for. *)
TypeOK ==
  /\ now \in 0 .. MaxTime
  /\ shift \in Shifts
  /\ time_after_tasks \in Seq(Entry)
  /\ queue \in Seq(Entry)
  /\ batch \in 0 .. Len(queue)
  /\ adding \in [Timers -> Seq(Entry)]
  /\ weak_call \in [Timers -> TaskId \cup {None}]
  /\ created \in 0 .. MaxTasks
  /\ owner \in [TaskId -> Timers \cup {None}]
  /\ after_msec \in [TaskId -> Intervals \cup {0}]
  /\ canceled \in [TaskId -> BOOLEAN]
  /\ pc \in Phase
  /\ now_time \in Nat
  /\ read_shift \in Shifts
  /\ task \in TaskId \cup {None}
  /\ poll_until \in Nat \cup {Forever}
  /\ since \in [TaskId -> Nat]
  /\ fired \subseteq TaskId
  /\ late \in [TaskId -> 0 .. 2]
  /\ ended \subseteq TaskId

(* Where a task is, counted: a task in two places would run twice. *)
Places(k) ==
  LET At(s) == {i \in DOMAIN s : s[i].task = k}
  IN  Cardinality(At(time_after_tasks)) + Cardinality(At(queue))
      + Cardinality({t \in Timers : At(adding[t]) # {}})
      + Cardinality(Running \cap {k})

(* A task is neither lost nor doubled on its way from reset through the     *)
(* queue and the multimap to the pass and back: until it has ended or been  *)
(* cancelled it is in exactly one place, never in two, and in none once its *)
(* callback returned false (events.h: false means it does not repeat).      *)
TaskInOnePlace ==
  \A k \in 1 .. created :
    /\ Places(k) <= IF k \in ended THEN 0 ELSE 1
    /\ k \notin ended /\ ~canceled[k] => Places(k) = 1

(* However reset and cancel race with the pass, a timer has at most one     *)
(* task that can still call back.                                           *)
OneActiveTask ==
  \A j, k \in Alive : owner[j] = owner[k] /\ ~canceled[j] /\ ~canceled[k] => j = k

(* A cancel or reset by the loop thread is final: the old callback never    *)
(* starts again, not even when it is the running one and returns true.      *)
(* Another thread's cancel can be overtaken once, by a call that had read   *)
(* canceled_ before it.                                                     *)
CancelIsFinal ==
  \A k \in 1 .. created : late[k] <= IF owner[k] \in LoopTimers THEN 0 ELSE 1

(* By the clock as the pass has read it, no callback starts before its      *)
(* interval has passed since reset: if it is early, then by no more than    *)
(* the clock was set forward in between.  A repeated start may also come    *)
(* early by what the pass had already taken when the previous one started,  *)
(* because the next deadline is counted from the reading at the beginning   *)
(* of that pass.                                                            *)
NotEarly ==
  pc = "invoke" =>
    pass_ms >= since[task] + after_msec[task] - (IF task \in fired THEN MaxBusy ELSE 0)

(* Timers expire in the order of their deadlines, those inserted late       *)
(* through the queue and those put back by a callback included.             *)
EarliestFirst ==
  [][\A i \in DOMAIN time_after_tasks' :
       pc = "scan" /\ pc' = "call" => Head(time_after_tasks).at <= time_after_tasks'[i].at]_vars

(* The loop does not sleep past the next deadline by more than the          *)
(* callbacks of the pass took, because the timeout is counted from a clock  *)
(* reading that old; nor, as epoll_wait does not see the clock being set,   *)
(* by more than it is set forward after that reading.                       *)
SleepIsBounded ==
  pc = "poll" /\ time_after_tasks # <<>> =>
    /\ poll_until # Forever
    /\ poll_until + read_shift <= Head(time_after_tasks).at + MaxBusy

(* Every pass comes to its end, whatever expires while its callbacks run,   *)
(* if no interval is 0: a task of interval 0 that keeps returning true      *)
(* keeps the pass from ending.                                              *)
PassEnds == pc = "scan" ~> pc = "poll"

(* A timer that was reset calls back, unless it is cancelled or its         *)
(* insertion is dropped behind a task that threw, however often the clock   *)
(* is set between its bounds.                                               *)
ResetFires ==
  \A k \in TaskId :
    created >= k /\ since[k] + after_msec[k] + MaxBusy <= MaxTime ~>
      k \in fired \/ canceled[k] \/ k \in ended

(* events.h: a callback that returns true fires again, unless it is         *)
(* cancelled meanwhile.                                                     *)
TrueRepeats ==
  \A k \in TaskId :
    k \in fired /\ (\E e \in Range(time_after_tasks) : e.task = k /\ e.at <= MaxTime - MaxBusy) ~>
      (pc = "callback" /\ task = k) \/ canceled[k]

=============================================================================
