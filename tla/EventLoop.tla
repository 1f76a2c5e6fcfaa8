----------------------------- MODULE EventLoop -----------------------------
(***************************************************************************)
(* The event loops of zio and the way threads hand work to them.           *)
(*                                                                         *)
(* Every loop is one thread that repeats, for ever: run the expired        *)
(* timers, wait in epoll_wait, dispatch the events.  Work comes from other *)
(* threads (and, for timers, from the loop thread itself) through          *)
(* event_loop_impl::async: append to async_tasks_ under the mutex, then,   *)
(* outside the mutex, write one byte to the non-blocking wake-up pipe.     *)
(* The loop finds the pipe readable, drains it, swaps the vector out and   *)
(* runs the tasks; an exception abandons the rest of the swapped vector.   *)
(*                                                                         *)
(* A critical section of task_mtx_ holds a single operation on             *)
(* async_tasks_, so it is one step here.  The append and the write, the    *)
(* drain and the swap, and every task are steps of their own: other        *)
(* threads run between them.                                               *)
(***************************************************************************)
EXTENDS Naturals, Sequences, SequencesExt

CONSTANTS
  Loops,         (* the loop threads, each with its event_loop_t            *)
  Threads,       (* the other threads of the program                        *)
  None,          (* no loop                                                 *)
  PipeCapacity,  (* bytes the kernel buffers in a pipe before EAGAIN        *)
  ReadSize,      (* sizeof(buf) in wake_up_pipe_t::in_event                 *)
  MaxPosts       (* bound: tasks each thread hands to each loop             *)

Posters == Loops \cup Threads

ASSUME EventLoopAssumption ==
  /\ None \notin Loops
  /\ PipeCapacity \in Nat \ {0}
  /\ ReadSize \in Nat \ {0}
  /\ MaxPosts \in Nat

VARIABLES
  pc,           (* where each loop thread is in event_loop_impl::run        *)
  async_tasks,  (* each loop's async_tasks_                                 *)
  pipe,         (* bytes in each loop's wake-up pipe                        *)
  readable,     (* events[] still holds the pipe's EPOLLIN                  *)
  swap_task,    (* the tasks on_wake_up swapped out and has not started     *)
  waking,       (* the loop whose pipe a thread has yet to write, or None   *)
  posted,       (* history: how many tasks each thread gave to each loop    *)
  started,      (* history: the tasks each loop has started, in order       *)
  dropped       (* history: the tasks each loop destroyed without a call    *)

vars == <<pc, async_tasks, pipe, readable, swap_task, waking, posted, started, dropped>>
history == <<posted, started, dropped>>

(* A task is known by the thread that posted it and its rank there. *)
Task == [from: Posters, n: Nat]

Phase == {"timers", "poll", "dispatch", "drain", "swap", "run", "task"}

(* Timer callbacks, handlers of other descriptors and tasks are user code. *)
UserPhase == {"timers", "dispatch", "task"}

-----------------------------------------------------------------------------

Init ==
  /\ pc          = [l \in Loops |-> "timers"]
  /\ async_tasks = [l \in Loops |-> <<>>]
  /\ pipe        = [l \in Loops |-> 0]
  /\ readable    = [l \in Loops |-> FALSE]
  /\ swap_task   = [l \in Loops |-> <<>>]
  /\ waking      = [t \in Posters |-> None]
  /\ posted      = [t \in Posters |-> [l \in Loops |-> 0]]
  /\ started     = [l \in Loops |-> <<>>]
  /\ dropped     = [l \in Loops |-> {}]

(* A thread may call into a loop when it executes the program's own code:   *)
(* a loop thread only from a callback, handler or task, and no thread while *)
(* an earlier call has yet to return.                                       *)
MayCall(t) ==
  /\ waking[t] = None
  /\ t \in Loops => pc[t] \in UserPhase

At(l, phase) == pc[l] = phase /\ waking[l] = None

Goto(l, phase) == pc' = [pc EXCEPT ![l] = phase]

-----------------------------------------------------------------------------
(* Handing over work. *)

(* event_loop_impl::async up to the end of the lock's scope. *)
Push(t, l) ==
  /\ MayCall(t)
  /\ posted[t][l] < MaxPosts
  /\ posted' = [posted EXCEPT ![t][l] = @ + 1]
  /\ async_tasks' = [async_tasks EXCEPT ![l] = Append(@, [from |-> t, n |-> posted[t][l] + 1])]
  /\ waking' = [waking EXCEPT ![t] = l]
  /\ UNCHANGED <<pc, pipe, readable, swap_task, started, dropped>>

(* event_loop_t::async, and add and sync, which only call it.  On the       *)
(* loop's own thread the function runs inside the caller's, which leaves    *)
(* every variable here alone.                                               *)
Async(t, l) == t # l /\ Push(t, l)

(* event_loop_impl::add_time_task: queued even on the loop's own thread. *)
AddTimeTask(t, l) == Push(t, l)

(* Seeded fault: the byte is spared when the loop does not sleep. *)
FaultyWakeUpIfAsleep(t) ==
  /\ waking[t] # None
  /\ pipe' = [pipe EXCEPT ![waking[t]] = IF pc[waking[t]] = "poll" THEN 1 ELSE @]
  /\ waking' = [waking EXCEPT ![t] = None]
  /\ UNCHANGED <<pc, async_tasks, readable, swap_task, history>>

(* wake_up_pipe_t::wake_up: a full pipe answers EAGAIN, which is ignored. *)
WakeUp(t) ==
  /\ waking[t] # None
  /\ pipe' = [pipe EXCEPT ![waking[t]] = IF @ < PipeCapacity THEN @ + 1 ELSE @]
  /\ waking' = [waking EXCEPT ![t] = None]
  /\ UNCHANGED <<pc, async_tasks, readable, swap_task, history>>

-----------------------------------------------------------------------------
(* The loop thread. *)

(* execute_time_after_task returns; Timers.tla has its body. *)
TimersDone(l) ==
  /\ At(l, "timers")
  /\ Goto(l, "poll")
  /\ UNCHANGED <<async_tasks, pipe, readable, swap_task, waking, history>>

(* epoll_wait reports the level-triggered read end of the pipe. *)
PollWakeUp(l) ==
  /\ At(l, "poll")
  /\ pipe[l] > 0
  /\ readable' = [readable EXCEPT ![l] = TRUE]
  /\ Goto(l, "dispatch")
  /\ UNCHANGED <<async_tasks, pipe, swap_task, waking, history>>

(* epoll_wait returns for other descriptors, on its timeout or on a signal. *)
PollOther(l) ==
  /\ At(l, "poll")
  /\ pipe[l] = 0
  /\ Goto(l, "dispatch") \/ Goto(l, "timers")
  /\ UNCHANGED <<async_tasks, pipe, readable, swap_task, waking, history>>

(* poll comes to the pipe's event and calls in_event. *)
InEvent(l) ==
  /\ At(l, "dispatch")
  /\ readable[l]
  /\ readable' = [readable EXCEPT ![l] = FALSE]
  /\ Goto(l, "drain")
  /\ UNCHANGED <<async_tasks, pipe, swap_task, waking, history>>

(* poll has dispatched every event and run starts over. *)
PollDone(l) ==
  /\ At(l, "dispatch")
  /\ ~readable[l]
  /\ Goto(l, "timers")
  /\ UNCHANGED <<async_tasks, pipe, readable, swap_task, waking, history>>

(* One read of in_event's loop that returns bytes. *)
ReadSome(l) ==
  /\ At(l, "drain")
  /\ pipe[l] > 0
  /\ pipe' = [pipe EXCEPT ![l] = IF @ > ReadSize THEN @ - ReadSize ELSE 0]
  /\ UNCHANGED <<pc, async_tasks, readable, swap_task, waking, history>>

(* The read that answers EAGAIN ends the loop; on_wake_up follows.  (Only   *)
(* an end of file would re-open the pipe, and the loop keeps both ends.)    *)
ReadAgain(l) ==
  /\ At(l, "drain")
  /\ pipe[l] = 0
  /\ Goto(l, "swap")
  /\ UNCHANGED <<async_tasks, pipe, readable, swap_task, waking, history>>

(* on_wake_up takes the whole vector under the lock. *)
SwapTasks(l) ==
  /\ At(l, "swap")
  /\ swap_task' = [swap_task EXCEPT ![l] = async_tasks[l]]
  /\ async_tasks' = [async_tasks EXCEPT ![l] = <<>>]
  /\ Goto(l, "run")
  /\ UNCHANGED <<pipe, readable, waking, history>>

(* Seeded fault: tasks are taken from the back. *)
FaultyStartLast(l) ==
  /\ At(l, "run")
  /\ swap_task[l] # <<>>
  /\ started' = [started EXCEPT ![l] = Append(@, Last(swap_task[l]))]
  /\ swap_task' = [swap_task EXCEPT ![l] = Front(@)]
  /\ Goto(l, "task")
  /\ UNCHANGED <<async_tasks, pipe, readable, waking, posted, dropped>>

(* on_wake_up calls the next task. *)
StartTask(l) ==
  /\ At(l, "run")
  /\ swap_task[l] # <<>>
  /\ started' = [started EXCEPT ![l] = Append(@, Head(swap_task[l]))]
  /\ swap_task' = [swap_task EXCEPT ![l] = Tail(@)]
  /\ Goto(l, "task")
  /\ UNCHANGED <<async_tasks, pipe, readable, waking, posted, dropped>>

TaskReturns(l) ==
  /\ At(l, "task")
  /\ Goto(l, "run")
  /\ UNCHANGED <<async_tasks, pipe, readable, swap_task, waking, history>>

(* Seeded fault: the handler clears async_tasks_ as well. *)
FaultyThrowClearsAll(l) ==
  /\ At(l, "task")
  /\ dropped' = [dropped EXCEPT ![l] = @ \cup Range(swap_task[l])]
  /\ swap_task' = [swap_task EXCEPT ![l] = <<>>]
  /\ async_tasks' = [async_tasks EXCEPT ![l] = <<>>]
  /\ Goto(l, "dispatch")
  /\ UNCHANGED <<pipe, readable, waking, posted, started>>

(* Seeded fault: the vector is a member, and what is left in it stays. *)
FaultyThrowLeavesRest(l) ==
  /\ At(l, "task")
  /\ dropped' = [dropped EXCEPT ![l] = @ \cup Range(swap_task[l])]
  /\ Goto(l, "dispatch")
  /\ UNCHANGED <<async_tasks, pipe, readable, swap_task, waking, posted, started>>

(* The handlers of on_wake_up's try block: the vector is destroyed with the *)
(* tasks the for statement had not reached.                                 *)
TaskThrows(l) ==
  /\ At(l, "task")
  /\ dropped' = [dropped EXCEPT ![l] = @ \cup Range(swap_task[l])]
  /\ swap_task' = [swap_task EXCEPT ![l] = <<>>]
  /\ Goto(l, "dispatch")
  /\ UNCHANGED <<async_tasks, pipe, readable, waking, posted, started>>

(* on_wake_up and in_event return to poll. *)
WakeUpHandled(l) ==
  /\ At(l, "run")
  /\ swap_task[l] = <<>>
  /\ Goto(l, "dispatch")
  /\ UNCHANGED <<async_tasks, pipe, readable, swap_task, waking, history>>

-----------------------------------------------------------------------------

(* What a loop thread does of its own accord, its user code returning. *)
LoopStep(l) ==
  \/ TimersDone(l) \/ PollWakeUp(l) \/ InEvent(l) \/ PollDone(l)
  \/ ReadSome(l) \/ ReadAgain(l) \/ SwapTasks(l)
  \/ StartTask(l) \/ TaskReturns(l) \/ TaskThrows(l) \/ WakeUpHandled(l)

Next ==
  \/ \E t \in Posters, l \in Loops : Async(t, l) \/ AddTimeTask(t, l)
  \/ \E t \in Posters : WakeUp(t)
  \/ \E l \in Loops : LoopStep(l) \/ PollOther(l)

(* Threads are scheduled and user code returns; nobody has to post, and     *)
(* epoll_wait has to return only for a readable pipe.                       *)
Fairness ==
  /\ \A t \in Posters : WF_vars(WakeUp(t))
  /\ \A l \in Loops : WF_vars(LoopStep(l))

Spec == Init /\ [][Next]_vars

FairSpec == Spec /\ Fairness

-----------------------------------------------------------------------------
(* Properties. *)

(* The variables have the types of the members they stand for. *)
Types ==
  /\ pc          \in [Loops -> Phase]
  /\ async_tasks \in [Loops -> Seq(Task)]
  /\ pipe        \in [Loops -> 0 .. PipeCapacity]
  /\ readable    \in [Loops -> BOOLEAN]
  /\ swap_task   \in [Loops -> Seq(Task)]
  /\ waking      \in [Posters -> Loops \cup {None}]
  /\ posted      \in [Posters -> [Loops -> 0 .. MaxPosts]]
  /\ started     \in [Loops -> Seq(Task)]
  /\ dropped     \in [Loops -> SUBSET Task]

(* The vector swapped out and the event being dispatched are locals: on     *)
(* every way out of on_wake_up and of poll, a throw included, nothing of    *)
(* them is left for the next call to overwrite or to run again.             *)
LocalsInScope ==
  \A l \in Loops :
    /\ swap_task[l] # <<>> => pc[l] \in {"run", "task"}
    /\ readable[l] => pc[l] = "dispatch"

TypeOK == Types /\ LocalsInScope

(* No wake-up is lost: while async_tasks_ holds a task, a byte is in the    *)
(* pipe, or a thread is about to write one, or the loop thread is past      *)
(* epoll_wait and has not swapped yet.  So no loop sleeps in epoll_wait     *)
(* over work, however in_event's reads interleave with wake_up's writes and *)
(* however full the pipe is.                                                *)
NoLostWakeUp ==
  \A l \in Loops :
    async_tasks[l] # <<>> =>
      \/ pipe[l] > 0
      \/ \E t \in Posters : waking[t] = l
      \/ pc[l] \in {"drain", "swap"}

(* Everything a loop took or has yet to take, in order. *)
Log(l) == started[l] \o swap_task[l] \o async_tasks[l]

(* Tasks of one thread start in the order it posted them, and none twice,   *)
(* across any number of swaps, throws and re-entrant posts.                 *)
PosterOrder ==
  \A l \in Loops : \A i, j \in DOMAIN Log(l) :
    i < j /\ Log(l)[i].from = Log(l)[j].from => Log(l)[i].n < Log(l)[j].n

(* Every task async accepted is in exactly one place: started, in the       *)
(* swapped vector, queued, or dropped behind a task that threw.             *)
TasksConserved ==
  \A l \in Loops :
    LET given == {[from |-> t, n |-> k] : t \in Posters, k \in 1 .. MaxPosts}
    IN  /\ Range(Log(l)) \cup dropped[l] = {x \in given : x.n <= posted[x.from][l]}
        /\ Range(Log(l)) \cap dropped[l] = {}

(* What a loop has yet to start is the rest of the swapped vector and then *)
(* the shared one.                                                         *)
Pending(l) == swap_task[l] \o async_tasks[l]

Box == INSTANCE Mailbox WITH pending <- [l \in Loops |-> Pending(l)]

(* EventLoop implements the mailbox: every step of a thread or a loop is a  *)
(* step of the mailbox or leaves it alone, and a loop with work pending     *)
(* takes it.  Refutes a queue that reorders, repeats or loses tasks.        *)
ImplementsMailbox == Box!FairSpec

(* A task the loop has accepted is started or, behind a task that throws,   *)
(* dropped: no task waits for ever, though epoll_wait may block for ever    *)
(* and the wake-up of one task may be spent on another.                     *)
TaskSettles ==
  \A l \in Loops, t \in Posters, k \in 1 .. MaxPosts :
    posted[t][l] >= k ~>
      [from |-> t, n |-> k] \in Range(started[l]) \cup dropped[l]

(* on_wake_up's comment: "flush task's".  Every accepted task is started. *)
TasksFlushed ==
  \A l \in Loops, t \in Posters, k \in 1 .. MaxPosts :
    posted[t][l] >= k ~> [from |-> t, n |-> k] \in Range(started[l])

=============================================================================
