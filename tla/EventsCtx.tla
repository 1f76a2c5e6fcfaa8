----------------------------- MODULE EventsCtx -----------------------------
(***************************************************************************)
(* events_ctx and event_loop_pool: how threads come by their loops.        *)
(*                                                                         *)
(* default_loop is created by the first thread that asks for it and        *)
(* becomes that thread's own; the pool is created by the first thread that *)
(* asks, whatever count the others bring, and every pool thread creates    *)
(* its loop, enters it into loops_ and runs it for ever.  A loop that runs *)
(* calls the program's code, which may ask again.                          *)
(*                                                                         *)
(* std::call_once is external: one thread executes the function, the       *)
(* others wait until it has returned.                                      *)
(***************************************************************************)
EXTENDS Integers, FiniteSets

CONSTANTS
  Users,     (* the program's own threads                                   *)
  Workers,   (* threads the pool may start                                  *)
  None,      (* nullptr, no thread                                          *)
  Counts,    (* the count arguments of create_loop_pool, resolved           *)
  MaxLoops   (* bound: loops made                                           *)

Threads == Users \cup Workers
Loop == 1 .. MaxLoops

ASSUME EventsCtxAssumption ==
  /\ IsFiniteSet(Workers) /\ Users \cap Workers = {}
  /\ None \notin Threads \cup Loop
  /\ "done" \notin Threads \cup {None}
  /\ Counts \subseteq 0 .. Cardinality(Workers)
  /\ MaxLoops \in Nat

VARIABLES
  default_loop_ptr,  (* the static pointer                                  *)
  tls_loop_ptr,      (* each thread's                                       *)
  default_once_flag, (* None, the thread inside, or "done"                  *)
  pool_once_flag,    (* the same for the pool                               *)
  unstarted,         (* threads the creator of the pool has yet to start    *)
  pool_count,        (* the count of the thread that made the pool          *)
  loops_,            (* the loops in the pool's vector                      *)
  at,                (* where each thread is                                *)
  want,              (* count, while a thread is in create_loop_pool        *)
  runs,              (* the loop each thread runs                           *)
  given,             (* what default_loop last returned to each thread      *)
  made,              (* loops made so far                                   *)
  process            (* running, or how it stopped                          *)

loopVars == <<default_loop_ptr, tls_loop_ptr, made, process>>
poolVars == <<pool_once_flag, unstarted, pool_count, loops_>>
vars == <<loopVars, default_once_flag, poolVars, at, want, runs, given>>

Place == {"unborn", "user", "default", "creating", "leaving", "pool", "starting", "born", "entering", "entered"}

-----------------------------------------------------------------------------

Init ==
  /\ default_loop_ptr = None
  /\ tls_loop_ptr = [t \in Threads |-> None]
  /\ default_once_flag = None
  /\ pool_once_flag = None
  /\ unstarted = 0
  /\ pool_count = 0
  /\ loops_ = {}
  /\ at = [t \in Threads |-> IF t \in Users THEN "user" ELSE "unborn"]
  /\ want = [t \in Threads |-> 0]
  /\ runs = [t \in Threads |-> None]
  /\ given = [t \in Threads |-> None]
  /\ made = 0
  /\ process = "running"

At(t, place) == process = "running" /\ at[t] = place

Goto(t, place) == at' = [at EXCEPT ![t] = place]

-----------------------------------------------------------------------------
(* create_this_thread_loop *)

(* Z_ASSERT(!tls_loop_ptr) ends a debug build. *)
SecondLoop(t) ==
  /\ tls_loop_ptr[t] # None
  /\ process' = "asserted"
  /\ UNCHANGED <<tls_loop_ptr, made>>

FirstLoop(t) ==
  /\ tls_loop_ptr[t] = None
  /\ made < MaxLoops
  /\ made' = made + 1
  /\ tls_loop_ptr' = [tls_loop_ptr EXCEPT ![t] = made + 1]
  /\ UNCHANGED process

create_this_thread_loop(t) ==
  /\ At(t, "user")
  /\ FirstLoop(t) \/ SecondLoop(t)
  /\ UNCHANGED <<default_loop_ptr, default_once_flag, poolVars, at, want, runs, given>>

-----------------------------------------------------------------------------
(* default_loop *)

(* The first look at the pointer, without synchronisation. *)
default_loop(t) ==
  /\ At(t, "user")
  /\ IF default_loop_ptr # None
     THEN given' = [given EXCEPT ![t] = default_loop_ptr] /\ UNCHANGED at
     ELSE Goto(t, "default") /\ UNCHANGED given
  /\ UNCHANGED <<loopVars, default_once_flag, poolVars, want, runs>>

(* Seeded fault: the flag is not tested. *)
FaultyDefaultOnce(t) ==
  /\ At(t, "default")
  /\ default_once_flag' = t
  /\ Goto(t, "creating")
  /\ UNCHANGED <<loopVars, poolVars, want, runs, given>>

(* call_once lets the first thread in ... *)
DefaultOnce(t) ==
  /\ At(t, "default")
  /\ default_once_flag = None
  /\ default_once_flag' = t
  /\ Goto(t, "creating")
  /\ UNCHANGED <<loopVars, poolVars, want, runs, given>>

(* ... and the others past when that one has returned. *)
DefaultDone(t) ==
  /\ At(t, "default")
  /\ default_once_flag = "done"
  /\ given' = [given EXCEPT ![t] = default_loop_ptr]
  /\ Goto(t, "user")
  /\ UNCHANGED <<loopVars, default_once_flag, poolVars, want, runs>>

CreateDefault(t) ==
  /\ At(t, "creating")
  /\ FirstLoop(t) \/ SecondLoop(t)
  /\ default_loop_ptr' = IF process' = "running" THEN made' ELSE default_loop_ptr
  /\ Goto(t, "leaving")
  /\ UNCHANGED <<default_once_flag, poolVars, want, runs, given>>

(* Seeded fault: the flag is left as it is. *)
FaultyLeaveDefault(t) ==
  /\ At(t, "leaving")
  /\ given' = [given EXCEPT ![t] = default_loop_ptr]
  /\ Goto(t, "user")
  /\ UNCHANGED <<loopVars, default_once_flag, poolVars, want, runs>>

LeaveDefault(t) ==
  /\ At(t, "leaving")
  /\ default_once_flag' = "done"
  /\ given' = [given EXCEPT ![t] = default_loop_ptr]
  /\ Goto(t, "user")
  /\ UNCHANGED <<loopVars, poolVars, want, runs>>

-----------------------------------------------------------------------------
(* create_loop_pool *)

create_loop_pool(t, count) ==
  /\ At(t, "user")
  /\ want' = [want EXCEPT ![t] = count]
  /\ Goto(t, "pool")
  /\ UNCHANGED <<loopVars, default_once_flag, poolVars, runs, given>>

(* Seeded fault: a later caller's threads are started as well. *)
FaultyPoolDone(t) ==
  /\ At(t, "pool")
  /\ pool_once_flag = "done"
  /\ pool_once_flag' = t
  /\ unstarted' = want[t]
  /\ Goto(t, "starting")
  /\ UNCHANGED <<loopVars, default_once_flag, pool_count, loops_, want, runs, given>>

PoolOnce(t) ==
  /\ At(t, "pool")
  /\ pool_once_flag = None
  /\ pool_once_flag' = t
  /\ unstarted' = want[t]
  /\ pool_count' = want[t]
  /\ Goto(t, "starting")
  /\ UNCHANGED <<loopVars, default_once_flag, loops_, want, runs, given>>

PoolDone(t) ==
  /\ At(t, "pool")
  /\ pool_once_flag = "done"
  /\ want' = [want EXCEPT ![t] = 0]
  /\ Goto(t, "user")
  /\ UNCHANGED <<loopVars, default_once_flag, poolVars, runs, given>>

(* Seeded fault: the loop runs once too often. *)
FaultyStartThread(t) ==
  /\ At(t, "starting")
  /\ unstarted >= 0
  /\ \E w \in Workers : at[w] = "unborn" /\ at' = [at EXCEPT ![w] = "born"]
  /\ unstarted' = unstarted - 1
  /\ UNCHANGED <<loopVars, default_once_flag, pool_once_flag, pool_count, loops_, want, runs, given>>

(* event_loop_pool::create starts the next thread. *)
StartThread(t) ==
  /\ At(t, "starting")
  /\ unstarted > 0
  /\ \E w \in Workers : at[w] = "unborn" /\ at' = [at EXCEPT ![w] = "born"]
  /\ unstarted' = unstarted - 1
  /\ UNCHANGED <<loopVars, default_once_flag, pool_once_flag, pool_count, loops_, want, runs, given>>

LeavePool(t) ==
  /\ At(t, "starting")
  /\ unstarted = 0
  /\ pool_once_flag' = "done"
  /\ want' = [want EXCEPT ![t] = 0]
  /\ Goto(t, "user")
  /\ UNCHANGED <<loopVars, default_once_flag, unstarted, pool_count, loops_, runs, given>>

-----------------------------------------------------------------------------
(* A thread of the pool. *)

WorkerCreates(w) ==
  /\ At(w, "born")
  /\ FirstLoop(w) \/ SecondLoop(w)
  /\ Goto(w, "entering")
  /\ UNCHANGED <<default_loop_ptr, default_once_flag, poolVars, want, runs, given>>

(* loops_.emplace_back, without a lock. *)
WorkerEnters(w) ==
  /\ At(w, "entering")
  /\ loops_' = loops_ \cup {tls_loop_ptr[w]}
  /\ Goto(w, "entered")
  /\ UNCHANGED <<loopVars, default_once_flag, pool_once_flag, unstarted, pool_count, want, runs, given>>

(* Two threads in emplace_back at once: anything may happen. *)
VectorRace ==
  /\ process = "running"
  /\ \E v, w \in Workers : v # w /\ at[v] = "entering" /\ at[w] = "entering"
  /\ process' = "undefined"
  /\ UNCHANGED <<default_loop_ptr, tls_loop_ptr, made, default_once_flag, poolVars, at, want, runs, given>>

(* set_loop_name runs inline, and run_loop does not return: from here on    *)
(* the thread is in the program's code, called by its loop.                 *)
WorkerRuns(w) ==
  /\ At(w, "entered")
  /\ runs' = [runs EXCEPT ![w] = tls_loop_ptr[w]]
  /\ Goto(w, "user")
  /\ UNCHANGED <<loopVars, default_once_flag, poolVars, want, given>>

(* run_loop, on a loop the thread created or was given. *)
run_loop(t) ==
  /\ At(t, "user")
  /\ runs[t] = None
  /\ \E l \in {tls_loop_ptr[t], given[t]} \ {None} : runs' = [runs EXCEPT ![t] = l]
  /\ UNCHANGED <<loopVars, default_once_flag, poolVars, at, want, given>>

-----------------------------------------------------------------------------

(* What a thread does inside events_ctx once it has called it. *)
CtxStep(t) ==
  \/ DefaultOnce(t) \/ DefaultDone(t) \/ CreateDefault(t) \/ LeaveDefault(t)
  \/ PoolOnce(t) \/ PoolDone(t) \/ StartThread(t) \/ LeavePool(t)

WorkerStep(w) == WorkerCreates(w) \/ WorkerEnters(w) \/ WorkerRuns(w)

Next ==
  \/ \E t \in Threads :
       \/ CtxStep(t) \/ default_loop(t) \/ create_this_thread_loop(t) \/ run_loop(t)
       \/ \E count \in Counts : create_loop_pool(t, count)
  \/ \E w \in Workers : WorkerStep(w)
  \/ VectorRace

(* Threads are scheduled. *)
Fairness ==
  /\ \A t \in Threads : WF_vars(CtxStep(t))
  /\ \A w \in Workers : WF_vars(WorkerStep(w))

Spec == Init /\ [][Next]_vars
FairSpec == Spec /\ Fairness

-----------------------------------------------------------------------------
(* Properties. *)

(* The variables have the types of the objects they stand for. *)
TypeOK ==
  /\ default_loop_ptr \in Loop \cup {None}
  /\ tls_loop_ptr \in [Threads -> Loop \cup {None}]
  /\ default_once_flag \in Threads \cup {None, "done"}
  /\ pool_once_flag \in Threads \cup {None, "done"}
  /\ unstarted \in 0 .. Cardinality(Workers)
  /\ pool_count \in Counts \cup {0}
  /\ loops_ \subseteq Loop
  /\ at \in [Threads -> Place]
  /\ want \in [Threads -> Counts \cup {0}]
  /\ runs \in [Threads -> Loop \cup {None}]
  /\ given \in [Threads -> Loop \cup {None}]
  /\ made \in 0 .. MaxLoops
  /\ process \in {"running", "asserted", "undefined"}

(* default_loop returns one and the same loop to every thread, however many *)
(* asked while it was being made, and never nullptr.                        *)
OneDefaultLoop ==
  /\ \A t \in Threads : given[t] \in {None, default_loop_ptr}
  /\ default_once_flag = "done" => default_loop_ptr # None

Started == {w \in Workers : at[w] # "unborn"}

(* There is one pool: its threads are as many as the thread that made it    *)
(* asked for, whatever later callers bring, and loops_ holds their loops.   *)
OnePool ==
  /\ Cardinality(Started) + unstarted = pool_count
  /\ pool_once_flag = "done" => unstarted = 0
  /\ loops_ = {tls_loop_ptr[w] : w \in {v \in Workers : at[v] \notin {"unborn", "born", "entering"}}}

(* Every call of events_ctx returns: the two once flags never wait for each *)
(* other, and a pool thread never for its creator.                          *)
CallsReturn ==
  \A t \in Threads :
    at[t] \in {"default", "creating", "leaving", "pool", "starting"} ~>
      at[t] = "user" \/ process # "running"

=============================================================================
