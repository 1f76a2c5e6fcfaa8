-------------------------- MODULE EventsCtx_proofs --------------------------
(***************************************************************************)
(* One default loop and one pool, for any threads and any counts.          *)
(*                                                                         *)
(* The default loop: whoever is inside the first call_once holds its flag, *)
(* so one thread at most is there, and the pointer is set between its two  *)
(* steps and never again.  The pool: the same for the second flag, and a   *)
(* pool thread has its loop from its first step on and gets no other.      *)
(***************************************************************************)
EXTENDS EventsCtx, FiniteSetTheorems, TLAPS

LEMMA ThreadsFact ==
  /\ Users \subseteq Threads /\ Workers \subseteq Threads
  /\ None \notin Threads /\ None \notin Loop
  /\ "done" \notin Threads /\ "done" # None
  BY EventsCtxAssumption DEF Threads

(* A pool thread has a loop exactly from its first step on. *)
WorkersBound ==
  \A w \in Workers : tls_loop_ptr[w] = None <=> at[w] \in {"unborn", "born"}

(* The thread inside the first call_once holds its flag; the pointer is     *)
(* null until that thread has made the loop.                                *)
DefaultInv ==
  /\ \A t \in Threads : at[t] \in {"creating", "leaving"} => default_once_flag = t
  /\ \A t \in Threads : at[t] = "creating" => default_loop_ptr = None
  /\ \A t \in Threads : at[t] = "leaving" => default_loop_ptr # None \/ process # "running"
  /\ default_once_flag = None => default_loop_ptr = None

(* The thread inside the second call_once holds its flag; before it no pool *)
(* thread was started.                                                      *)
PoolInv ==
  /\ \A t \in Threads : at[t] = "starting" => pool_once_flag = t
  /\ pool_once_flag = None => Started = {} /\ unstarted = 0

IInv == TypeOK /\ WorkersBound /\ DefaultInv /\ OneDefaultLoop /\ PoolInv /\ OnePool

-----------------------------------------------------------------------------
(* Types. *)

LEMMA InitType == Init => TypeOK
<1> SUFFICES ASSUME Init PROVE TypeOK
  OBVIOUS
<1>1. Cardinality(Workers) \in Nat
  BY EventsCtxAssumption, FS_CardinalityType
<1> QED
  BY <1>1, EventsCtxAssumption DEF Init, TypeOK, Place

LEMMA FirstLoopType ==
  ASSUME TypeOK, NEW t \in Threads, FirstLoop(t) \/ SecondLoop(t)
  PROVE  /\ tls_loop_ptr' \in [Threads -> Loop \cup {None}]
         /\ made' \in 0 .. MaxLoops
         /\ process' \in {"running", "asserted", "undefined"}
         /\ process' = "running" => made' \in Loop
<1>1. CASE FirstLoop(t)
  <2>1. made + 1 \in Loop /\ made + 1 \in 0 .. MaxLoops
    BY <1>1, EventsCtxAssumption DEF FirstLoop, TypeOK, Loop
  <2> QED
    BY <1>1, <2>1 DEF FirstLoop, TypeOK
<1>2. CASE SecondLoop(t)
  BY <1>2 DEF SecondLoop, TypeOK
<1> QED
  BY <1>1, <1>2

LEMMA GotoType ==
  ASSUME TypeOK, NEW t \in Threads, NEW p \in Place, Goto(t, p)
  PROVE  at' \in [Threads -> Place]
  BY DEF Goto, TypeOK

LEMMA CtxType ==
  ASSUME TypeOK, NEW t \in Threads, CtxStep(t)
  PROVE  TypeOK'
<1> USE DEF loopVars, poolVars
<1>0. Cardinality(Workers) \in Nat /\ Counts \subseteq 0 .. Cardinality(Workers)
  BY EventsCtxAssumption, FS_CardinalityType
<1>p. /\ "creating" \in Place /\ "leaving" \in Place /\ "user" \in Place
      /\ "starting" \in Place /\ "born" \in Place
  BY DEF Place
<1>1. CASE DefaultOnce(t)
  BY <1>1, <1>p, GotoType DEF DefaultOnce, TypeOK
<1>2. CASE DefaultDone(t)
  BY <1>2, <1>p, GotoType DEF DefaultDone, TypeOK
<1>3. CASE CreateDefault(t)
  <2>1. at' \in [Threads -> Place]
    BY <1>3, <1>p, GotoType DEF CreateDefault
  <2>2. default_loop_ptr' \in Loop \cup {None}
    BY <1>3, FirstLoopType DEF CreateDefault, TypeOK
  <2> QED
    BY <1>3, <2>1, <2>2, FirstLoopType DEF CreateDefault, TypeOK
<1>4. CASE LeaveDefault(t)
  BY <1>4, <1>p, GotoType DEF LeaveDefault, TypeOK
<1>5. CASE PoolOnce(t)
  BY <1>0, <1>5, <1>p, GotoType DEF PoolOnce, TypeOK
<1>6. CASE PoolDone(t)
  BY <1>6, <1>p, GotoType DEF PoolDone, TypeOK
<1>7. CASE StartThread(t)
  <2>1. unstarted' \in 0 .. Cardinality(Workers)
    BY <1>0, <1>7 DEF StartThread, TypeOK
  <2>2. at' \in [Threads -> Place]
    BY <1>7, <1>p DEF StartThread, TypeOK
  <2> QED
    BY <1>7, <2>1, <2>2 DEF StartThread, TypeOK
<1>8. CASE LeavePool(t)
  BY <1>8, <1>p, GotoType DEF LeavePool, TypeOK
<1> QED
  BY <1>1, <1>2, <1>3, <1>4, <1>5, <1>6, <1>7, <1>8 DEF CtxStep

LEMMA OtherType ==
  ASSUME TypeOK, WorkersBound, NEW t \in Threads,
         \/ default_loop(t) \/ create_this_thread_loop(t) \/ run_loop(t)
         \/ \E count \in Counts : create_loop_pool(t, count)
         \/ t \in Workers /\ WorkerStep(t)
         \/ VectorRace
  PROVE  TypeOK'
<1> USE DEF loopVars, poolVars
<1>p. /\ "default" \in Place /\ "pool" \in Place /\ "user" \in Place
      /\ "entering" \in Place /\ "entered" \in Place
  BY DEF Place
<1>1. CASE default_loop(t)
  BY <1>1, <1>p, GotoType DEF default_loop, TypeOK
<1>2. CASE create_this_thread_loop(t)
  BY <1>2, FirstLoopType DEF create_this_thread_loop, TypeOK
<1>3. CASE run_loop(t)
  BY <1>3 DEF run_loop, TypeOK
<1>4. CASE \E count \in Counts : create_loop_pool(t, count)
  BY <1>4, <1>p, GotoType DEF create_loop_pool, TypeOK
<1>5. CASE WorkerCreates(t)
  BY <1>5, <1>p, FirstLoopType, GotoType DEF WorkerCreates, TypeOK
<1>6. CASE t \in Workers /\ WorkerEnters(t)
  <2>1. tls_loop_ptr[t] \in Loop
    BY <1>6 DEF WorkerEnters, At, WorkersBound, TypeOK
  <2> QED
    BY <1>6, <1>p, <2>1, GotoType DEF WorkerEnters, TypeOK
<1>7. CASE WorkerRuns(t)
  BY <1>7, <1>p, GotoType DEF WorkerRuns, TypeOK
<1>8. CASE VectorRace
  BY <1>8 DEF VectorRace, TypeOK
<1> QED
  BY <1>1, <1>2, <1>3, <1>4, <1>5, <1>6, <1>7, <1>8 DEF WorkerStep

LEMMA TypeStep == TypeOK /\ WorkersBound /\ [Next]_vars => TypeOK'
<1> SUFFICES ASSUME TypeOK, WorkersBound, [Next]_vars PROVE TypeOK'
  OBVIOUS
<1>1. CASE UNCHANGED vars
  BY <1>1 DEF vars, loopVars, poolVars, TypeOK
<1>2. CASE VectorRace
  BY <1>2 DEF VectorRace, loopVars, poolVars, TypeOK
<1>3. CASE Next
  BY <1>2, <1>3, CtxType, OtherType, ThreadsFact DEF Next
<1> QED
  BY <1>1, <1>3

-----------------------------------------------------------------------------
(* Pool threads and their loops. *)

(* What one step may do to the places and the loops: at most one thread     *)
(* moves, one is given its first loop, one is started.                      *)
LEMMA BoundStep == TypeOK /\ WorkersBound /\ [Next]_vars => WorkersBound'
<1> SUFFICES ASSUME TypeOK, WorkersBound, [Next]_vars PROVE WorkersBound'
  OBVIOUS
<1> USE ThreadsFact DEF TypeOK, WorkersBound, loopVars, poolVars, At, Goto
<1>1. ASSUME NEW t \in Threads, CtxStep(t) PROVE WorkersBound'
  <2>1. CASE DefaultOnce(t) \/ DefaultDone(t) \/ LeaveDefault(t) \/ PoolOnce(t) \/ PoolDone(t) \/ LeavePool(t)
    <3>1. tls_loop_ptr' = tls_loop_ptr /\ at[t] \notin {"unborn", "born"}
      BY <2>1 DEF DefaultOnce, DefaultDone, LeaveDefault, PoolOnce, PoolDone, LeavePool
    <3>2. at'[t] \notin {"unborn", "born"} /\ \A w \in Threads \ {t} : at'[w] = at[w]
      BY <2>1 DEF DefaultOnce, DefaultDone, LeaveDefault, PoolOnce, PoolDone, LeavePool
    <3> QED
      BY <3>1, <3>2
  <2>2. CASE CreateDefault(t)
    <3>1. at[t] = "creating" /\ at'[t] = "leaving" /\ \A w \in Threads \ {t} : at'[w] = at[w]
      BY <2>2 DEF CreateDefault
    <3>2. \A w \in Workers : tls_loop_ptr'[w] = tls_loop_ptr[w]
      BY <2>2, <3>1 DEF CreateDefault, FirstLoop, SecondLoop
    <3> QED
      BY <3>1, <3>2
  <2>3. CASE StartThread(t)
    BY <2>3 DEF StartThread
  <2> QED
    BY <1>1, <2>1, <2>2, <2>3 DEF CtxStep
<1>2. ASSUME NEW t \in Threads, default_loop(t) \/ run_loop(t) \/ \E count \in Counts : create_loop_pool(t, count)
      PROVE  WorkersBound'
  <2>1. tls_loop_ptr' = tls_loop_ptr /\ at[t] = "user"
    BY <1>2 DEF default_loop, run_loop, create_loop_pool
  <2>2. at'[t] \in {"user", "default", "pool"} /\ \A w \in Threads \ {t} : at'[w] = at[w]
    BY <1>2, <2>1 DEF default_loop, run_loop, create_loop_pool
  <2> QED
    BY <2>1, <2>2
<1>3. ASSUME NEW t \in Threads, create_this_thread_loop(t) PROVE WorkersBound'
  <2>1. at[t] = "user" /\ at' = at
    BY <1>3 DEF create_this_thread_loop
  <2>2. \A w \in Workers : tls_loop_ptr'[w] = tls_loop_ptr[w]
    BY <1>3, <2>1 DEF create_this_thread_loop, FirstLoop, SecondLoop
  <2> QED
    BY <2>1, <2>2
<1>4. ASSUME NEW w \in Workers, WorkerStep(w) PROVE WorkersBound'
  <2>1. CASE WorkerCreates(w)
    <3>1. tls_loop_ptr[w] = None /\ FirstLoop(w)
      BY <2>1 DEF WorkerCreates, SecondLoop
    <3>2. made + 1 # None
      BY <3>1, EventsCtxAssumption DEF FirstLoop, Loop
    <3> QED
      BY <2>1, <3>1, <3>2 DEF WorkerCreates, FirstLoop
  <2>2. CASE WorkerEnters(w)
    BY <2>2 DEF WorkerEnters
  <2>3. CASE WorkerRuns(w)
    BY <2>3 DEF WorkerRuns
  <2> QED
    BY <1>4, <2>1, <2>2, <2>3 DEF WorkerStep
<1>5. CASE VectorRace
  BY <1>5 DEF VectorRace
<1>6. CASE UNCHANGED vars
  BY <1>6 DEF vars
<1> QED
  BY <1>1, <1>2, <1>3, <1>4, <1>5, <1>6 DEF Next

-----------------------------------------------------------------------------
(* The default loop. *)

(* Steps that have nothing to do with the first call_once. *)
LEMMA DefaultAway ==
  ASSUME DefaultInv, OneDefaultLoop,
         UNCHANGED <<default_loop_ptr, default_once_flag>>,
         \A t \in Threads : given'[t] \in {given[t], default_loop_ptr},
         \A t \in Threads : at'[t] \in {"creating", "leaving"} => at'[t] = at[t],
         process' = process \/ process' # "running"
  PROVE  DefaultInv' /\ OneDefaultLoop'
<1>1. DefaultInv'
  BY DEF DefaultInv
<1>2. OneDefaultLoop'
  BY DEF OneDefaultLoop
<1> QED
  BY <1>1, <1>2

LEMMA DefaultStep == IInv /\ [Next]_vars => DefaultInv' /\ OneDefaultLoop'
<1> SUFFICES ASSUME IInv, [Next]_vars PROVE DefaultInv' /\ OneDefaultLoop'
  OBVIOUS
<1>0. TypeOK /\ DefaultInv /\ OneDefaultLoop
  BY DEF IInv
<1> USE ThreadsFact DEF loopVars, poolVars, At, Goto
<1>1. ASSUME NEW t \in Threads, DefaultOnce(t) PROVE DefaultInv' /\ OneDefaultLoop'
  BY <1>0, <1>1 DEF DefaultOnce, TypeOK, DefaultInv, OneDefaultLoop
<1>2. ASSUME NEW t \in Threads, CreateDefault(t) PROVE DefaultInv' /\ OneDefaultLoop'
  <2>1. /\ at[t] = "creating" /\ at' = [at EXCEPT ![t] = "leaving"]
        /\ default_once_flag' = default_once_flag /\ given' = given
        /\ default_loop_ptr = None /\ default_once_flag = t
    BY <1>0, <1>2 DEF CreateDefault, DefaultInv
  <2>2. process' = "running" => default_loop_ptr' \in Loop
    BY <1>0, <1>2, FirstLoopType DEF CreateDefault
  <2>3. \A u \in Threads : given[u] = None
    BY <1>0, <2>1 DEF OneDefaultLoop
  <2>4. \A u \in Threads \ {t} : at'[u] = at[u] /\ at[u] \notin {"creating", "leaving"}
    BY <1>0, <2>1 DEF DefaultInv, TypeOK
  <2>5. at'[t] = "leaving"
    BY <1>0, <2>1 DEF TypeOK
  <2>6. DefaultInv'
    BY <2>1, <2>2, <2>4, <2>5 DEF DefaultInv
  <2>7. OneDefaultLoop'
    BY <2>1, <2>3 DEF OneDefaultLoop
  <2> QED
    BY <2>6, <2>7
<1>3. ASSUME NEW t \in Threads, LeaveDefault(t) PROVE DefaultInv' /\ OneDefaultLoop'
  <2>1. /\ at[t] = "leaving" /\ process = "running" /\ process' = process
        /\ at' = [at EXCEPT ![t] = "user"] /\ default_once_flag' = "done"
        /\ default_loop_ptr' = default_loop_ptr /\ given' = [given EXCEPT ![t] = default_loop_ptr]
    BY <1>3 DEF LeaveDefault
  <2>2. default_once_flag = t /\ default_loop_ptr # None
    BY <1>0, <2>1 DEF DefaultInv
  <2>3. \A u \in Threads : at'[u] \notin {"creating", "leaving"}
    BY <1>0, <2>1, <2>2 DEF DefaultInv, TypeOK
  <2>4. DefaultInv'
    BY <2>1, <2>2, <2>3 DEF DefaultInv
  <2>5. OneDefaultLoop'
    BY <1>0, <2>1, <2>2 DEF OneDefaultLoop, TypeOK
  <2> QED
    BY <2>4, <2>5
<1>4. ASSUME NEW t \in Threads, DefaultDone(t) \/ default_loop(t) PROVE DefaultInv' /\ OneDefaultLoop'
  BY <1>0, <1>4, DefaultAway DEF DefaultDone, default_loop, TypeOK
<1>5. ASSUME NEW t \in Threads, PoolOnce(t) \/ PoolDone(t) \/ LeavePool(t) \/ \E count \in Counts : create_loop_pool(t, count)
      PROVE  DefaultInv' /\ OneDefaultLoop'
  BY <1>0, <1>5, DefaultAway DEF PoolOnce, PoolDone, LeavePool, create_loop_pool, TypeOK
<1>6. ASSUME NEW t \in Threads, StartThread(t) PROVE DefaultInv' /\ OneDefaultLoop'
  BY <1>0, <1>6, DefaultAway DEF StartThread, TypeOK
<1>7. ASSUME NEW t \in Threads, create_this_thread_loop(t) \/ run_loop(t) PROVE DefaultInv' /\ OneDefaultLoop'
  BY <1>0, <1>7, DefaultAway DEF create_this_thread_loop, run_loop, FirstLoop, SecondLoop
<1>8. ASSUME NEW w \in Workers, WorkerStep(w) PROVE DefaultInv' /\ OneDefaultLoop'
  BY <1>0, <1>8, DefaultAway DEF WorkerStep, WorkerCreates, WorkerEnters, WorkerRuns, FirstLoop, SecondLoop, TypeOK
<1>9. CASE VectorRace
  BY <1>0, <1>9, DefaultAway DEF VectorRace
<1>10. CASE UNCHANGED vars
  BY <1>0, <1>10, DefaultAway DEF vars
<1> QED
  BY <1>1, <1>2, <1>3, <1>4, <1>5, <1>6, <1>7, <1>8, <1>9, <1>10 DEF Next, CtxStep
-----------------------------------------------------------------------------
(* The pool. *)

(* Places of a pool thread whose loop is not yet in loops_. *)
Early == {"unborn", "born", "entering"}

(* Steps that have nothing to do with the second call_once. *)
LEMMA PoolAway ==
  ASSUME PoolInv, OnePool,
         UNCHANGED <<pool_once_flag, unstarted, pool_count, loops_>>,
         \A t \in Threads : at'[t] = "starting" => at[t] = "starting",
         \A w \in Workers : at'[w] = "unborn" <=> at[w] = "unborn",
         \A w \in Workers : at'[w] \in Early <=> at[w] \in Early,
         \A w \in Workers : at[w] \notin Early => tls_loop_ptr'[w] = tls_loop_ptr[w]
  PROVE  PoolInv' /\ OnePool'
<1>1. Started' = Started
  BY DEF Started
<1>2. {tls_loop_ptr'[w] : w \in {v \in Workers : at'[v] \notin Early}}
        = {tls_loop_ptr[w] : w \in {v \in Workers : at[v] \notin Early}}
  OBVIOUS
<1>3. PoolInv'
  BY <1>1 DEF PoolInv
<1>4. OnePool'
  BY <1>1, <1>2 DEF OnePool, Early
<1> QED
  BY <1>3, <1>4

(* The places of threads that do not stand at a place of the pool's own. *)
LEMMA PlacesAway ==
  ASSUME TypeOK, NEW t \in Threads, NEW p \in Place,
         at[t] \notin Early, p \notin Early \cup {"starting"}, Goto(t, p) \/ UNCHANGED at
  PROVE  /\ \A u \in Threads : at'[u] = "starting" => at[u] = "starting"
         /\ \A w \in Workers : at'[w] = "unborn" <=> at[w] = "unborn"
         /\ \A w \in Workers : at'[w] \in Early <=> at[w] \in Early
  BY ThreadsFact DEF TypeOK, Goto, Early

LEMMA DefaultKeepsPool ==
  ASSUME IInv, NEW t \in Threads,
         \/ DefaultOnce(t) \/ DefaultDone(t) \/ CreateDefault(t) \/ LeaveDefault(t)
         \/ PoolDone(t)
         \/ default_loop(t) \/ create_this_thread_loop(t) \/ run_loop(t)
         \/ \E count \in Counts : create_loop_pool(t, count)
  PROVE  PoolInv' /\ OnePool'
<1>0. TypeOK /\ WorkersBound /\ PoolInv /\ OnePool
  BY DEF IInv
<1> USE DEF loopVars, poolVars, At
<1>1. at[t] \notin Early
  BY DEF DefaultOnce, DefaultDone, CreateDefault, LeaveDefault, PoolDone,
         default_loop, create_this_thread_loop, run_loop, create_loop_pool, Early
<1>2. UNCHANGED <<pool_once_flag, unstarted, pool_count, loops_>>
  BY DEF DefaultOnce, DefaultDone, CreateDefault, LeaveDefault, PoolDone,
         default_loop, create_this_thread_loop, run_loop, create_loop_pool
<1>3. \/ Goto(t, "creating") \/ Goto(t, "leaving") \/ Goto(t, "user") \/ Goto(t, "default") \/ Goto(t, "pool")
      \/ UNCHANGED at
  BY DEF DefaultOnce, DefaultDone, CreateDefault, LeaveDefault, PoolDone,
         default_loop, create_this_thread_loop, run_loop, create_loop_pool
<1>4. \A w \in Workers : at[w] \notin Early => tls_loop_ptr'[w] = tls_loop_ptr[w]
  <2>1. CASE CreateDefault(t) \/ create_this_thread_loop(t)
    <3> SUFFICES ASSUME NEW w \in Workers, at[w] \notin Early PROVE tls_loop_ptr'[w] = tls_loop_ptr[w]
      OBVIOUS
    <3>1. tls_loop_ptr[w] # None
      BY <1>0 DEF WorkersBound, Early
    <3>2. FirstLoop(t) \/ SecondLoop(t)
      BY <2>1 DEF CreateDefault, create_this_thread_loop
    <3>3. CASE FirstLoop(t)
      BY <1>0, <3>1, <3>3 DEF FirstLoop, TypeOK
    <3>4. CASE SecondLoop(t)
      BY <3>4 DEF SecondLoop
    <3> QED
      BY <3>2, <3>3, <3>4
  <2>2. CASE ~(CreateDefault(t) \/ create_this_thread_loop(t))
    BY <2>2 DEF DefaultOnce, DefaultDone, LeaveDefault, PoolDone,
                default_loop, run_loop, create_loop_pool
  <2> QED
    BY <2>1, <2>2
<1>5. /\ \A u \in Threads : at'[u] = "starting" => at[u] = "starting"
      /\ \A w \in Workers : at'[w] = "unborn" <=> at[w] = "unborn"
      /\ \A w \in Workers : at'[w] \in Early <=> at[w] \in Early
  <2>1. \A p \in {"creating", "leaving", "user", "default", "pool"} : p \in Place /\ p \notin Early \cup {"starting"}
    BY DEF Place, Early
  <2>2. "user" \in Place /\ "user" \notin Early \cup {"starting"}
    BY <2>1
  <2>3. CASE UNCHANGED at
    BY <1>0, <1>1, <2>2, <2>3, PlacesAway
  <2>4. CASE \E p \in {"creating", "leaving", "user", "default", "pool"} : Goto(t, p)
    BY <1>0, <1>1, <2>1, <2>4, PlacesAway
  <2> QED
    BY <1>3, <2>3, <2>4
<1> QED
  BY <1>0, <1>2, <1>4, <1>5, PoolAway

(* A pool thread is started: one more in Started, one less to start. *)
LEMMA StartedGrows ==
  ASSUME TypeOK, NEW t \in Threads, StartThread(t)
  PROVE  /\ Cardinality(Started') = Cardinality(Started) + 1
         /\ Cardinality(Started) \in Nat
         /\ {v \in Workers : at'[v] \notin Early} = {v \in Workers : at[v] \notin Early}
         /\ \A u \in Threads : at'[u] = "starting" => at[u] = "starting"
<1>1. PICK w \in Workers : at[w] = "unborn" /\ at' = [at EXCEPT ![w] = "born"]
  BY DEF StartThread
<1>2. Started' = Started \cup {w} /\ w \notin Started
  BY <1>1, ThreadsFact DEF Started, TypeOK
<1>3. IsFiniteSet(Started)
  <2>1. Started \subseteq Workers /\ IsFiniteSet(Workers)
    BY EventsCtxAssumption DEF Started
  <2> QED
    BY <2>1, FS_Subset
<1>4. Cardinality(Started') = Cardinality(Started) + 1
  BY <1>2, <1>3, FS_AddElement
<1>5. Cardinality(Started) \in Nat
  BY <1>3, FS_CardinalityType
<1> QED
  BY <1>1, <1>4, <1>5, ThreadsFact DEF TypeOK, Early

LEMMA PoolOpens ==
  ASSUME IInv, NEW t \in Threads, PoolOnce(t)
  PROVE  PoolInv' /\ OnePool'
<1>0. TypeOK /\ PoolInv /\ OnePool
  BY DEF IInv
<1> USE ThreadsFact DEF loopVars, At, Goto
<1>1. /\ at[t] = "pool" /\ at' = [at EXCEPT ![t] = "starting"]
      /\ pool_once_flag = None /\ pool_once_flag' = t
      /\ unstarted' = want[t] /\ pool_count' = want[t]
      /\ loops_' = loops_ /\ tls_loop_ptr' = tls_loop_ptr
  BY DEF PoolOnce
<1>2. Started = {} /\ Cardinality(Started) = 0
  BY <1>0, <1>1, FS_EmptySet DEF PoolInv
<1>3. Started' = Started
  BY <1>0, <1>1 DEF Started, TypeOK
<1>4. want[t] \in Nat
  <2>1. Cardinality(Workers) \in Nat /\ Counts \subseteq 0 .. Cardinality(Workers)
    BY EventsCtxAssumption, FS_CardinalityType
  <2>2. Counts \cup {0} \subseteq Nat
    BY <2>1
  <2>3. want[t] \in Counts \cup {0}
    BY <1>0 DEF TypeOK
  <2> QED
    BY <2>2, <2>3
<1>5. \A u \in Threads : at'[u] = "starting" => u = t
  BY <1>0, <1>1 DEF PoolInv, TypeOK
<1>6. {v \in Workers : at'[v] \notin {"unborn", "born", "entering"}}
        = {v \in Workers : at[v] \notin {"unborn", "born", "entering"}}
  BY <1>0, <1>1 DEF TypeOK
<1>7. PoolInv'
  BY <1>1, <1>5 DEF PoolInv
<1>8. OnePool'
  <2>1. Cardinality(Started') + unstarted' = pool_count'
    BY <1>1, <1>2, <1>3, <1>4
  <2> QED
    BY <1>0, <1>1, <1>6, <2>1 DEF OnePool
<1> QED
  BY <1>7, <1>8

LEMMA PoolStep == IInv /\ [Next]_vars => PoolInv' /\ OnePool'
<1> SUFFICES ASSUME IInv, [Next]_vars PROVE PoolInv' /\ OnePool'
  OBVIOUS
<1>0. TypeOK /\ WorkersBound /\ PoolInv /\ OnePool
  BY DEF IInv
<1> USE ThreadsFact DEF loopVars, poolVars, At
<1>1. ASSUME NEW t \in Threads, StartThread(t) PROVE PoolInv' /\ OnePool'
  <2>1. /\ unstarted > 0 /\ unstarted' = unstarted - 1 /\ at[t] = "starting"
        /\ UNCHANGED <<pool_once_flag, pool_count, loops_, tls_loop_ptr>>
    BY <1>1 DEF StartThread
  <2>2. pool_once_flag = t /\ t # None /\ t # "done"
    BY <1>0, <2>1 DEF PoolInv
  <2>3. PoolInv'
    BY <1>0, <1>1, <2>1, <2>2, StartedGrows DEF PoolInv
  <2>4. Cardinality(Started') + unstarted' = pool_count'
    <3>1. unstarted \in Int
      BY <1>0 DEF TypeOK
    <3>2. Cardinality(Started) + unstarted = pool_count
      BY <1>0 DEF OnePool
    <3>3. Cardinality(Started') = Cardinality(Started) + 1 /\ Cardinality(Started) \in Nat
      BY <1>0, <1>1, StartedGrows
    <3> QED
      BY <2>1, <3>1, <3>2, <3>3
  <2>5. {v \in Workers : at'[v] \notin Early} = {v \in Workers : at[v] \notin Early}
    BY <1>0, <1>1, StartedGrows
  <2> QED
    BY <1>0, <2>1, <2>2, <2>3, <2>4, <2>5 DEF OnePool, Early
<1>2. ASSUME NEW t \in Threads, LeavePool(t) PROVE PoolInv' /\ OnePool'
  <2>1. /\ at[t] = "starting" /\ at' = [at EXCEPT ![t] = "user"]
        /\ unstarted = 0 /\ pool_once_flag' = "done"
        /\ UNCHANGED <<unstarted, pool_count, loops_, tls_loop_ptr>>
    BY <1>2 DEF LeavePool, Goto
  <2>2. \A u \in Threads : at'[u] # "starting"
    BY <1>0, <2>1 DEF PoolInv, TypeOK
  <2>3. Started' = Started
    BY <1>0, <2>1 DEF Started, TypeOK
  <2>4. {v \in Workers : at'[v] \notin {"unborn", "born", "entering"}}
          = {v \in Workers : at[v] \notin {"unborn", "born", "entering"}}
    BY <1>0, <2>1 DEF TypeOK
  <2>5. PoolInv'
    BY <2>1, <2>2 DEF PoolInv
  <2> QED
    BY <1>0, <2>1, <2>3, <2>4, <2>5 DEF OnePool
<1>3. ASSUME NEW w \in Workers, WorkerEnters(w) PROVE PoolInv' /\ OnePool'
  <2>1. /\ at[w] = "entering" /\ at' = [at EXCEPT ![w] = "entered"]
        /\ loops_' = loops_ \cup {tls_loop_ptr[w]}
        /\ UNCHANGED <<pool_once_flag, unstarted, pool_count, tls_loop_ptr>>
    BY <1>3 DEF WorkerEnters, Goto
  <2>2. Started' = Started
    BY <1>0, <2>1 DEF Started, TypeOK
  <2>3. {v \in Workers : at'[v] \notin {"unborn", "born", "entering"}}
          = {v \in Workers : at[v] \notin {"unborn", "born", "entering"}} \cup {w}
    BY <1>0, <2>1 DEF TypeOK
  <2>4. \A u \in Threads : at'[u] = "starting" => at[u] = "starting"
    BY <1>0, <2>1 DEF TypeOK
  <2>5. PoolInv'
    BY <1>0, <2>1, <2>2, <2>4 DEF PoolInv
  <2>6. loops_' = {tls_loop_ptr'[v] : v \in {u \in Workers : at'[u] \notin {"unborn", "born", "entering"}}}
    BY <1>0, <2>1, <2>3 DEF OnePool
  <2> QED
    BY <1>0, <2>1, <2>2, <2>5, <2>6 DEF OnePool
<1>4. ASSUME NEW w \in Workers, WorkerCreates(w) \/ WorkerRuns(w) PROVE PoolInv' /\ OnePool'
  <2>1. /\ UNCHANGED <<pool_once_flag, unstarted, pool_count, loops_>>
        /\ \A v \in Workers : v # w => tls_loop_ptr'[v] = tls_loop_ptr[v]
        /\ at[w] \notin Early => tls_loop_ptr' = tls_loop_ptr
    BY <1>0, <1>4 DEF WorkerCreates, WorkerRuns, FirstLoop, SecondLoop, TypeOK, Early
  <2>2. /\ \A u \in Threads : at'[u] = "starting" => at[u] = "starting"
        /\ \A v \in Workers : at'[v] = "unborn" <=> at[v] = "unborn"
        /\ \A v \in Workers : at'[v] \in Early <=> at[v] \in Early
    BY <1>0, <1>4 DEF WorkerCreates, WorkerRuns, Goto, TypeOK, Early
  <2> QED
    BY <1>0, <2>1, <2>2, PoolAway
<1>5. CASE VectorRace
  BY <1>0, <1>5, PoolAway DEF VectorRace
<1>6. CASE UNCHANGED vars
  BY <1>0, <1>6, PoolAway DEF vars
<1> QED
  BY <1>1, <1>2, <1>3, <1>4, <1>5, <1>6, PoolOpens, DefaultKeepsPool DEF Next, CtxStep, WorkerStep

-----------------------------------------------------------------------------
(* The invariant, and what it shows. *)

LEMMA InitIInv == Init => IInv
<1> SUFFICES ASSUME Init PROVE IInv
  OBVIOUS
<1> USE ThreadsFact
<1>1. TypeOK
  BY InitType
<1>2. \A t \in Threads : at[t] \in {"user", "unborn"} /\ given[t] = None
  BY DEF Init
<1>3. \A w \in Workers : at[w] = "unborn" /\ tls_loop_ptr[w] = None
  BY EventsCtxAssumption DEF Init
<1>4. Started = {} /\ Cardinality(Started) = 0
  BY <1>3, FS_EmptySet DEF Started
<1>5. WorkersBound
  BY <1>3 DEF WorkersBound
<1>6. DefaultInv /\ OneDefaultLoop
  BY <1>2 DEF Init, DefaultInv, OneDefaultLoop
<1>7. PoolInv
  BY <1>2, <1>4 DEF Init, PoolInv
<1>8. OnePool
  BY <1>3, <1>4 DEF Init, OnePool
<1> QED
  BY <1>1, <1>5, <1>6, <1>7, <1>8 DEF IInv

LEMMA StepIInv == IInv /\ [Next]_vars => IInv'
  BY TypeStep, BoundStep, DefaultStep, PoolStep DEF IInv

LEMMA AlwaysIInv == Spec => []IInv
  BY InitIInv, StepIInv, PTL DEF Spec

(* The variables keep the types of the objects they stand for; the threads  *)
(* event_loop_pool::create has yet to start never go below zero.            *)
THEOREM CtxTypeCorrect == Spec => []TypeOK
  BY AlwaysIInv, PTL DEF IInv

(* default_loop gives every thread one and the same loop, never nullptr,    *)
(* whichever of them the call_once lets in.                                 *)
THEOREM DefaultLoopIsOne == Spec => []OneDefaultLoop
  BY AlwaysIInv, PTL DEF IInv

(* create_loop_pool makes one pool, of the count of the thread that made    *)
(* it, and loops_ holds the loops of its threads and no other.              *)
THEOREM PoolIsOne == Spec => []OnePool
  BY AlwaysIInv, PTL DEF IInv
=============================================================================
