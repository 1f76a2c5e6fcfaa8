----------------------------- MODULE LogCounter -----------------------------
(***************************************************************************)
(* LOG_COUNTER_C of zlog: of the threads that pass one such place in the   *)
(* program, one in COUNTER is to log a line.  The place has a counter of   *)
(* its own, a static atomic: each operation on it is atomic, the macro is  *)
(* not.                                                                    *)
(***************************************************************************)
EXTENDS Integers, FiniteSets

CONSTANTS
  Passers,    (* the threads that pass the place                            *)
  COUNTER     (* "use int times 1,2,3..."                                   *)

ASSUME CounterAssumption ==
  IsFiniteSet(Passers) /\ Passers # {} /\ COUNTER \in Nat \ {0}

VARIABLES
  mod,       (* LOG_OCCURRENCES_MOD_N                                       *)
  place,     (* where each thread is: "idle", "over" (its increment went    *)
             (* above COUNTER) or "check"                                   *)
  quiet      (* history: passes since the last line or the last meeting of  *)
             (* two threads in the macro                                    *)

counterVars == <<mod, place, quiet>>

-----------------------------------------------------------------------------

(* Seeded fault: MOD_N == COUNTER + 1 for MOD_N > COUNTER, the same while   *)
(* threads do not meet.                                                     *)
FaultyOccur(t) ==
  /\ place[t] = "idle"
  /\ mod' = mod + 1
  /\ place' = [place EXCEPT ![t] = IF mod' = COUNTER + 1 THEN "over" ELSE "check"]
  /\ quiet' = IF \A u \in Passers : place[u] = "idle" THEN quiet + 1 ELSE 0

(* ++MOD_N > COUNTER: one atomic operation, and the value it returned. *)
Occur(t) ==
  /\ place[t] = "idle"
  /\ mod' = mod + 1
  /\ place' = [place EXCEPT ![t] = IF mod' > COUNTER THEN "over" ELSE "check"]
  /\ quiet' = IF \A u \in Passers : place[u] = "idle" THEN quiet + 1 ELSE 0

(* MOD_N -= COUNTER. *)
TakeBack(t) ==
  /\ place[t] = "over"
  /\ mod' = mod - COUNTER
  /\ place' = [place EXCEPT ![t] = "check"]
  /\ UNCHANGED quiet

(* MOD_N == 1: a line is logged. *)
Check(t) ==
  /\ place[t] = "check"
  /\ place' = [place EXCEPT ![t] = "idle"]
  /\ quiet' = IF mod = 1 THEN 0 ELSE quiet
  /\ UNCHANGED mod

CounterInit ==
  /\ mod = 0
  /\ place = [t \in Passers |-> "idle"]
  /\ quiet = 0

CounterNext == \E t \in Passers : Occur(t) \/ TakeBack(t) \/ Check(t)

CounterSpec == CounterInit /\ [][CounterNext]_counterVars

-----------------------------------------------------------------------------
(* Properties. *)

(* Threads that pass one at a time are not silenced: whatever meetings left *)
(* in the counter, a line comes within COUNTER passes for each thread.      *)
SilenceIsBounded == quiet <= COUNTER * Cardinality(Passers)

=============================================================================
