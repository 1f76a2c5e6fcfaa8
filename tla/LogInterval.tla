---------------------------- MODULE LogInterval ----------------------------
(***************************************************************************)
(* LOG_INTERVAL_T of zlog: one place in the program is to log at most one  *)
(* line per INTERVAL.  The time of the last line is a static atomic, read  *)
(* and written in separate steps.                                          *)
(***************************************************************************)
EXTENDS Integers, FiniteSets

CONSTANTS
  Reporters,     (* the threads that pass the place                         *)
  LOG_TIME_PERIOD,
  MaxTime        (* bound: the steady clock, which starts with the machine  *)

ASSUME IntervalAssumption ==
  IsFiniteSet(Reporters) /\ {LOG_TIME_PERIOD, MaxTime} \subseteq Nat

VARIABLES
  clock,
  previous,    (* LOG_PREVIOUS_TIME_RAW, zero at first                      *)
  step,        (* where each thread is: "idle", "load" or "store"           *)
  current,     (* LOG_CURRENT_TIME of each                                  *)
  lines        (* lines logged for each time of the clock                   *)

intervalVars == <<clock, previous, step, current, lines>>

-----------------------------------------------------------------------------

Elapse ==
  /\ clock < MaxTime
  /\ clock' = clock + 1
  /\ UNCHANGED <<previous, step, current, lines>>

Sample(t) ==
  /\ step[t] = "idle"
  /\ step' = [step EXCEPT ![t] = "load"]
  /\ current' = [current EXCEPT ![t] = clock]
  /\ UNCHANGED <<clock, previous, lines>>

(* Seeded fault: the difference of an unsigned type, large when another     *)
(* thread has stored a later time.                                          *)
FaultyLoad(t) ==
  /\ step[t] = "load"
  /\ step' = [step EXCEPT ![t] = IF \/ current[t] - previous > LOG_TIME_PERIOD
                                    \/ current[t] < previous
                                 THEN "store" ELSE "idle"]
  /\ UNCHANGED <<clock, previous, current, lines>>

Load(t) ==
  /\ step[t] = "load"
  /\ step' = [step EXCEPT ![t] = IF current[t] - previous > LOG_TIME_PERIOD
                                 THEN "store" ELSE "idle"]
  /\ UNCHANGED <<clock, previous, current, lines>>

(* The store, and the line, which is printed with it. *)
Store(t) ==
  /\ step[t] = "store"
  /\ step' = [step EXCEPT ![t] = "idle"]
  /\ previous' = current[t]
  /\ lines' = [lines EXCEPT ![current[t]] = @ + 1]
  /\ UNCHANGED <<clock, current>>

IntervalInit ==
  /\ clock = 0
  /\ previous = 0
  /\ step = [t \in Reporters |-> "idle"]
  /\ current = [t \in Reporters |-> 0]
  /\ lines = [w \in 0 .. MaxTime |-> 0]

IntervalNext ==
  \/ Elapse
  \/ \E t \in Reporters : Sample(t) \/ Load(t) \/ Store(t)

IntervalSpec == IntervalInit /\ [][IntervalNext]_intervalVars

-----------------------------------------------------------------------------
(* Properties. *)

(* A line by its time and its number among those of this time. *)
LinesIn(from, to) == UNION {{w} \X (1 .. lines[w]) : w \in from .. to}

(* A burst is bounded: of the passes whose times lie within one period, one *)
(* logs if a single thread passes, and T(T+1)/2 at most if T threads race,  *)
(* a late store setting the time back.                                      *)
LinesPerPeriod ==
  LET threads == Cardinality(Reporters)
  IN  \A w \in 0 .. MaxTime - LOG_TIME_PERIOD :
        Cardinality(LinesIn(w, w + LOG_TIME_PERIOD)) <= (threads * (threads + 1)) \div 2

=============================================================================
