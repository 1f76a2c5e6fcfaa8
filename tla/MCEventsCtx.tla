---------------------------- MODULE MCEventsCtx ----------------------------
(* EventsCtx on small instances. *)
EXTENDS EventsCtx, TLC

(* Threads of one kind are interchangeable, where no liveness is checked. *)
Symmetry == Permutations(Users) \cup Permutations(Workers)

=============================================================================
