---------------------------- MODULE MCEpollPoller ----------------------------
(* EpollPoller on small instances. *)
EXTENDS EpollPoller, TLC

(* Neither the numbers of descriptors nor the addresses of blocks matter. *)
Symmetry == Permutations(Fds) \cup Permutations(Blocks)

=============================================================================
