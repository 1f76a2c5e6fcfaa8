------------------------------ MODULE Mailbox ------------------------------
(***************************************************************************)
(* What event_loop_t promises to a thread that hands it work, without the  *)
(* vectors, the lock and the pipe: each loop is a mailbox.  Tasks enter at *)
(* the back, leave at the front to be run, and the only tasks that are not *)
(* run are a stretch at the front that is abandoned when a task throws.    *)
(* EventLoop implements this specification.                                *)
(***************************************************************************)
EXTENDS Naturals, Sequences, SequencesExt

CONSTANTS
  Loops,     (* the mailboxes                                    *)
  Posters,   (* the threads that hand over tasks                 *)
  MaxPosts   (* bound: tasks each thread hands to each loop      *)

VARIABLES
  pending,   (* the tasks each loop has yet to take              *)
  posted,    (* how many tasks each thread gave to each loop     *)
  started,   (* the tasks each loop started, in order            *)
  dropped    (* the tasks each loop abandoned                    *)

vars == <<pending, posted, started, dropped>>

Init ==
  /\ pending = [l \in Loops |-> <<>>]
  /\ posted  = [t \in Posters |-> [l \in Loops |-> 0]]
  /\ started = [l \in Loops |-> <<>>]
  /\ dropped = [l \in Loops |-> {}]

Post(t, l) ==
  /\ posted[t][l] < MaxPosts
  /\ posted'  = [posted EXCEPT ![t][l] = @ + 1]
  /\ pending' = [pending EXCEPT ![l] = Append(@, [from |-> t, n |-> posted[t][l] + 1])]
  /\ UNCHANGED <<started, dropped>>

Start(l) ==
  /\ pending[l] # <<>>
  /\ started' = [started EXCEPT ![l] = Append(@, Head(pending[l]))]
  /\ pending' = [pending EXCEPT ![l] = Tail(@)]
  /\ UNCHANGED <<posted, dropped>>

Abandon(l) ==
  \E k \in 1 .. Len(pending[l]) :
    /\ dropped' = [dropped EXCEPT ![l] = @ \cup {pending[l][i] : i \in 1 .. k}]
    /\ pending' = [pending EXCEPT ![l] = SubSeq(@, k + 1, Len(@))]
    /\ UNCHANGED <<posted, started>>

Next == \E l \in Loops : (\E t \in Posters : Post(t, l)) \/ Start(l) \/ Abandon(l)

Spec == Init /\ [][Next]_vars

FairSpec == Spec /\ \A l \in Loops : WF_vars(Start(l) \/ Abandon(l))

=============================================================================
