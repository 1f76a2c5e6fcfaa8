---------------------------- MODULE EpollPoller ----------------------------
(***************************************************************************)
(* epoll_poller: registrations, the events one epoll_wait returned, and    *)
(* the entities the events point to.                                       *)
(*                                                                         *)
(* The kernel hands back epoll_entity_t pointers, and the handlers poll    *)
(* calls may remove any descriptor, close it, open another under the same  *)
(* number and register that, while pointers to the removed entities are    *)
(* still in the array.  rm_fd therefore only marks and retires an entity,  *)
(* and poll frees what is retired after the last event.                    *)
(*                                                                         *)
(* An entity is the heap block it lives in; a block is used again once it  *)
(* was freed.  Callers keep the comment of event_poller_t::rm_fd: they use *)
(* a handle until they remove it, and close a descriptor after that.       *)
(*                                                                         *)
(* epoll_ctl may refuse a descriptor (EPERM, ENOMEM, ENOSPC).  add_fd then *)
(* has only Z_ASSERT: a build with NDEBUG goes on as if nothing happened,  *)
(* another throws out of add_fd and leaves the entity it allocated.  Both  *)
(* outcomes are taken.                                                     *)
(***************************************************************************)
EXTENDS Integers, FiniteSets, Sequences, SequencesExt

CONSTANTS
  Fds,        (* descriptor numbers                                         *)
  Blocks,     (* addresses of epoll_entity_t                                *)
  Invalid,    (* invalid_io_fd_t                                            *)
  NoBlock,    (* no registration in the kernel's epoll set                  *)
  MaxEvents,  (* epoll_max_io_events                                        *)
  MaxAdds     (* bound: calls of add_fd                                     *)

ASSUME EpollPollerAssumption ==
  /\ IsFiniteSet(Fds) /\ Invalid \notin Fds
  /\ NoBlock \notin Blocks
  /\ MaxEvents \in Nat \ {0}
  /\ MaxAdds \in Nat

VARIABLES
  fd,         (* epoll_entity_t::fd of each block                           *)
  mask,       (* EPOLLIN and EPOLLOUT of each block's e_event.events        *)
  allocated,  (* blocks the allocator has handed out                        *)
  retired,    (* retired_                                                   *)
  load,       (* load_                                                      *)
  kernel,     (* the epoll set: data.ptr of each registered descriptor      *)
  watched,    (* the epoll set: the events each descriptor is watched for   *)
  refused,    (* the kernel's: entities it refused and add_fd returned      *)
  leaked,     (* history: entities add_fd threw away its only pointer to    *)
  events,     (* what is left of events[]                                   *)
  pc,         (* where the loop thread is                                   *)
  birth,      (* history: the number of the add_fd that made a block's      *)
              (* entity                                                     *)
  adds        (* history: calls of add_fd                                   *)

vars == <<fd, mask, allocated, retired, load, kernel, watched, refused, leaked, events, pc, birth, adds>>

Mask == SUBSET {"in", "out"}

(* The blocks a caller may hold a handle of. *)
Live == {b \in allocated \ leaked : fd[b] # Invalid}

Init ==
  /\ fd = [b \in Blocks |-> Invalid]
  /\ mask = [b \in Blocks |-> {}]
  /\ allocated = {}
  /\ retired = <<>>
  /\ load = 0
  /\ kernel = [f \in Fds |-> NoBlock]
  /\ watched = [f \in Fds |-> {}]
  /\ refused = {}
  /\ leaked = {}
  /\ events = <<>>
  /\ pc = "idle"
  /\ birth = [b \in Blocks |-> 0]
  /\ adds = 0

(* Timer callbacks and tasks run while the loop is not in poll, handlers    *)
(* while it is.                                                             *)
UserCode == pc \in {"idle", "handler"}

-----------------------------------------------------------------------------
(* Registrations. *)

(* The entity add_fd allocates, with what it writes into it. *)
NewEntity(b, f, poll_event) ==
  /\ adds < MaxAdds
  /\ b \notin allocated
  /\ allocated' = allocated \cup {b}
  /\ fd' = [fd EXCEPT ![b] = f]
  /\ mask' = [mask EXCEPT ![b] = poll_event]
  /\ birth' = [birth EXCEPT ![b] = adds + 1]
  /\ adds' = adds + 1

(* A caller registers a descriptor once. *)
add_fd(b, f, poll_event) ==
  /\ UserCode
  /\ \A c \in Live : fd[c] # f
  /\ NewEntity(b, f, poll_event)
  /\ kernel' = [kernel EXCEPT ![f] = b]
  /\ watched' = [watched EXCEPT ![f] = poll_event]
  /\ load' = load + 1
  /\ UNCHANGED <<retired, refused, leaked, events, pc>>

(* epoll_ctl refuses the descriptor, and Z_ASSERT is compiled out. *)
AddRefused(b, f, poll_event) ==
  /\ UserCode
  /\ \A c \in Live : fd[c] # f
  /\ NewEntity(b, f, poll_event)
  /\ refused' = refused \cup {b}
  /\ load' = load + 1
  /\ UNCHANGED <<retired, kernel, watched, leaked, events, pc>>

(* epoll_ctl refuses the descriptor, and Z_ASSERT throws. *)
AddThrows(b, f, poll_event) ==
  /\ UserCode
  /\ \A c \in Live : fd[c] # f
  /\ NewEntity(b, f, poll_event)
  /\ leaked' = leaked \cup {b}
  /\ UNCHANGED <<retired, load, kernel, watched, refused, events, pc>>

(* Seeded fault: the entity is deleted at once. *)
faulty_rm_fd_deletes(b) ==
  /\ UserCode
  /\ b \in Live
  /\ kernel' = [kernel EXCEPT ![fd[b]] = NoBlock]
  /\ watched' = [watched EXCEPT ![fd[b]] = {}]
  /\ fd' = [fd EXCEPT ![b] = Invalid]
  /\ refused' = refused \ {b}
  /\ allocated' = allocated \ {b}
  /\ load' = load - 1
  /\ UNCHANGED <<mask, retired, leaked, events, pc, birth, adds>>

(* EPOLL_CTL_DEL finds nothing to remove for an entity that was refused. *)
rm_fd(b) ==
  /\ UserCode
  /\ b \in Live
  /\ kernel' = [kernel EXCEPT ![fd[b]] = NoBlock]
  /\ watched' = [watched EXCEPT ![fd[b]] = {}]
  /\ fd' = [fd EXCEPT ![b] = Invalid]
  /\ refused' = refused \ {b}
  /\ retired' = Append(retired, b)
  /\ load' = load - 1
  /\ UNCHANGED <<mask, allocated, leaked, events, pc, birth, adds>>

(* Seeded fault: the kernel is not told. *)
FaultyModifyLocal(b, newMask) ==
  /\ UserCode
  /\ b \in Live
  /\ mask' = [mask EXCEPT ![b] = newMask]
  /\ UNCHANGED <<fd, allocated, retired, load, kernel, watched, refused, leaked, events, pc, birth, adds>>

(* EPOLL_CTL_MOD with the entity's own event mask; it fails, and nothing is *)
(* made of that, for an entity that was refused.                            *)
Modify(b, newMask) ==
  /\ UserCode
  /\ b \in Live
  /\ mask' = [mask EXCEPT ![b] = newMask]
  /\ watched' = IF b \in refused THEN watched ELSE [watched EXCEPT ![fd[b]] = newMask]
  /\ UNCHANGED <<fd, allocated, retired, load, kernel, refused, leaked, events, pc, birth, adds>>

set_in_event(b)    == Modify(b, mask[b] \cup {"in"})
reset_in_event(b)  == Modify(b, mask[b] \ {"in"})
set_out_event(b)   == Modify(b, mask[b] \cup {"out"})
reset_out_event(b) == Modify(b, mask[b] \ {"out"})

-----------------------------------------------------------------------------
(* poll *)

(* The calls poll makes for one event: in_event for EPOLLERR and EPOLLHUP,  *)
(* which are always reported, then out_event, then in_event.                *)
Calls(reported) ==
  (IF "err" \in reported THEN <<"in_event">> ELSE <<>>)
    \o (IF "out" \in reported THEN <<"out_event">> ELSE <<>>)
    \o (IF "in" \in reported THEN <<"in_event">> ELSE <<>>)

Event(f, reported) == [ptr |-> kernel[f], birth |-> birth[kernel[f]], calls |-> Calls(reported)]

(* epoll_wait times out or is interrupted: poll returns at once, and what   *)
(* is retired stays.                                                        *)
PollNothing ==
  /\ pc = "idle"
  /\ UNCHANGED vars

(* epoll_wait returns some ready descriptors, in the kernel's order. *)
EpollWait ==
  /\ pc = "idle"
  /\ \E fs \in SUBSET {f \in Fds : kernel[f] # NoBlock} :
       /\ fs # {} /\ Cardinality(fs) <= MaxEvents
       /\ \E ready \in [fs -> SUBSET {"err", "out", "in"} \ {{}}], order \in SetToSeqs(fs) :
            /\ \A f \in fs : ready[f] \subseteq {"err"} \cup watched[f]
            /\ events' = [i \in 1 .. Len(order) |-> Event(order[i], ready[order[i]])]
  /\ pc' = "dispatch"
  /\ UNCHANGED <<fd, mask, allocated, retired, load, kernel, watched, refused, leaked, birth, adds>>

(* The loop goes on to the next event: this one's entity was removed, or    *)
(* its calls are made.                                                      *)
NextEvent ==
  /\ pc = "dispatch"
  /\ events # <<>>
  /\ fd[Head(events).ptr] = Invalid \/ Head(events).calls = <<>>
  /\ events' = Tail(events)
  /\ UNCHANGED <<fd, mask, allocated, retired, load, kernel, watched, refused, leaked, pc, birth, adds>>

(* Seeded fault: the entity's fd is not tested. *)
FaultyCallRemoved ==
  /\ pc = "dispatch"
  /\ events # <<>>
  /\ Head(events).calls # <<>>
  /\ events' = [events EXCEPT ![1].calls = Tail(@)]
  /\ pc' = "handler"
  /\ UNCHANGED <<fd, mask, allocated, retired, load, kernel, watched, refused, leaked, birth, adds>>

(* poll calls the handler. *)
CallHandler ==
  /\ pc = "dispatch"
  /\ events # <<>>
  /\ fd[Head(events).ptr] # Invalid
  /\ Head(events).calls # <<>>
  /\ events' = [events EXCEPT ![1].calls = Tail(@)]
  /\ pc' = "handler"
  /\ UNCHANGED <<fd, mask, allocated, retired, load, kernel, watched, refused, leaked, birth, adds>>

HandlerReturns ==
  /\ pc = "handler"
  /\ pc' = "dispatch"
  /\ UNCHANGED <<fd, mask, allocated, retired, load, kernel, watched, refused, leaked, events, birth, adds>>

(* Seeded fault: load_ is decremented here too. *)
FaultyFreeUnloads ==
  /\ pc = "dispatch"
  /\ events = <<>>
  /\ allocated' = allocated \ Range(retired)
  /\ retired' = <<>>
  /\ load' = load - Len(retired)
  /\ pc' = "idle"
  /\ UNCHANGED <<fd, mask, kernel, watched, refused, leaked, events, birth, adds>>

(* Seeded fault: retired_ is not cleared. *)
FaultyFreeForgets ==
  /\ pc = "dispatch"
  /\ events = <<>>
  /\ allocated' = allocated \ Range(retired)
  /\ pc' = "idle"
  /\ UNCHANGED <<fd, mask, retired, load, kernel, watched, refused, leaked, events, birth, adds>>

(* After the last event, poll frees what was retired. *)
FreeRetired ==
  /\ pc = "dispatch"
  /\ events = <<>>
  /\ allocated' = allocated \ Range(retired)
  /\ retired' = <<>>
  /\ pc' = "idle"
  /\ UNCHANGED <<fd, mask, load, kernel, watched, refused, leaked, events, birth, adds>>

-----------------------------------------------------------------------------

Next ==
  \/ \E b \in Blocks, f \in Fds, m \in Mask :
       add_fd(b, f, m) \/ AddRefused(b, f, m) \/ AddThrows(b, f, m)
  \/ \E b \in Blocks :
       \/ rm_fd(b)
       \/ set_in_event(b) \/ reset_in_event(b)
       \/ set_out_event(b) \/ reset_out_event(b)
  \/ PollNothing \/ EpollWait \/ NextEvent \/ CallHandler \/ HandlerReturns \/ FreeRetired

Spec == Init /\ [][Next]_vars

-----------------------------------------------------------------------------
(* Properties. *)

Call == {"in_event", "out_event"}

(* The variables have the types of the members they stand for. *)
TypeOK ==
  /\ fd \in [Blocks -> Fds \cup {Invalid}]
  /\ mask \in [Blocks -> Mask]
  /\ allocated \subseteq Blocks
  /\ retired \in Seq(Blocks)
  /\ load \in Nat
  /\ kernel \in [Fds -> Blocks \cup {NoBlock}]
  /\ watched \in [Fds -> Mask]
  /\ refused \subseteq Live
  /\ leaked \subseteq allocated
  /\ events \in Seq([ptr: Blocks, birth: Nat, calls: Seq(Call)])
  /\ pc \in {"idle", "dispatch", "handler"}
  /\ birth \in [Blocks -> Nat]
  /\ adds \in 0 .. MaxAdds

(* While poll goes through the array, no pointer in it dangles: the block   *)
(* is allocated and still holds the entity the kernel reported, whatever    *)
(* the handlers so far removed and registered.                              *)
NoDanglingEvent ==
  \A i \in DOMAIN events :
    /\ events[i].ptr \in allocated
    /\ birth[events[i].ptr] = events[i].birth

(* A handler is called only for a registration that is in force: never one  *)
(* removed by an earlier handler of the batch, nor for the one that took    *)
(* over its number or its block.                                            *)
HandlerIsRegistered ==
  [][pc = "dispatch" /\ pc' = "handler" =>
       LET b == Head(events).ptr
       IN  b \in Live /\ kernel[fd[b]] = b /\ birth[b] = Head(events).birth]_vars

(* The kernel's epoll set and the live entities are in step: one            *)
(* registration for each the kernel did not refuse, for its descriptor and  *)
(* its events, and none besides.  load_ counts what callers hold, which     *)
(* takes in the refused entities.                                           *)
KernelInStep ==
  /\ \A b \in Live \ refused : kernel[fd[b]] = b /\ watched[fd[b]] = mask[b]
  /\ \A f \in Fds : kernel[f] # NoBlock => kernel[f] \in Live \ refused /\ fd[kernel[f]] = f
  /\ load = Cardinality(Live)

(* Every allocated block is live, retired or one of those add_fd leaked,    *)
(* and a retired one is freed once: no other leak and no second delete.     *)
RetiredOnce ==
  /\ allocated \ Live = Range(retired) \cup leaked
  /\ Range(retired) \cap leaked = {}
  /\ \A i, j \in DOMAIN retired : retired[i] = retired[j] => i = j

=============================================================================
