---------------------------- MODULE SocketProxy ----------------------------
(***************************************************************************)
(* app/socketproxy: one proxypair for every accepted connection, its       *)
(* handlers run by the pool thread of the io_context it was given.         *)
(*                                                                         *)
(* The main thread accepts into the next pair.  Once connected downstream, *)
(* each direction is a chain of its own: read some into the direction's    *)
(* buffer, write all of it to the other side, read again.  Any error calls *)
(* on_close_, which deletes the pair and takes it out of the server's map; *)
(* the destroyed sockets then complete what is still outstanding with      *)
(* operation_aborted, and those handlers run as well.                      *)
(*                                                                         *)
(* Asynchronous operations and the delivery of their handlers are asio's   *)
(* and external.  A handler runs to its end on the pair's thread and is    *)
(* one step.                                                               *)
(***************************************************************************)
EXTENDS Naturals, Sequences, SequencesExt

CONSTANTS
  pool_size,   (* threads of the iocontextservice                           *)
  MaxPairs,    (* bound: pairs made                                         *)
  MaxChunks    (* bound: pieces each side of a connection sends             *)

ASSUME SocketProxyAssumption ==
  /\ pool_size \in Nat \ {0}
  /\ MaxPairs \in Nat \ {0}
  /\ MaxChunks \in Nat

Id == 1 .. MaxPairs

(* "up" is upstream to downstream through up_buffer_, "down" the reverse. *)
Dir == {"up", "down"}

VARIABLES
  now_io_context,     (* NextIoContext's counter                            *)
  proxy_count,        (* do_accept's counter: the next proxy_id_            *)
  proxy_socket_pairs, (* the ids in the server's map                        *)
  pair,               (* what became of each pair object                    *)
  ioc,                (* the io_context of each pair                        *)
  accept,             (* async_accept: outstanding or how it completed      *)
  ops,                (* each pair's outstanding operations                 *)
  done,               (* completed ones whose handlers have yet to run      *)
  buffer,             (* the piece in up_buffer_ and in down_buffer_        *)
  taken,              (* pieces read so far from the side they come from    *)
  delivered,          (* the pieces written to the other side, in order     *)
  process             (* running, or how it stopped                         *)

pairs == <<now_io_context, proxy_count, proxy_socket_pairs, pair, ioc>>
streams == <<buffer, taken, delivered>>
vars == <<pairs, accept, ops, done, streams, process>>

Op == ({"read", "write"} \X Dir) \cup {<<"connect", "down">>}
Result == {"ok", "error"}

-----------------------------------------------------------------------------

(* proxy_server's constructor: the first do_accept. *)
Init ==
  /\ now_io_context = 1
  /\ proxy_count = 2
  /\ proxy_socket_pairs = {1}
  /\ pair = [p \in Id |-> IF p = 1 THEN "made" ELSE "none"]
  /\ ioc = [p \in Id |-> 1 % pool_size]
  /\ accept = "outstanding"
  /\ ops = [p \in Id |-> {}]
  /\ done = [p \in Id |-> {}]
  /\ buffer = [p \in Id |-> [d \in Dir |-> 0]]
  /\ taken = [p \in Id |-> [d \in Dir |-> 0]]
  /\ delivered = [p \in Id |-> [d \in Dir |-> <<>>]]
  /\ process = "running"

(* The pair that waits to be accepted: the last one made. *)
Accepting == proxy_count - 1

(* Seeded fault: the counter is not reduced. *)
FaultyNextIoContext(counter) == counter

NextIoContext(counter) == counter % pool_size

(* do_accept *)
DoAccept ==
  /\ now_io_context' = now_io_context + 1
  /\ ioc' = [ioc EXCEPT ![proxy_count] = NextIoContext(now_io_context')]
  /\ pair' = [pair EXCEPT ![proxy_count] = "made"]
  /\ proxy_socket_pairs' = proxy_socket_pairs \cup {proxy_count}
  /\ proxy_count' = proxy_count + 1
  /\ accept' = "outstanding"

(* asio, external: the accept completes.  At the bound no client comes. *)
AcceptCompletes(result) ==
  /\ process = "running"
  /\ accept = "outstanding"
  /\ proxy_count <= MaxPairs
  /\ accept' = result
  /\ UNCHANGED <<pairs, ops, done, streams, process>>

(* The accept handler: start connects downstream.  After an error the pair  *)
(* stays in the map and nobody starts it.                                   *)
Accepted ==
  /\ process = "running"
  /\ accept \in Result
  /\ ops' = IF accept = "ok" THEN [ops EXCEPT ![Accepting] = {<<"connect", "down">>}] ELSE ops
  /\ DoAccept
  /\ UNCHANGED <<done, streams, process>>

(* remote_endpoint throws when the peer has gone already, from_string when  *)
(* the address is none; nothing catches either on its way out of main.      *)
AcceptedThrows ==
  /\ process = "running"
  /\ accept = "ok"
  /\ process' = "terminated"
  /\ UNCHANGED <<pairs, accept, ops, done, streams>>

-----------------------------------------------------------------------------
(* asio, external: an outstanding operation completes. *)

Complete(p, op, result) ==
  /\ process = "running"
  /\ op \in ops[p]
  /\ ops' = [ops EXCEPT ![p] = @ \ {op}]
  /\ done' = [done EXCEPT ![p] = @ \cup {Append(op, result)}]
  /\ UNCHANGED <<pairs, accept, process>>

Fails(p, op) == Complete(p, op, "error") /\ UNCHANGED streams

Connected(p) == Complete(p, <<"connect", "down">>, "ok") /\ UNCHANGED streams

(* async_read_some fills the direction's buffer with what arrived. *)
ReadSome(p, d) ==
  /\ taken[p][d] < MaxChunks
  /\ taken' = [taken EXCEPT ![p][d] = @ + 1]
  /\ buffer' = [buffer EXCEPT ![p][d] = taken[p][d] + 1]
  /\ UNCHANGED delivered
  /\ Complete(p, <<"read", d>>, "ok")

(* async_write has written the whole buffer. *)
Written(p, d) ==
  /\ delivered' = [delivered EXCEPT ![p][d] = Append(@, buffer[p][d])]
  /\ UNCHANGED <<buffer, taken>>
  /\ Complete(p, <<"write", d>>, "ok")

-----------------------------------------------------------------------------
(* The handlers of a pair that exists. *)

Runs(p, completion) ==
  /\ process = "running"
  /\ pair[p] = "made"
  /\ completion \in done[p]

(* A handler that starts these operations next. *)
Continue(p, completion, next) ==
  /\ Runs(p, completion)
  /\ done' = [done EXCEPT ![p] = @ \ {completion}]
  /\ ops' = [ops EXCEPT ![p] = @ \cup next]
  /\ UNCHANGED <<pairs, accept, streams, process>>

startproxy(p) == Continue(p, <<"connect", "down", "ok">>, {<<"read", "up">>, <<"read", "down">>})

(* Seeded fault: the next read does not wait for the write. *)
FaultyReadOn(p, d) == Continue(p, <<"read", d, "ok">>, {<<"write", d>>, <<"read", d>>})

(* writedownstream, writeupstream *)
WriteOn(p, d) == Continue(p, <<"read", d, "ok">>, {<<"write", d>>})

(* Seeded fault: a written piece is the last one. *)
FaultyReadEnds(p, d) == Continue(p, <<"write", d, "ok">>, {})

(* readupstream, readdownstream *)
ReadOn(p, d) == Continue(p, <<"write", d, "ok">>, {<<"read", d>>})

(* Seeded fault: the entry is not erased. *)
FaultyCloseKeepsEntry(p, completion) ==
  /\ Runs(p, completion)
  /\ completion[3] = "error"
  /\ pair' = [pair EXCEPT ![p] = "deleted"]
  /\ done' = [done EXCEPT ![p] = (@ \ {completion}) \cup {Append(op, "error") : op \in ops[p]}]
  /\ ops' = [ops EXCEPT ![p] = {}]
  /\ UNCHANGED <<now_io_context, proxy_count, proxy_socket_pairs, ioc, accept, streams, process>>

(* Seeded fault: only a failed read closes the pair. *)
FaultyCloseOnRead(p, completion) ==
  /\ Runs(p, completion)
  /\ completion[3] = "error"
  /\ IF completion[1] = "read"
     THEN /\ pair' = [pair EXCEPT ![p] = "deleted"]
          /\ proxy_socket_pairs' = proxy_socket_pairs \ {p}
          /\ done' = [done EXCEPT ![p] = (@ \ {completion}) \cup {Append(op, "error") : op \in ops[p]}]
          /\ ops' = [ops EXCEPT ![p] = {}]
     ELSE /\ done' = [done EXCEPT ![p] = @ \ {completion}]
          /\ UNCHANGED <<pair, proxy_socket_pairs, ops>>
  /\ UNCHANGED <<now_io_context, proxy_count, ioc, accept, streams, process>>

(* on_close_: the pair is found and deleted, its sockets abort what is      *)
(* outstanding, and the entry is erased.                                    *)
OnClose(p, completion) ==
  /\ Runs(p, completion)
  /\ completion[3] = "error"
  /\ pair' = [pair EXCEPT ![p] = "deleted"]
  /\ proxy_socket_pairs' = proxy_socket_pairs \ {p}
  /\ done' = [done EXCEPT ![p] = (@ \ {completion}) \cup {Append(op, "error") : op \in ops[p]}]
  /\ ops' = [ops EXCEPT ![p] = {}]
  /\ UNCHANGED <<now_io_context, proxy_count, ioc, accept, streams, process>>

-----------------------------------------------------------------------------
(* Undefined behaviour. *)

(* An on_close_ is due. *)
Closing(p) == pair[p] = "made" /\ \E op \in Op : Append(op, "error") \in done[p]

(* The lambda that deletes the pair is stored in the pair's on_close_: a    *)
(* build that loads its captured this again for erase reads freed memory.   *)
CloseReadsFreed(p) ==
  /\ process = "running"
  /\ Closing(p)
  /\ process' = "undefined"
  /\ UNCHANGED <<pairs, accept, ops, done, streams>>

(* A handler captured this, and the pair is gone.  An error path that still *)
(* finds the old bytes calls on_close_ with the old id, which is not in the *)
(* map: Z_ASSERT.  Anything else may happen too.                            *)
StaleHandler(p) ==
  /\ process = "running"
  /\ pair[p] = "deleted"
  /\ \E completion \in done[p] :
       process' \in {"undefined"} \cup (IF completion[3] = "error" /\ p \notin proxy_socket_pairs
                                        THEN {"asserted"} ELSE {})
  /\ UNCHANGED <<pairs, accept, ops, done, streams>>

(* The map has no lock: a pool thread is in on_close_ while the main thread *)
(* is in do_accept or another pool thread is in on_close_ too.              *)
MapRace ==
  /\ process = "running"
  /\ \E p \in Id :
       /\ Closing(p)
       /\ accept \in Result \/ \E q \in Id : Closing(q) /\ ioc[q] # ioc[p]
  /\ process' = "undefined"
  /\ UNCHANGED <<pairs, accept, ops, done, streams>>

-----------------------------------------------------------------------------

Handlers(p) ==
  \/ startproxy(p)
  \/ \E d \in Dir : WriteOn(p, d) \/ ReadOn(p, d)
  \/ \E completion \in done[p] : OnClose(p, completion)

Next ==
  \/ \E result \in Result : AcceptCompletes(result)
  \/ Accepted \/ AcceptedThrows
  \/ \E p \in Id :
       \/ Handlers(p) \/ CloseReadsFreed(p) \/ StaleHandler(p) \/ Connected(p)
       \/ \E op \in ops[p] : Fails(p, op)
       \/ \E d \in Dir : ReadSome(p, d) \/ Written(p, d)
  \/ MapRace

(* A queued handler runs: every io_context has a thread in run.  Nothing is *)
(* assumed of the peers.                                                    *)
Fairness == \A p \in Id : WF_vars(Handlers(p))

Spec == Init /\ [][Next]_vars
FairSpec == Spec /\ Fairness

-----------------------------------------------------------------------------
(* Properties. *)

(* The variables have the types of the members they stand for. *)
TypeOK ==
  /\ now_io_context \in Nat
  /\ proxy_count \in 1 .. MaxPairs + 1
  /\ proxy_socket_pairs \subseteq Id
  /\ pair \in [Id -> {"none", "made", "deleted"}]
  /\ ioc \in [Id -> 0 .. pool_size - 1]
  /\ accept \in Result \cup {"outstanding"}
  /\ ops \in [Id -> SUBSET Op]
  /\ done \in [Id -> SUBSET {Append(op, r) : op \in Op, r \in Result}]
  /\ buffer \in [Id -> [Dir -> 0 .. MaxChunks]]
  /\ taken \in [Id -> [Dir -> 0 .. MaxChunks]]
  /\ delivered \in [Id -> [Dir -> Seq(1 .. MaxChunks)]]
  /\ process \in {"running", "terminated", "undefined", "asserted"}

(* What one side receives is what the other side sent, in order and from    *)
(* the beginning: no piece is overwritten in its buffer before it is        *)
(* written, skipped or written twice, and at most the one in the buffer is  *)
(* on its way.                                                              *)
StreamOrder ==
  \A p \in Id, d \in Dir :
    /\ \A i \in DOMAIN delivered[p][d] : delivered[p][d][i] = i
    /\ taken[p][d] - Len(delivered[p][d]) \in {0, 1}

(* The map holds the pairs that exist and no other: a pair is deleted and   *)
(* its entry erased together, whichever of its operations failed.           *)
MapInStep == proxy_socket_pairs = {p \in Id : pair[p] = "made"}

(* While a connection lives, each direction has a read or a write under way *)
(* or its handler waiting: no connection is kept open that no longer moves  *)
(* data one way.                                                            *)
BothDirectionsMove ==
  \A p \in Id :
    pair[p] = "made" /\ taken[p] # [d \in Dir |-> 0] =>
      \A d \in Dir : \E k \in {"read", "write"} :
        <<k, d>> \in ops[p] \/ \E r \in Result : <<k, d, r>> \in done[p]

(* A connection one of whose operations failed is closed: its pair is       *)
(* deleted, unless the process has stopped.                                 *)
FailureCloses ==
  \A p \in Id : Closing(p) ~> pair[p] = "deleted" \/ process # "running"

(* on_close_'s Z_ASSERT: the pair that is closed is in the map. *)
PairIsFound == process # "asserted"

=============================================================================
