------------------------- MODULE EpollPoller_proofs -------------------------
(***************************************************************************)
(* The invariants of EpollPoller for any finite set of descriptors, any    *)
(* set of blocks and any number of events and registrations.               *)
(*                                                                         *)
(* They are inductive together: the entities' count is a number because    *)
(* finitely many blocks are allocated, an event's pointer stays valid      *)
(* because what is freed was retired and no event is left then, and a      *)
(* handler is called for a registration in force because live entities     *)
(* and the epoll set are in step.                                          *)
(***************************************************************************)
EXTENDS EpollPoller, SeqLemmas, FiniteSetTheorems, TLAPS

(* What epoll_wait reported was not refused. *)
NoneRefused == \A i \in DOMAIN events : events[i].ptr \notin refused \cup leaked

(* What callers hold is for different descriptors. *)
OneEach == \A c, d \in Live : fd[c] = fd[d] => c = d

IInv ==
  /\ TypeOK
  /\ IsFiniteSet(allocated)
  /\ NoDanglingEvent
  /\ NoneRefused
  /\ OneEach
  /\ KernelInStep
  /\ RetiredOnce

LEMMA LiveFinite ==
  ASSUME IsFiniteSet(allocated)
  PROVE  IsFiniteSet(Live) /\ Cardinality(Live) \in Nat
<1>1. Live \in SUBSET allocated
  BY DEF Live
<1> QED
  BY <1>1, FS_Subset, FS_CardinalityType

LEMMA InitIInv == Init => IInv
<1> SUFFICES ASSUME Init PROVE IInv
  OBVIOUS
<1> USE EpollPollerAssumption DEF Init
<1>1. Live = {}
  BY DEF Live
<1>2. TypeOK
  BY <1>1 DEF TypeOK, Mask
<1>3. IsFiniteSet(allocated) /\ load = Cardinality(Live)
  BY <1>1, FS_EmptySet
<1>4. NoDanglingEvent /\ NoneRefused
  BY DEF NoDanglingEvent, NoneRefused
<1>5. KernelInStep /\ OneEach
  BY <1>1, <1>3 DEF KernelInStep, OneEach
<1>6. Range(retired) = {}
  BY DEF Range
<1>7. RetiredOnce
  BY <1>1, <1>6 DEF RetiredOnce
<1> QED
  BY <1>2, <1>3, <1>4, <1>5, <1>7 DEF IInv

-----------------------------------------------------------------------------
(* Registrations. *)

(* A new entity takes a block nobody holds: no event and no retired entry   *)
(* refers to it.                                                            *)
LEMMA NewStep ==
  ASSUME IInv, NEW b \in Blocks, NEW f \in Fds, NEW m \in Mask, NewEntity(b, f, m),
         UNCHANGED <<retired, events, pc>>
  PROVE  /\ fd' \in [Blocks -> Fds \cup {Invalid}] /\ mask' \in [Blocks -> Mask]
         /\ allocated' \subseteq Blocks /\ IsFiniteSet(allocated')
         /\ birth' \in [Blocks -> Nat] /\ adds' \in 0 .. MaxAdds
         /\ fd'[b] = f /\ f # Invalid /\ mask'[b] = m
         /\ \A c \in allocated : c # b /\ fd'[c] = fd[c] /\ mask'[c] = mask[c]
         /\ NoDanglingEvent'
         /\ b \notin allocated /\ allocated' = allocated \cup {b}
         /\ b \notin Live /\ b \notin refused /\ b \notin leaked /\ b \notin Range(retired)
         /\ \A i \in DOMAIN events : events[i].ptr # b
<1>1. /\ adds < MaxAdds /\ b \notin allocated /\ adds' = adds + 1
      /\ allocated' = allocated \cup {b}
      /\ fd' = [fd EXCEPT ![b] = f]
      /\ mask' = [mask EXCEPT ![b] = m]
      /\ birth' = [birth EXCEPT ![b] = adds + 1]
  BY DEF NewEntity
<1>2. adds + 1 \in 0 .. MaxAdds /\ adds + 1 \in Nat
  BY <1>1, EpollPollerAssumption DEF IInv, TypeOK
<1>3. birth' \in [Blocks -> Nat] /\ adds' \in 0 .. MaxAdds
  BY <1>1, <1>2 DEF IInv, TypeOK
<1>4. fd' \in [Blocks -> Fds \cup {Invalid}] /\ mask' \in [Blocks -> Mask] /\ allocated' \subseteq Blocks
  BY <1>1 DEF IInv, TypeOK
<1>5. /\ fd'[b] = f /\ f # Invalid /\ mask'[b] = m
      /\ \A c \in allocated : c # b /\ fd'[c] = fd[c] /\ mask'[c] = mask[c]
  BY <1>1, EpollPollerAssumption DEF IInv, TypeOK
<1>6. IsFiniteSet(allocated')
  BY <1>1, FS_AddElement DEF IInv
<1>7. NoDanglingEvent'
  BY <1>1 DEF IInv, TypeOK, NoDanglingEvent
<1>8. b \notin Live /\ b \notin refused /\ b \notin leaked /\ b \notin Range(retired)
  BY <1>1 DEF IInv, TypeOK, RetiredOnce, Live
<1>9. \A i \in DOMAIN events : events[i].ptr # b
  BY <1>1 DEF IInv, NoDanglingEvent
<1> QED
  BY <1>1, <1>3, <1>4, <1>5, <1>6, <1>7, <1>8, <1>9

(* A registration the kernel accepted. *)
LEMMA AddStep ==
  ASSUME IInv, NEW b \in Blocks, NEW f \in Fds, NEW m \in Mask, add_fd(b, f, m)
  PROVE  IInv'
<1>1. /\ NewEntity(b, f, m)
      /\ \A c \in Live : fd[c] # f
      /\ kernel' = [kernel EXCEPT ![f] = b]
      /\ watched' = [watched EXCEPT ![f] = m]
      /\ load' = load + 1
      /\ UNCHANGED <<retired, refused, leaked, events, pc>>
  BY DEF add_fd
<1>2. /\ fd' \in [Blocks -> Fds \cup {Invalid}] /\ mask' \in [Blocks -> Mask]
      /\ allocated' \subseteq Blocks /\ IsFiniteSet(allocated')
      /\ birth' \in [Blocks -> Nat] /\ adds' \in 0 .. MaxAdds
      /\ NoDanglingEvent'
  BY <1>1, NewStep
<1>3. /\ fd'[b] = f /\ f # Invalid /\ mask'[b] = m
      /\ \A c \in allocated : c # b /\ fd'[c] = fd[c] /\ mask'[c] = mask[c]
      /\ b \notin allocated /\ allocated' = allocated \cup {b}
      /\ b \notin Live /\ b \notin refused /\ b \notin leaked /\ b \notin Range(retired)
  BY <1>1, NewStep
<1>4. Live' = Live \cup {b}
  BY <1>1, <1>3 DEF Live
<1>5. TypeOK'
  <2>1. kernel' \in [Fds -> Blocks \cup {NoBlock}] /\ watched' \in [Fds -> Mask] /\ load' \in Nat
    BY <1>1 DEF IInv, TypeOK
  <2>2. refused' \subseteq Live' /\ leaked' \subseteq allocated'
    BY <1>1, <1>3, <1>4 DEF IInv, TypeOK
  <2> QED
    BY <1>1, <1>2, <2>1, <2>2 DEF IInv, TypeOK
<1>6. load' = Cardinality(Live')
  BY <1>1, <1>3, <1>4, LiveFinite, FS_AddElement DEF IInv, KernelInStep
<1>7. NoneRefused'
  BY <1>1 DEF IInv, NoneRefused
<1>8. KernelInStep'
  <2>1. \A c \in Live : c # b /\ c \in allocated /\ fd[c] # f /\ fd[c] \in Fds
    BY <1>1, <1>3 DEF IInv, TypeOK, Live
  <2>2. \A c \in Live' \ refused' : kernel'[fd'[c]] = c /\ watched'[fd'[c]] = mask'[c]
    <3> SUFFICES ASSUME NEW c \in Live' \ refused'
                 PROVE  kernel'[fd'[c]] = c /\ watched'[fd'[c]] = mask'[c]
      OBVIOUS
    <3>1. CASE c = b
      BY <1>1, <1>3, <3>1 DEF IInv, TypeOK
    <3>2. CASE c \in Live
      <4>1. kernel[fd[c]] = c /\ watched[fd[c]] = mask[c]
        BY <1>1, <3>2 DEF IInv, KernelInStep
      <4> QED
        BY <1>1, <1>3, <2>1, <3>2, <4>1 DEF IInv, TypeOK
    <3> QED
      BY <1>4, <3>1, <3>2
  <2>3. \A g \in Fds : kernel'[g] # NoBlock => kernel'[g] \in Live' \ refused' /\ fd'[kernel'[g]] = g
    <3> SUFFICES ASSUME NEW g \in Fds, kernel'[g] # NoBlock
                 PROVE  kernel'[g] \in Live' \ refused' /\ fd'[kernel'[g]] = g
      OBVIOUS
    <3>1. CASE g = f
      BY <1>1, <1>3, <1>4, <3>1 DEF IInv, TypeOK
    <3>2. CASE g # f
      <4>1. kernel'[g] = kernel[g] /\ kernel[g] \in Live \ refused /\ fd[kernel[g]] = g
        BY <1>1, <3>2 DEF IInv, TypeOK, KernelInStep
      <4> QED
        BY <1>1, <1>3, <1>4, <2>1, <4>1
    <3> QED
      BY <3>1, <3>2
  <2> QED
    BY <1>6, <2>2, <2>3 DEF KernelInStep
<1>9. RetiredOnce'
  <2>1. allocated' \ Live' = allocated \ Live
    BY <1>3, <1>4
  <2> QED
    BY <1>1, <2>1 DEF IInv, RetiredOnce
<1>10. OneEach'
  BY <1>1, <1>3, <1>4 DEF IInv, OneEach, Live
<1> QED
  BY <1>2, <1>5, <1>7, <1>8, <1>9, <1>10 DEF IInv

(* A registration the kernel refused, and the caller holds all the same: it *)
(* counts in load_ and nothing else knows of it.                            *)
LEMMA RefusedStep ==
  ASSUME IInv, NEW b \in Blocks, NEW f \in Fds, NEW m \in Mask, AddRefused(b, f, m)
  PROVE  IInv'
<1>1. /\ NewEntity(b, f, m)
      /\ \A c \in Live : fd[c] # f
      /\ refused' = refused \cup {b}
      /\ load' = load + 1
      /\ UNCHANGED <<retired, kernel, watched, leaked, events, pc>>
  BY DEF AddRefused
<1>2. /\ fd' \in [Blocks -> Fds \cup {Invalid}] /\ mask' \in [Blocks -> Mask]
      /\ allocated' \subseteq Blocks /\ IsFiniteSet(allocated')
      /\ birth' \in [Blocks -> Nat] /\ adds' \in 0 .. MaxAdds
      /\ NoDanglingEvent'
  BY <1>1, NewStep
<1>3. /\ fd'[b] = f /\ f # Invalid /\ mask'[b] = m
      /\ \A c \in allocated : c # b /\ fd'[c] = fd[c] /\ mask'[c] = mask[c]
      /\ b \notin allocated /\ allocated' = allocated \cup {b}
      /\ b \notin Live /\ b \notin refused /\ b \notin leaked /\ b \notin Range(retired)
      /\ \A i \in DOMAIN events : events[i].ptr # b
  BY <1>1, NewStep
<1>4. Live' = Live \cup {b} /\ Live' \ refused' = Live \ refused
  BY <1>1, <1>3 DEF Live
<1>5. TypeOK'
  <2>1. kernel' \in [Fds -> Blocks \cup {NoBlock}] /\ watched' \in [Fds -> Mask] /\ load' \in Nat
    BY <1>1 DEF IInv, TypeOK
  <2>2. refused' \subseteq Live' /\ leaked' \subseteq allocated'
    BY <1>1, <1>3, <1>4 DEF IInv, TypeOK
  <2> QED
    BY <1>1, <1>2, <2>1, <2>2 DEF IInv, TypeOK
<1>6. load' = Cardinality(Live')
  BY <1>1, <1>3, <1>4, LiveFinite, FS_AddElement DEF IInv, KernelInStep
<1>7. NoneRefused'
  BY <1>1, <1>3 DEF IInv, NoneRefused
<1>8. KernelInStep'
  <2>1. Live \subseteq allocated
    BY DEF Live
  <2> QED
    BY <1>1, <1>3, <1>4, <1>6, <2>1 DEF IInv, KernelInStep
<1>9. RetiredOnce'
  <2>1. allocated' \ Live' = allocated \ Live
    BY <1>3, <1>4
  <2> QED
    BY <1>1, <2>1 DEF IInv, RetiredOnce
<1>10. OneEach'
  BY <1>1, <1>3, <1>4 DEF IInv, OneEach, Live
<1> QED
  BY <1>2, <1>5, <1>7, <1>8, <1>9, <1>10 DEF IInv

(* A registration add_fd threw over: the entity stays allocated for good.   *)
LEMMA ThrowStep ==
  ASSUME IInv, NEW b \in Blocks, NEW f \in Fds, NEW m \in Mask, AddThrows(b, f, m)
  PROVE  IInv'
<1>1. /\ NewEntity(b, f, m)
      /\ leaked' = leaked \cup {b}
      /\ UNCHANGED <<retired, load, kernel, watched, refused, events, pc>>
  BY DEF AddThrows
<1>2. /\ fd' \in [Blocks -> Fds \cup {Invalid}] /\ mask' \in [Blocks -> Mask]
      /\ allocated' \subseteq Blocks /\ IsFiniteSet(allocated')
      /\ birth' \in [Blocks -> Nat] /\ adds' \in 0 .. MaxAdds
      /\ NoDanglingEvent'
  BY <1>1, NewStep
<1>3. /\ \A c \in allocated : c # b /\ fd'[c] = fd[c] /\ mask'[c] = mask[c]
      /\ b \notin allocated /\ allocated' = allocated \cup {b}
      /\ b \notin Live /\ b \notin leaked /\ b \notin Range(retired)
      /\ \A i \in DOMAIN events : events[i].ptr # b
  BY <1>1, NewStep
<1>4. Live' = Live
  BY <1>1, <1>3 DEF Live
<1>5. TypeOK'
  BY <1>1, <1>2, <1>3, <1>4 DEF IInv, TypeOK
<1>6. NoneRefused'
  BY <1>1, <1>3 DEF IInv, NoneRefused
<1>7. KernelInStep'
  <2>1. Live \subseteq allocated
    BY DEF Live
  <2> QED
    BY <1>1, <1>3, <1>4, <2>1 DEF IInv, KernelInStep
<1>8. RetiredOnce'
  <2>1. allocated' \ Live' = (allocated \ Live) \cup {b}
    BY <1>3, <1>4
  <2> QED
    BY <1>1, <1>3, <2>1 DEF IInv, RetiredOnce
<1>9. OneEach'
  BY <1>3, <1>4 DEF IInv, OneEach, Live
<1> QED
  BY <1>2, <1>5, <1>6, <1>7, <1>8, <1>9 DEF IInv

(* rm_fd moves a block from the live ones to the retired ones. *)
LEMMA RemoveStep ==
  ASSUME IInv, NEW b \in Blocks, rm_fd(b)
  PROVE  IInv'
<1>1. /\ b \in Live
      /\ kernel' = [kernel EXCEPT ![fd[b]] = NoBlock]
      /\ watched' = [watched EXCEPT ![fd[b]] = {}]
      /\ fd' = [fd EXCEPT ![b] = Invalid]
      /\ refused' = refused \ {b}
      /\ retired' = Append(retired, b)
      /\ load' = load - 1
      /\ mask' = mask /\ allocated' = allocated /\ leaked' = leaked /\ events' = events
      /\ pc' = pc /\ birth' = birth /\ adds' = adds
  BY DEF rm_fd
<1>2. b \in allocated /\ b \notin leaked /\ fd[b] \in Fds /\ fd[b] # Invalid
  BY <1>1 DEF IInv, TypeOK, Live
<1>3. Live' = Live \ {b}
  BY <1>1 DEF IInv, TypeOK, Live
<1>4. load' = Cardinality(Live') /\ load' \in Nat
  <2>1. IsFiniteSet(Live) /\ Cardinality(Live') = Cardinality(Live) - 1
    BY <1>1, <1>3, LiveFinite, FS_RemoveElement DEF IInv
  <2>2. IsFiniteSet(Live') /\ Cardinality(Live') \in Nat
    BY <1>3, <2>1, FS_RemoveElement, FS_CardinalityType
  <2> QED
    BY <1>1, <2>1, <2>2 DEF IInv, KernelInStep
<1>5. TypeOK'
  <2> USE DEF IInv, TypeOK
  <2>1. fd' \in [Blocks -> Fds \cup {Invalid}] /\ retired' \in Seq(Blocks)
    BY <1>1
  <2>2. kernel' \in [Fds -> Blocks \cup {NoBlock}]
    BY <1>1, <1>2
  <2>3. watched' \in [Fds -> Mask]
    BY <1>1, <1>2 DEF Mask
  <2>4. refused' \subseteq Live'
    BY <1>1, <1>3
  <2> QED
    BY <1>1, <1>4, <2>1, <2>2, <2>3, <2>4
<1>6. NoDanglingEvent' /\ NoneRefused'
  BY <1>1 DEF IInv, NoDanglingEvent, NoneRefused
<1>7. KernelInStep'
  <2>1. \A c \in Live' : c \in Live /\ c # b /\ fd'[c] = fd[c] /\ fd[c] \in Fds /\ fd[c] # fd[b]
    BY <1>1, <1>3 DEF IInv, TypeOK, OneEach, Live
  <2>2. \A c \in Live' \ refused' : kernel'[fd'[c]] = c /\ watched'[fd'[c]] = mask'[c]
    BY <1>1, <2>1 DEF IInv, TypeOK, KernelInStep
  <2>3. \A g \in Fds : kernel'[g] # NoBlock => kernel'[g] \in Live' \ refused' /\ fd'[kernel'[g]] = g
    <3> SUFFICES ASSUME NEW g \in Fds, kernel'[g] # NoBlock
                 PROVE  kernel'[g] \in Live' \ refused' /\ fd'[kernel'[g]] = g
      OBVIOUS
    <3>1. g # fd[b] /\ kernel'[g] = kernel[g]
      BY <1>1, <1>2 DEF IInv, TypeOK
    <3>2. kernel[g] \in Live \ refused /\ fd[kernel[g]] = g /\ kernel[g] # b
      BY <3>1 DEF IInv, KernelInStep
    <3> QED
      BY <1>1, <1>3, <2>1, <3>1, <3>2
  <2> QED
    BY <1>4, <2>2, <2>3 DEF KernelInStep
<1>8. RetiredOnce'
  <2>1. b \notin Range(retired)
    BY <1>1 DEF IInv, RetiredOnce
  <2>2. Range(retired') = Range(retired) \cup {b}
    BY <1>1, RangeAppend DEF IInv, TypeOK
  <2>3. allocated' \ Live' = Range(retired') \cup leaked' /\ Range(retired') \cap leaked' = {}
    BY <1>1, <1>2, <1>3, <2>2 DEF IInv, RetiredOnce
  <2>4. \A i \in DOMAIN retired : retired[i] # b
    BY <2>1 DEF Range
  <2>5. /\ DOMAIN retired = 1 .. Len(retired) /\ DOMAIN retired' = 1 .. Len(retired) + 1
        /\ Len(retired) \in Nat
        /\ \A i \in 1 .. Len(retired) : retired'[i] = retired[i]
        /\ retired'[Len(retired) + 1] = b
    BY <1>1 DEF IInv, TypeOK
  <2>6. \A i, j \in DOMAIN retired' : retired'[i] = retired'[j] => i = j
    <3> SUFFICES ASSUME NEW i \in DOMAIN retired', NEW j \in DOMAIN retired', retired'[i] = retired'[j]
                 PROVE  i = j
      OBVIOUS
    <3>1. i \in DOMAIN retired \/ i = Len(retired) + 1
      BY <2>5
    <3>2. j \in DOMAIN retired \/ j = Len(retired) + 1
      BY <2>5
    <3> QED
      BY <2>4, <2>5, <3>1, <3>2 DEF IInv, RetiredOnce
  <2> QED
    BY <2>3, <2>6 DEF RetiredOnce
<1>9. OneEach'
  BY <1>1, <1>3 DEF IInv, TypeOK, OneEach, Live
<1> QED
  BY <1>1, <1>5, <1>6, <1>7, <1>8, <1>9 DEF IInv

(* A change of the mask reaches the kernel in the same step. *)
LEMMA ModifyStep ==
  ASSUME IInv, NEW b \in Blocks, NEW m \in Mask, Modify(b, m)
  PROVE  IInv'
<1>1. /\ b \in Live
      /\ mask' = [mask EXCEPT ![b] = m]
      /\ watched' = IF b \in refused THEN watched ELSE [watched EXCEPT ![fd[b]] = m]
      /\ fd' = fd /\ allocated' = allocated /\ retired' = retired /\ load' = load
      /\ refused' = refused /\ leaked' = leaked
      /\ kernel' = kernel /\ events' = events /\ pc' = pc /\ birth' = birth /\ adds' = adds
  BY DEF Modify
<1>2. fd[b] \in Fds
  BY <1>1 DEF IInv, TypeOK, Live
<1>3. Live' = Live
  BY <1>1 DEF Live
<1>4. TypeOK'
  BY <1>1, <1>2, <1>3 DEF IInv, TypeOK
<1>5. KernelInStep'
  <2>1. \A c \in Live : c # b => fd[c] # fd[b]
    BY <1>1 DEF IInv, OneEach
  <2>2. \A c \in Live \ refused : watched'[fd[c]] = mask'[c]
    <3> SUFFICES ASSUME NEW c \in Live \ refused PROVE watched'[fd[c]] = mask'[c]
      OBVIOUS
    <3>1. CASE c = b
      BY <1>1, <1>2, <3>1 DEF IInv, TypeOK
    <3>2. CASE c # b
      <4>1. fd[c] \in Fds /\ c \in Blocks
        BY DEF IInv, TypeOK, Live
      <4> QED
        BY <1>1, <2>1, <3>2, <4>1 DEF IInv, TypeOK, KernelInStep
    <3> QED
      BY <3>1, <3>2
  <2> QED
    BY <1>1, <1>3, <2>2 DEF IInv, KernelInStep
<1> QED
  BY <1>1, <1>3, <1>4, <1>5 DEF IInv, NoDanglingEvent, NoneRefused, OneEach, RetiredOnce

LEMMA ModifiersStep ==
  ASSUME IInv, NEW b \in Blocks,
         set_in_event(b) \/ reset_in_event(b) \/ set_out_event(b) \/ reset_out_event(b)
  PROVE  IInv'
<1>1. /\ mask[b] \cup {"in"} \in Mask /\ mask[b] \ {"in"} \in Mask
      /\ mask[b] \cup {"out"} \in Mask /\ mask[b] \ {"out"} \in Mask
  BY DEF IInv, TypeOK, Mask
<1> QED
  BY <1>1, ModifyStep DEF set_in_event, reset_in_event, set_out_event, reset_out_event

-----------------------------------------------------------------------------
(* poll *)

LEMMA CallsType == \A reported : Calls(reported) \in Seq(Call)
<1> TAKE reported
<1> DEFINE e == IF "err" \in reported THEN <<"in_event">> ELSE <<>>
           o == IF "out" \in reported THEN <<"out_event">> ELSE <<>>
           n == IF "in" \in reported THEN <<"in_event">> ELSE <<>>
<1>0. <<"in_event">> \in Seq(Call) /\ <<"out_event">> \in Seq(Call) /\ <<>> \in Seq(Call)
  BY DEF Call
<1>1. e \in Seq(Call) /\ o \in Seq(Call) /\ n \in Seq(Call)
  BY <1>0
<1>2. Calls(reported) = (e \o o) \o n
  BY DEF Calls
<1> HIDE DEF e, o, n
<1>3. e \o o \in Seq(Call)
  BY <1>1
<1> QED
  BY <1>1, <1>2, <1>3

(* Steps of poll that leave the registrations alone. *)
LEMMA EventsStep ==
  ASSUME IInv, TypeOK', NoDanglingEvent', NoneRefused',
         UNCHANGED <<fd, mask, allocated, retired, load, kernel, watched, refused, leaked, birth>>
  PROVE  IInv'
<1>1. Live' = Live
  BY DEF Live
<1> QED
  BY <1>1 DEF IInv, KernelInStep, OneEach, RetiredOnce

(* What epoll_wait returns points to live entities. *)
LEMMA WaitStep ==
  ASSUME IInv, EpollWait
  PROVE  IInv'
<1>1. UNCHANGED <<fd, mask, allocated, retired, load, kernel, watched, refused, leaked, birth, adds>> /\ pc' = "dispatch"
  BY DEF EpollWait
<1>2. PICK fs \in SUBSET {f \in Fds : kernel[f] # NoBlock} :
        \E ready \in [fs -> SUBSET {"err", "out", "in"} \ {{}}], order \in SetToSeqs(fs) :
          events' = [i \in 1 .. Len(order) |-> Event(order[i], ready[order[i]])]
  BY DEF EpollWait
<1>3. PICK ready \in [fs -> SUBSET {"err", "out", "in"} \ {{}}], order \in SetToSeqs(fs) :
        events' = [i \in 1 .. Len(order) |-> Event(order[i], ready[order[i]])]
  BY <1>2
<1>4. IsFiniteSet(fs) /\ Cardinality(fs) \in Nat
  <2>1. fs \in SUBSET Fds
    OBVIOUS
  <2> QED
    BY <2>1, EpollPollerAssumption, FS_Subset, FS_CardinalityType
<1>5. order \in [1 .. Cardinality(fs) -> fs]
  BY DEF SetToSeqs
<1>6. Len(order) = Cardinality(fs) /\ \A i \in 1 .. Len(order) : order[i] \in fs
  BY <1>4, <1>5
<1>7. DOMAIN events' = 1 .. Len(order) /\ Len(order) \in Nat
  BY <1>3, <1>4, <1>6
<1>8. \A i \in 1 .. Len(order) :
        /\ events'[i].ptr = kernel[order[i]] /\ events'[i].birth = birth[kernel[order[i]]]
        /\ events'[i].ptr \in Live \ refused
        /\ events'[i] \in [ptr: Blocks, birth: Nat, calls: Seq(Call)]
  <2> SUFFICES ASSUME NEW i \in 1 .. Len(order)
               PROVE  /\ events'[i].ptr = kernel[order[i]] /\ events'[i].birth = birth[kernel[order[i]]]
                      /\ events'[i].ptr \in Live \ refused
                      /\ events'[i] \in [ptr: Blocks, birth: Nat, calls: Seq(Call)]
    OBVIOUS
  <2>1. events'[i] = [ptr |-> kernel[order[i]], birth |-> birth[kernel[order[i]]],
                      calls |-> Calls(ready[order[i]])]
    BY <1>3 DEF Event
  <2>2. order[i] \in Fds /\ kernel[order[i]] # NoBlock
    BY <1>6
  <2>3. kernel[order[i]] \in Live \ refused /\ kernel[order[i]] \in Blocks
    BY <2>2 DEF IInv, TypeOK, KernelInStep, Live
  <2>4. birth[kernel[order[i]]] \in Nat
    BY <2>3 DEF IInv, TypeOK
  <2> QED
    BY <2>1, <2>3, <2>4, CallsType
<1>9. events' \in Seq([ptr: Blocks, birth: Nat, calls: Seq(Call)])
  <2> DEFINE E == [ptr: Blocks, birth: Nat, calls: Seq(Call)]
  <2>1. events' \in [1 .. Len(order) -> E]
    BY <1>3, <1>8
  <2> QED
    BY <1>7, <2>1, FunctionIsSeq
<1>10. TypeOK'
  BY <1>1, <1>9 DEF IInv, TypeOK, Live
<1>11. NoDanglingEvent' /\ NoneRefused'
  BY <1>1, <1>7, <1>8 DEF NoDanglingEvent, NoneRefused, Live
<1> QED
  BY <1>1, <1>10, <1>11, EventsStep

LEMMA NextEventStep ==
  ASSUME IInv, NextEvent
  PROVE  IInv'
<1>1. /\ events # <<>> /\ events' = Tail(events)
      /\ UNCHANGED <<fd, mask, allocated, retired, load, kernel, watched, refused, leaked, pc, birth, adds>>
  BY DEF NextEvent
<1> DEFINE E == [ptr: Blocks, birth: Nat, calls: Seq(Call)]
<1>2. events \in Seq(E)
  BY DEF IInv, TypeOK
<1>3. \A i \in DOMAIN events :
        /\ events[i].ptr \in allocated /\ birth[events[i].ptr] = events[i].birth
        /\ events[i].ptr \notin refused \cup leaked
  BY DEF IInv, NoDanglingEvent, NoneRefused
<1> HIDE DEF E
<1>4. events' \in Seq(E)
  BY <1>1, <1>2
<1>5. \A i \in DOMAIN events' : i + 1 \in DOMAIN events /\ events'[i] = events[i + 1]
  BY <1>1, <1>2
<1>6. TypeOK'
  BY <1>1, <1>4 DEF IInv, TypeOK, Live, E
<1>7. NoDanglingEvent' /\ NoneRefused'
  BY <1>1, <1>3, <1>5 DEF NoDanglingEvent, NoneRefused
<1> QED
  BY <1>1, <1>6, <1>7, EventsStep

LEMMA CallStep ==
  ASSUME IInv, CallHandler
  PROVE  IInv'
<1>1. /\ events # <<>> /\ Head(events).calls # <<>>
      /\ events' = [events EXCEPT ![1].calls = Tail(@)] /\ pc' = "handler"
      /\ UNCHANGED <<fd, mask, allocated, retired, load, kernel, watched, refused, leaked, birth, adds>>
  BY DEF CallHandler
<1> DEFINE E == [ptr: Blocks, birth: Nat, calls: Seq(Call)]
<1>2. events \in Seq(E) /\ 1 \in DOMAIN events /\ events[1] \in E /\ Head(events) = events[1]
  <2>1. events \in Seq(E)
    BY DEF IInv, TypeOK
  <2> HIDE DEF E
  <2> QED
    BY <1>1, <2>1
<1>3. Tail(events[1].calls) \in Seq(Call)
  BY <1>1, <1>2
<1>4. DOMAIN events' = DOMAIN events /\ \A i \in DOMAIN events : i # 1 => events'[i] = events[i]
  BY <1>1
<1>5. events'[1] = [events[1] EXCEPT !.calls = Tail(@)]
  BY <1>1, <1>2
<1>6. events'[1] \in E /\ events'[1].ptr = events[1].ptr /\ events'[1].birth = events[1].birth
  BY <1>2, <1>3, <1>5
<1>7. events' \in Seq(E)
  <2>1. events' = [events EXCEPT ![1] = events'[1]]
    BY <1>1, <1>5
  <2> HIDE DEF E
  <2> QED
    BY <1>2, <1>6, <2>1
<1>8. TypeOK'
  BY <1>1, <1>7 DEF IInv, TypeOK, Live
<1>9. NoDanglingEvent' /\ NoneRefused'
  <2>1. \A i \in DOMAIN events :
          /\ events[i].ptr \in allocated /\ birth[events[i].ptr] = events[i].birth
          /\ events[i].ptr \notin refused \cup leaked
    BY DEF IInv, NoDanglingEvent, NoneRefused
  <2> QED
    BY <1>1, <1>2, <1>4, <1>6, <2>1 DEF NoDanglingEvent, NoneRefused
<1> QED
  BY <1>1, <1>8, <1>9, EventsStep

LEMMA ReturnStep ==
  ASSUME IInv, HandlerReturns
  PROVE  IInv'
<1>1. TypeOK' /\ NoDanglingEvent' /\ NoneRefused'
  BY DEF IInv, HandlerReturns, TypeOK, NoDanglingEvent, NoneRefused, Live
<1> QED
  BY <1>1, EventsStep DEF HandlerReturns

(* What is freed was retired, and no event is left that points to it. *)
LEMMA FreeStep ==
  ASSUME IInv, FreeRetired
  PROVE  IInv'
<1>1. /\ events = <<>> /\ allocated' = allocated \ Range(retired) /\ retired' = <<>> /\ pc' = "idle"
      /\ UNCHANGED <<fd, mask, load, kernel, watched, refused, leaked, events, birth, adds>>
  BY DEF FreeRetired
<1>2. allocated' = Live \cup leaked /\ Live \cap leaked = {}
  BY <1>1 DEF IInv, TypeOK, RetiredOnce, Live
<1>3. Live' = Live
  BY <1>1, <1>2 DEF Live
<1>4. TypeOK'
  BY <1>1, <1>2, <1>3 DEF IInv, TypeOK
<1>5. IsFiniteSet(allocated')
  <2>1. allocated' \in SUBSET allocated
    BY <1>1
  <2> QED
    BY <2>1, FS_Subset DEF IInv
<1>6. NoDanglingEvent' /\ NoneRefused'
  BY <1>1 DEF NoDanglingEvent, NoneRefused
<1>7. KernelInStep' /\ OneEach'
  BY <1>1, <1>3 DEF IInv, KernelInStep, OneEach
<1>8. RetiredOnce'
  <2>1. Range(retired') = {}
    BY <1>1 DEF Range
  <2> QED
    BY <1>1, <1>2, <1>3, <2>1 DEF RetiredOnce
<1> QED
  BY <1>4, <1>5, <1>6, <1>7, <1>8 DEF IInv

-----------------------------------------------------------------------------

LEMMA StepIInv == IInv /\ [Next]_vars => IInv'
<1> SUFFICES ASSUME IInv, [Next]_vars PROVE IInv'
  OBVIOUS
<1>1. CASE \E b \in Blocks, f \in Fds, m \in Mask :
        add_fd(b, f, m) \/ AddRefused(b, f, m) \/ AddThrows(b, f, m)
  BY <1>1, AddStep, RefusedStep, ThrowStep
<1>2. CASE \E b \in Blocks : rm_fd(b)
  BY <1>2, RemoveStep
<1>3. CASE \E b \in Blocks :
        set_in_event(b) \/ reset_in_event(b) \/ set_out_event(b) \/ reset_out_event(b)
  BY <1>3, ModifiersStep
<1>4. CASE UNCHANGED vars
  BY <1>4 DEF vars, IInv, TypeOK, NoDanglingEvent, NoneRefused, OneEach, KernelInStep, RetiredOnce, Live
<1>5. CASE EpollWait
  BY <1>5, WaitStep
<1>6. CASE NextEvent
  BY <1>6, NextEventStep
<1>7. CASE CallHandler
  BY <1>7, CallStep
<1>8. CASE HandlerReturns
  BY <1>8, ReturnStep
<1>9. CASE FreeRetired
  BY <1>9, FreeStep
<1> QED
  BY <1>1, <1>2, <1>3, <1>4, <1>5, <1>6, <1>7, <1>8, <1>9 DEF Next, PollNothing

LEMMA AlwaysIInv == Spec => []IInv
  BY InitIInv, StepIInv, PTL DEF Spec

(* The poller's variables keep their types; load_, which rm_fd decrements   *)
(* without a test, never goes below zero.                                   *)
THEOREM PollerTypeCorrect == Spec => []TypeOK
<1>1. IInv => TypeOK
  BY DEF IInv
<1> QED
  BY <1>1, AlwaysIInv, PTL

(* poll never follows a dangling pointer, whatever handlers remove and      *)
(* register during a batch.                                                 *)
THEOREM EventsStayValid == Spec => []NoDanglingEvent
<1>1. IInv => NoDanglingEvent
  BY DEF IInv
<1> QED
  BY <1>1, AlwaysIInv, PTL

(* The epoll set, the live entities and load_ agree. *)
THEOREM KernelKeptInStep == Spec => []KernelInStep
<1>1. IInv => KernelInStep
  BY DEF IInv
<1> QED
  BY <1>1, AlwaysIInv, PTL

(* Removed entities are neither leaked nor freed twice. *)
THEOREM RetiredAreFreedOnce == Spec => []RetiredOnce
<1>1. IInv => RetiredOnce
  BY DEF IInv
<1> QED
  BY <1>1, AlwaysIInv, PTL

(* poll calls a handler only for the registration the kernel reported, and  *)
(* only while it is in force.                                               *)
THEOREM OnlyRegisteredCalled == Spec => HandlerIsRegistered
<1> DEFINE Registered ==
      pc = "dispatch" /\ pc' = "handler" =>
        LET b == Head(events).ptr
        IN  b \in Live /\ kernel[fd[b]] = b /\ birth[b] = Head(events).birth
<1>1. ASSUME IInv, [Next]_vars PROVE [Registered]_vars
  <2> SUFFICES ASSUME pc = "dispatch", pc' = "handler"
               PROVE  LET b == Head(events).ptr
                      IN  b \in Live /\ kernel[fd[b]] = b /\ birth[b] = Head(events).birth
    OBVIOUS
  <2>1. CallHandler
    BY <1>1 DEF Next, vars, add_fd, AddRefused, AddThrows, rm_fd, set_in_event, reset_in_event, set_out_event, reset_out_event,
                Modify, UserCode, PollNothing, EpollWait, NextEvent, HandlerReturns, FreeRetired
  <2>2. events # <<>> /\ fd[Head(events).ptr] # Invalid
    BY <2>1 DEF CallHandler
  <2>3. 1 \in DOMAIN events /\ Head(events) = events[1]
    BY <1>1, <2>2 DEF IInv, TypeOK
  <2>4. /\ Head(events).ptr \in allocated /\ birth[Head(events).ptr] = Head(events).birth
        /\ Head(events).ptr \notin refused \cup leaked
    BY <1>1, <2>3 DEF IInv, NoDanglingEvent, NoneRefused
  <2> QED
    BY <1>1, <2>2, <2>4 DEF IInv, KernelInStep, Live
<1>2. [][Registered]_vars => HandlerIsRegistered
  BY PTL DEF HandlerIsRegistered
<1> QED
  BY <1>1, <1>2, AlwaysIInv, PTL DEF Spec

=============================================================================
