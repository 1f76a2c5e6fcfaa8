------------------------------- MODULE DtsGen -------------------------------
(***************************************************************************)
(* DtsGenWithPts of zav: guesses the decoding time of a frame from the     *)
(* presentation times, which arrive in decoding order.  It first counts    *)
(* the B frames between two other frames, then sorts as many times and     *)
(* takes the smallest.                                                     *)
(*                                                                         *)
(* The stream: a first frame, then groups of one P frame and the B frames  *)
(* shown before it, in any order.  A frame may come in several pieces with *)
(* the same time.                                                          *)
(***************************************************************************)
EXTENDS Integers, Sequences, FiniteSets

CONSTANTS
  Frame,       (* time between two frames shown                             *)
  Starts,      (* times a stream may begin with                             *)
  MaxB,        (* most B frames of a group                                  *)
  MaxGroups    (* bound: groups of a stream                                 *)

ASSUME DtsAssumption ==
  /\ Frame \in Nat \ {0} /\ MaxB \in Nat /\ MaxGroups \in Nat
  /\ Starts \subseteq Nat

VARIABLES
  gen,      (* the object: its fields                                       *)
  pts,      (* of the last call, -1 before the first                        *)
  dts,      (* what it set                                                  *)
  sure,     (* what it returned: dts was generated                          *)
  coming,   (* B frames of the group that have not come yet                 *)
  last,     (* time of the last frame that is no B frame                    *)
  groups    (* the numbers of B frames of the groups begun                  *)

dtsVars == <<gen, pts, dts, sure, coming, last, groups>>

-----------------------------------------------------------------------------

(* Seeded fault: the offset is the whole time between two P frames. *)
FaultyCounted(g, p) ==
  IF p > g.last_max_pts
  THEN LET learnt == g.frames_since > 0 /\ g.count > 0
       IN  [g EXCEPT !.count = IF g.frames_since > 0 THEN @ + 1 ELSE @,
                     !.sorter_max_size = IF learnt THEN g.frames_since ELSE @,
                     !.offset = IF learnt THEN p - g.last_max_pts ELSE @,
                     !.last_max_pts = p,
                     !.frames_since = 1]
  ELSE [g EXCEPT !.frames_since = @ + 1]

(* The number of B frames is not known yet: count them. *)
Counted(g, p) ==
  IF p > g.last_max_pts
  THEN LET learnt == g.frames_since > 0 /\ g.count > 0
       IN  [g EXCEPT !.count = IF g.frames_since > 0 THEN @ + 1 ELSE @,
                     !.sorter_max_size = IF learnt THEN g.frames_since ELSE @,
                     !.offset = IF learnt THEN (p - g.last_max_pts) \div 2 ELSE @,
                     !.last_max_pts = p,
                     !.frames_since = 1]
  ELSE [g EXCEPT !.frames_since = @ + 1]

Smallest(times) == CHOOSE t \in times : \A u \in times : t <= u

(* Seeded fault: the smallest time stays in the sorter. *)
FaultyGenDts_l(g, p) ==
  LET h == IF g.sorter_max_size = 0 THEN Counted(g, p) ELSE g
      sorter == h.pts_sorter \cup {p}
      first == Smallest(sorter)
  IN  IF g.sorter_max_size = 1 THEN <<TRUE, p, g>>
      ELSE IF h.sorter_max_size > 0 /\ Cardinality(sorter) > h.sorter_max_size
      THEN <<TRUE, first + h.offset, [h EXCEPT !.pts_sorter = sorter]>>
      ELSE <<FALSE, p, [h EXCEPT !.pts_sorter = sorter]>>

(* <<returned, dts, object>>, without the cut to pts. *)
GenDts_l(g, p) ==
  LET h == IF g.sorter_max_size = 0 THEN Counted(g, p) ELSE g
      sorter == h.pts_sorter \cup {p}
      first == Smallest(sorter)
  IN  IF g.sorter_max_size = 1 THEN <<TRUE, p, g>>
      ELSE IF h.sorter_max_size > 0 /\ Cardinality(sorter) > h.sorter_max_size
      THEN <<TRUE, first + h.offset, [h EXCEPT !.pts_sorter = sorter \ {first}]>>
      ELSE <<FALSE, p, [h EXCEPT !.pts_sorter = sorter]>>

GenDts(p) ==
  LET guess == GenDts_l(gen, p)
      cut == IF guess[2] > p THEN p ELSE guess[2]
  IN  /\ pts' = p
      /\ IF p = gen.last_pts
         THEN /\ sure' = (gen.last_dts # 0)
              /\ dts' = IF sure' THEN gen.last_dts ELSE p
              /\ UNCHANGED gen
         ELSE /\ sure' = guess[1]
              /\ dts' = cut
              /\ gen' = [guess[3] EXCEPT !.last_pts = p,
                                         !.last_dts = IF guess[1] THEN cut ELSE @]

-----------------------------------------------------------------------------
(* The frames of a stream. *)

FirstFrame(p) ==
  /\ pts = -1
  /\ GenDts(p)
  /\ last' = p
  /\ UNCHANGED <<coming, groups>>

PFrame(b) ==
  /\ pts # -1 /\ coming = {} /\ Len(groups) < MaxGroups
  /\ last' = last + (b + 1) * Frame
  /\ coming' = {last + i * Frame : i \in 1 .. b}
  /\ groups' = Append(groups, b)
  /\ GenDts(last')

BFrame ==
  \E p \in coming :
    /\ GenDts(p)
    /\ coming' = coming \ {p}
    /\ UNCHANGED <<last, groups>>

(* Another piece of the same frame. *)
SamePts ==
  /\ pts # -1
  /\ GenDts(pts)
  /\ UNCHANGED <<coming, last, groups>>

DtsInit ==
  /\ gen = [offset |-> 0, last_dts |-> 0, last_pts |-> 0, last_max_pts |-> 0,
            frames_since |-> 0, sorter_max_size |-> 0, count |-> 0, pts_sorter |-> {}]
  /\ pts = -1 /\ dts = 0 /\ sure = FALSE
  /\ coming = {} /\ last = 0 /\ groups = <<>>

DtsNext ==
  \/ \E p \in Starts : FirstFrame(p)
  \/ \E b \in 0 .. MaxB : PFrame(b)
  \/ BFrame
  \/ SamePts

DtsSpec == DtsInit /\ [][DtsNext]_dtsVars

-----------------------------------------------------------------------------
(* Properties. *)

Regular == \A i, j \in DOMAIN groups : groups[i] = groups[j]

(* Once a time was generated every later frame gets one, greater than the   *)
(* one before, and pieces of a frame the same.                              *)
Increases == sure => sure' /\ IF pts' = pts THEN dts' = dts ELSE dts' > dts

(* av_pts_dts.cc, of the cut of a time beyond pts: "basically impossible to *)
(* reach".                                                                  *)
CutUnreached == pts' # gen.last_pts => GenDts_l(gen, pts')[2] <= pts'

(* Of a stream whose groups are alike, with at most three B frames each,    *)
(* whatever order they come in and however many pieces: decoding times      *)
(* increase, and none had to be cut to stay before the presentation.        *)
DtsIncreases == [][Regular' => Increases /\ CutUnreached]_dtsVars

=============================================================================
