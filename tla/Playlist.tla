------------------------------ MODULE Playlist ------------------------------
(***************************************************************************)
(* The m3u8 playlists of zav: m3u8_parser, which reads one, its choice of  *)
(* the segments of a period, and m3u8_merger, which makes one playlist of  *)
(* several.                                                                *)
(*                                                                         *)
(* A line is a tag with its value, or the path of a segment.  Times are    *)
(* integers in a unit that all floats and all numbers that operator<<      *)
(* prints are multiples of; they are not negative.  Paths and urls are     *)
(* sequences of names, ":" and "/".                                        *)
(***************************************************************************)
EXTENDS Integers, Sequences, SequencesExt

CONSTANTS
  Unit,            (* units of a second                                     *)
  Floats,          (* values of a float                                     *)
  Decimals,        (* values of what operator<< prints: six digits          *)
  Horizon, Err,    (* up to Horizon a float is within Err of any number     *)
  Urls,            (* of the playlists, each [protocol, place, file]: place *)
                   (* is the host with the directories                      *)
  Lines,           (* what a playlist may hold                              *)
  Seconds,         (* ends of periods that are asked for                    *)
  MaxLines,        (* bound: lines of all playlists                         *)
  MaxPlaylists     (* bound: playlists merged                               *)

Line(tag, value) == [tag |-> tag, value |-> value, path |-> <<>>]
Path(path) == [tag |-> "ts", value |-> 0, path |-> path]

-----------------------------------------------------------------------------
(* Numbers are rounded to the nearest; which of two as near is left open,   *)
(* but always the same.                                                     *)

Distance(x, y) == IF x >= y THEN x - y ELSE y - x

IsNearest(S, x, y) == y \in S /\ \A z \in S : Distance(x, y) <= Distance(x, z)

Nearest(S, x) == CHOOSE y \in S : IsNearest(S, x, y)

(* What strtof and a sum of floats give, and what is printed of a float.    *)
Float(x) == Nearest(Floats, x)
Printed(x) == Nearest(Decimals, x)

ASSUME NumberAssumption ==
  /\ Unit \in Nat \ {0}
  /\ Floats \subseteq Nat /\ 0 \in Floats
  /\ Decimals \subseteq Nat /\ Decimals # {}
  /\ \A f \in Floats \ {0} : Float(Printed(f)) # 0
  /\ Horizon \in Nat /\ Err \in Nat
  /\ \A x \in 0 .. Horizon : Distance(x, Float(x)) <= Err

ASSUME PlaylistAssumption ==
  /\ Urls \in Seq([protocol : STRING \ {":", "/"}, place : Seq(STRING),
                   file : STRING \ {":", "/"}])
  /\ \A l \in Lines : l.tag = "ts" => l.path \in Seq(STRING) \ {<<>>}
  /\ \A l \in Lines : l.value \in Nat
  /\ Seconds \subseteq Int /\ MaxLines \in Nat
  /\ MaxPlaylists \in 1 .. Len(Urls)

VARIABLE contents    (* the playlists, each under the url of its number     *)

-----------------------------------------------------------------------------

directory(u) == <<u.protocol, ":", "/", "/">> \o u.place
Url(i) == directory(Urls[i]) \o <<"/", Urls[i].file>>

(* Where text has "://". *)
Protocols(text) ==
  {i \in DOMAIN text : /\ i + 2 <= Len(text) /\ text[i] = ":"
                       /\ text[i + 1] = "/" /\ text[i + 2] = "/"}

TwoSlashes(path) == Len(path) > 1 /\ path[1] = "/" /\ path[2] = "/"

(* substr(0, i), or all of it when nothing was found. *)
Before(text, found, i) == IF found = {} THEN text ELSE SubSeq(text, 1, i - 1)

(* Up to the last "/", or to "://" for a path with a host. *)
join_ts_url(url, path) ==
  LET slashes == {i \in DOMAIN url : url[i] = "/"}
      m3u8_head == Before(url, slashes, Max(slashes))
  IN  IF Protocols(path) # {} THEN path
      ELSE IF TwoSlashes(path)
        THEN Before(url, Protocols(url), Min(Protocols(url))) \o <<":">> \o path
      ELSE IF path[1] = "/" THEN m3u8_head \o path
      ELSE m3u8_head \o <<"/">> \o path

EmptyParser ==
  [ok |-> TRUE, is_live |-> TRUE, target_duration |-> 0, max_duration |-> 0,
   total_duration |-> 0, ts_map |-> <<>>, cur_inf_duration |-> 0]

Greatest(a, b) == IF a >= b THEN a ELSE b

(* Seeded fault: the duration serves the next path too. *)
FaultySegment(p, url, path) ==
  [p EXCEPT !.ts_map = Append(@, [ts_url |-> join_ts_url(url, path),
                                  duration |-> p.cur_inf_duration]),
            !.max_duration = Greatest(p.cur_inf_duration, @)]

Segment(p, url, path) ==
  [p EXCEPT !.ts_map = Append(@, [ts_url |-> join_ts_url(url, path),
                                  duration |-> p.cur_inf_duration]),
            !.max_duration = Greatest(p.cur_inf_duration, @),
            !.cur_inf_duration = 0]

(* One line; nothing behind an embedded playlist is looked at. *)
ParseLine(p, url, line) ==
  IF ~p.ok THEN p
  ELSE CASE line.tag = "STREAM-INF" -> [p EXCEPT !.ok = FALSE]
         [] line.tag = "ENDLIST" -> [p EXCEPT !.is_live = FALSE]
         [] line.tag = "TARGETDURATION" -> [p EXCEPT !.target_duration = Float(line.value)]
         [] line.tag = "EXTINF" -> [p EXCEPT !.cur_inf_duration = Float(line.value),
                                             !.total_duration = Float(@ + Float(line.value))]
         [] line.tag = "ts" /\ p.cur_inf_duration > 0 -> Segment(p, url, line.path)
         [] OTHER -> p

(* parse of a new object; without any line it fails. *)
Parse(url, content) ==
  FoldLeft(LAMBDA p, line : ParseLine(p, url, line),
           [EmptyParser EXCEPT !.ok = content # <<>>], content)

(* Whole seconds. *)
Ceiling(duration) == Unit * ((duration + Unit - 1) \div Unit)

(* Seeded fault: only the durations the playlists announce count. *)
FaultyTarget(parsed) ==
  FoldLeft(LAMBDA d, p : Greatest(d, Ceiling(p.target_duration)), 0, parsed)

Target(parsed) ==
  FoldLeft(LAMBDA d, p : Greatest(d, Greatest(Ceiling(p.target_duration),
                                              Ceiling(p.max_duration))), 0, parsed)

merge_m3u8_content(playlists) ==
  LET parsed == [i \in DOMAIN playlists |-> Parse(Url(i), playlists[i])]
      segments == FlattenSeq([i \in DOMAIN parsed |-> parsed[i].ts_map])
  IN  IF \E i \in DOMAIN parsed : ~parsed[i].ok \/ parsed[i].ts_map = <<>>
      THEN <<>>
      ELSE <<Line("EXTM3U", 0), Line("VERSION", 3),
             Line("TARGETDURATION", Printed(Target(parsed))), Line("MEDIA-SEQUENCE", 0)>>
           \o FlattenSeq([i \in DOMAIN segments |->
                <<Line("EXTINF", Printed(segments[i].duration)), Path(segments[i].ts_url)>>])
           \o <<Line("ENDLIST", 0)>>

(* (float)sec, which may be negative though no time is. *)
AsFloat(seconds) == IF seconds < 0 THEN Unit * seconds ELSE Float(Unit * seconds)

(* Seeded fault: a segment that begins before the period is not taken.      *)
FaultyTakeUntil(taken, segment, start, end) ==
  LET passed == Float(taken[1] + segment.duration)
  IN  IF taken[3] \/ (end # -1 /\ taken[1] > AsFloat(end))
      THEN <<taken[1], taken[2], TRUE>>
      ELSE <<passed, IF taken[1] < AsFloat(start) THEN taken[2] ELSE Append(taken[2], segment),
             FALSE>>

(* timeget_ts: <<time passed, segments taken, done>> over the segments; -1   *)
(* is no end.                                                               *)
TakeUntil(taken, segment, start, end) ==
  LET passed == Float(taken[1] + segment.duration)
  IN  IF taken[3] \/ (end # -1 /\ taken[1] > AsFloat(end))
      THEN <<taken[1], taken[2], TRUE>>
      ELSE <<passed, IF passed < AsFloat(start) THEN taken[2] ELSE Append(taken[2], segment),
             FALSE>>

timeget_ts(p, start, end) ==
  FoldLeft(LAMBDA taken, s : TakeUntil(taken, s, start, end), <<0, <<>>, FALSE>>, p.ts_map)[2]

-----------------------------------------------------------------------------
(* Playlists, line by line. *)

Written == FoldLeft(LAMBDA n, content : n + Len(content), 0, contents)

PlaylistInit == contents = << <<>> >>

AddLine ==
  /\ Written < MaxLines
  /\ \E line \in Lines :
       contents' = [contents EXCEPT ![Len(contents)] = Append(@, line)]

AddPlaylist ==
  /\ Len(contents) < MaxPlaylists /\ Written < MaxLines
  /\ contents' = Append(contents, <<>>)

PlaylistNext == AddLine \/ AddPlaylist

PlaylistSpec == PlaylistInit /\ [][PlaylistNext]_contents

-----------------------------------------------------------------------------
(* Properties. *)

(* The address of a path, by the parts of the url: as it is if it names the *)
(* protocol, behind the protocol if it names a host, and else in the        *)
(* directory of the playlist.                                               *)
Address(u, path) ==
  IF Protocols(path) # {} THEN path
  ELSE IF TwoSlashes(path) THEN <<u.protocol, ":">> \o path
  ELSE directory(u) \o (IF path[1] = "/" THEN path ELSE <<"/">> \o path)

(* The duration of the path at j: the last one before it, unless another    *)
(* path has used it up.                                                     *)
DurationAt(content, j) ==
  LET heads == {i \in 1 .. j - 1 : /\ content[i].tag = "EXTINF"
                                   /\ \A k \in i + 1 .. j - 1 :
                                        content[k].tag \notin {"EXTINF", "ts"}}
  IN  IF heads = {} THEN 0 ELSE Float(content[CHOOSE i \in heads : TRUE].value)

SegmentsOf(u, content) ==
  FlattenSeq([j \in DOMAIN content |->
    IF content[j].tag = "ts" /\ DurationAt(content, j) > 0
    THEN <<[ts_url |-> Address(u, content[j].path), duration |-> DurationAt(content, j)]>>
    ELSE <<>>])

(* Written with six digits and read again. *)
Rewritten(duration, again) ==
  \E d \in Decimals : IsNearest(Decimals, duration, d) /\ IsNearest(Floats, d, again)

(* The merged playlist is one the parser reads, whatever its url: it gives  *)
(* the segments of all playlists in order, each under its full address and  *)
(* its own duration, as near as six digits and a float have it and never 0, *)
(* and the whole is no live stream.                                         *)
MergedIsRead ==
  LET merged == merge_m3u8_content(contents)
      segments == FlattenSeq([i \in DOMAIN contents |-> SegmentsOf(Urls[i], contents[i])])
  IN  merged # <<>> =>
        \A home \in DOMAIN Urls :
          LET again == Parse(Url(home), merged)
          IN  /\ again.ok /\ ~again.is_live
              /\ Len(again.ts_map) = Len(segments)
              /\ \A i \in DOMAIN segments :
                   /\ again.ts_map[i].ts_url = segments[i].ts_url
                   /\ Rewritten(segments[i].duration, again.ts_map[i].duration)
                   /\ again.ts_map[i].duration > 0

(* hls.cc, "the standard wants a segment to be shorter than the longest":   *)
(* the duration announced covers every segment of every playlist, as both   *)
(* are read again.                                                          *)
TargetCovers ==
  LET again == Parse(Url(1), merge_m3u8_content(contents))
  IN  \A i \in DOMAIN again.ts_map : again.ts_map[i].duration <= again.target_duration

(* hls.h: the segments of a period are without a hole the ones that touch   *)
(* it, all without an end.  The sums of floats drift from the times: at the *)
(* end of the k-th segment by k * Err, and an end of the period by Err.     *)
PeriodCovered ==
  LET p == Parse(Url(1), contents[1])
      ends[k \in 0 .. Len(p.ts_map)] ==
        IF k = 0 THEN 0 ELSE ends[k - 1] + p.ts_map[k].duration
      Touches(k, start, end, drift) ==
        /\ ends[k] + drift >= Unit * start
        /\ end = -1 \/ ends[k - 1] <= Unit * end + drift
  IN  \A start, end \in Seconds :
        \E chosen \in SUBSET DOMAIN p.ts_map :
          /\ timeget_ts(p, start, end) =
               FlattenSeq([k \in DOMAIN p.ts_map |->
                 IF k \in chosen THEN <<p.ts_map[k]>> ELSE <<>>])
          /\ \A i, j \in chosen : i .. j \subseteq chosen
          /\ Unit * start <= Horizon /\ Unit * end <= Horizon =>
               \A k \in DOMAIN p.ts_map :
                 ends[k] + k * Err <= Horizon =>
                   /\ Touches(k, start, end, 0 - (k + 1) * Err) => k \in chosen
                   /\ k \in chosen => Touches(k, start, end, (k + 1) * Err)

(* Merging and choosing keep every segment, its duration and its order.     *)
PlaylistsRead == MergedIsRead /\ TargetCovers /\ PeriodCovered

=============================================================================
