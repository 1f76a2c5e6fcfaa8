----------------------------- MODULE MCLibrary -----------------------------
(***************************************************************************)
(* The parts of the library that no other part calls, each on a small      *)
(* instance and each by itself: "part" says which one runs.                *)
(***************************************************************************)
EXTENDS HashStream, OptionParser, ByteStream, LogCounter, LogInterval, DtsGen,
        NalScan, Companding, DigestAuth, Playlist, Base64

CONSTANTS
  Parts,
  p1, p2, p3    (* threads *)

VARIABLE part

-----------------------------------------------------------------------------
(* Constants that a configuration cannot write. *)

Arg(dashes, word, value) == [dashes |-> dashes, word |-> word, value |-> value]
OptionNames == {"s", "v", "i", "x"}
OptionShort == [o \in OptionNames |-> o]
OptionLong == [s |-> <<"switch">>, v |-> <<"value">>, i |-> <<"implicit">>, x |-> <<"extra">>]
OptionType == [s |-> "no", v |-> "required", i |-> "optional", x |-> "required"]
OptionAttribute == [s |-> "optional", v |-> "required", i |-> "hidden", x |-> "inactive"]
OptionArguments ==
  {Dashes, Text(<<"w">>), Arg(1, <<>>, <<>>), Arg(1, <<"s">>, <<>>), Arg(1, <<"s", "u">>, <<>>),
   Arg(1, <<"s", "v">>, <<>>), Arg(1, <<"x", "v", "s">>, <<>>), Arg(1, <<"s", "i">>, <<>>),
   Arg(1, <<"i", "w">>, <<>>), Arg(2, <<"value">>, <<>>), Arg(2, <<"value">>, <<"w">>),
   Arg(2, <<"switch">>, <<"w">>), Arg(2, <<"extra">>, <<>>)}
OptionUnreadable == {Dashes}

Offer(algo, qops) ==
  [scheme |-> "DIGEST", algo |-> algo, qop |-> qops, decodes |-> TRUE, realm |-> TRUE]
DigestOffers ==
  {Offer("MD5", {"auth"}), Offer("SHA256", {}), Offer("SHA256-SESS", {"auth"}),
   Offer("MD5", {"auth-int"}), Offer("MD5", {"auth", "auth-int"}), Offer("SHA-256", {"auth"}),
   Offer("SHA512-256", {}), [Offer("MD5", {"auth"}) EXCEPT !.scheme = "BASIC"],
   [Offer("MD5", {"auth"}) EXCEPT !.decodes = FALSE],
   [Offer("MD5", {"auth"}) EXCEPT !.realm = FALSE]}

DigestNoBody == <<>>
DigestBodies == {DigestNoBody, <<"entity">>}

(* The digests of the second nonce and the keys of the sessions of the      *)
(* second request have a zero byte.                                         *)
DigestHasZero(text) ==
  /\ Len(text) > 3
  /\ IF text[1] = "session" THEN text[4] = 2 ELSE text[3] = 2

(* 80ths of a second; floats of four binary digits, decimals of one.        *)
PlaylistFloats == {10 * i : i \in 0 .. 8} \cup {20 * i : i \in 5 .. 8}
PlaylistDecimals == {16 * i : i \in 0 .. 5} \cup {160}
PlaylistUrls ==
  <<[protocol |-> "http", place |-> <<"host", "/", "live">>, file |-> "a.m3u8"],
    [protocol |-> "https", place |-> <<"other">>, file |-> "b.m3u8"]>>
PlaylistLines ==
  {Line("EXTINF", 22), Line("EXTINF", 72), Path(<<"rtp", ":", "/", "/", "far">>),
   Path(<<"/", "/", "near">>), Path(<<"/", "ts">>), Path(<<"ts">>),
   Line("TARGETDURATION", 80), Line("STREAM-INF", 0)}
PlaylistSeconds == {-1, 0, 1}

-----------------------------------------------------------------------------

Init ==
  /\ part \in Parts
  /\ HashInit /\ OptionInit /\ StreamInit /\ CounterInit /\ IntervalInit /\ DtsInit
  /\ NalInit /\ CompandingInit /\ DigestInit /\ PlaylistInit /\ Base64Init

AllParts == {"hash", "option", "stream", "counter", "interval", "dts", "nal",
             "companding", "digest", "playlist", "base64"}

(* The other parts stand still. *)
OnlyMoves(p) ==
  /\ part = p /\ UNCHANGED part
  /\ IF p = "hash" THEN TRUE ELSE UNCHANGED hashVars
  /\ IF p = "option" THEN TRUE ELSE UNCHANGED optionVars
  /\ IF p = "stream" THEN TRUE ELSE UNCHANGED streamVars
  /\ IF p = "counter" THEN TRUE ELSE UNCHANGED counterVars
  /\ IF p = "interval" THEN TRUE ELSE UNCHANGED intervalVars
  /\ IF p = "dts" THEN TRUE ELSE UNCHANGED dtsVars
  /\ IF p = "nal" THEN TRUE ELSE UNCHANGED bytes
  /\ IF p = "companding" THEN TRUE ELSE UNCHANGED code
  /\ IF p = "digest" THEN TRUE ELSE UNCHANGED digestVars
  /\ IF p = "playlist" THEN TRUE ELSE UNCHANGED contents
  /\ IF p = "base64" THEN TRUE ELSE UNCHANGED octets

Next ==
  \/ OnlyMoves("hash") /\ HashNext
  \/ OnlyMoves("option") /\ OptionNext
  \/ OnlyMoves("stream") /\ StreamNext
  \/ OnlyMoves("counter") /\ CounterNext
  \/ OnlyMoves("interval") /\ IntervalNext
  \/ OnlyMoves("dts") /\ DtsNext
  \/ OnlyMoves("nal") /\ NalNext
  \/ OnlyMoves("companding") /\ CompandingNext
  \/ OnlyMoves("digest") /\ DigestNext
  \/ OnlyMoves("playlist") /\ PlaylistNext
  \/ OnlyMoves("base64") /\ Base64Next

Vars == <<part, hashVars, optionVars, streamVars, counterVars, intervalVars, dtsVars,
          bytes, code, digestVars, contents, octets>>

Spec == Init /\ [][Next]_Vars

-----------------------------------------------------------------------------
(* What was converted converts back: G.711 codes exactly, samples within    *)
(* half a step of their segment, and base64 text to the bytes it was made   *)
(* from, in the memory set aside for them.                                  *)
ConversionsKept == CodesRoundTrip /\ SamplesKept /\ Base64RoundTrip

=============================================================================
