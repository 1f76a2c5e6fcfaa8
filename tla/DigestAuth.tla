----------------------------- MODULE DigestAuth -----------------------------
(***************************************************************************)
(* HttpAuthenticator of iom, the client's side of HTTP authentication, and *)
(* a server that checks what it sends as RFC 2617 and RFC 7616 say.        *)
(* Requests and answers overtake each other (a client may use several      *)
(* connections) and are lost; neither side repeats one.                    *)
(*                                                                         *)
(* A digest is the hash's name and what was hashed: hashes are taken for   *)
(* one to one, but for the SHA-256 digests that sha.cc cuts.  What is      *)
(* hashed is named by its first member.                                    *)
(***************************************************************************)
EXTENDS Integers, FiniteSets

CONSTANTS
  Offers,        (* challenges of the server but for the nonce: scheme,     *)
                 (* decodes (the parameters can be parsed), realm (it is    *)
                 (* not empty), algo, qop (the set of those listed)         *)
  Uris,
  Bodies,        (* entities of requests                                    *)
  NoBody,        (* the empty entity                                        *)
  HasZero(_),    (* whether the SHA-256 digest of a message has a zero byte *)
  MaxNonces,     (* bound: challenges issued                                *)
  MaxRequests    (* bound: requests sent                                    *)

(* What the names of an algorithm in a challenge stand for.                 *)
Algorithm ==
  [algo \in {"MD5", "MD5-SESS", "SHA256", "SHA256-SESS", "SHA-256", "SHA-256-SESS",
             "SHA512-256", "SHA512-256-SESS", "SHA-512-256", "SHA-512-256-SESS"} |->
     [hash |-> CASE algo \in {"MD5", "MD5-SESS"} -> "MD5"
                 [] algo \in {"SHA256", "SHA256-SESS", "SHA-256", "SHA-256-SESS"} -> "SHA-256"
                 [] OTHER -> "SHA-512-256",
      sess |-> algo \in {"MD5-SESS", "SHA256-SESS", "SHA-256-SESS",
                         "SHA512-256-SESS", "SHA-512-256-SESS"}]]

ASSUME DigestAssumption ==
  /\ \A o \in Offers : /\ o.scheme \in {"NONE", "BASIC", "DIGEST"}
                       /\ o.decodes \in BOOLEAN /\ o.realm \in BOOLEAN
                       /\ o.algo \in DOMAIN Algorithm
                       /\ o.qop \subseteq {"auth", "auth-int"}
  /\ NoBody \in Bodies
  /\ MaxNonces \in Nat /\ MaxRequests \in Nat

VARIABLES
  parames_,    (* the client's parameters                                   *)
  sent,        (* requests sent: their number                               *)
  requests,    (* requests under way                                        *)
  answers,     (* challenges under way                                      *)
  issued,      (* the server's offer behind each nonce                      *)
  expired,     (* nonces the server takes no longer                         *)
  seen,        (* <<nonce, nc>> the server has accepted                     *)
  refusals     (* history: the requests it refused, each by the verdict and *)
               (* by what the client had computed otherwise                 *)

digestVars == <<parames_, sent, requests, answers, issued, expired, seen, refusals>>
server == <<issued, expired, seen, refusals>>

-----------------------------------------------------------------------------
(* The client. *)

Cleared == [type |-> "NONE", algo |-> "MD5", nc |-> 1, qopstr |-> {}, realm |-> FALSE,
            nonce |-> 0, cnonce |-> 0]

(* The names rfc2617_decode_params knows; any other leaves MD5, and so does *)
(* the spelling of RFC 7616 with a dash behind SHA.                         *)
Known == {"MD5", "MD5-SESS", "SHA256", "SHA256-SESS", "SHA512-256", "SHA512-256-SESS"}

ParseChallenge(c) ==
  parames_' =
    IF c.scheme # "DIGEST" THEN [Cleared EXCEPT !.type = c.scheme]
    ELSE IF ~c.decodes THEN Cleared
    ELSE [Cleared EXCEPT !.type = "DIGEST", !.algo = IF c.algo \in Known THEN c.algo ELSE "MD5",
                         !.qopstr = c.qop, !.realm = c.realm, !.nonce = c.nonce]

(* auth-int is taken wherever the list has it. *)
qop(p) ==
  IF "auth-int" \in p.qopstr THEN "auth-int" ELSE IF "auth" \in p.qopstr THEN "auth" ELSE "NONE"

(* SHA512_256 hashes with SHA-256 too, and a digest ends at its first zero  *)
(* byte.                                                                    *)
hash_cb(p, text) ==
  IF p.algo \in {"MD5", "MD5-SESS"} THEN <<"MD5", text>>
  ELSE IF HasZero(text) THEN <<"SHA-256, cut", text>>
  ELSE <<"SHA-256", text>>

HA1(p) ==
  LET user == hash_cb(p, <<"username", "realm", "password">>)
  IN  IF p.algo \in {"MD5", "SHA256", "SHA512-256"} THEN user
      ELSE hash_cb(p, <<"session", user, p.nonce, p.cnonce>>)

(* The entity of auth-int is taken for empty. *)
HA2(p, uri) ==
  hash_cb(p, IF qop(p) = "auth-int" THEN <<"method", uri, hash_cb(p, NoBody)>>
             ELSE <<"method", uri>>)

response(p, uri) ==
  hash_cb(p, IF qop(p) = "NONE" THEN <<"digest", HA1(p), p.nonce, HA2(p, uri)>>
             ELSE <<"digest", HA1(p), p.nonce, p.nc, p.cnonce, p.qopstr, HA2(p, uri)>>)

(* Without a realm or a nonce nothing comes behind "Digest". *)
Answers(p) == p.type = "DIGEST" /\ p.realm /\ p.nonce # 0

Authorization(p, uri) ==
  IF Answers(p)
  THEN [type |-> "DIGEST", uri |-> uri, nonce |-> p.nonce, qop |-> p.qopstr, cnonce |-> p.cnonce,
        nc |-> IF qop(p) = "NONE" THEN 0 ELSE p.nc, response |-> response(p, uri)]
  ELSE [type |-> p.type, uri |-> uri, nonce |-> 0, qop |-> {}, cnonce |-> 0, nc |-> 0,
        response |-> <<>>]

(* Seeded fault: the nonce count does not move. *)
FaultyNextCount(p) == p

NextCount(p) == IF qop(p) = "NONE" THEN p ELSE [p EXCEPT !.nc = @ + 1]

(* A request with AuthorizationDigest, AuthorizationBasic or neither, as    *)
(* the type says.  The cnonce is a new random number.                       *)
Request(uri, entity) ==
  LET p == IF qop(parames_) = "NONE" THEN parames_ ELSE [parames_ EXCEPT !.cnonce = sent + 1]
  IN  /\ sent < MaxRequests
      /\ sent' = sent + 1
      /\ requests' = requests \cup
           {[id |-> sent + 1, auth |-> Authorization(p, uri), entity |-> entity,
             challenge |-> p.nonce]}
      /\ parames_' = IF Answers(p) THEN NextCount(p) ELSE p
      /\ UNCHANGED <<answers, server>>

Challenged ==
  \E c \in answers :
    /\ ParseChallenge(c)
    /\ answers' = answers \ {c}
    /\ UNCHANGED <<sent, requests, server>>

-----------------------------------------------------------------------------
(* The server, which is not in this repository: what the RFCs ask of it.    *)
(* It knows the algorithm by the nonce, and computes the key of a session   *)
(* from the cnonce that comes with the request.                             *)

Nonces == DOMAIN issued

(* H(A1), H(A2) and the digest a request with auth a should carry.          *)
UserText == <<"username", "realm", "password">>

SessionText(o, a) == <<"session", <<Algorithm[o.algo].hash, UserText>>, a.nonce, a.cnonce>>

A1Text(o, a) == IF Algorithm[o.algo].sess THEN SessionText(o, a) ELSE UserText

A2Text(o, a, entity) ==
  IF a.qop = {"auth-int"}
  THEN <<"method", a.uri, <<Algorithm[o.algo].hash, entity>>>>
  ELSE <<"method", a.uri>>

DigestText(o, a, entity) ==
  LET A1 == <<Algorithm[o.algo].hash, A1Text(o, a)>>
      A2 == <<Algorithm[o.algo].hash, A2Text(o, a, entity)>>
  IN  IF a.qop = {} THEN <<"digest", A1, a.nonce, A2>>
      ELSE <<"digest", A1, a.nonce, a.nc, a.cnonce, a.qop, A2>>

Expected(o, a, entity) == <<Algorithm[o.algo].hash, DigestText(o, a, entity)>>

(* One of the qops of the list, or none if there is no list.                *)
QopAllowed(o, a) ==
  \/ o.qop = {} /\ a.qop = {}
  \/ \E q \in o.qop : a.qop = {q}

(* Why a request is refused. *)
Verdict(r) ==
  LET a == r.auth
  IN  IF a.type # "DIGEST" THEN "no digest"
      ELSE IF a.nonce = 0 THEN "no nonce"
      ELSE IF a.nonce \notin Nonces THEN "unknown nonce"
      ELSE IF \/ ~QopAllowed(issued[a.nonce], a)
              \/ a.response # Expected(issued[a.nonce], a, r.entity)
        THEN "bad credentials"
      ELSE IF a.nonce \in expired THEN "stale"
      ELSE IF a.qop # {} /\ <<a.nonce, a.nc>> \in seen THEN "replay"
      ELSE "accepted"

(* What this client does not do as the RFCs say, in answer to an offer.     *)
Deviations(o, a, entity) ==
  {d \in {"realm", "algorithm", "list", "entity", "cut"} :
     CASE d = "realm" -> ~o.realm
       [] d = "algorithm" -> o.algo \notin {"MD5", "MD5-SESS", "SHA256", "SHA256-SESS"}
       [] d = "list" -> o.qop = {"auth", "auth-int"}
       [] d = "entity" -> "auth-int" \in o.qop /\ entity # NoBody
       [] d = "cut" -> /\ Algorithm[o.algo].hash = "SHA-256"
                       /\ \E text \in {UserText, A1Text(o, a), entity, A2Text(o, a, entity),
                                       DigestText(o, a, entity)} : HasZero(text)}

Refusal(r, verdict) ==
  [verdict |-> verdict,
   because |-> IF r.challenge \in Nonces
               THEN Deviations(issued[r.challenge], r.auth, r.entity) ELSE {}]

Serve ==
  \E r \in requests :
    LET verdict == Verdict(r)
        nonce == Cardinality(Nonces) + 1
    IN  /\ requests' = requests \ {r}
        /\ IF verdict = "accepted"
           THEN /\ seen' = seen \cup {<<r.auth.nonce, r.auth.nc>>}
                /\ UNCHANGED <<answers, issued, refusals>>
           ELSE /\ nonce <= MaxNonces
                /\ \E o \in Offers :
                     /\ issued' = [m \in 1 .. nonce |-> IF m = nonce THEN o ELSE issued[m]]
                     /\ answers' = answers \cup
                          {[scheme |-> o.scheme, decodes |-> o.decodes, realm |-> o.realm,
                            algo |-> o.algo, qop |-> o.qop, nonce |-> nonce]}
                /\ refusals' = refusals \cup {Refusal(r, verdict)}
                /\ UNCHANGED seen
        /\ UNCHANGED <<parames_, sent, expired>>

Expire ==
  \E m \in Nonces \ expired :
    /\ expired' = expired \cup {m}
    /\ UNCHANGED <<parames_, sent, requests, answers, issued, seen, refusals>>

Lose ==
  /\ \/ \E r \in requests : requests' = requests \ {r} /\ UNCHANGED answers
     \/ \E c \in answers : answers' = answers \ {c} /\ UNCHANGED requests
  /\ UNCHANGED <<parames_, sent, server>>

DigestInit ==
  /\ parames_ = Cleared
  /\ sent = 0 /\ requests = {} /\ answers = {}
  /\ issued = <<>> /\ expired = {} /\ seen = {} /\ refusals = {}

DigestNext ==
  \/ \E uri \in Uris, entity \in Bodies : Request(uri, entity)
  \/ Challenged \/ Serve \/ Expire \/ Lose

DigestSpec == DigestInit /\ [][DigestNext]_digestVars

-----------------------------------------------------------------------------
(* Properties. *)

(* With the right password a client is refused for want of a nonce or for   *)
(* one that is over, and never as a repeated one or for a nonce the server  *)
(* did not issue: in whatever order challenges arrive, it answers with what *)
(* belongs to its nonce and with a count no request used before.  As a      *)
(* wrong one it is refused only in answer to what it computes otherwise     *)
(* than the RFCs: an empty realm, an algorithm under another name or hashed *)
(* with another hash, a list of qops, an entity under auth-int, and a       *)
(* SHA-256 digest with a zero byte.                                         *)
NeverTakenForAnother ==
  \A f \in refusals :
    CASE f.verdict \in {"no digest", "stale"} -> TRUE
      [] f.verdict = "no nonce" -> "realm" \in f.because
      [] f.verdict = "bad credentials" -> f.because # {}
      [] OTHER -> FALSE

=============================================================================
