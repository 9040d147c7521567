------------------------------ MODULE DigestAuth ------------------------------
(***************************************************************************)
(* Answering a challenge: the composing handler over [digest, basic], the  *)
(* Digest response and header, and the per-nonce request counter that all  *)
(* requests of an auth step share.  The hash is symbolic: a term that      *)
(* equals another only when it was computed over the same inputs.          *)
(***************************************************************************)
EXTENDS Naturals, Sequences, FiniteSets, FiniteSetsExt

CONSTANTS
  Answerers,    \* requests answering challenges at the same time
  Challenges,   \* challenges a server may offer
  Preference,   \* the configured algorithms, best first
  CountLimit,   \* nonces the store keeps
  CountWrap,    \* where a count wraps: 2^32 in the code
  MaxStamps     \* bound: digest answers in all

ASSUME DigestAssumption ==
  /\ CountLimit \in Nat \ {0} /\ CountWrap \in Nat \ {0, 1} /\ MaxStamps \in Nat
  /\ Preference \in Seq(STRING)

VARIABLES
  counts,     \* the nonce counts, oldest insertion first
  answering,  \* each request: idle, hashing or sent, with what it hashes
  stamps,     \* history: nonce counts handed out, oldest first
  evicted     \* history: how often each nonce was evicted

digestVars == <<counts, answering, stamps, evicted>>

NoAnswer == [state |-> "idle"]

DigestInit ==
  /\ counts = <<>> /\ stamps = <<>>
  /\ answering = [r \in Answerers |-> NoAnswer]
  /\ evicted = [n \in {c.nonce : c \in Challenges} |-> 0]

-----------------------------------------------------------------------------
(* Choosing the challenge                                                  *)

ToSeqSet(s) == {s[i] : i \in DOMAIN s}

\* parseDigestChallenge: both values present, qop absent or offering auth, an
\* algorithm that is configured, and nothing that cannot be echoed.
Satisfiable(c) ==
  /\ c.scheme = "digest"
  /\ c.realm # "" /\ c.nonce # ""
  /\ c.qop \in {"absent", "auth"}
  /\ c.algorithm \in ToSeqSet(Preference)
  /\ c.echoable

CanHandle(handler, c) ==
  IF handler = "digest" THEN Satisfiable(c) ELSE c.scheme = "basic"

Rank(handler, c) ==
  IF handler = "digest" THEN CHOOSE i \in DOMAIN Preference : Preference[i] = c.algorithm
  ELSE 0

Handlers == <<"digest", "basic">>

\* collectCandidates and bestCandidate: handler order first, then rank, then
\* the order on the wire, as the sort is stable.
Candidates(offered) ==
  {x \in (DOMAIN Handlers) \X (DOMAIN offered) : CanHandle(Handlers[x[1]], offered[x[2]])}

Before(x, y, offered) ==
  LET rx == Rank(Handlers[x[1]], offered[x[2]])
      ry == Rank(Handlers[y[1]], offered[y[2]])
  IN \/ x[1] < y[1]
     \/ x[1] = y[1] /\ rx < ry
     \/ x[1] = y[1] /\ rx = ry /\ x[2] < y[2]

BestCandidate(offered) ==
  CHOOSE x \in Candidates(offered) : \A y \in Candidates(offered) \ {x} : Before(x, y, offered)

-----------------------------------------------------------------------------
(* The nonce counts                                                        *)

Tracked(nonce) == \E i \in DOMAIN counts : counts[i].nonce = nonce
CountOf(nonce) == counts[CHOOSE i \in DOMAIN counts : counts[i].nonce = nonce].count

NextCount(nonce) == IF Tracked(nonce) THEN (CountOf(nonce) + 1) % CountWrap ELSE 1

\* Map.set keeps the place of a key it has, and puts a new one last.
Admitted(nonce) ==
  IF Tracked(nonce)
  THEN [i \in DOMAIN counts |-> IF counts[i].nonce = nonce
          THEN [nonce |-> nonce, count |-> NextCount(nonce)] ELSE counts[i]]
  ELSE Append(counts, [nonce |-> nonce, count |-> 1])

\* The drain: from the oldest insertion, after the nonce was admitted.
Drained(cs) ==
  IF Len(cs) > CountLimit THEN SubSeq(cs, Len(cs) - CountLimit + 1, Len(cs)) ELSE cs

Admit(nonce) ==
  LET all == Admitted(nonce)
      kept == Drained(all)
      gone == {all[i].nonce : i \in DOMAIN all} \ {kept[i].nonce : i \in DOMAIN kept}
  IN /\ counts' = kept
     /\ evicted' = [n \in DOMAIN evicted |-> IF n \in gone THEN evicted[n] + 1 ELSE evicted[n]]

-----------------------------------------------------------------------------
(* The response                                                            *)

Hash(base, input) == [hash |-> base, of |-> input]

\* computeDigestResponse: HA1, folded with the nonces for a -sess algorithm,
\* HA2, and the longer input only when qop was negotiated.
DigestResponse(c, cnonce, nc) ==
  LET plain == Hash(c.algorithm, <<"user", c.realm, "password", c.charset>>)
      ha1 == IF c.sess THEN Hash(c.algorithm, <<plain, c.nonce, cnonce>>) ELSE plain
      ha2 == Hash(c.algorithm, <<"method", "uri">>)
  IN IF c.qop = "auth" THEN Hash(c.algorithm, <<ha1, c.nonce, nc, cnonce, ha2>>)
     ELSE Hash(c.algorithm, <<ha1, c.nonce, ha2>>)

\* Mutant: a -sess response without qop does not say its client nonce.
HasCnonceForQop(c) == c.qop = "auth"

\* buildHeaderValue: nc and qop only when negotiated, cnonce for -sess too;
\* "absent" stands for a parameter that is not there.
HasCnonce(c) == c.qop = "auth" \/ c.sess

HeaderValue(c, cnonce, nc) ==
  [scheme |-> "digest", realm |-> c.realm, nonce |-> c.nonce,
   nc |-> IF c.qop = "auth" THEN nc ELSE "absent",
   cnonce |-> IF HasCnonce(c) THEN cnonce ELSE "absent",
   response |-> DigestResponse(c, cnonce, nc)]

-----------------------------------------------------------------------------
(* Actions                                                                 *)

\* The composed stamp up to its first await: choose, parse, draw a cnonce and
\* take the count, in one stretch.  Nothing satisfiable leaves the 401 alone.
Offers == {<<c>> : c \in Challenges} \cup {<<c, d>> : c, d \in Challenges}

Declined(r, offered) ==
  /\ Candidates(offered) = {}
  /\ answering' = [answering EXCEPT ![r] = [state |-> "unchanged", offered |-> offered]]
  /\ UNCHANGED <<counts, stamps, evicted>>

StampBasic(r, offered) ==
  /\ Candidates(offered) # {}
  /\ Handlers[BestCandidate(offered)[1]] = "basic"
  /\ answering' = [answering EXCEPT ![r] =
       [state |-> "sent", offered |-> offered, header |-> [scheme |-> "basic"]]]
  /\ UNCHANGED <<counts, stamps, evicted>>

StampDigest(r, offered) ==
  /\ Candidates(offered) # {}
  /\ Handlers[BestCandidate(offered)[1]] = "digest"
  /\ Len(stamps) < MaxStamps
  /\ LET c == offered[BestCandidate(offered)[2]]
         nc == IF c.qop = "auth" THEN NextCount(c.nonce) ELSE 0
     IN /\ answering' = [answering EXCEPT ![r] =
             [state |-> "hashing", offered |-> offered, challenge |-> c, nc |-> nc]]
        /\ IF c.qop = "auth"
           THEN /\ Admit(c.nonce)
                /\ stamps' = Append(stamps,
                     [nonce |-> c.nonce, nc |-> nc, tenancy |-> evicted[c.nonce]])
           ELSE UNCHANGED <<counts, stamps, evicted>>

Challenged(r) ==
  /\ answering[r].state = "idle"
  /\ \E offered \in Offers :
       Declined(r, offered) \/ StampBasic(r, offered) \/ StampDigest(r, offered)

\* The hashes are computed, and the header built.
Hashed(r) ==
  /\ answering[r].state = "hashing"
  /\ answering' = [answering EXCEPT ![r] =
       [state |-> "sent", offered |-> @.offered,
        header |-> HeaderValue(@.challenge, "cnonce", @.nc)]]
  /\ UNCHANGED <<counts, stamps, evicted>>

NextAnswer(r) ==
  /\ answering[r].state \in {"sent", "unchanged"}
  /\ answering' = [answering EXCEPT ![r] = NoAnswer]
  /\ UNCHANGED <<counts, stamps, evicted>>

DigestNext == \E r \in Answerers : Challenged(r) \/ Hashed(r) \/ NextAnswer(r)

DigestSpec == DigestInit /\ [][DigestNext]_digestVars

-----------------------------------------------------------------------------
(* Properties                                                              *)

\* While the store tracks a nonce, requests that answer it concurrently get
\* consecutive counts from 1, wrapping, so no server sees one twice; and the
\* nonce being answered is never the one that is evicted (AUTH-18, 19, 24).
CountsAdvance ==
  /\ Len(counts) <= CountLimit
  /\ \A i \in DOMAIN stamps :
       LET earlier == {j \in 1 .. i - 1 : /\ stamps[j].nonce = stamps[i].nonce
                                           /\ stamps[j].tenancy = stamps[i].tenancy}
       IN stamps[i].nc = (Cardinality(earlier) + 1) % CountWrap
  /\ stamps # <<>> => Tracked(stamps[Len(stamps)].nonce)

\* What the server knows is the challenge, the request and the password; the
\* rest has to be in the header for it to compute the response again.
Verifies(c, header) ==
  /\ header.realm = c.realm /\ header.nonce = c.nonce
  /\ header.response = DigestResponse(c, header.cnonce, header.nc)

\* Every digest that is sent answers a challenge that was offered so that its
\* server can verify it; Basic is sent only when no digest is satisfiable, and
\* a 401 is left alone only when nothing is (AUTH-15..17, 22, 23, 25).
AnswersVerify ==
  \A r \in Answerers : answering[r].state \in {"sent", "unchanged"} =>
    LET a == answering[r]
        offered == ToSeqSet(a.offered)
        digests == {c \in offered : Satisfiable(c)}
        rank(c) == CHOOSE i \in DOMAIN Preference : Preference[i] = c.algorithm
    IN IF a.state = "unchanged" THEN digests = {} /\ \A c \in offered : c.scheme # "basic"
       ELSE IF a.header.scheme = "basic" THEN digests = {} /\ \E c \in offered : c.scheme = "basic"
       ELSE \E c \in digests :
              /\ \A d \in digests : rank(c) <= rank(d)
              /\ Verifies(c, a.header)

\* Every Digest answer carries a count its server has not seen and a response
\* its server can compute again.
ChallengesAnswered == CountsAdvance /\ AnswersVerify
=============================================================================
