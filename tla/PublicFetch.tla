----------------------------- MODULE PublicFetch -----------------------------
(* The fetch of one client ID metadata document: what its origin's answer is *)
(* taken for, and how long it may be reused                                  *)
(* (src/crates/imcp2-core/src/public_fetch.rs, and what src/src/auth.rs      *)
(* makes of its outcomes).  Everything is pure.                              *)
(*                                                                           *)
(* Times are relative to the arrival of the answer.  A header that was sent  *)
(* and cannot be decoded is Garbled, a value that is no number is Bad.       *)
EXTENDS Integers, FiniteSetsExt

CONSTANTS
    Answers,     \* bound: what origins and the network do with a request
    None, Garbled, Bad,
    Forever,     \* Duration::MAX
    MaxTTL,      \* CIMD_CACHE_MAX_TTL
    DefaultTTL,  \* CIMD_CACHE_DEFAULT_TTL
    NegativeTTL  \* CIMD_NEGATIVE_TTL

(* How a fetch ends (FetchError), or the document that is read, and the      *)
(* headers that bear on its reuse: the Cache-Control directives of all its   *)
(* lines, the ages it claims, how long ago its Date is and how far off its   *)
(* Expires.  `old` is how old it is.                                         *)
Ends      == {"refused", "unreachable", "answered", "too_large", "not_utf8", "ok"}
Directive == [name : {"no-store", "no-cache", "private", "s-maxage", "max-age"},
              value : Nat \cup {None, Bad}]

ASSUME FetchAssumption ==
    /\ {MaxTTL, DefaultTTL, NegativeTTL, Forever} \subseteq Nat /\ DefaultTTL <= Forever
    /\ {None, Garbled, Bad} \cap Int = {}
    /\ \A a \in Answers :
          /\ a.end \in Ends /\ {a.json, a.valid, a.retryable} \subseteq BOOLEAN
          /\ a.control = Garbled \/ (a.control \subseteq Directive /\ IsFiniteSet(a.control))
          /\ a.vary \in {None, "*", Garbled}
          /\ a.ages \subseteq Nat \cup {Bad} /\ IsFiniteSet(a.ages)
          /\ a.date \in Int \cup {None} /\ a.expires \in Int \cup {None, Bad}
          \* No answer is older than its headers admit, and no lifetime is longer.
          /\ a.old \in Nat /\ a.old < Forever
          /\ \E claim \in a.ages \cup {0, IF a.date = None THEN 0 ELSE a.date} :
                claim = Bad \/ a.old <= claim
          /\ a.control # Garbled => \A d \in a.control : d.value \in {None, Bad} \/ d.value < Forever
          /\ a.expires \in Int => a.expires + (IF a.date = None THEN 0 ELSE a.date) < Forever

-----------------------------------------------------------------------------
(* fetch_client_metadata_document, its validation, and classify_fetch_error. *)
ClassifyFetchError(a) ==
    IF a.end = "unreachable" \/ (a.end = "answered" /\ a.retryable) THEN "unavailable" ELSE "invalid"

Outcome(a) ==
    IF a.end # "ok" THEN ClassifyFetchError(a)
    ELSE IF a.json /\ a.valid THEN "document" ELSE "invalid"

-----------------------------------------------------------------------------
Floor(n) == Max({0, n})

(* current_age *)
CurrentAge(a) ==
    LET claimed  == {IF age = Bad THEN Forever ELSE age : age \in a.ages}
        apparent == IF a.date = None THEN {} ELSE {a.date}
    IN  Max(claimed \cup apparent \cup {0})

(* cache_max_age: None when the directives say nothing of a lifetime.        *)
Values(a, name) == {IF d.value \in {Bad, None} THEN 0 ELSE d.value :
                       d \in {d \in a.control : d.name = name}}

CacheMaxAge(a) ==
    LET shared == Values(a, "s-maxage")
        own    == Values(a, "max-age")
    IN  IF \E d \in a.control : d.name \in {"no-store", "no-cache", "private"} THEN 0
        ELSE IF shared # {} THEN Min(shared)
        ELSE IF own # {} THEN Min(own)
        ELSE None

(* freshness: what remains of the lifetime, None when nothing grants one.    *)
Expiry(a) ==
    IF a.expires = None THEN None
    ELSE IF a.expires = Bad THEN 0
    ELSE Floor(a.expires + (IF a.date = None THEN 0 ELSE a.date))

Freshness(a) ==
    LET lifetime == IF CacheMaxAge(a) # None THEN CacheMaxAge(a) ELSE Expiry(a)
    IN  IF a.vary # None \/ a.control = Garbled THEN 0
        ELSE IF lifetime = None THEN None
        ELSE Floor(lifetime - CurrentAge(a))

\* Mutant: an answer without a lifetime gets the whole default, however old.
DefaultWhole(a) ==
    Min({MaxTTL, IF Freshness(a) = None THEN DefaultTTL ELSE Freshness(a)})

CimdTTL(a) ==
    Min({MaxTTL, IF Freshness(a) = None THEN Floor(DefaultTTL - CurrentAge(a)) ELSE Freshness(a)})

(* For how long the outcome is remembered. *)
TTL(a) == CASE Outcome(a) = "document" -> CimdTTL(a)
            [] Outcome(a) = "invalid" -> NegativeTTL
            [] Outcome(a) = "unavailable" -> 0

-----------------------------------------------------------------------------
(* Whether the origin lets its document be reused w after it arrived: it     *)
(* forbids nothing, every lifetime it names is longer than the document has  *)
(* been around, the moment it expires has not come, and without any of these *)
(* the document is younger than the default.                                 *)
Allows(a, w) ==
    LET lasts(name) == \A d \in a.control : d.name = name =>
                          d.value \in Nat /\ a.old + w < d.value
        names == {d.name : d \in a.control}
    IN  /\ a.vary = None /\ a.control # Garbled /\ Bad \notin a.ages
        /\ names \cap {"no-store", "no-cache", "private"} = {}
        /\ lasts("s-maxage")
        /\ "s-maxage" \notin names => lasts("max-age")
        /\ names \cap {"s-maxage", "max-age"} = {} =>
              IF a.expires = None THEN a.old + w < DefaultTTL
              ELSE a.expires # Bad /\ w < a.expires

(* How long it may be reused at most. *)
Reusable(a) == Cardinality({w \in 0..(MaxTTL - 1) : Allows(a, w)})

(* What a fetch comes back with, and for how long that may be reused. *)
Fetches ==
    {[outcome |-> Outcome(a), ttl |-> TTL(a),
      reusable |-> IF Outcome(a) = "document" /\ TTL(a) > 0 THEN Reusable(a) ELSE 0] : a \in Answers}
=============================================================================
