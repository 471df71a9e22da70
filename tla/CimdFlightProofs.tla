-------------------------- MODULE CimdFlightProofs --------------------------
(***************************************************************************)
(* Proofs about CimdFlight, for any requests, documents, hosts and bounds. *)
(*                                                                         *)
(* A flight is retired once its outcome is published or about to be.  The  *)
(* argument rests on Flights: whoever waits in a flight that is not        *)
(* retired, or holds its lock, is in the flight of the map; so two holders *)
(* for one document hold one lock.  Only flights that are not retired are  *)
(* in the map, and each has somebody in it who will still leave, unless    *)
(* two of those who left were dropped.  Lifetimes carries into the cache   *)
(* what is proved first, of PublicFetch alone: what a fetch comes back     *)
(* with is remembered no longer than the origin lets it be reused.         *)
(***************************************************************************)
EXTENDS CimdFlight, FiniteSetTheorems, TLAPS

-----------------------------------------------------------------------------
(* A finite set of integers has a greatest and a least element: a smallest  *)
(* set without one would have an element to take away.                      *)
Topped(T)   == \E x \in T : \A y \in T : x >= y
Bottomed(T) == \E x \in T : \A y \in T : x <= y

LEMMA EndsExist ==
    ASSUME NEW S \in SUBSET Int, IsFiniteSet(S), S # {}
    PROVE  Topped(S) /\ Bottomed(S)
<1> DEFINE B == {T \in FiniteSubsetsOf(Int) : T # {} /\ ~(Topped(T) /\ Bottomed(T))}
           R == StrictSubsetOrdering(Int)
<1>1. SUFFICES ASSUME B # {} PROVE FALSE
  BY DEF FiniteSubsetsOf
<1>2. IsWellFoundedOn(R, FiniteSubsetsOf(Int)) /\ B \subseteq FiniteSubsetsOf(Int)
  BY FS_StrictSubsetOrderingWellFounded
<1>3. PICK T \in B : \A U \in B : ~(<<U, T>> \in R)
  <2> HIDE DEF B, R
  <2> QED
    BY <1>1, <1>2, WFMin
<1>4. T \subseteq Int /\ IsFiniteSet(T) /\ T # {}
  BY <1>3 DEF FiniteSubsetsOf
<1>5. PICK x \in T : TRUE
  BY <1>4
<1> DEFINE U == T \ {x}
<1>6. U \in FiniteSubsetsOf(Int) /\ <<U, T>> \in R
  BY <1>4, <1>5, FS_RemoveElement DEF FiniteSubsetsOf, StrictSubsetOrdering
<1>7. CASE U = {}
  <2>1. T = {x}
    BY <1>5, <1>7
  <2> QED
    BY <1>3, <1>4, <2>1 DEF Topped, Bottomed
<1>8. CASE U # {}
  <2>1. Topped(U) /\ Bottomed(U)
    BY <1>3, <1>6, <1>8
  <2>2. PICK m \in U : \A y \in U : m >= y
    BY <2>1 DEF Topped
  <2>3. PICK n \in U : \A y \in U : n <= y
    BY <2>1 DEF Bottomed
  <2>4. \A y \in T : y = x \/ y \in U
    OBVIOUS
  <2>5. Topped(T)
    <3>1. CASE x >= m
      BY <1>4, <1>5, <2>2, <2>4, <3>1 DEF Topped
    <3>2. CASE ~(x >= m)
      BY <1>4, <1>5, <2>2, <2>4, <3>2 DEF Topped
    <3> QED
      BY <3>1, <3>2
  <2>6. Bottomed(T)
    <3>1. CASE x <= n
      BY <1>4, <1>5, <2>3, <2>4, <3>1 DEF Bottomed
    <3>2. CASE ~(x <= n)
      BY <1>4, <1>5, <2>3, <2>4, <3>2 DEF Bottomed
    <3> QED
      BY <3>1, <3>2
  <2> QED
    BY <1>3, <2>5, <2>6
<1> QED
  BY <1>7, <1>8

LEMMA MaxMin ==
    ASSUME NEW S \in SUBSET Int, IsFiniteSet(S), S # {}
    PROVE  /\ Max(S) \in S /\ \A y \in S : Max(S) >= y
           /\ Min(S) \in S /\ \A y \in S : Min(S) <= y
BY EndsExist DEF Topped, Bottomed, Max, Min

LEMMA TwoOf ==
    ASSUME NEW m \in Int, NEW n \in Int
    PROVE  /\ Max({m, n}) = IF m >= n THEN m ELSE n
           /\ Min({m, n}) = IF m <= n THEN m ELSE n
<1>1. IsFiniteSet({m, n}) /\ {m, n} \in SUBSET Int /\ {m, n} # {}
  <2>1. IsFiniteSet({m} \cup {n}) /\ {m, n} = {m} \cup {n}
    BY FS_Singleton, FS_AddElement
  <2> QED
    BY <2>1
<1>2. /\ Max({m, n}) \in {m, n} /\ Max({m, n}) >= m /\ Max({m, n}) >= n
      /\ Min({m, n}) \in {m, n} /\ Min({m, n}) <= m /\ Min({m, n}) <= n
  BY <1>1, MaxMin
<1> HIDE DEF Max, Min
<1> QED
  BY <1>2

LEMMA FloorIs ==
    ASSUME NEW n \in Int
    PROVE  Floor(n) = (IF n > 0 THEN n ELSE 0) /\ Floor(n) \in Nat
BY TwoOf DEF Floor

-----------------------------------------------------------------------------
(* How old an answer is taken for: at least as old as it is.                *)
LEMMA Ages ==
    ASSUME NEW a \in Answers
    PROVE  /\ CurrentAge(a) \in Nat
           /\ Bad \in a.ages => CurrentAge(a) >= Forever
           /\ a.date # None => CurrentAge(a) >= a.date
           /\ CurrentAge(a) >= a.old
<1> DEFINE f == [age \in a.ages |-> IF age = Bad THEN Forever ELSE age]
           claimed  == {IF age = Bad THEN Forever ELSE age : age \in a.ages}
           apparent == IF a.date = None THEN {} ELSE {a.date}
           S == claimed \cup apparent \cup {0}
<1>1. /\ Forever \in Nat /\ a.ages \subseteq Nat \cup {Bad} /\ IsFiniteSet(a.ages)
      /\ a.date \in Int \cup {None} /\ a.old \in Nat /\ a.old < Forever
      /\ \E claim \in a.ages \cup {0, IF a.date = None THEN 0 ELSE a.date} :
            claim = Bad \/ a.old <= claim
      /\ None \notin Int /\ Bad \notin Int
  BY FetchAssumption
<1>2. f \in Surjection(a.ages, claimed)
  BY DEF Surjection
<1>3. IsFiniteSet(claimed)
  <2> HIDE DEF f, claimed
  <2> QED
    BY <1>1, <1>2, FS_Surjection
<1>4. IsFiniteSet(apparent) /\ IsFiniteSet({0})
  BY FS_EmptySet, FS_Singleton
<1>5. S \in SUBSET Int /\ 0 \in S
  BY <1>1
<1>6. IsFiniteSet(S)
  <2> HIDE DEF claimed, apparent
  <2> QED
    BY <1>3, <1>4, FS_Union
<1>7. Max(S) \in Int /\ \A y \in S : Max(S) >= y
  <2> HIDE DEF S
  <2> QED
    BY <1>5, <1>6, MaxMin
<1>8. CurrentAge(a) = Max(S)
  BY DEF CurrentAge
<1>9. /\ CurrentAge(a) \in Int /\ CurrentAge(a) >= 0
      /\ \A age \in a.ages : CurrentAge(a) >= IF age = Bad THEN Forever ELSE age
      /\ a.date # None => CurrentAge(a) >= a.date
  BY <1>5, <1>7, <1>8
<1> HIDE DEF f, claimed, apparent, S
<1>10. CurrentAge(a) >= a.old
  <2>1. PICK claim \in a.ages \cup {0, IF a.date = None THEN 0 ELSE a.date} :
               claim = Bad \/ a.old <= claim
    BY <1>1
  <2>2. CASE claim \in a.ages
    BY <1>1, <1>9, <2>1, <2>2
  <2>3. CASE claim \in {0, IF a.date = None THEN 0 ELSE a.date}
    BY <1>1, <1>9, <2>1, <2>3
  <2> QED
    BY <2>1, <2>2, <2>3
<1> QED
  BY <1>1, <1>9, <1>10

(* The values of a directive; one that is absent or no number counts as 0.  *)
LEMMA ValuesAre ==
    ASSUME NEW a \in Answers, a.control # Garbled, NEW name
    PROVE  /\ Values(a, name) \subseteq Nat
           /\ Values(a, name) # {} =>
                Min(Values(a, name)) \in Nat /\ \A v \in Values(a, name) : Min(Values(a, name)) <= v
           /\ \A d \in a.control : d.name = name =>
                (IF d.value \in {Bad, None} THEN 0 ELSE d.value) \in Values(a, name)
<1> DEFINE D == {d \in a.control : d.name = name}
           f == [d \in D |-> IF d.value \in {Bad, None} THEN 0 ELSE d.value]
           V == Values(a, name)
<1>1. a.control \subseteq Directive /\ IsFiniteSet(a.control)
  BY FetchAssumption
<1>2. V = {IF d.value \in {Bad, None} THEN 0 ELSE d.value : d \in D}
  BY DEF Values
<1>3. V \subseteq Nat
  BY <1>1, <1>2 DEF Directive
<1>4. f \in Surjection(D, V)
  BY <1>2 DEF Surjection
<1>5. IsFiniteSet(D)
  BY <1>1, FS_Subset
<1>6. IsFiniteSet(V)
  <2> HIDE DEF D, f, V
  <2> QED
    BY <1>4, <1>5, FS_Surjection
<1>7. V # {} => Min(V) \in V /\ \A v \in V : Min(V) <= v
  <2> HIDE DEF V
  <2> QED
    BY <1>3, <1>6, MaxMin
<1>8. \A d \in a.control : d.name = name =>
         (IF d.value \in {Bad, None} THEN 0 ELSE d.value) \in V
  BY <1>2
<1> HIDE DEF V
<1> QED
  BY <1>3, <1>7, <1>8 DEF V

-----------------------------------------------------------------------------
Forbidden(a) == \E d \in a.control : d.name \in {"no-store", "no-cache", "private"}

(* Where the lifetime that the caching directives give comes from.          *)
LEMMA MaxAgeIs ==
    ASSUME NEW a \in Answers, a.control # Garbled
    PROVE  LET shared == Values(a, "s-maxage")
               own    == Values(a, "max-age")
           IN  /\ CacheMaxAge(a) \in Nat \cup {None}
               /\ Forbidden(a) => CacheMaxAge(a) = 0
               /\ ~Forbidden(a) /\ shared # {} => CacheMaxAge(a) = Min(shared)
               /\ ~Forbidden(a) /\ shared = {} /\ own # {} => CacheMaxAge(a) = Min(own)
               /\ ~Forbidden(a) /\ shared = {} /\ own = {} => CacheMaxAge(a) = None
<1>1. /\ Values(a, "s-maxage") # {} => Min(Values(a, "s-maxage")) \in Nat
      /\ Values(a, "max-age") # {} => Min(Values(a, "max-age")) \in Nat
  BY ValuesAre
<1> QED
  BY <1>1 DEF CacheMaxAge, Forbidden

LEMMA ExpiryIs ==
    ASSUME NEW a \in Answers
    PROVE  /\ Expiry(a) \in Nat \cup {None}
           /\ Expiry(a) = None <=> a.expires = None
           /\ a.expires \notin Int \cup {None} => Expiry(a) = 0
           /\ a.expires \in Int =>
                Expiry(a) = Floor(a.expires + (IF a.date = None THEN 0 ELSE a.date))
<1>1. /\ a.date \in Int \cup {None} /\ a.expires \in Int \cup {None, Bad}
      /\ None \notin Int /\ Bad \notin Int
  BY FetchAssumption
<1>2. a.expires \in Int =>
         Floor(a.expires + (IF a.date = None THEN 0 ELSE a.date)) \in Nat
  BY <1>1, FloorIs
<1> QED
  BY <1>1, <1>2 DEF Expiry

LEMMA FreshnessIs ==
    ASSUME NEW a \in Answers
    PROVE  /\ Freshness(a) \in Nat \cup {None}
           /\ Freshness(a) # 0 => a.vary = None /\ a.control # Garbled
           /\ a.vary = None /\ a.control # Garbled =>
                LET lifetime == IF CacheMaxAge(a) # None THEN CacheMaxAge(a) ELSE Expiry(a)
                IN  /\ lifetime \in Nat \cup {None}
                    /\ Freshness(a) =
                          IF lifetime = None THEN None ELSE Floor(lifetime - CurrentAge(a))
<1> DEFINE lifetime == IF CacheMaxAge(a) # None THEN CacheMaxAge(a) ELSE Expiry(a)
<1>1. a.control # Garbled => lifetime \in Nat \cup {None}
  BY MaxAgeIs, ExpiryIs
<1>2. Freshness(a) = IF a.vary # None \/ a.control = Garbled THEN 0
                     ELSE IF lifetime = None THEN None
                     ELSE Floor(lifetime - CurrentAge(a))
  BY DEF Freshness
<1> HIDE DEF lifetime
<1>3. a.control # Garbled /\ lifetime # None => Floor(lifetime - CurrentAge(a)) \in Nat
  BY <1>1, Ages, FloorIs
<1>4. CASE a.vary # None \/ a.control = Garbled
  BY <1>2, <1>4
<1>5. CASE a.vary = None /\ a.control # Garbled
  BY <1>1, <1>2, <1>3, <1>5 DEF lifetime
<1> QED
  BY <1>4, <1>5

(* While an answer counts as fresh, its origin lets it be reused.           *)
LEMMA FreshIsAllowed ==
    ASSUME NEW a \in Answers, NEW w \in Nat, w < CimdTTL(a)
    PROVE  w < MaxTTL /\ Allows(a, w)
<1> DEFINE shared == Values(a, "s-maxage")
           own    == Values(a, "max-age")
           names  == {d.name : d \in a.control}
           left   == IF Freshness(a) = None THEN Floor(DefaultTTL - CurrentAge(a))
                     ELSE Freshness(a)
           age    == CurrentAge(a)
<1>1. /\ DefaultTTL \in Nat /\ MaxTTL \in Nat /\ Forever \in Nat /\ DefaultTTL <= Forever
      /\ a.expires \in Int \cup {None, Bad} /\ a.date \in Int \cup {None} /\ a.old \in Nat
      /\ None \notin Int /\ Bad \notin Int
      /\ a.expires \in Int => a.expires + (IF a.date = None THEN 0 ELSE a.date) < Forever
      /\ a.control # Garbled =>
            /\ a.control \subseteq Directive
            /\ \A d \in a.control : d.value \in {None, Bad} \/ d.value < Forever
  BY FetchAssumption
<1>2. /\ age \in Nat /\ age >= a.old
      /\ Bad \in a.ages => age >= Forever
      /\ a.date # None => age >= a.date
  BY Ages
<1>3. left \in Nat
  BY <1>1, <1>2, FreshnessIs, FloorIs
<1>4. w < MaxTTL /\ w < left
  <2>1. CimdTTL(a) = Min({MaxTTL, left})
    BY DEF CimdTTL
  <2> HIDE DEF left
  <2>2. CimdTTL(a) = IF MaxTTL <= left THEN MaxTTL ELSE left
    <3>1. MaxTTL \in Int /\ left \in Int
      BY <1>1, <1>3
    <3> QED
      BY <2>1, <3>1, TwoOf
  <2> QED
    BY <1>1, <1>3, <2>2
<1>5. a.vary = None /\ a.control # Garbled
  <2>1. Freshness(a) # 0
    BY <1>1, <1>4
  <2> QED
    BY <2>1, FreshnessIs
<1> HIDE DEF shared, own, left, age
<1>6. CASE Freshness(a) = None
  <2>1. CacheMaxAge(a) = None /\ Expiry(a) = None
    <3>1. \A n \in Int : Floor(n) # None
      BY <1>1, FloorIs
    <3>2. \A n \in Nat : Floor(n - age) # None
      BY <1>2, <3>1
    <3> QED
      BY <1>5, <1>6, <3>2, FreshnessIs, MaxAgeIs, ExpiryIs DEF age
  <2>2. ~Forbidden(a) /\ shared = {} /\ own = {}
    <3>1. /\ 0 # None
          /\ shared # {} => Min(shared) \in Nat
          /\ own # {} => Min(own) \in Nat
      BY <1>1, <1>5, ValuesAre DEF shared, own
    <3> QED
      BY <1>1, <1>5, <2>1, <3>1, MaxAgeIs DEF shared, own
  <2>3. \A d \in a.control : d.name # "s-maxage" /\ d.name # "max-age"
    BY <1>5, <2>2, ValuesAre DEF shared, own
  <2>4. w < DefaultTTL - age
    BY <1>1, <1>2, <1>4, <1>6, FloorIs DEF left, age
  <2>5. Bad \notin a.ages /\ a.old + w < DefaultTTL
    BY <1>1, <1>2, <2>4
  <2>6. a.expires = None
    BY <2>1, ExpiryIs
  <2> QED
    BY <1>4, <1>5, <2>2, <2>3, <2>5, <2>6 DEF Allows, Forbidden
<1>7. CASE Freshness(a) # None
  <2> DEFINE lifetime == IF CacheMaxAge(a) # None THEN CacheMaxAge(a) ELSE Expiry(a)
  <2>1. lifetime \in Nat /\ w < lifetime - age
    <3>1. lifetime \in Nat \cup {None} /\ lifetime # None /\ left = Floor(lifetime - age)
      BY <1>5, <1>7, FreshnessIs DEF left, age
    <3> HIDE DEF lifetime
    <3> QED
      BY <1>2, <1>4, <3>1, FloorIs
  <2>2. ~Forbidden(a)
    BY <1>1, <1>2, <1>5, <2>1, MaxAgeIs
  <2>3. CASE shared # {}
    <3>1. lifetime = Min(shared)
      BY <1>1, <1>5, <2>2, <2>3, MaxAgeIs, ValuesAre DEF shared
    <3>2. \A d \in a.control : d.name = "s-maxage" =>
             Min(shared) <= IF d.value \in {Bad, None} THEN 0 ELSE d.value
      BY <1>5, <2>3, ValuesAre DEF shared
    <3>3. \A d \in a.control : d.name = "s-maxage" => d.value \in Nat /\ a.old + w < d.value
      <4> HIDE DEF lifetime
      <4> QED
        BY <1>1, <1>2, <1>5, <2>1, <3>1, <3>2 DEF Directive
    <3>4. \E d \in a.control : d.name = "s-maxage"
      BY <1>5, <2>3 DEF shared, Values
    <3>5. Bad \notin a.ages
      BY <1>1, <1>2, <1>5, <3>3, <3>4, <2>1, <3>1, <3>2 DEF Directive
    <3> QED
      BY <1>4, <1>5, <2>2, <3>3, <3>4, <3>5 DEF Allows, Forbidden
  <2>4. CASE shared = {} /\ own # {}
    <3>1. lifetime = Min(own)
      BY <1>1, <1>5, <2>2, <2>4, MaxAgeIs, ValuesAre DEF shared, own
    <3>2. \A d \in a.control : d.name = "max-age" =>
             Min(own) <= IF d.value \in {Bad, None} THEN 0 ELSE d.value
      BY <1>5, <2>4, ValuesAre DEF own
    <3>3. \A d \in a.control : d.name = "max-age" => d.value \in Nat /\ a.old + w < d.value
      <4> HIDE DEF lifetime
      <4> QED
        BY <1>1, <1>2, <1>5, <2>1, <3>1, <3>2 DEF Directive
    <3>4. \E d \in a.control : d.name = "max-age"
      BY <1>5, <2>4 DEF own, Values
    <3>5. Bad \notin a.ages
      BY <1>1, <1>2, <1>5, <3>3, <3>4, <2>1, <3>1, <3>2 DEF Directive
    <3>6. \A d \in a.control : d.name # "s-maxage"
      BY <1>5, <2>4, ValuesAre DEF shared
    <3> QED
      BY <1>4, <1>5, <2>2, <3>3, <3>4, <3>5, <3>6 DEF Allows, Forbidden
  <2>5. CASE shared = {} /\ own = {}
    <3>1. lifetime = Expiry(a) /\ Expiry(a) \in Nat
      BY <1>1, <1>5, <2>1, <2>2, <2>5, MaxAgeIs DEF shared, own
    <3>2. a.expires \in Int
      BY <1>1, <1>2, <2>1, <3>1, ExpiryIs
    <3> DEFINE at == a.expires + (IF a.date = None THEN 0 ELSE a.date)
    <3>3. w < at - age /\ at < Forever /\ at \in Int
      <4>1. at \in Int /\ Expiry(a) = Floor(at)
        BY <1>1, <3>2, ExpiryIs
      <4> QED
        BY <1>1, <1>2, <2>1, <3>1, <3>2, <4>1, FloorIs
    <3>4. w < a.expires /\ Bad \notin a.ages
      BY <1>1, <1>2, <3>2, <3>3
    <3>5. \A d \in a.control : d.name # "s-maxage" /\ d.name # "max-age"
      BY <1>5, <2>5, ValuesAre DEF shared, own
    <3> QED
      BY <1>1, <1>4, <1>5, <2>2, <3>2, <3>4, <3>5 DEF Allows, Forbidden
  <2> QED
    BY <2>3, <2>4, <2>5
<1> QED
  BY <1>6, <1>7

-----------------------------------------------------------------------------
(* Whatever an origin answers, the outcome of the fetch is remembered for no *)
(* longer than the origin lets it be reused, for the headers it sent, how   *)
(* old they say it is and how old it is (freshness and cache_max_age of     *)
(* public_fetch.rs, cimd_ttl of auth.rs).                                   *)
THEOREM RememberedWhileReusable ==
    ASSUME NEW f \in Fetches
    PROVE  /\ f.outcome \in {"document", "invalid", "unavailable"}
           /\ f.ttl \in Nat /\ f.reusable \in Nat
           /\ f.outcome = "document" => f.ttl <= f.reusable
<1>1. PICK a \in Answers :
         f = [outcome |-> Outcome(a), ttl |-> TTL(a),
              reusable |-> IF Outcome(a) = "document" /\ TTL(a) > 0 THEN Reusable(a) ELSE 0]
  BY DEF Fetches
<1> DEFINE left == IF Freshness(a) = None THEN Floor(DefaultTTL - CurrentAge(a))
                   ELSE Freshness(a)
           W == {w \in 0..(MaxTTL - 1) : Allows(a, w)}
<1>2. DefaultTTL \in Nat /\ MaxTTL \in Nat /\ NegativeTTL \in Nat
  BY FetchAssumption
<1>3. Outcome(a) \in {"document", "invalid", "unavailable"}
  BY DEF Outcome, ClassifyFetchError
<1>4. CimdTTL(a) \in Nat /\ CimdTTL(a) <= MaxTTL
  <2>1. left \in Nat
    BY <1>2, Ages, FreshnessIs, FloorIs
  <2>2. CimdTTL(a) = Min({MaxTTL, left})
    BY DEF CimdTTL
  <2> HIDE DEF left
  <2>3. CimdTTL(a) = IF MaxTTL <= left THEN MaxTTL ELSE left
    <3>1. MaxTTL \in Int /\ left \in Int
      BY <1>2, <2>1
    <3> QED
      BY <2>2, <3>1, TwoOf
  <2> QED
    BY <1>2, <2>1, <2>3
<1>5. TTL(a) \in Nat /\ (Outcome(a) = "document" => TTL(a) = CimdTTL(a))
  BY <1>2, <1>3, <1>4 DEF TTL
<1>6. IsFiniteSet(0..(MaxTTL - 1)) /\ IsFiniteSet(W) /\ Cardinality(W) \in Nat
      /\ Reusable(a) = Cardinality(W)
  <2>1. IsFiniteSet(0..(MaxTTL - 1))
    BY <1>2, FS_Interval
  <2>2. W \in SUBSET (0..(MaxTTL - 1)) /\ Reusable(a) = Cardinality(W)
    BY DEF Reusable
  <2> HIDE DEF W
  <2> QED
    BY <2>1, <2>2, FS_Subset, FS_CardinalityType
<1>7. CimdTTL(a) > 0 => CimdTTL(a) <= Cardinality(W)
  <2> DEFINE n == CimdTTL(a)
  <2>1. 0..(n - 1) \subseteq W
    BY <1>2, <1>4, FreshIsAllowed
  <2>2. n > 0 => Cardinality(0..(n - 1)) = n
    BY <1>4, FS_Interval
  <2>3. Cardinality(0..(n - 1)) <= Cardinality(W)
    <3> HIDE DEF W, n
    <3> QED
      BY <1>6, <2>1, FS_Subset
  <2> QED
    BY <2>2, <2>3
<1>8. f.outcome = Outcome(a) /\ f.ttl = TTL(a)
      /\ f.reusable = IF Outcome(a) = "document" /\ TTL(a) > 0 THEN Cardinality(W) ELSE 0
  BY <1>1, <1>6
<1> HIDE DEF W
<1> QED
  BY <1>3, <1>4, <1>5, <1>6, <1>7, <1>8

-----------------------------------------------------------------------------
(* What flies, holds and waits, and what the cache may hold.                *)

Verdicts  == {"document", "invalid", "unavailable"}
LockSteps == FetchSteps \cup {"recheck", "retire", "unlock"}
Flying    == LockSteps \cup {"wait", "leave", "unref"}
Places    == Flying \cup {"lookup", "join", "done"}

Typed ==
    /\ pc \in [Request -> Places] /\ key \in [Request -> Key]
    /\ flight \in [Request -> Request \cup {Nil}]
    /\ result \in [Request -> Verdicts \cup {Nil}]
    /\ since \in [Request -> Nat] /\ until \in [Request -> Nat]
    /\ dropped \in [Request -> BOOLEAN]
    /\ fetching \in [Key -> Request \cup {Nil}]
    /\ locked \in [Request -> Request \cup {Nil}]
    /\ outcome \in [Request -> Verdicts \cup {Nil}]
    /\ hosts \in [Host -> Int] /\ permits \in Int
    /\ cache \in [Key -> [outcome : Verdicts \cup {"none"}, expires : Nat, until : Nat]]
    /\ now \in Nat

(* The outcome of the flight is published, or its holder is about to. *)
Retired(f) ==
    \/ outcome[f] # Nil
    \/ locked[f] # Nil /\ pc[locked[f]] = "unlock" /\ result[locked[f]] # Nil

(* A request has a handle of a flight of its document while it flies, holds  *)
(* the flight's lock on the steps that need it, and is in the flight of the  *)
(* map until that is retired.                                               *)
Handle(r) ==
    /\ flight[r] # Nil <=> pc[r] \in Flying
    /\ flight[r] # Nil => key[flight[r]] = key[r] /\ pc[flight[r]] \notin {"lookup", "join"}
    /\ pc[r] \in {"lookup", "join"} => outcome[r] = Nil
Holder(r) == pc[r] \in LockSteps => locked[flight[r]] = r /\ outcome[flight[r]] = Nil
LockOf(f) == locked[f] # Nil => pc[locked[f]] \in LockSteps /\ flight[locked[f]] = f
Mapped(r) ==
    pc[r] \in LockSteps \cup {"wait"} /\ ~Retired(flight[r]) => fetching[key[r]] = flight[r]
Entry(k) ==
    fetching[k] # Nil => /\ key[fetching[k]] = k /\ ~Retired(fetching[k])
                         /\ pc[fetching[k]] \notin {"lookup", "join"}

(* A request that ends its fetch has an outcome unless it was dropped.      *)
Results(r) ==
    /\ dropped[r] => /\ result[r] = Nil
                     /\ pc[r] \in {"unpermit", "unslot", "unlock", "leave", "unref", "done"}
    /\ ~dropped[r] /\ pc[r] \in {"remember", "unpermit", "unslot", "retire", "unlock"}
         => result[r] # Nil

Flights ==
    /\ \A r \in Request : Handle(r) /\ Holder(r) /\ LockOf(r) /\ Mapped(r) /\ Results(r)
    /\ \A k \in Key : Entry(k)

(* Only dropped requests leave a flight that the map still has; the last of  *)
(* them takes it along unless another has yet to drop its handle.           *)
Left(r) == pc[r] \in {"leave", "unref"} /\ fetching[key[r]] = flight[r] => dropped[r]
Gone(k) == {r \in Request : key[r] = k /\ dropped[r]}
Attended(k) ==
    fetching[k] # Nil => \/ \E r \in Handles(fetching[k]) : pc[r] # "unref"
                         \/ Cardinality(Gone(k)) >= 2
Leaving == (\A r \in Request : Left(r)) /\ \A k \in Key : Attended(k)

(* A document goes stale before its origin would have it. *)
Lifetimes ==
    /\ \A r \in Request :
          /\ pc[r] = "fetch" => since[r] <= now
          /\ pc[r] = "remember" /\ result[r] = "document" => since[r] <= until[r]
    /\ \A k \in Key : cache[k].outcome = "document" => cache[k].expires <= cache[k].until

Inv == Typed /\ Flights /\ Leaving /\ Lifetimes /\ CountsMatch

LEMMA Constants ==
    /\ IsFiniteSet(Request) /\ HostOf \in [Key -> Host]
    /\ Nil \notin Request /\ Nil \notin Verdicts
BY CimdAssumption DEF Verdicts

LEMMA Moves ==
    ASSUME Typed, NEW r \in Request, NEW from, NEW to \in Places, GoTo(r, from, to)
    PROVE  /\ pc[r] = from /\ pc'[r] = to /\ pc' \in [Request -> Places]
           /\ \A q \in Request \ {r} : pc'[q] = pc[q]
BY DEF GoTo, Typed

-----------------------------------------------------------------------------
LEMMA TypedKept ==
    ASSUME Typed, Flights, [Next]_vars
    PROVE  Typed'
<1> USE DEF local, flights, bounds
<1>1. ASSUME NEW r \in Request, RequestStep(r) \/ Drop(r)
      PROVE  pc' \in [Request -> Places]
  <2>1. Places = {"slot", "permit", "fetch", "remember", "unpermit", "unslot", "recheck",
                  "retire", "unlock", "wait", "leave", "unref", "lookup", "join", "done"}
    BY DEF Places, Flying, LockSteps, FetchSteps
  <2>2. \E from : \E to \in Places : GoTo(r, from, to)
    BY <1>1, <2>1 DEF RequestStep, Drop, Lookup, Join, Lock, Recheck, TakeSlot, TakePermit,
         Fetched, Remember, ReturnPermit, ReturnSlot, Retire, Unlock, Leave, Unref
  <2> QED
    BY <2>2, Moves
<1>2. ASSUME NEW r \in Request, Lookup(r) \/ Recheck(r)
      PROVE  Typed'
  <2>1. Fresh(key[r]) => cache[key[r]].outcome \in Verdicts
    BY DEF Typed, Fresh
  <2> QED
    BY <1>1, <1>2, <2>1 DEF Lookup, Recheck, Typed, RequestStep
<1>3. ASSUME NEW r \in Request, Join(r)
      PROVE  Typed'
  <2>1. (IF fetching[key[r]] = Nil THEN r ELSE fetching[key[r]]) \in Request
    BY DEF Typed
  <2> QED
    BY <1>1, <1>3, <2>1 DEF Join, Typed, RequestStep
<1>11. ASSUME NEW r \in Request, Lock(r)
      PROVE  Typed'
  <2>1. flight[r] \in Request
    BY <1>11 DEF Lock, Flights, Handle, Flying, Typed
  <2>2. CASE outcome[flight[r]] # Nil
    BY <1>1, <1>11, <2>1, <2>2 DEF Lock, Typed, RequestStep
  <2>3. CASE outcome[flight[r]] = Nil
    BY <1>1, <1>11, <2>1, <2>3 DEF Lock, Typed, RequestStep
  <2> QED
    BY <2>2, <2>3
<1>4. ASSUME NEW r \in Request, TakeSlot(r) \/ TakePermit(r)
      PROVE  Typed'
  BY <1>1, <1>4 DEF TakeSlot, TakePermit, HostOfRequest, Typed, RequestStep, Verdicts
<1>5. ASSUME NEW r \in Request, NEW f \in Fetches, Fetched(r, f)
      PROVE  Typed'
  <2>1. f.outcome \in Verdicts /\ f.ttl \in Nat /\ f.reusable \in Nat
    BY RememberedWhileReusable DEF Verdicts
  <2>2. pc' \in [Request -> Places]
    BY <1>1, <1>5 DEF RequestStep
  <2>3. since' \in [Request -> Nat] /\ until' \in [Request -> Nat]
    BY <1>5, <2>1 DEF Fetched, Typed
  <2> QED
    BY <1>5, <2>1, <2>2, <2>3 DEF Fetched, Typed
<1>6. ASSUME NEW r \in Request, Remember(r)
      PROVE  Typed'
  <2>1. result[r] \in Verdicts
    BY <1>6 DEF Remember, GoTo, Flights, Results, Typed
  <2>2. cache' \in [Key -> [outcome : Verdicts \cup {"none"}, expires : Nat, until : Nat]]
    BY <1>6, <2>1 DEF Remember, Typed, Uncached
  <2> QED
    BY <1>1, <1>6, <2>2 DEF Remember, Typed, RequestStep
<1>7. ASSUME NEW r \in Request, ReturnPermit(r) \/ ReturnSlot(r)
      PROVE  Typed'
  BY <1>1, <1>7 DEF ReturnPermit, ReturnSlot, HostOfRequest, Typed, RequestStep
<1>8. ASSUME NEW r \in Request, Retire(r) \/ Unlock(r) \/ Leave(r) \/ Unref(r)
      PROVE  Typed'
  BY <1>1, <1>8 DEF Retire, Unlock, Leave, Unref, Typed, RequestStep
<1>9. ASSUME NEW r \in Request, Drop(r)
      PROVE  Typed'
  BY <1>1, <1>9 DEF Drop, Typed
<1>10. CASE Tick \/ UNCHANGED vars
  BY <1>10 DEF Tick, vars, Typed
<1> QED
  BY <1>2, <1>3, <1>4, <1>5, <1>6, <1>7, <1>8, <1>9, <1>10, <1>11 DEF Next, RequestStep

-----------------------------------------------------------------------------
(* The flights.                                                             *)

(* One request steps; the others stay where they are.                       *)
Alone(r) ==
    /\ \A q \in Request \ {r} : /\ pc'[q] = pc[q] /\ result'[q] = result[q]
                                /\ dropped'[q] = dropped[q] /\ flight'[q] = flight[q]
    /\ UNCHANGED key

LEMMA StepsAlone ==
    ASSUME Typed, NEW r \in Request, RequestStep(r) \/ Drop(r)
    PROVE  Alone(r)
<1> USE DEF local, flights, bounds, Alone, Typed, GoTo
<1>1. CASE Lookup(r) \/ Join(r) \/ Lock(r) \/ Recheck(r)
  BY <1>1 DEF Lookup, Join, Lock, Recheck
<1>2. CASE TakeSlot(r) \/ TakePermit(r) \/ \E f \in Fetches : Fetched(r, f)
  BY <1>2 DEF TakeSlot, TakePermit, Fetched
<1>3. CASE Remember(r) \/ ReturnPermit(r) \/ ReturnSlot(r) \/ Retire(r)
  BY <1>3 DEF Remember, ReturnPermit, ReturnSlot, Retire
<1>4. CASE Unlock(r) \/ Leave(r) \/ Unref(r) \/ Drop(r)
  BY <1>4 DEF Unlock, Leave, Unref, Drop
<1> QED
  BY <1>1, <1>2, <1>3, <1>4 DEF RequestStep

(* A step of the holder of a flight's lock, short of retiring it.           *)
LEMMA HolderSteps ==
    ASSUME Typed, Flights, NEW r \in Request, Alone(r), Results(r)',
           UNCHANGED <<flight, fetching, locked, outcome>>,
           pc[r] \in LockSteps \ {"unlock"}, pc'[r] \in LockSteps,
           pc'[r] = "unlock" => result'[r] = Nil
    PROVE  Flights'
<1>1. /\ \A q \in Request : Handle(q) /\ Holder(q) /\ LockOf(q) /\ Mapped(q) /\ Results(q)
      /\ \A k \in Key : Entry(k)
  BY DEF Flights
<1>2. LockSteps \subseteq Flying /\ "lookup" \notin LockSteps /\ "join" \notin LockSteps
  BY DEF LockSteps, Flying, FetchSteps
<1>3. ASSUME NEW q \in Request
      PROVE  /\ pc'[q] \in LockSteps <=> pc[q] \in LockSteps
             /\ pc'[q] \in Flying <=> pc[q] \in Flying
             /\ pc'[q] = "wait" <=> pc[q] = "wait"
             /\ pc'[q] \in {"lookup", "join"} <=> pc[q] \in {"lookup", "join"}
  <2>1. CASE q = r
    BY <1>2, <2>1 DEF LockSteps, FetchSteps
  <2>2. CASE q # r
    BY <2>2 DEF Alone
  <2> QED
    BY <2>1, <2>2
<1>4. ASSUME NEW q \in Request
      PROVE  Handle(q)' /\ Holder(q)' /\ LockOf(q)'
  <2>1. flight[q] \in Request \cup {Nil} /\ locked[q] \in Request \cup {Nil}
    BY DEF Typed
  <2>2. Handle(q)'
    <3>1. flight[q] # Nil => (pc'[flight[q]] \in {"lookup", "join"}
                                <=> pc[flight[q]] \in {"lookup", "join"})
      BY <1>3, <2>1
    <3> QED
      BY <1>1, <1>3, <3>1 DEF Alone, Handle
  <2>3. Holder(q)'
    BY <1>1, <1>3 DEF Holder
  <2>4. LockOf(q)'
    BY <1>1, <1>3, <2>1 DEF LockOf
  <2> QED
    BY <2>2, <2>3, <2>4
<1>5. \A f \in Request : Retired(f)' <=> Retired(f)
  BY <1>1, Constants DEF Alone, Retired, LockOf, Typed
<1>6. \A q \in Request : Mapped(q)'
  <2>1. \A q \in Request : pc[q] \in LockSteps \cup {"wait"} => flight[q] \in Request
    BY <1>1, <1>2 DEF Handle, Typed, Flying
  <2> QED
    BY <1>1, <1>3, <1>5, <2>1, Constants DEF Alone, Mapped
<1>7. \A q \in Request : Results(q)'
  BY <1>1 DEF Alone, Results
<1>8. ASSUME NEW k \in Key
      PROVE  Entry(k)'
  <2>1. fetching[k] \in Request \cup {Nil}
    BY DEF Typed
  <2> QED
    BY <1>1, <1>3, <1>5, <2>1 DEF Alone, Entry
<1> QED
  BY <1>4, <1>6, <1>7, <1>8 DEF Flights

LEMMA StepNames ==
    /\ LockSteps = {"slot", "permit", "fetch", "remember", "unpermit", "unslot",
                    "recheck", "retire", "unlock"}
    /\ Flying = LockSteps \cup {"wait", "leave", "unref"}
BY DEF LockSteps, Flying, FetchSteps

LEMMA FlightsAre ==
    ASSUME Typed, Flights
    PROVE  /\ \A q \in Request :
                /\ Handle(q) /\ Holder(q) /\ LockOf(q) /\ Mapped(q) /\ Results(q)
                /\ pc[q] \in Flying => flight[q] \in Request
                /\ flight[q] \in Request \cup {Nil} /\ locked[q] \in Request \cup {Nil}
                /\ key[q] \in Key
           /\ \A k \in Key : Entry(k) /\ fetching[k] \in Request \cup {Nil}
BY DEF Flights, Typed, Handle

(* A step outside of any flight. *)
LEMMA LookupStep ==
    ASSUME Typed, Flights, NEW r \in Request, Alone(r), Results(r)',
           UNCHANGED <<flight, fetching, locked, outcome>>,
           pc[r] = "lookup", pc'[r] \in {"join", "done"}
    PROVE  Flights'
<1>1. \A f \in Request : Retired(f)' <=> Retired(f)
  BY FlightsAre, StepNames DEF Alone, Retired, LockOf
<1>2. ASSUME NEW q \in Request
      PROVE  Handle(q)' /\ Holder(q)' /\ LockOf(q)' /\ Mapped(q)' /\ Results(q)'
  <2>1. Handle(q)' /\ Holder(q)' /\ LockOf(q)'
    <3>1. flight[q] # Nil => pc'[flight[q]] = pc[flight[q]]
      BY FlightsAre DEF Alone, Handle
    <3>2. locked[q] # Nil => pc'[locked[q]] = pc[locked[q]]
      BY FlightsAre, StepNames DEF Alone, LockOf
    <3> QED
      BY <3>1, <3>2, FlightsAre, StepNames DEF Alone, Handle, Holder, LockOf
  <2>2. Mapped(q)' /\ Results(q)'
    BY <1>1, FlightsAre, StepNames DEF Alone, Mapped, Results
  <2> QED
    BY <2>1, <2>2
<1>3. \A k \in Key : Entry(k)'
  BY <1>1, FlightsAre, Constants DEF Alone, Entry
<1> QED
  BY <1>2, <1>3 DEF Flights

LEMMA JoinStep ==
    ASSUME Typed, Flights, NEW r \in Request, Join(r)
    PROVE  Flights'
<1> DEFINE f == IF fetching[key[r]] = Nil THEN r ELSE fetching[key[r]]
<1>1. /\ pc[r] = "join" /\ pc'[r] = "wait" /\ Alone(r) /\ f \in Request
      /\ fetching' = [fetching EXCEPT ![key[r]] = f] /\ flight'[r] = f
      /\ UNCHANGED <<key, result, dropped, locked, outcome>>
  <2>1. f \in Request
    BY DEF Typed
  <2>2. GoTo(r, "join", "wait") /\ "wait" \in Places /\ RequestStep(r)
    BY DEF Join, RequestStep, Places, Flying
  <2>3. Alone(r) /\ pc[r] = "join" /\ pc'[r] = "wait"
    BY <2>2, StepsAlone, Moves
  <2>4. /\ fetching' = [fetching EXCEPT ![key[r]] = f] /\ flight' = [flight EXCEPT ![r] = f]
        /\ UNCHANGED <<key, result, dropped, locked, outcome>>
    BY DEF Join
  <2> QED
    BY <2>1, <2>3, <2>4 DEF Typed
<1> HIDE DEF f
<1>2. \A g \in Request : Retired(g)' <=> Retired(g)
  BY <1>1, FlightsAre, StepNames DEF Alone, Retired, LockOf
<1>3. key[f] = key[r] /\ ~Retired(f) /\ (f # r => pc[f] \notin {"lookup", "join"})
  <2>1. CASE fetching[key[r]] = Nil
    <3>1. f = r /\ outcome[r] = Nil
      BY <1>1, <2>1, FlightsAre DEF Handle, f
    <3>2. locked[r] = Nil
      BY <1>1, FlightsAre, StepNames DEF Handle, LockOf
    <3> QED
      BY <3>1, <3>2 DEF Retired
  <2>2. CASE fetching[key[r]] # Nil
    BY <2>2, FlightsAre DEF Entry, f
  <2> QED
    BY <2>1, <2>2
<1>4. \A g \in Request : pc[g] \notin {"lookup", "join"} => pc'[g] \notin {"lookup", "join"}
  BY <1>1 DEF Alone
<1>5. pc'[f] \notin {"lookup", "join"}
  BY <1>1, <1>3, <1>4
<1>6. ASSUME NEW q \in Request
      PROVE  Handle(q)' /\ Holder(q)' /\ LockOf(q)' /\ Mapped(q)' /\ Results(q)'
  <2>1. Handle(q)'
    <3>1. CASE q = r
      BY <1>1, <1>3, <1>5, <3>1, StepNames, Constants DEF Handle
    <3>2. CASE q # r
      BY <1>1, <1>4, <3>2, FlightsAre DEF Alone, Handle
    <3> QED
      BY <3>1, <3>2
  <2>2. Holder(q)'
    BY <1>1, FlightsAre, StepNames DEF Alone, Holder
  <2>3. LockOf(q)'
    BY <1>1, FlightsAre, StepNames DEF Alone, LockOf
  <2>4. Mapped(q)'
    <3>1. fetching'[key[q]] = IF key[q] = key[r] THEN f ELSE fetching[key[q]]
      BY <1>1, FlightsAre DEF Typed
    <3>2. CASE q = r
      BY <1>1, <3>1, <3>2 DEF Mapped
    <3>3. CASE q # r
      <4>1. pc[q] \in LockSteps \cup {"wait"} /\ ~Retired(flight[q])
              => fetching[key[q]] = flight[q] /\ flight[q] # Nil
        BY FlightsAre, StepNames, Constants DEF Mapped
      <4>2. fetching[key[q]] # Nil => fetching'[key[q]] = fetching[key[q]]
        BY <3>1 DEF f
      <4> QED
        BY <1>1, <1>2, <3>3, <4>1, <4>2, FlightsAre, StepNames DEF Alone, Mapped
    <3> QED
      BY <3>2, <3>3
  <2>5. Results(q)'
    BY <1>1, FlightsAre DEF Alone, Results
  <2> QED
    BY <2>1, <2>2, <2>3, <2>4, <2>5
<1>7. ASSUME NEW k \in Key
      PROVE  Entry(k)'
  <2>1. fetching'[k] = IF k = key[r] THEN f ELSE fetching[k]
    BY <1>1 DEF Typed
  <2> QED
    BY <1>1, <1>2, <1>3, <1>4, <1>5, <2>1, FlightsAre DEF Entry
<1> QED
  BY <1>6, <1>7 DEF Flights

LEMMA TakeLockStep ==
    ASSUME Typed, Flights, NEW r \in Request, Lock(r), outcome[flight[r]] = Nil
    PROVE  Flights'
<1> DEFINE f == flight[r]
<1>1. /\ pc[r] = "wait" /\ pc'[r] = "recheck" /\ Alone(r) /\ locked[f] = Nil
      /\ locked' = [locked EXCEPT ![f] = r]
      /\ UNCHANGED <<key, result, dropped, outcome, flight, fetching>>
  <2>1. GoTo(r, "wait", "recheck") /\ "recheck" \in Places /\ RequestStep(r)
    BY DEF Lock, RequestStep, Places, Flying, LockSteps
  <2>2. Alone(r) /\ pc[r] = "wait" /\ pc'[r] = "recheck"
    BY <2>1, StepsAlone, Moves
  <2> QED
    BY <2>2 DEF Lock, local
<1>2. f \in Request /\ f # Nil
  BY <1>1, FlightsAre, StepNames, Constants
<1>3. \A g \in Request : locked'[g] = IF g = f THEN r ELSE locked[g]
  BY <1>1 DEF Typed
<1> HIDE DEF f
<1>4. ASSUME NEW g \in Request
      PROVE  Retired(g)' <=> Retired(g)
  <2>1. CASE g = f
    BY <1>1, <1>2, <1>3, <2>1 DEF Retired, f
  <2>2. CASE g # f
    BY <1>1, <1>3, <2>2, FlightsAre DEF Alone, Retired
  <2> QED
    BY <2>1, <2>2
<1>5. \A g \in Request : pc'[g] \in {"lookup", "join"} <=> pc[g] \in {"lookup", "join"}
  BY <1>1 DEF Alone
<1>6. ASSUME NEW q \in Request
      PROVE  Handle(q)' /\ Holder(q)' /\ LockOf(q)' /\ Mapped(q)' /\ Results(q)'
  <2>1. pc'[q] \in Flying <=> pc[q] \in Flying
    BY <1>1, StepNames DEF Alone
  <2>2. Handle(q)'
    <3>1. flight[q] # Nil => (pc'[flight[q]] \in {"lookup", "join"}
                                <=> pc[flight[q]] \in {"lookup", "join"})
      BY <1>5, FlightsAre
    <3> QED
      BY <1>1, <1>5, <2>1, <3>1, FlightsAre DEF Handle
  <2>3. Holder(q)'
    <3>1. CASE q = r
      BY <1>1, <1>2, <1>3, <3>1 DEF Holder, f
    <3>2. CASE q # r
      BY <1>1, <1>2, <1>3, <3>2, FlightsAre, StepNames, Constants DEF Alone, Holder, f
    <3> QED
      BY <3>1, <3>2
  <2>4. LockOf(q)'
    <3>1. CASE q = f
      BY <1>1, <1>3, <3>1, StepNames DEF LockOf, f
    <3>2. CASE q # f
      BY <1>1, <1>3, <3>2, FlightsAre, StepNames DEF Alone, LockOf
    <3> QED
      BY <3>1, <3>2
  <2>5. Mapped(q)'
    <3>1. pc'[q] \in LockSteps \cup {"wait"} <=> pc[q] \in LockSteps \cup {"wait"}
      BY <1>1, StepNames DEF Alone
    <3> QED
      BY <1>1, <1>4, <3>1, FlightsAre, StepNames DEF Mapped
  <2>6. Results(q)'
    BY <1>1, FlightsAre DEF Alone, Results
  <2> QED
    BY <2>2, <2>3, <2>4, <2>5, <2>6
<1>7. \A k \in Key : Entry(k)'
  BY <1>1, <1>4, <1>5, FlightsAre DEF Entry
<1> QED
  BY <1>6, <1>7 DEF Flights

(* A request leaves its flight, whose entry may go if it is the only one    *)
(* that has a handle.                                                       *)
LEMMA LeaveStep ==
    ASSUME Typed, Flights, NEW r \in Request, Alone(r), Results(r)',
           UNCHANGED <<flight, locked, outcome>>,
           \/ pc[r] = "wait" /\ pc'[r] = "leave"
           \/ pc[r] = "leave" /\ pc'[r] = "unref",
           \/ fetching' = fetching
           \/ /\ fetching' = [fetching EXCEPT ![key[r]] = Nil]
              /\ fetching[key[r]] = flight[r]
              /\ \A q \in Request \ {r} : flight[q] # flight[r]
    PROVE  Flights'
<1>1. \A k \in Key : fetching'[k] \in {fetching[k], Nil}
  BY DEF Typed
<1>2. ASSUME NEW q \in Request
      PROVE  /\ pc'[q] \in Flying <=> pc[q] \in Flying
             /\ pc'[q] \in LockSteps <=> pc[q] \in LockSteps
             /\ pc'[q] \in {"lookup", "join"} <=> pc[q] \in {"lookup", "join"}
             /\ pc'[q] \in LockSteps \cup {"wait"} =>
                   q # r /\ pc[q] \in LockSteps \cup {"wait"}
             /\ pc'[q] = "unlock" <=> pc[q] = "unlock"
  BY StepNames DEF Alone
<1>3. ASSUME NEW g \in Request
      PROVE  Retired(g)' <=> Retired(g)
  <2>1. locked[g] # Nil => locked[g] \in Request /\ (pc[locked[g]] = "unlock" => locked[g] # r)
    BY FlightsAre
  <2> QED
    BY <1>2, <2>1 DEF Alone, Retired
<1>4. ASSUME NEW q \in Request
      PROVE  Handle(q)' /\ Holder(q)' /\ LockOf(q)' /\ Mapped(q)' /\ Results(q)'
  <2>1. Handle(q)'
    <3>1. flight[q] # Nil => (pc'[flight[q]] \in {"lookup", "join"}
                                <=> pc[flight[q]] \in {"lookup", "join"})
      BY <1>2, FlightsAre
    <3> QED
      BY <1>2, <3>1, FlightsAre DEF Alone, Handle
  <2>2. Holder(q)'
    BY <1>2, FlightsAre DEF Holder
  <2>3. LockOf(q)'
    <3>1. locked[q] # Nil => (pc'[locked[q]] \in LockSteps <=> pc[locked[q]] \in LockSteps)
      BY <1>2, FlightsAre
    <3> QED
      BY <3>1, FlightsAre DEF LockOf
  <2>4. Mapped(q)'
    <3> SUFFICES ASSUME pc'[q] \in LockSteps \cup {"wait"}, ~Retired(flight[q])
                 PROVE  fetching'[key[q]] = flight[q]
      BY <1>2, <1>3, FlightsAre, StepNames DEF Alone, Mapped
    <3>1. q # r /\ fetching[key[q]] = flight[q]
      BY <1>2, FlightsAre DEF Mapped
    <3>2. CASE key[q] = key[r]
      BY <3>1, <3>2
    <3>3. CASE key[q] # key[r]
      BY <3>1, <3>3, FlightsAre DEF Typed
    <3> QED
      BY <3>2, <3>3
  <2>5. Results(q)'
    BY FlightsAre DEF Alone, Results
  <2> QED
    BY <2>1, <2>2, <2>3, <2>4, <2>5
<1>5. ASSUME NEW k \in Key
      PROVE  Entry(k)'
  <2>1. CASE fetching'[k] = Nil
    BY <2>1 DEF Entry
  <2>2. CASE fetching'[k] # Nil
    BY <1>1, <1>2, <1>3, <2>2, FlightsAre DEF Alone, Entry
  <2> QED
    BY <2>1, <2>2
<1> QED
  BY <1>4, <1>5 DEF Flights

LEMMA RetireStep ==
    ASSUME Typed, Flights, NEW r \in Request, Retire(r)
    PROVE  Flights'
<1> DEFINE f == flight[r]
<1>1. /\ pc[r] = "retire" /\ pc'[r] = "unlock" /\ Alone(r)
      /\ fetching' = IF fetching[key[r]] = f THEN [fetching EXCEPT ![key[r]] = Nil]
                     ELSE fetching
      /\ UNCHANGED <<key, result, dropped, outcome, flight, locked>>
  <2>1. GoTo(r, "retire", "unlock") /\ "unlock" \in Places /\ RequestStep(r)
    BY DEF Retire, RequestStep, Places, Flying, LockSteps
  <2>2. Alone(r) /\ pc[r] = "retire" /\ pc'[r] = "unlock"
    BY <2>1, StepsAlone, Moves
  <2> QED
    BY <2>2 DEF Retire, local
<1>2. /\ f \in Request /\ locked[f] = r /\ outcome[f] = Nil /\ result[r] # Nil
      /\ ~dropped[r] /\ ~Retired(f) /\ Retired(f)' /\ fetching[key[r]] = f
  <2>1. f \in Request /\ locked[f] = r /\ outcome[f] = Nil
    BY <1>1, FlightsAre, StepNames DEF Holder
  <2>2. result[r] # Nil /\ ~dropped[r]
    BY <1>1, FlightsAre DEF Results
  <2>3. ~Retired(f) /\ Retired(f)'
    BY <1>1, <2>1, <2>2, Constants DEF Retired
  <2> QED
    BY <1>1, <2>1, <2>2, <2>3, FlightsAre, StepNames DEF Mapped
<1> HIDE DEF f
<1>3. \A k \in Key : fetching'[k] = IF k = key[r] THEN Nil ELSE fetching[k]
  BY <1>1, <1>2 DEF Typed
<1>4. ASSUME NEW g \in Request, g # f
      PROVE  Retired(g)' <=> Retired(g)
  <2>1. locked[g] # r
    BY <1>1, <1>4, FlightsAre, Constants DEF LockOf, f
  <2> QED
    BY <1>1, <2>1, FlightsAre DEF Alone, Retired
<1>5. ASSUME NEW q \in Request
      PROVE  /\ pc'[q] \in Flying <=> pc[q] \in Flying
             /\ pc'[q] \in LockSteps <=> pc[q] \in LockSteps
             /\ pc'[q] = "wait" <=> pc[q] = "wait"
             /\ pc'[q] \in {"lookup", "join"} <=> pc[q] \in {"lookup", "join"}
  BY <1>1, StepNames DEF Alone
<1>6. ASSUME NEW q \in Request
      PROVE  Handle(q)' /\ Holder(q)' /\ LockOf(q)' /\ Mapped(q)' /\ Results(q)'
  <2>1. Handle(q)'
    <3>1. flight[q] # Nil => (pc'[flight[q]] \in {"lookup", "join"}
                                <=> pc[flight[q]] \in {"lookup", "join"})
      BY <1>5, FlightsAre
    <3> QED
      BY <1>1, <1>5, <3>1, FlightsAre DEF Handle
  <2>2. Holder(q)'
    BY <1>1, <1>5, FlightsAre DEF Holder
  <2>3. LockOf(q)'
    <3>1. locked[q] # Nil => (pc'[locked[q]] \in LockSteps <=> pc[locked[q]] \in LockSteps)
      BY <1>5, FlightsAre
    <3> QED
      BY <1>1, <3>1, FlightsAre DEF LockOf
  <2>4. Mapped(q)'
    <3> SUFFICES ASSUME pc'[q] \in LockSteps \cup {"wait"}, ~Retired(flight[q])'
                 PROVE  fetching'[key[q]] = flight[q]
      BY <1>1 DEF Mapped
    <3>2. pc[q] \in LockSteps \cup {"wait"} /\ flight[q] \in Request
      BY <1>5, FlightsAre, StepNames
    <3>3. flight[q] # f
      BY <1>1, <1>2 DEF f, Retired
    <3>4. ~Retired(flight[q])
      BY <1>1, <1>4, <3>2, <3>3 DEF Retired
    <3>1. fetching[key[q]] = flight[q]
      BY <3>2, <3>4, FlightsAre DEF Mapped
    <3> QED
      BY <1>2, <1>3, <3>1, <3>3, FlightsAre
  <2>5. Results(q)'
    BY <1>1, <1>2, FlightsAre DEF Alone, Results
  <2> QED
    BY <2>1, <2>2, <2>3, <2>4, <2>5
<1>7. ASSUME NEW k \in Key
      PROVE  Entry(k)'
  <2>1. CASE k = key[r]
    BY <1>3, <2>1 DEF Entry
  <2>2. CASE k # key[r] /\ fetching[k] # Nil
    <3>1. fetching[k] # f
      BY <1>2, <2>2, FlightsAre DEF Entry, Handle, f
    <3> QED
      BY <1>1, <1>3, <1>4, <1>5, <2>2, <3>1, FlightsAre DEF Entry
  <2>3. CASE k # key[r] /\ fetching[k] = Nil
    BY <1>3, <2>3 DEF Entry
  <2> QED
    BY <2>1, <2>2, <2>3
<1> QED
  BY <1>6, <1>7 DEF Flights

LEMMA UnlockStep ==
    ASSUME Typed, Flights, NEW r \in Request, Unlock(r)
    PROVE  Flights'
<1> DEFINE f == flight[r]
<1>1. /\ pc[r] = "unlock" /\ pc'[r] = "leave" /\ Alone(r)
      /\ outcome' = [outcome EXCEPT ![f] = result[r]] /\ locked' = [locked EXCEPT ![f] = Nil]
      /\ UNCHANGED <<key, result, dropped, flight, fetching>>
  <2>1. GoTo(r, "unlock", "leave") /\ "leave" \in Places /\ RequestStep(r)
    BY DEF Unlock, RequestStep, Places, Flying
  <2>2. Alone(r) /\ pc[r] = "unlock" /\ pc'[r] = "leave"
    BY <2>1, StepsAlone, Moves
  <2> QED
    BY <2>2 DEF Unlock, local
<1>2. f \in Request /\ locked[f] = r /\ outcome[f] = Nil
  BY <1>1, FlightsAre, StepNames DEF Holder
<1>3. \A g \in Request : /\ outcome'[g] = IF g = f THEN result[r] ELSE outcome[g]
                        /\ locked'[g] = IF g = f THEN Nil ELSE locked[g]
  BY <1>1 DEF Typed
<1> HIDE DEF f
<1>4. ASSUME NEW g \in Request
      PROVE  Retired(g)' <=> Retired(g)
  <2>1. CASE g = f
    BY <1>1, <1>2, <1>3, <2>1, Constants DEF Retired
  <2>2. CASE g # f
    <3>1. locked[g] # r
      BY <1>1, <2>2, FlightsAre, Constants DEF LockOf, f
    <3> QED
      BY <1>1, <1>3, <2>2, <3>1, FlightsAre DEF Alone, Retired
  <2> QED
    BY <2>1, <2>2
<1>5. ASSUME NEW q \in Request
      PROVE  /\ pc'[q] \in Flying <=> pc[q] \in Flying
             /\ pc'[q] \in LockSteps \cup {"wait"} <=>
                  q # r /\ pc[q] \in LockSteps \cup {"wait"}
             /\ pc'[q] \in LockSteps <=> q # r /\ pc[q] \in LockSteps
             /\ pc'[q] \in {"lookup", "join"} <=> pc[q] \in {"lookup", "join"}
  BY <1>1, StepNames DEF Alone
<1>6. ASSUME NEW q \in Request
      PROVE  Handle(q)' /\ Holder(q)' /\ LockOf(q)' /\ Mapped(q)' /\ Results(q)'
  <2>1. Handle(q)'
    <3>1. flight[q] # Nil => (pc'[flight[q]] \in {"lookup", "join"}
                                <=> pc[flight[q]] \in {"lookup", "join"})
      BY <1>5, FlightsAre
    <3>2. pc[q] \in {"lookup", "join"} => q # f
      BY <1>1, FlightsAre, StepNames DEF Handle, f
    <3> QED
      BY <1>1, <1>3, <1>5, <3>1, <3>2, FlightsAre DEF Handle
  <2>2. Holder(q)'
    <3> SUFFICES ASSUME q # r, pc[q] \in LockSteps
                 PROVE  locked'[flight[q]] = q /\ outcome'[flight[q]] = Nil
      BY <1>1, <1>5 DEF Holder
    <3>1. flight[q] \in Request /\ locked[flight[q]] = q /\ outcome[flight[q]] = Nil
      BY FlightsAre, StepNames DEF Holder
    <3> QED
      BY <1>2, <1>3, <3>1
  <2>3. LockOf(q)'
    <3>1. CASE q = f
      BY <1>3, <3>1 DEF LockOf
    <3>2. CASE q # f /\ locked[q] # Nil
      <4>1. locked[q] # r /\ locked[q] \in Request
        BY <3>2, FlightsAre DEF LockOf, f
      <4> QED
        BY <1>1, <1>3, <1>5, <3>2, <4>1, FlightsAre DEF LockOf
    <3>3. CASE q # f /\ locked[q] = Nil
      BY <1>3, <3>3 DEF LockOf
    <3> QED
      BY <3>1, <3>2, <3>3
  <2>4. Mapped(q)'
    BY <1>1, <1>4, <1>5, FlightsAre, StepNames DEF Mapped
  <2>5. Results(q)'
    BY <1>1, FlightsAre DEF Alone, Results
  <2> QED
    BY <2>1, <2>2, <2>3, <2>4, <2>5
<1>7. \A k \in Key : Entry(k)'
  BY <1>1, <1>4, <1>5, FlightsAre DEF Entry
<1> QED
  BY <1>6, <1>7 DEF Flights

LEMMA UnrefStep ==
    ASSUME Typed, Flights, NEW r \in Request, Unref(r)
    PROVE  Flights'
<1>1. /\ pc[r] = "unref" /\ pc'[r] = "done" /\ Alone(r) /\ flight'[r] = Nil
      /\ UNCHANGED <<key, result, dropped, outcome, locked, fetching>>
  <2>1. GoTo(r, "unref", "done") /\ "done" \in Places /\ RequestStep(r)
    BY DEF Unref, RequestStep, Places
  <2>2. Alone(r) /\ pc[r] = "unref" /\ pc'[r] = "done"
    BY <2>1, StepsAlone, Moves
  <2> QED
    BY <2>2 DEF Unref, flights, Typed
<1>2. ASSUME NEW q \in Request
      PROVE  /\ pc'[q] \in Flying <=> q # r /\ pc[q] \in Flying
             /\ pc'[q] \in LockSteps <=> pc[q] \in LockSteps
             /\ pc'[q] \in LockSteps \cup {"wait"} <=> pc[q] \in LockSteps \cup {"wait"}
             /\ pc'[q] \in {"lookup", "join"} <=> pc[q] \in {"lookup", "join"}
             /\ pc'[q] = "unlock" <=> pc[q] = "unlock"
             /\ pc[q] \in LockSteps \cup {"wait"} => flight'[q] = flight[q]
             /\ flight'[q] = IF q = r THEN Nil ELSE flight[q]
  BY <1>1, StepNames DEF Alone
<1>3. ASSUME NEW g \in Request
      PROVE  Retired(g)' <=> Retired(g)
  BY <1>1, <1>2, FlightsAre DEF Retired
<1>4. ASSUME NEW q \in Request
      PROVE  Handle(q)' /\ Holder(q)' /\ LockOf(q)' /\ Mapped(q)' /\ Results(q)'
  <2>1. Handle(q)'
    <3>1. flight[q] # Nil => (pc'[flight[q]] \in {"lookup", "join"}
                                <=> pc[flight[q]] \in {"lookup", "join"})
      BY <1>2, FlightsAre
    <3> QED
      BY <1>1, <1>2, <3>1, FlightsAre DEF Handle
  <2>2. Holder(q)'
    BY <1>1, <1>2, FlightsAre DEF Holder
  <2>3. LockOf(q)'
    <3>1. locked[q] # Nil => /\ pc'[locked[q]] \in LockSteps <=> pc[locked[q]] \in LockSteps
                             /\ flight'[locked[q]] = flight[locked[q]]
      BY <1>2, FlightsAre DEF LockOf
    <3> QED
      BY <1>1, <3>1, FlightsAre DEF LockOf
  <2>4. Mapped(q)'
    <3> SUFFICES ASSUME pc[q] \in LockSteps \cup {"wait"}, ~Retired(flight[q])
                 PROVE  fetching[key[q]] = flight[q]
      BY <1>1, <1>2, <1>3, FlightsAre, StepNames DEF Mapped
    <3> QED
      BY FlightsAre DEF Mapped
  <2>5. Results(q)'
    BY <1>1, FlightsAre DEF Alone, Results
  <2> QED
    BY <2>1, <2>2, <2>3, <2>4, <2>5
<1>5. \A k \in Key : Entry(k)'
  BY <1>1, <1>2, <1>3, FlightsAre DEF Entry
<1> QED
  BY <1>4, <1>5 DEF Flights

(* The steps of a lock's holder keep to HolderSteps. *)
LEMMA HolderMoves ==
    ASSUME Typed, Flights, NEW r \in Request,
           \/ Recheck(r) \/ TakeSlot(r) \/ TakePermit(r)
           \/ \E f \in Fetches : Fetched(r, f)
           \/ Remember(r) \/ ReturnPermit(r) \/ ReturnSlot(r)
           \/ Drop(r) /\ pc[r] \in LockSteps
    PROVE  Flights'
<1> DEFINE Goes(from, to) == GoTo(r, from, to) /\ to \in Places
<1>1. Alone(r)
  BY StepsAlone DEF RequestStep
<1>2. \A from, to : Goes(from, to) => pc[r] = from /\ pc'[r] = to
  BY Moves
<1>3. dropped[r] /\ pc[r] \in LockSteps
        => result[r] = Nil /\ pc[r] \in {"unpermit", "unslot", "unlock"}
  BY FlightsAre, StepNames DEF Results
<1>4. "unavailable" # Nil /\ \A v \in Verdicts : v # Nil
  BY Constants DEF Verdicts
<1>5. Places = {"slot", "permit", "fetch", "remember", "unpermit", "unslot", "recheck",
                "retire", "unlock", "wait", "leave", "unref", "lookup", "join", "done"}
  BY StepNames DEF Places
<1>6. ASSUME UNCHANGED <<flight, fetching, locked, outcome>>, Results(r)',
             pc[r] \in LockSteps \ {"unlock"}, pc'[r] \in LockSteps,
             pc'[r] = "unlock" => result'[r] = Nil
      PROVE  Flights'
  BY <1>1, <1>6, HolderSteps
<1> HIDE DEF Goes
<1>7. CASE Recheck(r)
  <2>1. \/ Goes("recheck", "retire") /\ Fresh(key[r]) /\ result'[r] = cache[key[r]].outcome
        \/ Goes("recheck", "slot") /\ result'[r] = result[r]
    BY <1>5, <1>7 DEF Recheck, Typed, Goes
  <2>2. Fresh(key[r]) => cache[key[r]].outcome \in Verdicts
    BY DEF Typed, Fresh
  <2>3. UNCHANGED <<dropped, flight, fetching, locked, outcome>>
    BY <1>7 DEF Recheck, flights
  <2>4. Results(r)'
    BY <1>2, <1>3, <1>4, <2>1, <2>2, <2>3, StepNames DEF Results
  <2> QED
    BY <1>2, <1>6, <2>1, <2>3, <2>4, StepNames
<1>8. CASE TakeSlot(r)
  <2>1. \/ Goes("slot", "retire") /\ result'[r] = "unavailable"
        \/ Goes("slot", "permit") /\ result'[r] = result[r]
    BY <1>5, <1>8 DEF TakeSlot, Typed, Goes
  <2>2. UNCHANGED <<dropped, flight, fetching, locked, outcome>>
    BY <1>8 DEF TakeSlot, flights
  <2>3. Results(r)'
    BY <1>2, <1>3, <1>4, <2>1, <2>2, StepNames DEF Results
  <2> QED
    BY <1>2, <1>6, <2>1, <2>2, <2>3, StepNames
<1>9. CASE TakePermit(r)
  <2>1. \/ Goes("permit", "unslot") /\ result'[r] = "unavailable"
        \/ Goes("permit", "fetch") /\ result'[r] = result[r]
    BY <1>5, <1>9 DEF TakePermit, Typed, Goes
  <2>2. UNCHANGED <<dropped, flight, fetching, locked, outcome>>
    BY <1>9 DEF TakePermit, flights
  <2>3. Results(r)'
    BY <1>2, <1>3, <1>4, <2>1, <2>2, StepNames DEF Results
  <2> QED
    BY <1>2, <1>6, <2>1, <2>2, <2>3, StepNames
<1>10. CASE \E f \in Fetches : Fetched(r, f)
  <2>1. PICK f \in Fetches : Fetched(r, f)
    BY <1>10
  <2>2. f.outcome \in Verdicts
    BY RememberedWhileReusable DEF Verdicts
  <2>3. /\ Goes("fetch", "unpermit") \/ Goes("fetch", "remember")
        /\ result'[r] = f.outcome
    BY <1>5, <2>1 DEF Fetched, Typed, Goes
  <2>4. UNCHANGED <<dropped, flight, fetching, locked, outcome>>
    BY <2>1 DEF Fetched, flights
  <2>5. Results(r)'
    BY <1>2, <1>3, <1>4, <2>2, <2>3, <2>4, StepNames DEF Results
  <2> QED
    BY <1>2, <1>6, <2>3, <2>4, <2>5, StepNames
<1>11. CASE Remember(r) \/ ReturnPermit(r) \/ ReturnSlot(r)
  <2>1. /\ \/ Goes("remember", "unpermit") \/ Goes("unpermit", "unslot")
           \/ Goes("unslot", "unlock") /\ dropped[r]
           \/ Goes("unslot", "retire") /\ ~dropped[r]
        /\ UNCHANGED <<result, dropped, flight, fetching, locked, outcome>>
    BY <1>5, <1>11 DEF Remember, ReturnPermit, ReturnSlot, flights, local, Goes
  <2>2. Results(r)' /\ (pc'[r] = "unlock" => result'[r] = Nil)
    BY <1>2, <1>3, <2>1, FlightsAre, StepNames DEF Results
  <2> QED
    BY <1>2, <1>6, <2>1, <2>2, StepNames
<1>12. CASE Drop(r) /\ pc[r] \in LockSteps
  <2>1. /\ \/ Goes("recheck", "unlock") \/ Goes("fetch", "unpermit")
           \/ Goes("remember", "unpermit")
        /\ result'[r] = Nil /\ dropped'[r]
        /\ UNCHANGED <<flight, fetching, locked, outcome>>
    BY <1>5, <1>12, StepNames DEF Drop, GoTo, flights, Typed, Goes
  <2>2. Results(r)'
    BY <1>2, <2>1 DEF Results
  <2> QED
    BY <1>2, <1>6, <2>1, <2>2, StepNames
<1> QED
  BY <1>7, <1>8, <1>9, <1>10, <1>11, <1>12

(* By its count, nobody but the request that leaves has a handle of the flight. *)
LEMMA AloneIn ==
    ASSUME NEW S \in SUBSET Request, NEW r \in S
    PROVE  Cardinality(S) + 1 <= 2 <=> \A q \in S : q = r
<1>1. IsFiniteSet(S) /\ Cardinality(S) \in Nat
  BY Constants, FS_Subset, FS_CardinalityType
<1>2. ASSUME NEW q \in S, q # r
      PROVE  Cardinality(S) >= 2
  <2>1. IsFiniteSet({r}) /\ Cardinality({r}) = 1
    BY FS_Singleton
  <2>2. Cardinality({r} \cup {q}) = 2
    BY <1>2, <2>1, FS_AddElement
  <2>3. {r} \cup {q} \in SUBSET S
    OBVIOUS
  <2> QED
    BY <1>1, <2>2, <2>3, FS_Subset
<1>3. ASSUME \A q \in S : q = r
      PROVE  Cardinality(S) = 1
  <2>1. S = {r}
    BY <1>3
  <2> QED
    BY <2>1, FS_Singleton
<1> QED
  BY <1>1, <1>2, <1>3

LEMMA LeaveMoves ==
    ASSUME Typed, Flights, NEW r \in Request, Leave(r)
    PROVE  /\ pc[r] = "leave" /\ pc'[r] = "unref" /\ Alone(r) /\ flight[r] \in Request
           /\ UNCHANGED <<result, dropped, flight, locked, outcome>>
           /\ \/ /\ fetching' = fetching
                 /\ fetching[key[r]] = flight[r] =>
                       \E q \in Request \ {r} : flight[q] = flight[r]
              \/ /\ fetching' = [fetching EXCEPT ![key[r]] = Nil]
                 /\ fetching[key[r]] = flight[r]
                 /\ \A q \in Request \ {r} : flight[q] # flight[r]
<1>1. GoTo(r, "leave", "unref") /\ "unref" \in Places /\ RequestStep(r)
  BY StepNames DEF Leave, RequestStep, Places
<1>2. pc[r] = "leave" /\ pc'[r] = "unref" /\ Alone(r)
  BY <1>1, StepsAlone, Moves
<1>3. flight[r] \in Request
  BY <1>2, FlightsAre, StepNames
<1>4. Handles(flight[r]) \in SUBSET Request /\ r \in Handles(flight[r])
  BY DEF Handles
<1>5. Cardinality(Handles(flight[r])) + 1 <= 2
        <=> \A q \in Request \ {r} : flight[q] # flight[r]
  BY <1>4, AloneIn DEF Handles
<1> QED
  BY <1>2, <1>3, <1>5 DEF Leave, local

LEMMA FlightsKept ==
    ASSUME Typed, Flights, [Next]_vars
    PROVE  Flights'
<1>1. ASSUME NEW r \in Request, Lookup(r) \/ (Drop(r) /\ pc[r] = "lookup")
      PROVE  Flights'
  <2>1. \E to \in {"join", "done"} : GoTo(r, "lookup", to) /\ to \in Places
    BY <1>1 DEF Lookup, Drop, GoTo, Places
  <2>2. Alone(r)
    BY <1>1, StepsAlone DEF RequestStep
  <2>3. pc[r] = "lookup" /\ pc'[r] \in {"join", "done"}
    BY <2>1, Moves
  <2>4. UNCHANGED <<flight, fetching, locked, outcome>>
    BY <1>1 DEF Lookup, Drop, flights
  <2>5. Results(r)'
    <3>1. ~dropped[r]
      BY <2>3, FlightsAre DEF Results
    <3>2. CASE Lookup(r)
      BY <2>3, <3>1, <3>2 DEF Lookup, Results
    <3>3. CASE Drop(r) /\ pc[r] = "lookup"
      BY <2>3, <3>3 DEF Drop, GoTo, Typed, Results
    <3> QED
      BY <1>1, <3>2, <3>3
  <2> QED
    BY <2>2, <2>3, <2>4, <2>5, LookupStep
<1>2. ASSUME NEW r \in Request, Lock(r)
      PROVE  Flights'
  <2>1. CASE outcome[flight[r]] = Nil
    BY <1>2, <2>1, TakeLockStep
  <2>2. CASE outcome[flight[r]] # Nil
    <3>1. GoTo(r, "wait", "leave") /\ "leave" \in Places /\ Alone(r)
      BY <1>2, <2>2, StepNames, StepsAlone DEF Lock, Places, RequestStep
    <3>2. pc[r] = "wait" /\ pc'[r] = "leave"
      BY <3>1, Moves
    <3>3. UNCHANGED <<dropped, flight, fetching, locked, outcome>>
      BY <1>2, <2>2 DEF Lock
    <3>4. Results(r)'
      BY <3>2, <3>3, FlightsAre DEF Results
    <3> QED
      BY <3>1, <3>2, <3>3, <3>4, LeaveStep
  <2> QED
    BY <2>1, <2>2
<1>3. ASSUME NEW r \in Request, Drop(r), pc[r] = "wait"
      PROVE  Flights'
  <2>1. GoTo(r, "wait", "leave") /\ "leave" \in Places /\ Alone(r)
    BY <1>3, StepNames, StepsAlone DEF Drop, GoTo, Places
  <2>2. pc'[r] = "leave" /\ dropped'[r] /\ result'[r] = Nil
    BY <1>3, <2>1, Moves DEF Drop, Typed
  <2>3. UNCHANGED <<flight, fetching, locked, outcome>>
    BY <1>3 DEF Drop, flights
  <2> QED
    BY <1>3, <2>1, <2>2, <2>3, LeaveStep DEF Results
<1>4. ASSUME NEW r \in Request, Drop(r)
      PROVE  Flights'
  <2>1. pc[r] \in {"lookup", "wait"} \cup LockSteps
    BY <1>4, StepNames DEF Drop, GoTo
  <2> QED
    BY <1>1, <1>3, <1>4, <2>1, HolderMoves
<1>5. ASSUME NEW r \in Request, Leave(r)
      PROVE  Flights'
  <2>1. Results(r)'
    BY <1>5, LeaveMoves, FlightsAre DEF Results
  <2> QED
    BY <1>5, <2>1, LeaveMoves, LeaveStep
<1>6. ASSUME NEW r \in Request, RequestStep(r)
      PROVE  Flights'
  <2>1. CASE Lookup(r) \/ Join(r) \/ Lock(r)
    BY <1>1, <1>2, <2>1, JoinStep
  <2>2. CASE \/ Recheck(r) \/ TakeSlot(r) \/ TakePermit(r)
             \/ \E f \in Fetches : Fetched(r, f)
             \/ Remember(r) \/ ReturnPermit(r) \/ ReturnSlot(r)
    BY <2>2, HolderMoves
  <2>3. CASE Retire(r) \/ Unlock(r) \/ Leave(r) \/ Unref(r)
    BY <1>5, <2>3, RetireStep, UnlockStep, UnrefStep
  <2> QED
    BY <1>6, <2>1, <2>2, <2>3, Zenon DEF RequestStep
<1>7. CASE Tick \/ UNCHANGED vars
  <2>1. UNCHANGED <<pc, local, flights>>
    BY <1>7 DEF Tick, vars
  <2> QED
    BY <2>1 DEF local, flights, Flights, Handle, Holder, LockOf, Mapped, Results, Entry, Retired
<1> QED
  BY <1>4, <1>6, <1>7 DEF Next

-----------------------------------------------------------------------------
(* Who leaves.                                                              *)

(* Whoever was dropped stays so. *)
LEMMA GoneGrows ==
    ASSUME Typed, Typed', UNCHANGED key, \A q \in Request : dropped[q] => dropped'[q], NEW k \in Key
    PROVE  Cardinality(Gone(k)) >= 2 => Cardinality(Gone(k)') >= 2
<1>1. Gone(k) \subseteq Gone(k)' /\ Gone(k)' \subseteq Request
  BY DEF Gone, Typed
<1>2. IsFiniteSet(Gone(k)') /\ IsFiniteSet(Gone(k))
  BY <1>1, Constants, FS_Subset
<1>3. Cardinality(Gone(k)) <= Cardinality(Gone(k)')
  BY <1>1, <1>2, FS_Subset
<1> QED
  BY <1>2, <1>3, FS_CardinalityType

(* A step of a request that keeps its handle and its place in the flight,   *)
(* or leaves it with good reason.                                           *)
LEMMA StaysAttended ==
    ASSUME Typed, Typed', Flights', Leaving, NEW r \in Request, Alone(r),
           flight'[r] = flight[r], \A k \in Key : fetching'[k] \in {fetching[k], Nil},
           pc[r] # "unref", pc'[r] # "unref",
           dropped[r] => dropped'[r],
           pc'[r] = "leave" /\ fetching[key[r]] = flight[r] => dropped'[r]
    PROVE  Leaving'
<1>1. \A q \in Request : dropped[q] => dropped'[q]
  BY DEF Alone
<1>2. flight' = flight
  BY DEF Alone, Typed
<1>3. \A q \in Request : pc[q] # "unref" => pc'[q] # "unref"
  BY DEF Alone
<1>4. ASSUME NEW q \in Request
      PROVE  Left(q)'
  <2> SUFFICES ASSUME pc'[q] \in {"leave", "unref"}, fetching'[key[q]] = flight[q]
               PROVE  dropped'[q]
    BY <1>2 DEF Left, Alone
  <2>1. fetching[key[q]] = flight[q]
    <3>1. pc'[q] \in Flying /\ key[q] \in Key
      BY StepNames DEF Typed
    <3>2. flight[q] # Nil
      BY <1>2, <3>1 DEF Flights, Handle
    <3> QED
      BY <3>1, <3>2
  <2>2. CASE q = r
    BY <2>1, <2>2
  <2>3. CASE q # r
    BY <1>1, <2>1, <2>3 DEF Alone, Leaving, Left
  <2> QED
    BY <2>2, <2>3
<1>5. ASSUME NEW k \in Key
      PROVE  Attended(k)'
  <2> SUFFICES ASSUME fetching'[k] # Nil
               PROVE  \/ \E q \in Request : flight[q] = fetching[k] /\ pc'[q] # "unref"
                      \/ Cardinality(Gone(k)') >= 2
    BY <1>2 DEF Attended, Handles
  <2>1. fetching[k] # Nil
    OBVIOUS
  <2>2. \A q \in Handles(fetching[k]) : q \in Request /\ flight[q] = fetching[k]
    BY DEF Handles
  <2>3. Cardinality(Gone(k)) >= 2 => Cardinality(Gone(k)') >= 2
    BY <1>1, GoneGrows DEF Alone
  <2> QED
    BY <1>3, <2>1, <2>2, <2>3 DEF Leaving, Attended
<1> QED
  BY <1>4, <1>5 DEF Leaving

LEMMA LeavingKept ==
    ASSUME Typed, Flights, Leaving, [Next]_vars
    PROVE  Leaving'
<1>1. Typed' /\ Flights'
  BY TypedKept, FlightsKept
<1>2. ASSUME NEW r \in Request, RequestStep(r) \/ Drop(r), flight' = flight,
             \A k \in Key : fetching'[k] \in {fetching[k], Nil},
             \E from, to : /\ GoTo(r, from, to) /\ to \in Places
                           /\ from # "unref" /\ to # "unref"
                           /\ to = "leave" /\ fetching[key[r]] = flight[r] => dropped'[r],
             dropped[r] => dropped'[r]
      PROVE  Leaving'
  <2>1. pc[r] # "unref" /\ pc'[r] # "unref"
        /\ (pc'[r] = "leave" /\ fetching[key[r]] = flight[r] => dropped'[r])
    BY <1>2, Moves
  <2> QED
    BY <1>1, <1>2, <2>1, StepsAlone, StaysAttended
<1>3. Places = {"slot", "permit", "fetch", "remember", "unpermit", "unslot", "recheck",
                "retire", "unlock", "wait", "leave", "unref", "lookup", "join", "done"}
  BY StepNames DEF Places
<1>4. ASSUME NEW r \in Request, Lookup(r) \/ Recheck(r) \/ TakeSlot(r) \/ TakePermit(r)
      PROVE  Leaving'
  <2>1. UNCHANGED <<flight, fetching, dropped>>
    BY <1>4 DEF Lookup, Recheck, TakeSlot, TakePermit, flights
  <2>2. \E from, to : /\ GoTo(r, from, to) /\ to \in Places
                      /\ from # "unref" /\ to \notin {"unref", "leave"}
    BY <1>3, <1>4 DEF Lookup, Recheck, TakeSlot, TakePermit
  <2> QED
    BY <1>2, <1>4, <2>1, <2>2 DEF RequestStep
<1>5. ASSUME NEW r \in Request, \/ \E f \in Fetches : Fetched(r, f)
                                \/ Remember(r) \/ ReturnPermit(r) \/ ReturnSlot(r)
      PROVE  Leaving'
  <2>1. UNCHANGED <<flight, fetching, dropped>>
    BY <1>5 DEF Fetched, Remember, ReturnPermit, ReturnSlot, flights, local
  <2>2. \E from, to : /\ GoTo(r, from, to) /\ to \in Places
                      /\ from # "unref" /\ to \notin {"unref", "leave"}
    BY <1>3, <1>5 DEF Fetched, Remember, ReturnPermit, ReturnSlot
  <2> QED
    BY <1>2, <1>5, <2>1, <2>2 DEF RequestStep
<1>6. ASSUME NEW r \in Request, Lock(r)
      PROVE  Leaving'
  <2>1. UNCHANGED <<flight, fetching, dropped>>
    BY <1>6 DEF Lock
  <2>2. outcome[flight[r]] # Nil => fetching[key[r]] # flight[r]
    <3>1. flight[r] \in Request /\ key[r] \in Key
      BY <1>6, FlightsAre, StepNames DEF Lock
    <3> QED
      BY <3>1, FlightsAre, Constants DEF Entry, Retired
  <2>3. \E from, to : /\ GoTo(r, from, to) /\ to \in Places
                      /\ from # "unref" /\ to # "unref"
                      /\ to = "leave" => fetching[key[r]] # flight[r]
    BY <1>3, <1>6, <2>2 DEF Lock
  <2> QED
    BY <1>2, <1>6, <2>1, <2>3 DEF RequestStep
<1>7. ASSUME NEW r \in Request, Retire(r)
      PROVE  Leaving'
  <2>1. UNCHANGED <<flight, dropped>> /\ \A k \in Key : fetching'[k] \in {fetching[k], Nil}
    BY <1>7 DEF Retire, local, Typed
  <2>2. \E from, to : /\ GoTo(r, from, to) /\ to \in Places
                      /\ from # "unref" /\ to \notin {"unref", "leave"}
    BY <1>3, <1>7 DEF Retire
  <2> QED
    BY <1>2, <1>7, <2>1, <2>2 DEF RequestStep
<1>8. ASSUME NEW r \in Request, Unlock(r)
      PROVE  Leaving'
  <2>1. UNCHANGED <<flight, fetching, dropped>> /\ GoTo(r, "unlock", "leave")
    BY <1>8 DEF Unlock, local
  <2>2. fetching[key[r]] = flight[r] => dropped[r]
    <3>1. pc[r] = "unlock" /\ flight[r] \in Request /\ key[r] \in Key
      BY <2>1, FlightsAre, StepNames DEF GoTo
    <3>2. locked[flight[r]] = r
      BY <3>1, FlightsAre, StepNames DEF Holder
    <3>3. fetching[key[r]] = flight[r] => result[r] = Nil
      BY <3>1, <3>2, FlightsAre, Constants DEF Entry, Retired
    <3> QED
      BY <3>1, <3>3, FlightsAre DEF Results
  <2> QED
    BY <1>2, <1>3, <1>8, <2>1, <2>2 DEF RequestStep
<1>9. ASSUME NEW r \in Request, Drop(r)
      PROVE  Leaving'
  <2>1. UNCHANGED <<flight, fetching>> /\ dropped'[r]
    BY <1>9 DEF Drop, flights, Typed
  <2>2. \E from, to : /\ GoTo(r, from, to) /\ to \in Places /\ from # "unref" /\ to # "unref"
    BY <1>3, <1>9 DEF Drop
  <2> QED
    BY <1>2, <1>9, <2>1, <2>2
<1>10. ASSUME NEW r \in Request, Join(r)
       PROVE  Leaving'
  <2> DEFINE f == IF fetching[key[r]] = Nil THEN r ELSE fetching[key[r]]
  <2>1. /\ pc[r] = "join" /\ pc'[r] = "wait" /\ Alone(r) /\ flight[r] = Nil
        /\ fetching' = [fetching EXCEPT ![key[r]] = f]
        /\ flight' = [flight EXCEPT ![r] = f] /\ dropped' = dropped
    <3>1. GoTo(r, "join", "wait") /\ "wait" \in Places /\ RequestStep(r)
      BY <1>3, <1>10 DEF Join, RequestStep
    <3>2. pc[r] = "join" /\ pc'[r] = "wait" /\ Alone(r)
      BY <3>1, Moves, StepsAlone
    <3> QED
      BY <1>10, <3>2, FlightsAre, StepNames DEF Join, Handle
  <2>2. /\ key' = key /\ flight'[r] = f /\ \A q \in Request \ {r} : flight'[q] = flight[q]
        /\ \A k \in Key : fetching'[k] = IF k = key[r] THEN f ELSE fetching[k]
    BY <2>1 DEF Alone, Typed
  <2>3. \A q \in Request : Left(q)'
    <3> SUFFICES ASSUME NEW q \in Request, pc'[q] \in {"leave", "unref"},
                        fetching'[key[q]] = flight'[q]
                 PROVE  dropped[q]
      BY <2>1, <2>2 DEF Left
    <3>1. q # r /\ pc[q] \in {"leave", "unref"} /\ flight'[q] = flight[q]
      BY <2>1, <2>2 DEF Alone
    <3>2. flight[q] # r
      BY <2>1, <3>1, FlightsAre, StepNames DEF Handle
    <3>3. fetching[key[q]] = flight[q]
      BY <2>2, <3>1, <3>2, FlightsAre
    <3> QED
      BY <3>1, <3>3 DEF Leaving, Left
  <2>4. ASSUME NEW k \in Key, fetching'[k] # Nil
        PROVE  \/ \E q \in Request : flight'[q] = fetching'[k] /\ pc'[q] # "unref"
               \/ Cardinality(Gone(k)') >= 2
    <3>1. CASE k = key[r]
      BY <2>1, <2>2, <3>1
    <3>2. CASE k # key[r]
      <4>1. fetching'[k] = fetching[k]
        BY <2>2, <3>2
      <4>2. Gone(k)' = Gone(k)
        BY <2>1, <2>2 DEF Gone
      <4>3. \A q \in Request : flight[q] = fetching[k] => q # r
        BY <2>1, <2>4, <4>1
      <4> QED
        BY <2>1, <2>2, <2>4, <4>1, <4>2, <4>3 DEF Leaving, Attended, Handles, Alone
    <3> QED
      BY <3>1, <3>2
  <2> QED
    BY <2>3, <2>4 DEF Leaving, Attended, Handles
<1>11. ASSUME NEW r \in Request, Leave(r)
       PROVE  Leaving'
  <2>1. /\ pc[r] = "leave" /\ pc'[r] = "unref" /\ Alone(r) /\ flight' = flight
        /\ key' = key /\ dropped' = dropped
        /\ \A k \in Key : fetching'[k] \in {fetching[k], Nil}
    BY <1>11, LeaveMoves DEF Alone, Typed
  <2>2. fetching[key[r]] = flight[r] =>
           \/ fetching'[key[r]] = Nil
           \/ \E q \in Request \ {r} : flight[q] = flight[r]
    BY <1>11, LeaveMoves DEF Typed
  <2>3. \A q \in Request : Left(q)'
    <3> SUFFICES ASSUME NEW q \in Request, pc'[q] \in {"leave", "unref"},
                        fetching'[key[q]] = flight[q]
                 PROVE  dropped[q]
      BY <2>1 DEF Left
    <3>1. pc[q] \in {"leave", "unref"}
      BY <2>1 DEF Alone
    <3>2. flight[q] # Nil /\ key[q] \in Key
      BY <3>1, FlightsAre, StepNames DEF Handle
    <3> QED
      BY <2>1, <3>1, <3>2 DEF Leaving, Left
  <2>4. ASSUME NEW k \in Key, fetching'[k] # Nil
        PROVE  \/ \E q \in Request : flight[q] = fetching[k] /\ pc'[q] # "unref"
               \/ Cardinality(Gone(k)') >= 2
    <3>1. fetching[k] = fetching'[k] /\ fetching[k] \in Request /\ key[fetching[k]] = k
      BY <2>1, <2>4, FlightsAre DEF Entry
    <3>2. Gone(k)' = Gone(k)
      BY <2>1 DEF Gone
    <3>3. PICK q \in Request :
             \/ Cardinality(Gone(k)) >= 2
             \/ flight[q] = fetching[k] /\ pc[q] # "unref"
      BY <1>11, <2>4, <3>1 DEF Leaving, Attended, Handles
    <3>4. CASE q # r \/ Cardinality(Gone(k)) >= 2
      BY <2>1, <3>2, <3>3, <3>4 DEF Alone
    <3>5. CASE q = r /\ flight[r] = fetching[k]
      <4>1. key[r] = k
        BY <3>1, <3>5, FlightsAre, Constants DEF Handle
      <4>2. PICK p \in Request \ {r} : flight[p] = fetching[k]
        BY <2>2, <2>4, <3>1, <3>5, <4>1
      <4>3. CASE pc[p] # "unref"
        BY <2>1, <4>2, <4>3 DEF Alone
      <4>4. CASE pc[p] = "unref"
        <5>1. key[p] = k
          BY <3>1, <4>2, FlightsAre, Constants DEF Handle
        <5>2. {r, p} \subseteq Gone(k) /\ Gone(k) \subseteq Request
          BY <2>1, <3>5, <4>1, <4>2, <4>4, <5>1 DEF Leaving, Left, Gone
        <5>3. IsFiniteSet(Gone(k)) /\ Cardinality(Gone(k)) \in Nat
          BY <5>2, Constants, FS_Subset, FS_CardinalityType
        <5>4. ~(Cardinality(Gone(k)) + 1 <= 2)
          BY <4>2, <5>2, AloneIn
        <5> QED
          BY <3>2, <5>3, <5>4
      <4> QED
        BY <4>3, <4>4
    <3> QED
      BY <3>3, <3>4, <3>5
  <2> QED
    BY <2>1, <2>3, <2>4 DEF Leaving, Attended, Handles
<1>12. ASSUME NEW r \in Request, Unref(r)
       PROVE  Leaving'
  <2>1. /\ pc[r] = "unref" /\ pc'[r] = "done" /\ Alone(r)
        /\ flight' = [flight EXCEPT ![r] = Nil] /\ UNCHANGED <<key, dropped, fetching>>
    <3>1. GoTo(r, "unref", "done") /\ "done" \in Places /\ RequestStep(r)
      BY <1>3, <1>12 DEF Unref, RequestStep
    <3> QED
      BY <1>12, <3>1, Moves, StepsAlone DEF Unref, flights
  <2>2. \A k \in Key : Gone(k)' = Gone(k)
    BY <2>1 DEF Gone
  <2>3. \A q \in Request \ {r} : flight'[q] = flight[q] /\ pc'[q] = pc[q]
    BY <2>1 DEF Alone
  <2>4. \A q \in Request : Left(q)'
    BY <2>1, <2>3 DEF Left, Leaving
  <2>5. \A k \in Key : Attended(k)'
    BY <2>1, <2>2, <2>3 DEF Attended, Leaving, Handles
  <2> QED
    BY <2>4, <2>5 DEF Leaving
<1>13. ASSUME NEW r \in Request, RequestStep(r)
       PROVE  Leaving'
  BY <1>4, <1>5, <1>6, <1>7, <1>8, <1>10, <1>11, <1>12, <1>13, Zenon DEF RequestStep
<1>14. CASE Tick \/ UNCHANGED vars
  <2>1. UNCHANGED <<pc, local, flights>>
    BY <1>14 DEF Tick, vars
  <2> QED
    BY <2>1 DEF local, flights, Leaving, Left, Attended, Gone, Handles
<1> QED
  BY <1>9, <1>13, <1>14 DEF Next

-----------------------------------------------------------------------------
(* What is remembered, and for how long. *)
LEMMA LifetimesKept ==
    ASSUME Typed, Flights, Lifetimes, [Next]_vars
    PROVE  Lifetimes'
<1>1. Typed'
  BY TypedKept
<1>2. Places = {"slot", "permit", "fetch", "remember", "unpermit", "unslot", "recheck",
                "retire", "unlock", "wait", "leave", "unref", "lookup", "join", "done"}
  BY StepNames DEF Places
<1> DEFINE Timed(r) == /\ pc'[r] = "fetch" => since'[r] <= now'
                       /\ pc'[r] = "remember" /\ result'[r] = "document" => since'[r] <= until'[r]
           Kept == \A k \in Key : cache'[k].outcome = "document" => cache'[k].expires <= cache'[k].until
<1>3. ASSUME NEW r \in Request, RequestStep(r) \/ Drop(r), now' = now,
             \A q \in Request \ {r} : since'[q] = since[q] /\ until'[q] = until[q],
             Timed(r), Kept
      PROVE  Lifetimes'
  <2>1. Alone(r)
    BY <1>3, StepsAlone
  <2> QED
    BY <1>3, <2>1 DEF Lifetimes, Alone
<1>4. cache' = cache => Kept
  BY DEF Lifetimes
<1> HIDE DEF Kept
<1>5. ASSUME NEW r \in Request, UNCHANGED <<since, until, cache, now>>, RequestStep(r),
             \E from, to : GoTo(r, from, to) /\ to \in Places \ {"fetch", "remember"}
      PROVE  Lifetimes'
  BY <1>3, <1>4, <1>5, Moves
<1>6. ASSUME NEW r \in Request, Lookup(r) \/ Join(r) \/ Lock(r) \/ Recheck(r) \/ TakeSlot(r)
      PROVE  Lifetimes'
  BY <1>2, <1>5, <1>6 DEF RequestStep, Lookup, Join, Lock, Recheck, TakeSlot
<1>7. ASSUME NEW r \in Request, \/ ReturnPermit(r) \/ ReturnSlot(r) \/ Retire(r)
                                \/ Unlock(r) \/ Leave(r) \/ Unref(r)
      PROVE  Lifetimes'
  BY <1>2, <1>5, <1>7
     DEF RequestStep, ReturnPermit, ReturnSlot, Retire, Unlock, Leave, Unref, local
<1>8. ASSUME NEW r \in Request, TakePermit(r)
      PROVE  Lifetimes'
  <2>1. /\ RequestStep(r) /\ UNCHANGED <<until, cache, now>>
        /\ \A q \in Request \ {r} : since'[q] = since[q]
    BY <1>8 DEF TakePermit, RequestStep, Typed
  <2>2. \/ GoTo(r, "permit", "fetch") /\ "fetch" \in Places /\ since'[r] = now
        \/ GoTo(r, "permit", "unslot") /\ "unslot" \in Places
    BY <1>2, <1>8 DEF TakePermit, Typed
  <2>3. (pc'[r] = "fetch" /\ since'[r] = now) \/ pc'[r] = "unslot"
    BY <2>2, Moves
  <2>4. Timed(r)
    BY <2>1, <2>3 DEF Typed
  <2> QED
    BY <1>3, <1>4, <2>1, <2>4
<1>9. ASSUME NEW r \in Request, NEW f \in Fetches, Fetched(r, f)
      PROVE  Lifetimes'
  <2>1. /\ RequestStep(r) /\ UNCHANGED <<cache, now>> /\ result'[r] = f.outcome
        /\ since'[r] = IF f.ttl = 0 THEN 0 ELSE since[r] + f.ttl
        /\ until'[r] = IF f.reusable = 0 THEN 0 ELSE now + f.reusable
        /\ \A q \in Request \ {r} : since'[q] = since[q] /\ until'[q] = until[q]
    BY <1>9 DEF Fetched, RequestStep, Typed
  <2>2. \E to \in {"unpermit", "remember"} :
           GoTo(r, "fetch", to) /\ to \in Places /\ (to = "remember" => f.ttl # 0)
    BY <1>2, <1>9 DEF Fetched
  <2>3. pc[r] = "fetch" /\ pc'[r] # "fetch" /\ (pc'[r] = "remember" => f.ttl # 0)
    BY <2>2, Moves
  <2>4. /\ f.ttl \in Nat /\ f.reusable \in Nat
        /\ f.outcome = "document" => f.ttl <= f.reusable
    BY RememberedWhileReusable
  <2>5. since[r] <= now /\ since[r] \in Nat /\ now \in Nat
    BY <2>3 DEF Lifetimes, Typed
  <2>6. Timed(r)
    BY <2>1, <2>3, <2>4, <2>5
  <2> QED
    BY <1>3, <1>4, <2>1, <2>6
<1>10. ASSUME NEW r \in Request, Remember(r)
       PROVE  Lifetimes'
  <2>1. /\ RequestStep(r) /\ UNCHANGED <<now, result>>
        /\ GoTo(r, "remember", "unpermit") /\ "unpermit" \in Places
        /\ \A q \in Request \ {r} : since'[q] = since[q] /\ until'[q] = until[q]
    BY <1>2, <1>10 DEF Remember, RequestStep, Typed
  <2>2. pc[r] = "remember" /\ pc'[r] = "unpermit"
    BY <2>1, Moves
  <2>3. \A k \in Key :
           cache'[k] \in {[outcome |-> result[r], expires |-> since[r], until |-> until[r]],
                          cache[k], Uncached}
    BY <1>10 DEF Remember
  <2>4. Kept
    BY <2>2, <2>3 DEF Kept, Lifetimes, Uncached
  <2> QED
    BY <1>3, <2>1, <2>2, <2>4
<1>11. ASSUME NEW r \in Request, Drop(r)
       PROVE  Lifetimes'
  <2>1. /\ UNCHANGED <<cache, now>>
        /\ \A q \in Request \ {r} : since'[q] = since[q] /\ until'[q] = until[q]
    BY <1>11 DEF Drop, Typed
  <2>2. \E from, to : GoTo(r, from, to) /\ to \in Places \ {"fetch", "remember"}
    BY <1>2, <1>11 DEF Drop
  <2>3. pc'[r] \notin {"fetch", "remember"}
    BY <2>2, Moves
  <2> QED
    BY <1>3, <1>4, <1>11, <2>1, <2>3
<1>12. CASE Tick \/ UNCHANGED vars
  <2>1. UNCHANGED <<pc, local, cache>> /\ now <= now' /\ now' \in Nat
    BY <1>1, <1>12 DEF Tick, vars, Typed
  <2> QED
    BY <2>1 DEF local, Lifetimes, Typed
<1>13. ASSUME NEW r \in Request, RequestStep(r)
       PROVE  Lifetimes'
  BY <1>6, <1>7, <1>8, <1>9, <1>10, <1>13, Zenon DEF RequestStep
<1> QED
  BY <1>11, <1>12, <1>13 DEF Next

-----------------------------------------------------------------------------
(* Slots and permits.                                                       *)
WithSlot   == FetchSteps \ {"slot"}
WithPermit == {"fetch", "remember", "unpermit"}
Unit(b)    == IF b THEN 1 ELSE 0

LEMMA Recount ==
    ASSUME NEW S \in SUBSET Request, NEW T \in SUBSET Request, NEW r \in Request,
           \A q \in Request \ {r} : q \in T <=> q \in S
    PROVE  /\ Cardinality(S) \in Nat /\ Cardinality(T) \in Nat
           /\ Cardinality(T) = Cardinality(S) + Unit(r \in T) - Unit(r \in S)
<1>1. IsFiniteSet(S) /\ IsFiniteSet(T)
  BY Constants, FS_Subset
<1>2. Cardinality(S) \in Nat /\ Cardinality(T) \in Nat
  BY <1>1, FS_CardinalityType
<1>3. CASE r \in T /\ r \notin S
  <2>1. T = S \cup {r}
    BY <1>3
  <2> QED
    BY <1>1, <1>2, <1>3, <2>1, FS_AddElement DEF Unit
<1>4. CASE r \in S /\ r \notin T
  <2>1. T = S \ {r}
    BY <1>4
  <2> QED
    BY <1>1, <1>2, <1>4, <2>1, FS_RemoveElement DEF Unit
<1>5. CASE r \in S <=> r \in T
  <2>1. T = S
    BY <1>5
  <2> QED
    BY <1>2, <2>1 DEF Unit
<1> QED
  BY <1>3, <1>4, <1>5

LEMMA CountsStep ==
    ASSUME Typed, Typed', CountsMatch, NEW r \in Request, Alone(r),
           \A h \in Host : hosts'[h] =
              IF h = HostOfRequest(r)
              THEN hosts[h] + Unit(pc'[r] \in WithSlot) - Unit(pc[r] \in WithSlot)
              ELSE hosts[h],
           permits' = permits - Unit(pc'[r] \in WithPermit) + Unit(pc[r] \in WithPermit)
    PROVE  CountsMatch'
<1> DEFINE Busy(h) == {q \in Request : pc[q] \in WithSlot /\ HostOfRequest(q) = h}
           Permitted == {q \in Request : pc[q] \in WithPermit}
<1>1. CountsMatch <=> /\ \A h \in Host : hosts[h] = Cardinality(Busy(h))
                      /\ MaxInflight - permits = Cardinality(Permitted)
  BY DEF CountsMatch, WithSlot, WithPermit
<1>2. CountsMatch' <=> /\ \A h \in Host : hosts'[h] = Cardinality(Busy(h)')
                       /\ MaxInflight - permits' = Cardinality(Permitted')
  BY DEF CountsMatch, WithSlot, WithPermit
<1>3. \A q \in Request : HostOfRequest(q)' = HostOfRequest(q)
  BY DEF Alone, HostOfRequest
<1>4. ASSUME NEW h \in Host
      PROVE  hosts'[h] = Cardinality(Busy(h)')
  <2>1. /\ Busy(h) \in SUBSET Request /\ Busy(h)' \in SUBSET Request
        /\ \A q \in Request \ {r} : q \in Busy(h)' <=> q \in Busy(h)
    BY <1>3 DEF Alone
  <2>2. /\ Cardinality(Busy(h)) \in Nat
        /\ Cardinality(Busy(h)') =
              Cardinality(Busy(h)) + Unit(r \in Busy(h)') - Unit(r \in Busy(h))
    <3> HIDE DEF Busy
    <3> QED
      BY <2>1, Recount
  <2>3. /\ r \in Busy(h)' <=> pc'[r] \in WithSlot /\ h = HostOfRequest(r)
        /\ r \in Busy(h) <=> pc[r] \in WithSlot /\ h = HostOfRequest(r)
    BY <1>3
  <2>4. hosts[h] = Cardinality(Busy(h))
    BY <1>1
  <2> HIDE DEF Busy
  <2> QED
    BY <2>2, <2>3, <2>4 DEF Unit
<1>5. MaxInflight - permits' = Cardinality(Permitted')
  <2>1. /\ Permitted \in SUBSET Request /\ Permitted' \in SUBSET Request
        /\ \A q \in Request \ {r} : q \in Permitted' <=> q \in Permitted
    BY DEF Alone
  <2>2. /\ Cardinality(Permitted) \in Nat
        /\ Cardinality(Permitted') =
              Cardinality(Permitted) + Unit(r \in Permitted') - Unit(r \in Permitted)
    <3> HIDE DEF Permitted
    <3> QED
      BY <2>1, Recount
  <2>3. /\ r \in Permitted' <=> pc'[r] \in WithPermit
        /\ r \in Permitted <=> pc[r] \in WithPermit
    OBVIOUS
  <2>4. MaxInflight - permits = Cardinality(Permitted)
    BY <1>1
  <2>5. permits \in Int /\ MaxInflight \in Int
    BY CimdAssumption DEF Typed
  <2> HIDE DEF Permitted
  <2> QED
    BY <2>2, <2>3, <2>4, <2>5 DEF Unit
<1> QED
  BY <1>2, <1>4, <1>5

LEMMA CountsKept ==
    ASSUME Typed, Flights, CountsMatch, [Next]_vars
    PROVE  CountsMatch'
<1>1. Typed'
  BY TypedKept
<1>2. Places = {"slot", "permit", "fetch", "remember", "unpermit", "unslot", "recheck",
                "retire", "unlock", "wait", "leave", "unref", "lookup", "join", "done"}
  BY StepNames DEF Places
<1>3. /\ WithSlot = {"permit", "fetch", "remember", "unpermit", "unslot"}
      /\ WithPermit = {"fetch", "remember", "unpermit"}
  BY DEF WithSlot, WithPermit, FetchSteps
<1>4. \A r \in Request : HostOfRequest(r) \in Host
  BY Constants DEF HostOfRequest, Typed
<1>5. ASSUME NEW r \in Request, RequestStep(r) \/ Drop(r), UNCHANGED bounds,
             \E from, to : /\ GoTo(r, from, to) /\ to \in Places
                           /\ from \in WithSlot <=> to \in WithSlot
                           /\ from \in WithPermit <=> to \in WithPermit
      PROVE  CountsMatch'
  <2>1. pc'[r] \in WithSlot <=> pc[r] \in WithSlot
    BY <1>5, Moves
  <2>2. pc'[r] \in WithPermit <=> pc[r] \in WithPermit
    BY <1>5, Moves
  <2>3. permits' = permits - Unit(pc'[r] \in WithPermit) + Unit(pc[r] \in WithPermit)
    BY <1>5, <2>2 DEF bounds, Typed, Unit
  <2>4. \A h \in Host : hosts'[h] =
           IF h = HostOfRequest(r)
           THEN hosts[h] + Unit(pc'[r] \in WithSlot) - Unit(pc[r] \in WithSlot)
           ELSE hosts[h]
    BY <1>5, <2>1 DEF bounds, Typed, Unit
  <2> QED
    BY <1>1, <1>5, <2>3, <2>4, StepsAlone, CountsStep
<1>6. ASSUME NEW r \in Request, Lookup(r) \/ Join(r) \/ Lock(r) \/ Recheck(r)
      PROVE  CountsMatch'
  BY <1>2, <1>3, <1>5, <1>6 DEF RequestStep, Lookup, Join, Lock, Recheck
<1>7. ASSUME NEW r \in Request, (\E f \in Fetches : Fetched(r, f)) \/ Remember(r)
      PROVE  CountsMatch'
  BY <1>2, <1>3, <1>5, <1>7 DEF RequestStep, Fetched, Remember
<1>8. ASSUME NEW r \in Request, Retire(r) \/ Unlock(r) \/ Leave(r) \/ Unref(r)
      PROVE  CountsMatch'
  BY <1>2, <1>3, <1>5, <1>8 DEF RequestStep, Retire, Unlock, Leave, Unref
<1>9. ASSUME NEW r \in Request, Drop(r)
      PROVE  CountsMatch'
  <2>1. \/ GoTo(r, "lookup", "done") \/ GoTo(r, "wait", "leave") \/ GoTo(r, "recheck", "unlock")
        \/ GoTo(r, "fetch", "unpermit") \/ GoTo(r, "remember", "unpermit")
    BY <1>9 DEF Drop
  <2>2. UNCHANGED bounds
    BY <1>9 DEF Drop
  <2>3. CASE \/ GoTo(r, "lookup", "done") \/ GoTo(r, "wait", "leave")
             \/ GoTo(r, "recheck", "unlock")
    BY <1>2, <1>3, <1>5, <1>9, <2>2, <2>3
  <2>4. CASE GoTo(r, "fetch", "unpermit") \/ GoTo(r, "remember", "unpermit")
    BY <1>2, <1>3, <1>5, <1>9, <2>2, <2>4
  <2> QED
    BY <2>1, <2>3, <2>4
<1>10. ASSUME NEW r \in Request, TakeSlot(r)
       PROVE  CountsMatch'
  <2>1. /\ \/ /\ GoTo(r, "slot", "permit") /\ "permit" \in Places
              /\ hosts' = [hosts EXCEPT ![HostOfRequest(r)] = @ + 1]
           \/ /\ GoTo(r, "slot", "retire") /\ "retire" \in Places
              /\ hosts' = hosts
        /\ permits' = permits
    BY <1>2, <1>10 DEF TakeSlot
  <2>2. /\ pc[r] = "slot" /\ pc'[r] \in {"permit", "retire"}
        /\ hosts' = IF pc'[r] = "permit" THEN [hosts EXCEPT ![HostOfRequest(r)] = @ + 1] ELSE hosts
    BY <2>1, Moves
  <2>3. Alone(r)
    BY <1>10, StepsAlone DEF RequestStep
  <2>4. \A h \in Host : hosts'[h] =
           IF h = HostOfRequest(r)
           THEN hosts[h] + Unit(pc'[r] \in WithSlot) - Unit(pc[r] \in WithSlot)
           ELSE hosts[h]
    BY <1>3, <1>4, <2>1, <2>2 DEF Unit, Typed
  <2>5. permits' = permits - Unit(pc'[r] \in WithPermit) + Unit(pc[r] \in WithPermit)
    BY <1>3, <2>1, <2>2 DEF Unit, Typed
  <2> QED
    BY <1>1, <2>3, <2>4, <2>5, CountsStep
<1>11. ASSUME NEW r \in Request, TakePermit(r)
       PROVE  CountsMatch'
  <2>1. /\ \/ /\ GoTo(r, "permit", "fetch") /\ "fetch" \in Places
              /\ permits' = permits - 1
           \/ /\ GoTo(r, "permit", "unslot") /\ "unslot" \in Places
              /\ permits' = permits
        /\ hosts' = hosts
    BY <1>2, <1>11 DEF TakePermit
  <2>2. /\ pc[r] = "permit" /\ pc'[r] \in {"fetch", "unslot"}
        /\ permits' = IF pc'[r] = "fetch" THEN permits - 1 ELSE permits
    BY <2>1, Moves
  <2>3. Alone(r)
    BY <1>11, StepsAlone DEF RequestStep
  <2>4. \A h \in Host : hosts'[h] =
           IF h = HostOfRequest(r)
           THEN hosts[h] + Unit(pc'[r] \in WithSlot) - Unit(pc[r] \in WithSlot)
           ELSE hosts[h]
    BY <1>3, <1>4, <2>1, <2>2 DEF Unit, Typed
  <2>5. permits' = permits - Unit(pc'[r] \in WithPermit) + Unit(pc[r] \in WithPermit)
    BY <1>3, <2>1, <2>2 DEF Unit, Typed
  <2> QED
    BY <1>1, <2>3, <2>4, <2>5, CountsStep
<1>12. ASSUME NEW r \in Request, ReturnPermit(r)
       PROVE  CountsMatch'
  <2>1. pc[r] = "unpermit" /\ pc'[r] = "unslot" /\ permits' = permits + 1 /\ hosts' = hosts
    BY <1>2, <1>12, Moves DEF ReturnPermit
  <2>2. Alone(r)
    BY <1>12, StepsAlone DEF RequestStep
  <2>3. \A h \in Host : hosts'[h] =
           IF h = HostOfRequest(r)
           THEN hosts[h] + Unit(pc'[r] \in WithSlot) - Unit(pc[r] \in WithSlot)
           ELSE hosts[h]
    BY <1>3, <1>4, <2>1 DEF Unit, Typed
  <2>4. permits' = permits - Unit(pc'[r] \in WithPermit) + Unit(pc[r] \in WithPermit)
    BY <1>3, <2>1 DEF Unit, Typed
  <2> QED
    BY <1>1, <2>2, <2>3, <2>4, CountsStep
<1>13. ASSUME NEW r \in Request, ReturnSlot(r)
       PROVE  CountsMatch'
  <2>1. /\ pc[r] = "unslot" /\ pc'[r] \in {"unlock", "retire"} /\ permits' = permits
        /\ hosts' = [hosts EXCEPT ![HostOfRequest(r)] = @ - 1]
    BY <1>2, <1>13, Moves DEF ReturnSlot
  <2>2. Alone(r)
    BY <1>13, StepsAlone DEF RequestStep
  <2>3. \A h \in Host : hosts'[h] =
           IF h = HostOfRequest(r)
           THEN hosts[h] + Unit(pc'[r] \in WithSlot) - Unit(pc[r] \in WithSlot)
           ELSE hosts[h]
    BY <1>3, <1>4, <2>1 DEF Unit, Typed
  <2>4. permits' = permits - Unit(pc'[r] \in WithPermit) + Unit(pc[r] \in WithPermit)
    BY <1>3, <2>1 DEF Unit, Typed
  <2> QED
    BY <1>1, <2>2, <2>3, <2>4, CountsStep
<1>14. CASE Tick \/ UNCHANGED vars
  <2>1. UNCHANGED <<pc, key, bounds>>
    BY <1>14 DEF Tick, vars, local
  <2> QED
    BY <2>1 DEF CountsMatch, bounds, HostOfRequest
<1>15. ASSUME NEW r \in Request, RequestStep(r)
       PROVE  CountsMatch'
  BY <1>6, <1>7, <1>8, <1>10, <1>11, <1>12, <1>13, <1>15, Zenon DEF RequestStep
<1> QED
  BY <1>9, <1>14, <1>15 DEF Next

-----------------------------------------------------------------------------
LEMMA InvInitially ==
    ASSUME Init
    PROVE  Inv
<1>1. Typed
  BY CimdAssumption DEF Init, Typed, Uncached, Places, Verdicts
<1>2. Flights
  BY StepNames DEF Init, Flights, Handle, Holder, LockOf, Mapped, Results, Entry
<1>3. Leaving /\ Lifetimes
  BY DEF Init, Leaving, Left, Attended, Lifetimes, Uncached
<1>4. CountsMatch
  <2>1. \A r \in Request : pc[r] = "lookup"
    BY DEF Init
  <2>2. /\ \A h \in Host : {r \in Request :
              pc[r] \in FetchSteps \ {"slot"} /\ HostOfRequest(r) = h} = {}
        /\ {r \in Request : pc[r] \in {"fetch", "remember", "unpermit"}} = {}
    BY <2>1 DEF FetchSteps
  <2>3. Cardinality({}) = 0
    BY FS_EmptySet
  <2>4. (\A h \in Host : hosts[h] = 0) /\ MaxInflight - permits = 0
    BY CimdAssumption DEF Init
  <2> QED
    BY <2>2, <2>3, <2>4 DEF CountsMatch
<1> QED
  BY <1>1, <1>2, <1>3, <1>4 DEF Inv

LEMMA InvAlways == Spec => []Inv
<1>1. Init => Inv
  BY InvInitially
<1>2. ASSUME Inv, [Next]_vars
      PROVE  Inv'
  BY <1>2, TypedKept, FlightsKept, LeavingKept, LifetimesKept, CountsKept DEF Inv
<1> QED
  BY <1>1, <1>2, PTL DEF Spec

(* Every request is at a step of the code with what that step needs, and    *)
(* the cache holds outcomes and times only.                                 *)
THEOREM TypeCorrect == Spec => []Typed
<1>1. Inv => Typed
  BY DEF Inv
<1> QED
  BY <1>1, InvAlways, PTL

(* However requests for one document miss the cache, wait, take over from a *)
(* fetcher that was dropped and leave, client_metadata_for of auth.rs never *)
(* fetches it twice at once.                                                *)
THEOREM OneFetch == Spec => []SingleFlight
<1>1. ASSUME Inv
      PROVE  SingleFlight
  <2> USE <1>1 DEF Inv
  <2> SUFFICES ASSUME NEW r \in Request, NEW q \in Request, pc[r] \in FetchSteps,
                      pc[q] \in FetchSteps, key[r] = key[q]
               PROVE  r = q
    BY DEF SingleFlight
  <2>1. ASSUME NEW p \in {r, q}
        PROVE  locked[flight[p]] = p /\ fetching[key[p]] = flight[p]
    <3>1. p \in Request /\ pc[p] \in LockSteps /\ pc[p] # "unlock"
      BY <2>1 DEF LockSteps, FetchSteps
    <3>2. locked[flight[p]] = p /\ outcome[flight[p]] = Nil
      BY <3>1, FlightsAre DEF Holder
    <3>3. ~Retired(flight[p])
      BY <3>1, <3>2 DEF Retired
    <3> QED
      BY <3>1, <3>2, <3>3, FlightsAre DEF Mapped
  <2> QED
    BY <2>1
<1> QED
  BY <1>1, InvAlways, PTL

(* Nobody joins a flight whose outcome is out (retire_flight comes before   *)
(* it is published), and a document answered from the cache is one whose    *)
(* origin lets it be reused at that time, whatever headers it came with.    *)
THEOREM AnswersAreFresh == Spec => []FreshAnswers
<1>1. ASSUME Inv
      PROVE  FreshAnswers
  <2> USE <1>1 DEF Inv
  <2>1. PublishedIsRetired
    BY FlightsAre DEF PublishedIsRetired, Entry, Retired
  <2>2. ReusedWhileFresh
    BY DEF ReusedWhileFresh, Fresh, Lifetimes, Typed
  <2> QED
    BY <2>1, <2>2 DEF FreshAnswers
<1> QED
  BY <1>1, InvAlways, PTL

(* Wherever a request is dropped, its host slot and its permit come back    *)
(* (HostSlot and the permit are guards), and FlightGuard leaves an entry of *)
(* the map to nobody only where two were dropped at the same time.          *)
THEOREM AllGivenBack == Spec => []GivenBack
<1>1. ASSUME Inv
      PROVE  GivenBack
  <2>1. LeftOnlyTogether
    BY <1>1 DEF Inv, Leaving, Attended, Gone, LeftOnlyTogether
  <2> QED
    BY <1>1, <2>1 DEF Inv, GivenBack
<1> QED
  BY <1>1, InvAlways, PTL

(* A request that waits for the lock of its flight waits for nobody, or for *)
(* a request that holds no wait of its own and will release it.             *)
THEOREM NobodyStranded == Spec => []WaiterHasServer
<1>1. ASSUME Inv
      PROVE  WaiterHasServer
  <2> SUFFICES ASSUME NEW r \in Request, pc[r] = "wait", locked[flight[r]] # Nil
               PROVE  pc[locked[flight[r]]] \in LockSteps
    BY DEF WaiterHasServer, LockSteps
  <2>1. flight[r] \in Request
    BY <1>1, FlightsAre, StepNames DEF Inv
  <2> QED
    BY <1>1, <2>1, FlightsAre DEF Inv, LockOf
<1> QED
  BY <1>1, InvAlways, PTL
=============================================================================
