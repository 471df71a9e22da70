----------------------------- MODULE CimdFlight -----------------------------
(***************************************************************************)
(* Client ID metadata documents (src/src/auth.rs, client_metadata_for):    *)
(* the cache, and the single-flight map that lets every authorize request  *)
(* that misses the cache share one fetch of a document, under a bound on   *)
(* the fetches in flight per host and in all.                              *)
(*                                                                         *)
(* A request asks for one document once.  A flight is an Arc'd mutex made  *)
(* by the request that finds no entry for its key in the fetching map, and *)
(* bears that request's name.  A request may be dropped where it awaits:   *)
(* for the cache's lock, for the flight's lock, for the fetch.  Its locals *)
(* then go as at a return, in the order steps of this module take: permit, *)
(* host slot, flight lock, FlightGuard, and last its handle of the flight. *)
(* What a fetch ends with is PublicFetch's subject.                        *)
(***************************************************************************)
EXTENDS PublicFetch

CONSTANTS
    Request,
    Key,             \* the client_id URLs
    Host, HostOf,    \* and their hosts
    Nil,
    MaxInflight,     \* CIMD_MAX_INFLIGHT
    MaxPerHost,      \* CIMD_MAX_INFLIGHT_PER_HOST
    CacheMax,        \* CIMD_CACHE_MAX
    MaxTime          \* bound: the last reading of the clock

ASSUME CimdAssumption ==
    /\ IsFiniteSet(Request) /\ IsFiniteSet(Key) /\ HostOf \in [Key -> Host]
    /\ Nil \notin Request \cup {"document", "invalid", "unavailable"}
    /\ {MaxInflight, MaxPerHost, CacheMax} \subseteq Nat \ {0}
    /\ MaxTime \in Nat

VARIABLES
    pc,        \* where each request stands
    key,       \* the document it asks for; chosen once
    flight,    \* the flight it has a handle of
    result,    \* the outcome it has to return; Nil if it has none
    since,     \* when its fetch began
    until,     \* history: until when the origin lets the document be reused
    dropped,   \* whether its future was dropped
    fetching,  \* the single-flight map: key -> flight
    locked,    \* flight -> the request that holds its lock
    outcome,   \* flight -> what was published in it
    hosts,     \* host -> fetches in flight
    permits,   \* permits left in the semaphore
    cache,     \* key -> outcome and when it goes stale
    now

local   == <<key, flight, result, since, until, dropped>>
flights == <<fetching, locked, outcome>>
bounds  == <<hosts, permits>>
vars    == <<pc, local, flights, bounds, cache, now>>

Uncached == [outcome |-> "none", expires |-> 0, until |-> 0]

Init ==
    /\ pc = [r \in Request |-> "lookup"] /\ key \in [Request -> Key]
    /\ flight = [r \in Request |-> Nil] /\ result = [r \in Request |-> Nil]
    /\ since = [r \in Request |-> 0] /\ until = [r \in Request |-> 0]
    /\ dropped = [r \in Request |-> FALSE]
    /\ fetching = [k \in Key |-> Nil]
    /\ locked = [f \in Request |-> Nil] /\ outcome = [f \in Request |-> Nil]
    /\ hosts = [h \in Host |-> 0] /\ permits = MaxInflight
    /\ cache = [k \in Key |-> Uncached] /\ now = 0

-----------------------------------------------------------------------------
GoTo(r, from, to) == pc[r] = from /\ pc' = [pc EXCEPT ![r] = to]

HostOfRequest(r) == HostOf[key[r]]
Fresh(k)   == cache[k].outcome # "none" /\ cache[k].expires > now
(* The requests that have a handle of flight f; the map's own is one more.  *)
Handles(f) == {r \in Request : flight[r] = f}

(* cached_client_metadata: a fresh entry answers at once. *)
Lookup(r) ==
    /\ IF Fresh(key[r])
       THEN /\ GoTo(r, "lookup", "done")
            /\ result' = [result EXCEPT ![r] = cache[key[r]].outcome]
       ELSE GoTo(r, "lookup", "join") /\ UNCHANGED result
    /\ UNCHANGED <<key, flight, since, until, dropped, flights, bounds, cache, now>>

(* fetching.entry(key).or_default(), and a handle of it, under the map lock. *)
Join(r) ==
    LET f == IF fetching[key[r]] = Nil THEN r ELSE fetching[key[r]] IN
    /\ GoTo(r, "join", "wait")
    /\ fetching' = [fetching EXCEPT ![key[r]] = f]
    /\ flight' = [flight EXCEPT ![r] = f]
    /\ UNCHANGED <<key, result, since, until, dropped, locked, outcome, bounds, cache, now>>

(* flight.lock().await: who finds an outcome returns it, the lock released; *)
(* who finds none is the one to fetch.                                      *)
\* mutant
LockAndFetch(r) ==
    /\ GoTo(r, "wait", "recheck")
    /\ locked[flight[r]] = Nil
    /\ locked' = [locked EXCEPT ![flight[r]] = r]
    /\ UNCHANGED <<local, fetching, outcome, bounds, cache, now>>

Lock(r) ==
    LET f == flight[r] IN
    /\ pc[r] = "wait" /\ locked[f] = Nil
    /\ IF outcome[f] # Nil
       THEN /\ GoTo(r, "wait", "leave")
            /\ result' = [result EXCEPT ![r] = outcome[f]]
            /\ UNCHANGED locked
       ELSE /\ GoTo(r, "wait", "recheck")
            /\ locked' = [locked EXCEPT ![f] = r]
            /\ UNCHANGED result
    /\ UNCHANGED <<key, flight, since, until, dropped, fetching, outcome, bounds, cache, now>>

(* The cache may have been filled since the miss. *)
Recheck(r) ==
    /\ IF Fresh(key[r])
       THEN /\ GoTo(r, "recheck", "retire")
            /\ result' = [result EXCEPT ![r] = cache[key[r]].outcome]
       ELSE GoTo(r, "recheck", "slot") /\ UNCHANGED result
    /\ UNCHANGED <<key, flight, since, until, dropped, flights, bounds, cache, now>>

-----------------------------------------------------------------------------
(* fetch_and_cache_client_metadata.  HostSlot::take, *)
TakeSlot(r) ==
    LET h == HostOfRequest(r) IN
    /\ IF hosts[h] < MaxPerHost
       THEN /\ GoTo(r, "slot", "permit")
            /\ hosts' = [hosts EXCEPT ![h] = @ + 1] /\ UNCHANGED result
       ELSE /\ GoTo(r, "slot", "retire")
            /\ result' = [result EXCEPT ![r] = "unavailable"] /\ UNCHANGED hosts
    /\ UNCHANGED <<key, flight, since, until, dropped, flights, permits, cache, now>>

(* then a permit, or the slot goes back and the request is told to retry;   *)
TakePermit(r) ==
    /\ IF permits > 0
       THEN /\ GoTo(r, "permit", "fetch")
            /\ permits' = permits - 1
            /\ since' = [since EXCEPT ![r] = now] /\ UNCHANGED result
       ELSE /\ GoTo(r, "permit", "unslot")
            /\ result' = [result EXCEPT ![r] = "unavailable"]
            /\ UNCHANGED <<permits, since>>
    /\ UNCHANGED <<key, flight, until, dropped, flights, hosts, cache, now>>

(* the fetch ends, within its timeout, with a document, a verdict on the    *)
(* URL, or a failure of the moment, and the time it goes stale counts from  *)
(* before the fetch;                                                        *)
Fetched(r, f) ==
    /\ GoTo(r, "fetch", IF f.ttl = 0 THEN "unpermit" ELSE "remember")
    /\ result' = [result EXCEPT ![r] = f.outcome]
    /\ since' = [since EXCEPT ![r] = IF f.ttl = 0 THEN 0 ELSE @ + f.ttl]
    /\ until' = [until EXCEPT ![r] = IF f.reusable = 0 THEN 0 ELSE now + f.reusable]
    /\ UNCHANGED <<key, flight, dropped, flights, bounds, cache, now>>

(* remember_client_metadata, with since now the time the entry goes stale:  *)
(* at the cap, for a new key, what is stale goes, or else the entry closest *)
(* to it.                                                                   *)
Cached == {k \in Key : cache[k].outcome # "none"}

CacheKept(k, kept) ==
    LET fresh == {c \in Cached : Fresh(c)} IN
    IF Cardinality(Cached) < CacheMax \/ k \in Cached THEN kept = Cached
    ELSE IF Cardinality(fresh) < CacheMax THEN kept = fresh
    ELSE \E v \in fresh : /\ kept = fresh \ {v}
                          /\ \A c \in fresh : cache[v].expires <= cache[c].expires

Remember(r) ==
    /\ GoTo(r, "remember", "unpermit")
    /\ \E kept \in SUBSET Cached :
          /\ CacheKept(key[r], kept)
          /\ cache' = [k \in Key |->
                IF k = key[r] THEN [outcome |-> result[r], expires |-> since[r], until |-> until[r]]
                ELSE IF k \in kept THEN cache[k] ELSE Uncached]
    /\ since' = [since EXCEPT ![r] = 0] /\ until' = [until EXCEPT ![r] = 0]
    /\ UNCHANGED <<key, flight, result, dropped, flights, bounds, now>>

(* and permit and slot are given back, however the fetch ended.  *)
\* mutant
KeepPermit(r) ==
    /\ GoTo(r, "unpermit", "unslot")
    /\ UNCHANGED <<local, flights, bounds, cache, now>>

ReturnPermit(r) ==
    /\ GoTo(r, "unpermit", "unslot")
    /\ permits' = permits + 1
    /\ UNCHANGED <<local, flights, hosts, cache, now>>

ReturnSlot(r) ==
    /\ GoTo(r, "unslot", IF dropped[r] THEN "unlock" ELSE "retire")
    /\ hosts' = [hosts EXCEPT ![HostOfRequest(r)] = @ - 1]
    /\ UNCHANGED <<local, flights, permits, cache, now>>

-----------------------------------------------------------------------------
(* retire_flight, before the outcome is published, *)
Retire(r) ==
    /\ GoTo(r, "retire", "unlock")
    /\ fetching' = IF fetching[key[r]] = flight[r]
                   THEN [fetching EXCEPT ![key[r]] = Nil] ELSE fetching
    /\ UNCHANGED <<local, locked, outcome, bounds, cache, now>>

(* which is seen once the lock is released; a dropped request has none.     *)
\* mutant
UnlockUnlessDropped(r) ==
    /\ GoTo(r, "unlock", "leave")
    /\ outcome' = [outcome EXCEPT ![flight[r]] = result[r]]
    /\ locked' = IF dropped[r] THEN locked ELSE [locked EXCEPT ![flight[r]] = Nil]
    /\ UNCHANGED <<local, fetching, bounds, cache, now>>

Unlock(r) ==
    /\ GoTo(r, "unlock", "leave")
    /\ outcome' = [outcome EXCEPT ![flight[r]] = result[r]]
    /\ locked' = [locked EXCEPT ![flight[r]] = Nil]
    /\ UNCHANGED <<local, fetching, bounds, cache, now>>

(* FlightGuard::drop: the flight's entry goes if it is still there and, by  *)
(* the count of its handles, nobody else is in the flight.                  *)
Leave(r) ==
    /\ GoTo(r, "leave", "unref")
    /\ fetching' = IF fetching[key[r]] = flight[r] /\ Cardinality(Handles(flight[r])) + 1 <= 2
                   THEN [fetching EXCEPT ![key[r]] = Nil] ELSE fetching
    /\ UNCHANGED <<local, locked, outcome, bounds, cache, now>>

(* The request's handle is dropped after the guard, outside the map lock. *)
Unref(r) ==
    /\ GoTo(r, "unref", "done")
    /\ flight' = [flight EXCEPT ![r] = Nil]
    /\ UNCHANGED <<key, result, since, until, dropped, flights, bounds, cache, now>>

-----------------------------------------------------------------------------
(* The request's future is dropped where it awaits. *)
Drop(r) ==
    /\ \/ GoTo(r, "lookup", "done")
       \/ GoTo(r, "wait", "leave")
       \/ GoTo(r, "recheck", "unlock")
       \/ GoTo(r, "fetch", "unpermit")
       \/ GoTo(r, "remember", "unpermit")
    /\ dropped' = [dropped EXCEPT ![r] = TRUE]
    /\ result' = [result EXCEPT ![r] = Nil] /\ since' = [since EXCEPT ![r] = 0]
    /\ until' = [until EXCEPT ![r] = 0]
    /\ UNCHANGED <<key, flight, flights, bounds, cache, now>>

Tick ==
    /\ now < MaxTime
    /\ now' = now + 1
    /\ UNCHANGED <<pc, local, flights, bounds, cache>>

RequestStep(r) ==
    \/ Lookup(r) \/ Join(r) \/ Lock(r) \/ Recheck(r)
    \/ TakeSlot(r) \/ TakePermit(r)
    \/ \E f \in Fetches : Fetched(r, f)
    \/ Remember(r) \/ ReturnPermit(r) \/ ReturnSlot(r)
    \/ Retire(r) \/ Unlock(r) \/ Leave(r) \/ Unref(r)

Next ==
    \/ \E r \in Request : RequestStep(r) \/ Drop(r)
    \/ Tick

Spec == Init /\ [][Next]_vars

-----------------------------------------------------------------------------
FetchSteps == {"slot", "permit", "fetch", "remember", "unpermit", "unslot"}

(* "Fetched once, however many requests miss at the same time": two requests *)
(* are never both fetching one document, also when a fetcher is dropped and *)
(* hands over to a waiter while newcomers arrive.                           *)
SingleFlight ==
    \A r, q \in Request :
        pc[r] \in FetchSteps /\ pc[q] \in FetchSteps /\ key[r] = key[q] => r = q

(* "A newcomer must not join a published flight": an entry of the map has   *)
(* no outcome yet.  And a document in the cache is one its origin lets us    *)
(* reuse still, by all it said and however old it was when it came.  So an  *)
(* outcome that may be over by now reaches only those who asked before it.  *)
PublishedIsRetired ==
    \A k \in Key : fetching[k] # Nil => outcome[fetching[k]] = Nil

ReusedWhileFresh ==
    \A k \in Key : cache[k].outcome = "document" /\ Fresh(k) => now < cache[k].until

FreshAnswers == PublishedIsRetired /\ ReusedWhileFresh

(* A dropped fetch gives back its host slot and its permit, on every path:  *)
(* the counts are the requests that hold one.  And an entry of the map      *)
(* without a holder is left behind only by requests of one flight that were *)
(* dropped together, at least two of them.                                  *)
CountsMatch ==
    /\ \A h \in Host : hosts[h] = Cardinality({r \in Request :
          pc[r] \in FetchSteps \ {"slot"} /\ HostOfRequest(r) = h})
    /\ MaxInflight - permits =
          Cardinality({r \in Request : pc[r] \in {"fetch", "remember", "unpermit"}})

LeftOnlyTogether ==
    \A k \in Key : fetching[k] # Nil /\ Handles(fetching[k]) = {}
        => Cardinality({r \in Request : key[r] = k /\ dropped[r]}) >= 2

GivenBack == CountsMatch /\ LeftOnlyTogether

(* A request that waits for another's fetch is never stranded, also when    *)
(* that one is dropped half-way: the lock of its flight is free, or held by *)
(* a request on its way to let it go, which waits for no other flight.      *)
WaiterHasServer ==
    \A r \in Request : pc[r] = "wait"
        => \/ locked[flight[r]] = Nil
           \/ pc[locked[flight[r]]] \in FetchSteps \cup {"recheck", "retire", "unlock"}
=============================================================================
