---------------------------- MODULE CandidPool ------------------------------
(***************************************************************************)
(* The deep-stack parse permits of src/crates/imcp2-core/src/calls.rs.  A  *)
(* thread that parses untrusted Candid text takes one of Limit permits,    *)
(* kept under a mutex with a condvar, holds it while a thread of its own   *)
(* parses, and gives it back however the parse ends.  Modules that parse   *)
(* extend this one: they send a thread in with Enter and go on once        *)
(* Parsed says how its section ended.                                      *)
(***************************************************************************)
EXTENDS Naturals, FiniteSets

CONSTANTS
    Thread,   \* the threads that may call on_deep_stack
    Limit     \* permits: cores * CANDID_PARSE_THREADS_PER_CORE, at least 4

ASSUME PoolAssumption == IsFiniteSet(Thread) /\ Limit \in Nat \ {0}

VARIABLES
    free,     \* candid_parse_permits: the free ones
    section,  \* where each thread is in on_deep_stack
    parsed    \* how its last section ended

poolVars == <<free, section, parsed>>

(* acquire: arriving, waiting on the condvar, notified; taken: the permit is *)
(* held; then the parse, its end, the permit given back and not yet told.    *)
Waiting == {"arriving", "asleep", "woken"}
Holding == {"taken", "parsing", "parsed"}
Place   == {"out", "returned"} \cup Waiting \cup Holding
At(place) == {t \in Thread : section[t] = place}

PoolInit ==
    /\ free = Limit
    /\ section = [t \in Thread |-> "out"]
    /\ parsed = [t \in Thread |-> "nothing"]

Move(t, place) == section' = [section EXCEPT ![t] = place]

(* on_deep_stack is called, outside of any other section. *)
Enter(t) ==
    /\ section[t] = "out"
    /\ Move(t, "arriving")
    /\ parsed' = [parsed EXCEPT ![t] = "nothing"]
    /\ UNCHANGED free

(* The loop of acquire, under the mutex: look, and sleep or take. *)
Acquire(t) ==
    /\ section[t] \in {"arriving", "woken"}
    /\ IF free = 0
       THEN Move(t, "asleep") /\ UNCHANGED free
       ELSE Move(t, "taken") /\ free' = free - 1
    /\ UNCHANGED parsed

(* A condvar may wake a sleeper that nobody notified. *)
WakesAlone(t) ==
    /\ section[t] = "asleep"
    /\ Move(t, "woken")
    /\ UNCHANGED <<free, parsed>>

(* The parse thread is spawned, or cannot be: None. *)
Spawn(t) ==
    /\ section[t] = "taken"
    /\ \/ Move(t, "parsing") /\ UNCHANGED parsed
       \/ Move(t, "parsed") /\ parsed' = [parsed EXCEPT ![t] = "none"]
    /\ UNCHANGED free

(* Mutant of Parse: the parse itself calls on_deep_stack. *)
ParseNested(t) ==
    /\ section[t] = "parsing"
    /\ Move(t, "arriving")
    /\ UNCHANGED <<free, parsed>>

(* The parse returns, or panics and unwinds the calling thread. *)
Parse(t) ==
    /\ section[t] = "parsing"
    /\ Move(t, "parsed")
    /\ \E r \in {"value", "panic"} : parsed' = [parsed EXCEPT ![t] = r]
    /\ UNCHANGED free

(* drop: the permit is back and the mutex free again before notify_one. *)
ReturnPermit(t) ==
    /\ section[t] = "parsed"
    /\ free' = free + 1
    /\ Move(t, "returned")
    /\ UNCHANGED parsed

(* Mutant of Notify: a thread that unwinds tells nobody. *)
NotifyUnlessPanicked(t) ==
    /\ section[t] = "returned"
    /\ IF At("asleep") = {} \/ parsed[t] = "panic"
       THEN Move(t, "out")
       ELSE \E s \in At("asleep") :
                section' = [section EXCEPT ![t] = "out", ![s] = "woken"]
    /\ UNCHANGED <<free, parsed>>

(* notify_one: one of those waiting, if anybody waits. *)
Notify(t) ==
    /\ section[t] = "returned"
    /\ IF At("asleep") = {}
       THEN Move(t, "out")
       ELSE \E s \in At("asleep") :
                section' = [section EXCEPT ![t] = "out", ![s] = "woken"]
    /\ UNCHANGED <<free, parsed>>

(* What a thread in a section does of its own accord. *)
SectionStep(t) ==
    Acquire(t) \/ Spawn(t) \/ Parse(t) \/ ReturnPermit(t) \/ Notify(t)

-----------------------------------------------------------------------------
PoolTypeOK ==
    /\ free \in Nat
    /\ section \in [Thread -> Place]
    /\ parsed \in [Thread -> {"nothing", "none", "value", "panic"}]

(* No lost wakeup: while anybody sleeps, every free permit has somebody who *)
(* is on the way to it or is about to tell a sleeper; so a permit given     *)
(* back between a sleeper's look and its wait is never missed.              *)
NoLostWakeup ==
    At("asleep") # {}
        => free <= Cardinality(At("woken")) + Cardinality(At("returned"))
=============================================================================
