------------------------ MODULE AppDelegationProofs -------------------------
(***************************************************************************)
(* Proofs about AppDelegation, for any number of concurrent calls, any     *)
(* origins and accounts, and any lifetimes.                                *)
(*                                                                         *)
(* Carries relates what a call holds to what it asked for and to what II   *)
(* prepared; Granted bounds the life of all that II prepared.  With these  *)
(* CachedAsIssued is inductive, and HandedAsAsked and NotFoundOnlyByLag    *)
(* follow: an entry of the cache reaches a call only under the slot that   *)
(* the call asked for, and what a call looks up is what was prepared.      *)
(***************************************************************************)
EXTENDS AppDelegation, FiniteSetTheorems, TLAPS

Naming   == {"list_ensure", "list_read", "list"}
Deriving == {"get", "backoff", "store"}

(* A call knows the account it was asked for once it has listed them, and   *)
(* the delegation it looks up is the one II prepared for it.                *)
Carries(t) ==
    LET c == task[t]
    IN /\ c.at \in Naming => c.want[2] # None
       /\ c.at \notin Naming \cup {"done"} =>
             IF c.want[2] = None THEN c.account = None ELSE c.account \in Named[c.want[2]]
       /\ c.at \in Deriving =>
             /\ c.prepared \in issued /\ c.prepared.app = t /\ c.prepared.origin = c.want[1]
             /\ c.prepared.dflt <=> c.account = None
             /\ c.account # None => c.prepared.account = c.account
       /\ ~c.missed
       /\ c.at # "done" => c.tries < Attempts
AllCarry == \A t \in Task : Carries(t)

(* II caps a delegation's life, and ends it with the grant. *)
Granted == \A d \in issued : d.exp <= d.at + TTL /\ d.exp <= GrantEnd

(* Whatever a session has cached under an origin and an account, II issued    *)
(* it for that origin and for that account, or, under the default's slot,     *)
(* for the account that was the default when it was prepared: concurrent      *)
(* derivations, a change of default and a recreated session mix nothing up.   *)
CachedAsIssued ==
    session # None => \A s \in Held(session.cache) :
        LET d == session.cache[s]
        IN /\ d \in issued /\ d.origin = s[1]
           /\ IF s[2] = None THEN d.dflt ELSE d.account = s[2] /\ ~d.dflt

FiniteCache == session # None => IsFiniteSet(Held(session.cache))

Inv == TypeOK /\ FiniteCache /\ AllCarry /\ Granted /\ CachedAsIssued /\ HandedAsAsked

LEMMA Numbers ==
    /\ TTL \in Nat \ {0} /\ Attempts \in Nat \ {0} /\ MaxCache \in Nat \ {0}
    /\ MaxKeys \in Nat \ {0} /\ Margin \in Nat /\ GrantEnd \in Nat
    /\ MaxNow \in Nat /\ MaxActs \in Nat
BY DelegationAssumption

-----------------------------------------------------------------------------
(* The moves of a call.                                                     *)

LEMMA GoesOnly ==
    ASSUME TypeOK, NEW t \in Task, NEW s \in Steps, Goes(t, s)
    PROVE  /\ task' \in [Task -> TaskState]
           /\ \A u \in Task \ {t} : task'[u] = task[u]
           /\ task'[t].at = s /\ task'[t].want = task[t].want
           /\ task'[t].account = task[t].account /\ task'[t].key = task[t].key
           /\ task'[t].prepared = task[t].prepared /\ task'[t].tries = task[t].tries
           /\ task'[t].missed = task[t].missed /\ task'[t].ended = task[t].ended
BY DEF TypeOK, TaskState, Goes

LEMMA EndsOnly ==
    ASSUME TypeOK, NEW t \in Task, NEW o \in Outcome, Ends(t, o)
    PROVE  /\ task' \in [Task -> TaskState]
           /\ \A u \in Task \ {t} : task'[u] = task[u]
           /\ task'[t].want = task[t].want
           /\ Carries(t)'
<1>1. task'[t] = [at |-> "done", want |-> task[t].want, account |-> None, key |-> 0,
                  prepared |-> None, tries |-> 0, missed |-> FALSE, ended |-> o]
  BY DEF TypeOK, TaskState, Ends
<1>2. /\ task' = [task EXCEPT ![t] = task'[t]]
      /\ task[t].want \in Wants
  BY DEF TypeOK, TaskState, Ends
<1>3. task'[t] \in TaskState
  BY <1>1, <1>2, Numbers DEF TaskState, Steps
<1>4. task' \in [Task -> TaskState] /\ \A u \in Task \ {t} : task'[u] = task[u]
  BY <1>2, <1>3 DEF TypeOK
<1> QED
  BY <1>1, <1>4 DEF Carries, Naming, Deriving

(* What II prepares.                                                        *)
LEMMA PreparedType ==
    ASSUME TypeOK, NEW t \in Task, Carries(t), task[t].at = "prepare"
    PROVE  /\ Prepared(t) \in Delegation
           /\ Prepared(t).exp <= Prepared(t).at + TTL /\ Prepared(t).exp <= GrantEnd
<1>1. /\ task[t].want[1] \in Origin /\ task[t].account \in Account \cup {None}
      /\ now \in Nat /\ default[task[t].want[1]] \in Account
  BY DelegationAssumption DEF TypeOK, TaskState
<1>2. (IF task[t].account = None THEN default[task[t].want[1]] ELSE task[t].account) \in Account
  BY <1>1
<1>3. (IF now + TTL < GrantEnd THEN now + TTL ELSE GrantEnd) \in Nat
  BY <1>1, Numbers
<1>4. (task[t].account = None) \in BOOLEAN
  OBVIOUS
<1>5. Prepared(t) \in Delegation
  BY <1>1, <1>2, <1>3, <1>4 DEF Prepared, Delegation
<1> QED
  BY <1>1, <1>5, Numbers DEF Prepared

(* What the steps of a call keep, whichever it is.                          *)
TaskKept(t) ==
    /\ task' \in [Task -> TaskState]
    /\ \A u \in Task \ {t} : task'[u] = task[u]
    /\ task'[t].want = task[t].want
    /\ Carries(t)'

LEMMA TaskMoves ==
    ASSUME Inv, NEW t \in Task, TaskStep(t)
    PROVE  TaskKept(t)
<1> USE DEF TaskKept
<1>1. /\ TypeOK /\ Carries(t) /\ Granted /\ task[t] \in TaskState
      /\ task[t].want \in Wants /\ task[t].tries \in Nat
  BY DEF Inv, AllCarry, TypeOK, TaskState
<1>2. ASSUME NEW o \in Outcome, Ends(t, o)
      PROVE  TaskKept(t)
  BY <1>1, <1>2, EndsOnly
<1>3. CASE EnsureSession(t)
  <2>1. ASSUME NEW from, NEW to \in Steps, Goes(t, to), task[t].at = from,
               \/ from = "list_ensure" /\ to = "list_read"
               \/ from = "ensure" /\ to = "lookup"
               \/ from = "sign_ensure" /\ to = "sign_read"
        PROVE  TaskKept(t)
    BY <1>1, <2>1, GoesOnly DEF Carries, Naming, Deriving
  <2>2. {"list_read", "lookup", "sign_read"} \subseteq Steps /\ "full" \in Outcome
    BY DEF Steps, Outcome
  <2> QED
    BY <1>2, <1>3, <2>1, <2>2 DEF EnsureSession, Ensure, At
<1>4. CASE ReadSigner(t)
  <2>1. ASSUME NEW to, task' = [task EXCEPT ![t].at = to, ![t].key = session.key],
               session # None,
               \/ task[t].at = "list_read" /\ to = "list"
               \/ task[t].at = "sign_read" /\ to = "prepare"
        PROVE  TaskKept(t)
    <3>1. session.key \in 0..MaxKeys /\ to \in Steps
      BY <1>1, <2>1, Numbers DEF TypeOK, Session, Steps
    <3>2. task' \in [Task -> TaskState] /\ \A u \in Task \ {t} : task'[u] = task[u]
      BY <1>1, <2>1, <3>1 DEF TypeOK, TaskState
    <3>3. /\ task'[t].at = to /\ task'[t].want = task[t].want
          /\ task'[t].account = task[t].account /\ task'[t].tries = task[t].tries
          /\ task'[t].missed = task[t].missed
      BY <1>1, <2>1 DEF TypeOK, TaskState
    <3> QED
      BY <1>1, <2>1, <3>2, <3>3 DEF Carries, Naming, Deriving
  <2>2. {"no_session", "reconnect"} \subseteq Outcome
    BY DEF Outcome
  <2> QED
    BY <1>2, <1>4, <2>1, <2>2 DEF ReadSigner, SessionSigner, At
<1>5. CASE ListAccounts(t)
  <2>1. ASSUME NEW a \in Named[task[t].want[2]],
               task' = [task EXCEPT ![t].at = "ensure", ![t].account = a],
               task[t].at = "list"
        PROVE  TaskKept(t)
    <3>1. task[t].want[2] \in Name /\ a \in Account
      BY <1>1, <2>1, DelegationAssumption DEF Carries, Naming
    <3>2. task' \in [Task -> TaskState] /\ \A u \in Task \ {t} : task'[u] = task[u]
      BY <1>1, <2>1, <3>1 DEF TypeOK, TaskState, Steps
    <3>3. /\ task'[t].at = "ensure" /\ task'[t].want = task[t].want
          /\ task'[t].account = a /\ task'[t].tries = task[t].tries
          /\ task'[t].missed = task[t].missed
      BY <1>1, <2>1 DEF TypeOK, TaskState
    <3> QED
      BY <1>1, <2>1, <3>2, <3>3 DEF Carries, Naming, Deriving
  <2>2. {"failed", "reconnect", "no_account"} \subseteq Outcome
    BY DEF Outcome
  <2> QED
    BY <1>2, <1>5, <2>1, <2>2 DEF ListAccounts, At
<1>6. CASE Lookup(t)
  <2>1. CASE Goes(t, "sign_ensure")
    BY <1>1, <1>6, <2>1, GoesOnly DEF Lookup, At, Carries, Naming, Deriving, Steps
  <2>2. CASE Ends(t, "handed")
    BY <1>2, <2>2 DEF Outcome
  <2> QED
    BY <1>6, <2>1, <2>2 DEF Lookup
<1>7. CASE Prepare(t)
  <2>1. CASE task' = [task EXCEPT ![t].at = "get", ![t].prepared = Prepared(t)]
             /\ issued' = issued \cup {Prepared(t)} /\ task[t].at = "prepare"
    <3>1. Prepared(t) \in Delegation
      BY <1>1, <2>1, PreparedType
    <3>2. task' \in [Task -> TaskState] /\ \A u \in Task \ {t} : task'[u] = task[u]
      BY <1>1, <2>1, <3>1 DEF TypeOK, TaskState, Steps
    <3>3. /\ task'[t].at = "get" /\ task'[t].want = task[t].want
          /\ task'[t].account = task[t].account /\ task'[t].tries = task[t].tries
          /\ task'[t].missed = task[t].missed /\ task'[t].prepared = Prepared(t)
      BY <1>1, <2>1 DEF TypeOK, TaskState
    <3>4. /\ Prepared(t).app = t /\ Prepared(t).origin = task[t].want[1]
          /\ Prepared(t).dflt <=> task[t].account = None
          /\ task[t].account # None => Prepared(t).account = task[t].account
      BY DEF Prepared
    <3> QED
      BY <1>1, <2>1, <3>2, <3>3, <3>4 DEF Carries, Naming, Deriving
  <2>2. {"failed", "reconnect"} \subseteq Outcome
    BY DEF Outcome
  <2> QED
    BY <1>2, <1>7, <2>1, <2>2 DEF Prepare, At
<1>8. CASE GetDelegation(t)
  <2>1. task[t].at = "get" /\ issued' = issued /\ task[t].prepared \in issued
    BY <1>1, <1>8 DEF GetDelegation, At, Carries, Deriving, iiVars
  <2>2. Found(GetArg(t))
    BY <1>1, <2>1 DEF Found, GetArg, Carries, Deriving
  <2>3. CASE NoSuchDelegation(t, FALSE)
    <3> DEFINE n == task[t].tries + 1
    <3>1. /\ \A u \in Task \ {t} : task'[u] = task[u]
          /\ DOMAIN task' = Task /\ task' = [u \in Task |-> task'[u]]
          /\ task'[t].at = (IF n < Attempts THEN "backoff" ELSE "done")
          /\ task'[t].ended = (IF n < Attempts THEN None ELSE "not_found")
          /\ task'[t].want = task[t].want /\ task'[t].account = task[t].account
          /\ task'[t].prepared = task[t].prepared /\ task'[t].tries = n
          /\ task'[t].key = task[t].key
      BY <1>1, <2>3 DEF NoSuchDelegation, CountTry, TypeOK, TaskState
    <3>2. task'[t].missed = (task[t].missed \/ FALSE)
      BY <1>1, <2>3 DEF NoSuchDelegation, CountTry, TypeOK, TaskState
    <3>3. task'[t] = [at |-> task'[t].at, want |-> task'[t].want, account |-> task'[t].account,
                      key |-> task'[t].key, prepared |-> task'[t].prepared,
                      tries |-> task'[t].tries, missed |-> task'[t].missed,
                      ended |-> task'[t].ended]
      BY <1>1, <2>3 DEF NoSuchDelegation, CountTry, TypeOK, TaskState
    <3>4. (task[t].missed \/ FALSE) = task[t].missed
      BY <1>1 DEF TaskState
    <3>5. task'[t].missed = task[t].missed
      BY <3>4, <3>2
    <3>6. n \in 0..Attempts
      BY <1>1, <2>1, Numbers DEF Carries
    <3>7. task' \in [Task -> TaskState] /\ \A u \in Task \ {t} : task'[u] = task[u]
      BY <1>1, <3>1, <3>6, <3>5, <3>3 DEF TypeOK, TaskState, Steps, Outcome
    <3>8. CASE n < Attempts
      BY <1>1, <2>1, <3>1, <3>7, <3>5, <3>8 DEF Carries, Naming, Deriving
    <3>9. CASE ~(n < Attempts)
      BY <1>1, <2>1, <3>1, <3>7, <3>5, <3>9 DEF Carries, Naming, Deriving
    <3> QED
      BY <3>8, <3>9
  <2>4. CASE Goes(t, "store")
    BY <1>1, <2>1, <2>4, GoesOnly DEF Carries, Naming, Deriving, Steps
  <2>5. {"failed", "reconnect"} \subseteq Outcome
    BY DEF Outcome
  <2> QED
    BY <1>2, <1>8, <2>2, <2>3, <2>4, <2>5 DEF GetDelegation
<1>9. CASE Sleep(t)
  BY <1>1, <1>9, GoesOnly DEF Sleep, At, Carries, Naming, Deriving, Steps, iiVars
<1>10. CASE Store(t)
  BY <1>2, <1>10 DEF Store, Outcome
<1> QED
  BY <1>3, <1>4, <1>5, <1>6, <1>7, <1>8, <1>9, <1>10 DEF TaskStep

LEMMA TaskChanges ==
    ASSUME Inv, NEW t \in Task, TaskStep(t)
    PROVE  /\ UNCHANGED <<now, key, default, acts>>
           /\ UNCHANGED <<session, keys>> \/ EnsureSession(t) \/ Store(t)
           /\ issued' = issued \/ Prepare(t)
           /\ handed' = handed \/ Lookup(t) \/ Store(t)
BY DEF TaskStep, EnsureSession, Ensure, ReadSigner, SessionSigner, ListAccounts, Lookup,
       Prepare, GetDelegation, Sleep, Store, iiVars

-----------------------------------------------------------------------------
(* What II has prepared only grows.                                         *)
LEMMA IssuedGrows ==
    ASSUME Inv, NEW t \in Task, TaskStep(t)
    PROVE  issued \subseteq issued' /\ issued' \subseteq Delegation /\ Granted'
<1>1. TypeOK /\ Carries(t) /\ Granted /\ issued \subseteq Delegation
  BY DEF Inv, AllCarry, TypeOK
<1>2. CASE issued' = issued
  BY <1>1, <1>2 DEF Granted
<1>3. CASE issued' = issued \cup {Prepared(t)} /\ task[t].at = "prepare"
  BY <1>1, <1>3, PreparedType DEF Granted
<1> QED
  BY <1>2, <1>3, TaskChanges DEF Prepare, At

-----------------------------------------------------------------------------
(* The cache.                                                               *)

Bounded(c) == c \in Cache /\ IsFiniteSet(Held(c)) /\ Cardinality(Held(c)) <= MaxCache

LEMMA RoomMade ==
    ASSUME NEW c, Bounded(c), NEW slot \in Slot, NEW d \in Delegation,
           NEW room \in BoundAppDelegations(c, slot)
    PROVE  /\ Bounded([room EXCEPT ![slot] = d])
           /\ \A s \in Slot : [room EXCEPT ![slot] = d][s] \in {None, c[s]} \/ s = slot
           /\ [room EXCEPT ![slot] = d][slot] = d
<1> DEFINE fresh == {s \in Held(c) : Fresh(c[s])}
           Keep(ss) == [s \in Slot |-> IF s \in ss THEN c[s] ELSE None]
           new == [room EXCEPT ![slot] = d]
<1>1. c \in Cache /\ IsFiniteSet(Held(c)) /\ Cardinality(Held(c)) \in Nat
      /\ Cardinality(Held(c)) <= MaxCache
  BY FS_CardinalityType DEF Bounded
<1>2. IsFiniteSet(fresh) /\ Cardinality(fresh) \in Nat
  BY <1>1, FS_Subset, FS_CardinalityType
<1>3. ASSUME NEW ss \in SUBSET Held(c), IsFiniteSet(ss), Cardinality(ss) < MaxCache,
             room = Keep(ss)
      PROVE  /\ Bounded(new) /\ new[slot] = d
             /\ \A s \in Slot : new[s] \in {None, c[s]} \/ s = slot
  <2>1. room \in Cache /\ new \in Cache /\ new[slot] = d
        /\ \A s \in Slot \ {slot} : new[s] = room[s]
    BY <1>1, <1>3 DEF Cache
  <2>2. Held(new) \subseteq ss \cup {slot}
    BY <1>3, <2>1 DEF Held
  <2>3. IsFiniteSet(ss \cup {slot}) /\ Cardinality(ss \cup {slot}) <= MaxCache
    <3>1. Cardinality(ss) \in Nat
      BY <1>3, FS_CardinalityType
    <3>2. /\ IsFiniteSet(ss \cup {slot})
          /\ Cardinality(ss \cup {slot}) =
               IF slot \in ss THEN Cardinality(ss) ELSE Cardinality(ss) + 1
      BY <1>3, FS_AddElement
    <3> QED
      BY <1>3, <3>1, <3>2, Numbers
  <2>4. IsFiniteSet(Held(new)) /\ Cardinality(Held(new)) <= Cardinality(ss \cup {slot})
    BY <2>2, <2>3, FS_Subset
  <2>5. Cardinality(Held(new)) \in Nat /\ Cardinality(ss \cup {slot}) \in Nat
    BY <2>3, <2>4, FS_CardinalityType
  <2>6. Bounded(new)
    BY <2>1, <2>3, <2>4, <2>5, Numbers DEF Bounded
  <2> QED
    BY <1>3, <2>1, <2>6
<1>4. CASE c[slot] # None \/ Cardinality(Held(c)) < MaxCache
  <2>1. room = c
    BY <1>4 DEF BoundAppDelegations
  <2>2. new \in Cache /\ new[slot] = d /\ \A s \in Slot \ {slot} : new[s] = c[s]
    BY <1>1, <2>1 DEF Cache
  <2>3. CASE c[slot] # None
    <3>1. Held(new) \subseteq Held(c)
      BY <2>2, <2>3 DEF Held
    <3>2. IsFiniteSet(Held(new)) /\ Cardinality(Held(new)) <= Cardinality(Held(c))
      BY <1>1, <3>1, FS_Subset
    <3>3. Cardinality(Held(new)) \in Nat
      BY <3>2, FS_CardinalityType
    <3> QED
      BY <1>1, <2>2, <3>2, <3>3, Numbers DEF Bounded
  <2>4. CASE Cardinality(Held(c)) < MaxCache
    <3>1. room = Keep(Held(c))
      BY <1>1, <2>1 DEF Held, Cache
    <3> QED
      BY <1>1, <1>3, <2>4, <3>1
  <2> QED
    BY <1>4, <2>3, <2>4
<1>5. CASE ~(c[slot] # None \/ Cardinality(Held(c)) < MaxCache) /\ Cardinality(fresh) < MaxCache
  <2>1. room = Keep(fresh)
    BY <1>5 DEF BoundAppDelegations
  <2> QED
    BY <1>2, <1>3, <1>5, <2>1
<1>6. CASE ~(c[slot] # None \/ Cardinality(Held(c)) < MaxCache) /\ ~(Cardinality(fresh) < MaxCache)
  <2>1. PICK v \in fresh : room = Keep(fresh \ {v})
    BY <1>6 DEF BoundAppDelegations
  <2>2. IsFiniteSet(fresh \ {v}) /\ Cardinality(fresh \ {v}) = Cardinality(fresh) - 1
    BY <1>2, <2>1, FS_RemoveElement
  <2>3. Cardinality(fresh) <= Cardinality(Held(c))
    BY <1>1, FS_Subset
  <2>4. Cardinality(fresh \ {v}) < MaxCache
    BY <1>1, <1>2, <2>2, <2>3, Numbers
  <2> QED
    BY <1>3, <2>1, <2>2, <2>4
<1> QED
  BY <1>4, <1>5, <1>6

(* The slot a call asks for is its origin and the account it knows.         *)
LEMMA SlotType ==
    ASSUME TypeOK, NEW t \in Task
    PROVE  /\ SlotOf(t) \in Slot
           /\ SlotOf(t)[1] = task[t].want[1] /\ SlotOf(t)[2] = task[t].account
<1>1. task[t].want[1] \in Origin /\ task[t].account \in Account \cup {None}
  BY DelegationAssumption DEF TypeOK, TaskState
<1> QED
  BY <1>1 DEF SlotOf, Slot

SessionOK == session # None => session \in Session /\ Bounded(session.cache)

LEMMA SessionKept ==
    ASSUME Inv, SessionOK, NEW t \in Task, TaskStep(t)
    PROVE  SessionOK' /\ CachedAsIssued' /\ keys' \in 1..MaxKeys
<1>1. TypeOK /\ Carries(t) /\ CachedAsIssued /\ issued \subseteq issued' /\ keys \in 1..MaxKeys
  BY IssuedGrows DEF Inv, AllCarry, TypeOK
<1>2. CASE UNCHANGED <<session, keys>>
  BY <1>1, <1>2 DEF SessionOK, CachedAsIssued, Held, Bounded
<1>3. CASE EnsureSession(t)
  <2>1. CASE keys < MaxKeys /\ keys' = keys + 1 /\ session' = NewSession(keys')
    <3>1. keys' \in 1..MaxKeys
      BY <1>1, <2>1, Numbers
    <3>2. session' \in Session /\ session'.cache = [s \in Slot |-> None]
      BY <2>1, <3>1 DEF NewSession, Session, Cache
    <3>3. Held(session'.cache) = {}
      BY <3>2 DEF Held
    <3>4. Bounded(session'.cache)
      BY <3>2, <3>3, FS_EmptySet, Numbers DEF Bounded, Session
    <3> QED
      BY <3>1, <3>2, <3>3, <3>4 DEF SessionOK, CachedAsIssued, Held, Bounded
  <2> QED
    BY <1>2, <1>3, <2>1 DEF EnsureSession, Ensure
<1>4. CASE Store(t) /\ session # None
  <2>1. PICK room \in BoundAppDelegations(session.cache, SlotOf(t)) :
             session' = [session EXCEPT
                           !.cache = [room EXCEPT ![SlotOf(t)] = task[t].prepared]]
    BY <1>4 DEF Store
  <2> DEFINE d == task[t].prepared
             slot == SlotOf(t)
             new == [room EXCEPT ![slot] = d]
  <2>2. /\ d \in issued /\ d \in Delegation /\ d.origin = slot[1]
        /\ IF slot[2] = None THEN d.dflt ELSE d.account = slot[2] /\ ~d.dflt
    BY <1>1, <1>4, SlotType DEF Store, At, Carries, Deriving, TypeOK
  <2>3. /\ Bounded(new) /\ new[slot] = d
        /\ \A s \in Slot : new[s] \in {None, session.cache[s]} \/ s = slot
    <3>1. Bounded(session.cache) /\ slot \in Slot
      BY <1>1, <1>4, SlotType DEF SessionOK
    <3> QED
      BY <2>2, <3>1, RoomMade
  <2>4. session' \in Session /\ session'.cache = new
    BY <1>4, <2>1, <2>3 DEF SessionOK, Session, Bounded
  <2>5. CachedAsIssued'
    <3> SUFFICES ASSUME NEW s \in Slot, new[s] # None
                 PROVE  /\ new[s] \in issued' /\ new[s].origin = s[1]
                        /\ IF s[2] = None THEN new[s].dflt
                           ELSE new[s].account = s[2] /\ ~new[s].dflt
      BY <2>4 DEF CachedAsIssued, Held
    <3>1. CASE s = slot
      BY <1>1, <2>2, <2>3, <3>1
    <3>2. CASE s # slot
      <4>1. new[s] = session.cache[s] /\ s \in Held(session.cache)
        BY <2>3, <3>2 DEF Held
      <4> QED
        BY <1>1, <1>4, <4>1 DEF CachedAsIssued
    <3> QED
      BY <3>1, <3>2
  <2>6. keys' = keys
    BY <1>4 DEF Store
  <2> QED
    BY <1>1, <2>3, <2>4, <2>5, <2>6 DEF SessionOK, Bounded, Held
<1>5. CASE Store(t) /\ session = None
  BY <1>2, <1>5 DEF Store
<1> QED
  BY <1>2, <1>3, <1>4, <1>5, TaskChanges

-----------------------------------------------------------------------------
(* The identities handed out.                                               *)

HandedType == handed \subseteq [by : Task, d : Delegation, hit : BOOLEAN, now : Nat]

LEMMA HandedKept ==
    ASSUME Inv, NEW t \in Task, TaskStep(t)
    PROVE  HandedType' /\ HandedAsAsked'
<1>1. /\ TypeOK /\ Carries(t) /\ CachedAsIssued /\ Granted /\ HandedType /\ HandedAsAsked
      /\ now \in Nat
  BY DEF Inv, AllCarry, TypeOK, HandedType
<1>2. issued \subseteq issued' /\ \A u \in Task : task'[u].want = task[u].want
  BY TaskMoves, IssuedGrows DEF TaskKept
<1>3. ASSUME NEW h \in handed
      PROVE  /\ h \in [by : Task, d : Delegation, hit : BOOLEAN, now : Nat]
             /\ h.d \in issued' /\ h.d.origin = task'[h.by].want[1]
             /\ IF task'[h.by].want[2] = None THEN h.d.dflt
                ELSE h.d.account \in Named[task'[h.by].want[2]] /\ ~h.d.dflt
             /\ h.hit => h.now + Margin < h.d.at + TTL /\ h.now + Margin < GrantEnd
  <2>1. h.by \in Task
    BY <1>1 DEF HandedType
  <2> QED
    BY <1>1, <1>2, <2>1 DEF HandedType, HandedAsAsked
<1>4. ASSUME NEW d \in Delegation, NEW hit \in BOOLEAN, HandOut(t, d, hit),
             d \in issued, d.origin = task[t].want[1],
             IF task[t].want[2] = None THEN d.dflt
             ELSE d.account \in Named[task[t].want[2]] /\ ~d.dflt,
             hit => now + Margin < d.at + TTL /\ now + Margin < GrantEnd
      PROVE  HandedType' /\ HandedAsAsked'
  <2> DEFINE h == [by |-> t, d |-> d, hit |-> hit, now |-> now]
  <2>1. handed' = handed \cup {h}
    BY <1>4 DEF HandOut
  <2>2. h \in [by : Task, d : Delegation, hit : BOOLEAN, now : Nat]
    BY <1>1
  <2>3. HandedType'
    BY <1>1, <2>1, <2>2 DEF HandedType
  <2>4. HandedAsAsked'
    BY <1>2, <1>3, <1>4, <2>1 DEF HandedAsAsked
  <2> QED
    BY <2>3, <2>4
<1>5. CASE handed' = handed
  BY <1>1, <1>3, <1>5 DEF HandedType, HandedAsAsked
<1>6. CASE Lookup(t) /\ handed' # handed
  <2> DEFINE d == session.cache[SlotOf(t)]
  <2>1. /\ session # None /\ d # None /\ Fresh(d) /\ HandOut(t, d, TRUE)
        /\ task[t].at = "lookup"
    BY <1>6 DEF Lookup, At
  <2>2. SlotOf(t) \in Held(session.cache)
    BY <1>1, <2>1, SlotType DEF Held
  <2>3. /\ d \in issued /\ d \in Delegation /\ d.origin = task[t].want[1]
        /\ IF task[t].account = None THEN d.dflt ELSE d.account = task[t].account /\ ~d.dflt
    BY <1>1, <2>1, <2>2, SlotType DEF CachedAsIssued, TypeOK
  <2>4. IF task[t].want[2] = None THEN task[t].account = None
        ELSE task[t].account \in Named[task[t].want[2]] /\ task[t].account # None
    <3>1. task[t].want[2] = None \/ task[t].want[2] \in Name
      BY <1>1, DelegationAssumption DEF TypeOK, TaskState
    <3> QED
      BY <1>1, <2>1, <3>1, DelegationAssumption DEF Carries, Naming
  <2>5. now + Margin < d.at + TTL /\ now + Margin < GrantEnd
    <3>1. d.exp \in Nat /\ d.at \in Nat /\ d.exp <= d.at + TTL /\ d.exp <= GrantEnd
      BY <1>1, <2>3 DEF Granted, Delegation
    <3>2. d.exp > now + Margin
      BY <2>1 DEF Fresh
    <3> QED
      BY <1>1, <3>1, <3>2, Numbers
  <2> QED
    BY <1>4, <2>1, <2>3, <2>4, <2>5
<1>7. CASE Store(t)
  <2> DEFINE d == task[t].prepared
  <2>1. /\ d \in issued /\ d \in Delegation /\ d.origin = task[t].want[1]
        /\ d.dflt <=> task[t].account = None
        /\ task[t].account # None => d.account = task[t].account
    BY <1>1, <1>7 DEF Store, At, Carries, Deriving, TypeOK
  <2>2. IF task[t].want[2] = None THEN task[t].account = None
        ELSE task[t].account \in Named[task[t].want[2]] /\ task[t].account # None
    <3>1. task[t].want[2] = None \/ task[t].want[2] \in Name
      BY <1>1, DelegationAssumption DEF TypeOK, TaskState
    <3> QED
      BY <1>1, <1>7, <3>1, DelegationAssumption DEF Store, At, Carries, Naming
  <2>3. HandOut(t, d, FALSE)
    BY <1>7 DEF Store
  <2> QED
    BY <1>4, <2>1, <2>2, <2>3
<1> QED
  BY <1>5, <1>6, <1>7, TaskChanges

-----------------------------------------------------------------------------
LEMMA InvByTask ==
    ASSUME Inv, NEW t \in Task, TaskStep(t)
    PROVE  Inv'
<1>1. /\ UNCHANGED <<now, key, default, acts>> /\ TaskKept(t)
      /\ issued \subseteq issued' /\ issued' \subseteq Delegation /\ Granted'
      /\ HandedType' /\ HandedAsAsked'
  BY TaskChanges, TaskMoves, IssuedGrows, HandedKept
<1>2. SessionOK' /\ CachedAsIssued' /\ keys' \in 1..MaxKeys
  <2>1. SessionOK
    BY DEF Inv, TypeOK, FiniteCache, SessionOK, Bounded, Session
  <2> QED
    BY <2>1, SessionKept
<1>3. TypeOK' /\ FiniteCache'
  BY <1>1, <1>2 DEF Inv, TypeOK, FiniteCache, SessionOK, Bounded, Held, HandedType, TaskKept
<1>4. ASSUME NEW u \in Task \ {t}
      PROVE  Carries(u)'
  <2>1. Carries(u) /\ task'[u] = task[u]
    BY <1>1 DEF Inv, AllCarry, TaskKept
  <2> QED
    BY <1>1, <2>1 DEF Carries
<1>5. AllCarry'
  BY <1>1, <1>4 DEF AllCarry, TaskKept
<1> QED
  BY <1>1, <1>2, <1>3, <1>5 DEF Inv

(* Time, eviction, the user's acts.                                         *)
LEMMA InvByOthers ==
    ASSUME Inv, UNCHANGED <<issued, task, handed>>,
           \/ Tick \/ Evict \/ ReplaceGrant \/ UNCHANGED vars
           \/ \E o \in Origin, a \in Account : SetDefault(o, a)
    PROVE  Inv'
<1>1. AllCarry' /\ Granted' /\ HandedAsAsked'
  BY DEF Inv, AllCarry, Carries, Granted, HandedAsAsked
<1>2. session' \in {session, None} /\ keys' = keys
  BY DEF Tick, Evict, ReplaceGrant, SetDefault, iiVars, vars
<1>3. FiniteCache' /\ CachedAsIssued'
  BY <1>2 DEF Inv, FiniteCache, CachedAsIssued, Held
<1>4. now' \in 0..MaxNow /\ key' \in 0..MaxKeys /\ acts' \in 0..MaxActs
  BY Numbers DEF Inv, TypeOK, Tick, Evict, ReplaceGrant, SetDefault, iiVars, vars
<1>5. default' \in [Origin -> Account]
  BY DEF Inv, TypeOK, Tick, Evict, ReplaceGrant, SetDefault, iiVars, vars
<1>6. TypeOK'
  BY <1>2, <1>4, <1>5 DEF Inv, TypeOK, Held
<1> QED
  BY <1>1, <1>3, <1>6 DEF Inv

LEMMA InvAlways == Spec => []Inv
<1>1. Init => Inv
  <2> SUFFICES ASSUME Init PROVE Inv
    OBVIOUS
  <2>1. PICK g \in {None, GrantEnd} : session = [NewSession(1) EXCEPT !.grant = g]
    BY DEF Init
  <2>2. session \in Session /\ session.cache = [s \in Slot |-> None]
    BY <2>1, Numbers DEF NewSession, Session, Cache
  <2>3. Held(session.cache) = {}
    BY <2>2 DEF Held
  <2>4. IsFiniteSet(Held(session.cache)) /\ Cardinality(Held(session.cache)) <= MaxCache
    BY <2>3, FS_EmptySet, Numbers
  <2>5. ASSUME NEW t \in Task
        PROVE  task[t] \in TaskState /\ Carries(t)
    <3>1. PICK w \in Wants :
            task[t] = [at |-> Start(w), want |-> w, account |-> None, key |-> 0,
                       prepared |-> None, tries |-> 0, missed |-> FALSE, ended |-> None]
      BY DEF Init
    <3>2. Start(w) = IF w[2] = None THEN "ensure" ELSE "list_ensure"
      BY DEF Start
    <3> QED
      BY <3>1, <3>2, Numbers DEF TaskState, Steps, Carries, Naming, Deriving
  <2>6. task = [t \in Task |-> task[t]]
    BY DEF Init
  <2>7. task \in [Task -> TaskState]
    BY <2>5, <2>6
  <2>8. default \in [Origin -> Account] /\ issued = {} /\ handed = {}
    BY DEF Init
  <2>9. now \in 0..MaxNow /\ key \in 0..MaxKeys /\ keys \in 1..MaxKeys /\ acts \in 0..MaxActs
    BY Numbers DEF Init
  <2> QED
    BY <2>2, <2>3, <2>4, <2>5, <2>7, <2>8, <2>9
       DEF Inv, TypeOK, FiniteCache, AllCarry, Granted, CachedAsIssued, HandedAsAsked
<1>2. Inv /\ [Next]_vars => Inv'
  <2> SUFFICES ASSUME Inv, [Next]_vars PROVE Inv'
    OBVIOUS
  <2>1. CASE \E t \in Task : TaskStep(t)
    BY <2>1, InvByTask
  <2>2. CASE \/ Tick \/ Evict \/ ReplaceGrant \/ UNCHANGED vars
             \/ \E o \in Origin, a \in Account : SetDefault(o, a)
    <3>1. UNCHANGED <<issued, task, handed>>
      BY <2>2 DEF Tick, Evict, ReplaceGrant, SetDefault, iiVars, vars
    <3> QED
      BY <2>2, <3>1, InvByOthers
  <2> QED
    BY <2>1, <2>2 DEF Next, Finished
<1> QED
  BY <1>1, <1>2, PTL DEF Spec

-----------------------------------------------------------------------------
(* Every reachable state is well typed, and no session ever caches more than *)
(* MAX_APP_DELEGATIONS delegations (bound_app_delegations).                  *)
THEOREM TypeCorrect == Spec => []TypeOK
BY InvAlways, PTL DEF Inv

(* What is cached under an origin and an account was prepared for them, also *)
(* when the session was evicted and created again under a derivation that    *)
(* stores into it (delegated_identity of identities.rs).                     *)
THEOREM CacheAgrees == Spec => []CachedAsIssued
BY InvAlways, PTL DEF Inv

(* Every identity handed out is the one asked for, and one from the cache   *)
(* outlives what made it stale by less than its life less the margin         *)
(* (delegated_identity_for of identities.rs).                                *)
THEOREM HandsOutTheAsked == Spec => []HandedAsAsked
BY InvAlways, PTL DEF Inv

(* A lookup gives up only after a lagging replica each time, for it repeats *)
(* what was prepared (get_delegation_with_retry of identities.rs).           *)
THEOREM GivesUpOnlyByLag == Spec => []NotFoundOnlyByLag
<1>1. Inv => NotFoundOnlyByLag
  BY DEF Inv, AllCarry, Carries, NotFoundOnlyByLag
<1> QED
  BY <1>1, InvAlways, PTL
=============================================================================
