--------------------------- MODULE AppDelegation ----------------------------
(***************************************************************************)
(* The per-app delegations of one session of                               *)
(* src/crates/imcp2-core/src/identities.rs: how a tool call that acts as   *)
(* the user gets its identity.  Calls of one session run concurrently; each *)
(* awaits Internet Identity (II) up to three times with no lock held, while *)
(* the session may be evicted and created again, the user may choose        *)
(* another default account, and the grant may lapse or be replaced.         *)
(*                                                                         *)
(* II is outside this repository: what is here of it is what the code and  *)
(* its comments rely on.  It accepts only the registered key until the     *)
(* grant ends, resolves "the default account" when it prepares, caps a     *)
(* delegation's life, and answers a lookup from a replica that may lag.    *)
(***************************************************************************)
EXTENDS Naturals, FiniteSets

CONSTANTS
    Task,       \* the concurrent calls of delegated_identity_for
    Origin, Account, Name,
    None,
    Wants,      \* what calls ask for: an origin and a name, or None for the default
    Named,      \* II: the accounts that carry a name
    TTL,        \* II's MCP_MAX_EXPIRATION_PERIOD_NS
    Margin,     \* REDERIVE_MARGIN_NS
    Attempts,   \* 1 + the length of GET_DELEGATION_BACKOFF
    MaxCache,   \* MAX_APP_DELEGATIONS
    GrantEnd,   \* when the user's grant ends
    MaxNow, MaxKeys, MaxActs   \* bounds: the clock, the keys minted, the user's acts

Slot == Origin \X (Account \cup {None})

ASSUME DelegationAssumption ==
    /\ Wants \subseteq Origin \X (Name \cup {None})
    /\ Named \in [Name -> SUBSET Account]
    /\ None \notin Account \cup Name
    /\ {TTL, Attempts, MaxCache, MaxKeys} \subseteq Nat \ {0}
    /\ {Margin, GrantEnd, MaxNow, MaxActs} \subseteq Nat

VARIABLES
    now,
    key,      \* II: the registered session key, 0 once the grant is replaced
    default,  \* II: the default account at each origin
    issued,   \* II: the delegations prepared; dflt and at say how and when
    session,  \* the session of the map, or None
    keys,     \* the session keys minted so far
    task,
    acts,     \* the user's acts so far
    handed    \* history: the identities handed out

vars == <<now, key, default, issued, session, keys, task, acts, handed>>
iiVars == <<key, default, issued, acts>>

(* A delegation ends at a per-app key; one call mints at most one.           *)
Delegation == [app : Task, origin : Origin, account : Account, exp : Nat,
               dflt : BOOLEAN, at : Nat]
Cache      == [Slot -> Delegation \cup {None}]
Session    == [key : 1..MaxKeys, grant : Nat \cup {None}, cache : Cache]
Steps      == {"list_ensure", "list_read", "list", "ensure", "lookup",
               "sign_ensure", "sign_read", "prepare", "get", "backoff", "store", "done"}
Outcome    == {"handed", "full", "no_session", "reconnect", "no_account",
               "not_found", "failed"}
TaskState  == [at : Steps, want : Wants, account : Account \cup {None}, key : 0..MaxKeys,
               prepared : Delegation \cup {None}, tries : 0..Attempts,
               missed : BOOLEAN, ended : Outcome \cup {None}]

Held(cache) == {s \in Slot : cache[s] # None}

(* Every variable has its type, and the cache keeps to its cap. *)
TypeOK ==
    /\ now \in 0..MaxNow /\ key \in 0..MaxKeys /\ keys \in 1..MaxKeys /\ acts \in 0..MaxActs
    /\ default \in [Origin -> Account] /\ issued \subseteq Delegation
    /\ session # None => /\ session \in Session
                         /\ Cardinality(Held(session.cache)) <= MaxCache
    /\ task \in [Task -> TaskState]
    /\ handed \subseteq [by : Task, d : Delegation, hit : BOOLEAN, now : Nat]

NewSession(k) == [key |-> k, grant |-> None, cache |-> [s \in Slot |-> None]]

(* resolve_account: only a named account takes a question to II. *)
Start(want) == IF want[2] = None THEN "ensure" ELSE "list_ensure"

(* The reply of mcp_register_v2 may not have been recorded.                  *)
Init ==
    /\ now = 0 /\ keys = 1 /\ key = 1 /\ acts = 0 /\ issued = {} /\ handed = {}
    /\ \E a \in Account : default = [o \in Origin |-> a]
    /\ \E g \in {None, GrantEnd} : session = [NewSession(1) EXCEPT !.grant = g]
    /\ task \in [Task -> {[at |-> Start(w), want |-> w, account |-> None, key |-> 0,
                           prepared |-> None, tries |-> 0, missed |-> FALSE, ended |-> None] :
                              w \in Wants}]

-----------------------------------------------------------------------------
At(t, s)   == task[t].at = s
Goes(t, s) == task' = [task EXCEPT ![t].at = s]
Ends(t, o) ==
    task' = [task EXCEPT ![t] = [@ EXCEPT !.at = "done", !.ended = o, !.account = None, !.key = 0,
                                          !.prepared = None, !.tries = 0, !.missed = FALSE]]

(* AppDelegation::fresh *)
\* mutant
AlwaysFresh(d) == TRUE

Fresh(d) == d.exp > now + Margin

(* The cache key of a call. *)
SlotOf(t) == <<task[t].want[1], task[t].account>>

HandOut(t, d, hit) ==
    handed' = handed \cup {[by |-> t, d |-> d, hit |-> hit, now |-> now]}

(* II takes a signed call from the registered key while the grant lasts.      *)
Authorized(k) == k = key /\ now < GrantEnd

-----------------------------------------------------------------------------
(* ensure_session, which every step that needs the session begins with: an   *)
(* evicted session comes back empty, with a key II has never seen.            *)
Ensure(t, from, to) ==
    /\ At(t, from)
    /\ \/ /\ session # None /\ Goes(t, to) /\ UNCHANGED <<session, keys>>
       \/ /\ session = None /\ keys < MaxKeys
          /\ keys' = keys + 1 /\ session' = NewSession(keys') /\ Goes(t, to)
       \/ session = None /\ Ends(t, "full") /\ UNCHANGED <<session, keys>>
    /\ UNCHANGED <<now, iiVars, handed>>

EnsureSession(t) ==
    \/ Ensure(t, "list_ensure", "list_read")
    \/ Ensure(t, "ensure", "lookup")
    \/ Ensure(t, "sign_ensure", "sign_read")

(* session_signer: the lock was released since ensure_session.                *)
SessionSigner(t, from, to) ==
    /\ At(t, from)
    /\ CASE session = None -> Ends(t, "no_session")
         [] session # None /\ session.grant # None /\ session.grant <= now -> Ends(t, "reconnect")
         [] OTHER -> task' = [task EXCEPT ![t].at = to, ![t].key = session.key]
    /\ UNCHANGED <<now, iiVars, session, keys, handed>>

ReadSigner(t) == SessionSigner(t, "list_read", "list") \/ SessionSigner(t, "sign_read", "prepare")

(* list_accounts, and the one account that carries the name.                 *)
ListAccounts(t) ==
    /\ At(t, "list")
    /\ LET matching == Named[task[t].want[2]]
       IN \/ Ends(t, "failed")
          \/ ~Authorized(task[t].key) /\ Ends(t, "reconnect")
          \/ Authorized(task[t].key) /\ Cardinality(matching) # 1 /\ Ends(t, "no_account")
          \/ /\ Authorized(task[t].key) /\ Cardinality(matching) = 1
             /\ \E a \in matching : task' = [task EXCEPT ![t].at = "ensure", ![t].account = a]
    /\ UNCHANGED <<now, iiVars, session, keys, handed>>

(* cached_fresh, in delegated_identity. *)
Lookup(t) ==
    /\ At(t, "lookup")
    /\ LET entry == IF session = None THEN None ELSE session.cache[SlotOf(t)]
       IN \/ /\ entry # None /\ Fresh(entry)
             /\ HandOut(t, entry, TRUE) /\ Ends(t, "handed")
          \/ /\ entry # None => ~Fresh(entry)
             /\ Goes(t, "sign_ensure") /\ UNCHANGED handed
    /\ UNCHANGED <<now, iiVars, session, keys>>

(* mcp_prepare_delegation: it may take effect though its answer is lost.      *)
Prepared(t) ==
    [app |-> t, origin |-> task[t].want[1],
     account |-> IF task[t].account = None THEN default[task[t].want[1]] ELSE task[t].account,
     exp |-> IF now + TTL < GrantEnd THEN now + TTL ELSE GrantEnd,
     dflt |-> task[t].account = None, at |-> now]

Prepare(t) ==
    /\ At(t, "prepare")
    /\ \/ /\ Authorized(task[t].key) /\ issued' = issued \cup {Prepared(t)}
          /\ \/ task' = [task EXCEPT ![t].at = "get", ![t].prepared = Prepared(t)]
             \/ Ends(t, "failed")
       \/ ~Authorized(task[t].key) /\ Ends(t, "reconnect") /\ UNCHANGED issued
       \/ Ends(t, "failed") /\ UNCHANGED issued
    /\ UNCHANGED <<now, key, default, acts, session, keys, handed>>

(* The lookup repeats, word for word, the account and expiration of prepare.  *)
\* mutant
GetArgAsRequested(t) ==
    LET p == task[t].prepared
    IN [app |-> t, origin |-> p.origin, exp |-> p.exp,
        account |-> IF task[t].account = None THEN default[p.origin] ELSE task[t].account]

GetArg(t) ==
    LET p == task[t].prepared
    IN [app |-> t, origin |-> p.origin, exp |-> p.exp, account |-> p.account]

Found(arg) == \E d \in issued : /\ d.app = arg.app /\ d.origin = arg.origin
                               /\ d.account = arg.account /\ d.exp = arg.exp

(* get_delegation_with_retry: only NoSuchDelegation is asked again.          *)
\* mutant
NeverCount(t) == task[t].tries

CountTry(t) == task[t].tries + 1

NoSuchDelegation(t, upToDate) ==
    LET n == CountTry(t)
    IN task' = [task EXCEPT ![t].tries = n, ![t].missed = @ \/ upToDate,
                            ![t].at = IF n < Attempts THEN "backoff" ELSE "done",
                            ![t].ended = IF n < Attempts THEN None ELSE "not_found"]

GetDelegation(t) ==
    /\ At(t, "get")
    /\ \/ NoSuchDelegation(t, FALSE)
       \/ Authorized(task[t].key) /\ ~Found(GetArg(t)) /\ NoSuchDelegation(t, TRUE)
       \/ Authorized(task[t].key) /\ Found(GetArg(t)) /\ Goes(t, "store")
       \/ ~Authorized(task[t].key) /\ Ends(t, "reconnect")
       \/ Ends(t, "failed")
    /\ UNCHANGED <<now, iiVars, session, keys, handed>>

Sleep(t) ==
    /\ At(t, "backoff") /\ Goes(t, "get")
    /\ UNCHANGED <<now, iiVars, session, keys, handed>>

(* bound_app_delegations: stale entries first, then the one nearest expiry.   *)
BoundAppDelegations(cache, slot) ==
    LET fresh == {s \in Held(cache) : Fresh(cache[s])}
        Keep(ss) == [s \in Slot |-> IF s \in ss THEN cache[s] ELSE None]
    IN IF cache[slot] # None \/ Cardinality(Held(cache)) < MaxCache THEN {cache}
       ELSE IF Cardinality(fresh) < MaxCache THEN {Keep(fresh)}
       ELSE {Keep(fresh \ {v}) : v \in {v \in fresh : \A s \in fresh : cache[v].exp <= cache[s].exp}}

(* store: into whatever session has the id by now, if any.  The identity is  *)
(* handed out either way.                                                    *)
Store(t) ==
    /\ At(t, "store")
    /\ IF session = None THEN UNCHANGED session
       ELSE \E room \in BoundAppDelegations(session.cache, SlotOf(t)) :
               session' = [session EXCEPT !.cache = [room EXCEPT ![SlotOf(t)] = task[t].prepared]]
    /\ HandOut(t, task[t].prepared, FALSE) /\ Ends(t, "handed")
    /\ UNCHANGED <<now, iiVars, keys>>

TaskStep(t) ==
    \/ EnsureSession(t) \/ ReadSigner(t) \/ ListAccounts(t)
    \/ Lookup(t) \/ Prepare(t) \/ GetDelegation(t) \/ Sleep(t) \/ Store(t)

-----------------------------------------------------------------------------
(* The surroundings: time passes; the session map drops a session whose      *)
(* grant has ended or that never had one; the user chooses another default,  *)
(* or connects from elsewhere, which replaces the grant.                     *)
Tick == now < MaxNow /\ now' = now + 1 /\ UNCHANGED <<iiVars, session, keys, task, handed>>

Evict ==
    /\ session # None /\ (session.grant # None => session.grant <= now)
    /\ session' = None
    /\ UNCHANGED <<now, iiVars, keys, task, handed>>

SetDefault(o, a) ==
    /\ acts < MaxActs /\ acts' = acts + 1
    /\ default[o] # a /\ default' = [default EXCEPT ![o] = a]
    /\ UNCHANGED <<now, key, issued, session, keys, task, handed>>

ReplaceGrant ==
    /\ acts < MaxActs /\ acts' = acts + 1 /\ key # 0 /\ key' = 0
    /\ UNCHANGED <<now, default, issued, session, keys, task, handed>>

Finished == (\A t \in Task : At(t, "done")) /\ UNCHANGED vars

Next ==
    \/ \E t \in Task : TaskStep(t)
    \/ Tick \/ Evict \/ ReplaceGrant
    \/ \E o \in Origin, a \in Account : SetDefault(o, a)
    \/ Finished

(* A call's task is polled until it ends, and the agent gives up on a call    *)
(* that II does not answer: "failed".                                         *)
Spec == Init /\ [][Next]_vars /\ \A t \in Task : WF_vars(TaskStep(t))

-----------------------------------------------------------------------------
(* Every identity a call acts with is one that II issued and that the call    *)
(* asked for, whatever is derived concurrently; and one taken from the cache  *)
(* is recent enough that a changed default, a replaced grant or a session     *)
(* that came back without its grant is outlived by less than TTL less the     *)
(* margin, and never beyond the grant it was issued under.                    *)
HandedAsAsked ==
    \A h \in handed :
        LET want == task[h.by].want
        IN /\ h.d \in issued /\ h.d.origin = want[1]
           /\ IF want[2] = None THEN h.d.dflt ELSE h.d.account \in Named[want[2]] /\ ~h.d.dflt
           /\ h.hit => h.now + Margin < h.d.at + TTL /\ h.now + Margin < GrantEnd

(* A lookup that gives up has met a lagging replica every time (missed is    *)
(* history): it never asks for a delegation that II did not prepare, whatever *)
(* the user changes in between.                                              *)
NotFoundOnlyByLag ==
    \A t \in Task : task[t].ended = "not_found" => ~task[t].missed

(* Every call ends, however II answers. *)
CallsEnd == \A t \in Task : <>(At(t, "done"))
=============================================================================
