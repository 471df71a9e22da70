------------------------------ MODULE Connect ------------------------------
(***************************************************************************)
(* The OAuth authorization-code connect of one server instance             *)
(* (src/src/auth.rs) over its session map (module Sessions).               *)
(*                                                                         *)
(* GET /oauth/authorize mints a session and a registration key X, records  *)
(* the pending connect and sends the browser to Internet Identity (II).    *)
(* After consent the browser posts II's delegation to                      *)
(* /oauth/connect/redeem, which claims the connect, registers the session  *)
(* key S at II with one mcp_register_v2 call, records the grant, and       *)
(* reserves and stores an authorization code.  /oauth/token exchanges the  *)
(* code, once, for an access token that lives as long as the grant.        *)
(*                                                                         *)
(* Handlers are processes: an authorize per session id (the id is fresh),  *)
(* Redeem and Exchange requests.  A step ends where the code gives up a    *)
(* lock or awaits; there the handler's future may also be dropped (the     *)
(* client disconnected) and the other handlers, the reaper and the clock   *)
(* may run.  Request parsing that changes no state is left out: a request  *)
(* refused by it is a request that never came.                             *)
(***************************************************************************)
EXTENDS Sessions

CONSTANTS
    Redeem,      \* the /oauth/connect/redeem requests
    Exchange,    \* the /oauth/token requests
    ConnectTTL, CodeTTL, TokenTTL,
    MaxCodes, MaxTokens,
    GrantTTL,    \* lifetime of the grants II hands out
    Levels,      \* the permissions II answers with, as read_only records them
    Drops,       \* whether a handler's future may be dropped
    MaxTime      \* bound: the last reading of the clock

Absent == -1     \* a code or token that is not in its map

ASSUME ConnectAssumption ==
    /\ {ConnectTTL, CodeTTL, TokenTTL, GrantTTL} \subseteq Nat \ {0}
    /\ {MaxCodes, MaxTokens} \subseteq Nat \ {0}
    /\ ConnectTTL < PendingTTL
    /\ ConnectTTL <= GrantTTL  \* II's shortest session is as long as a connect
    /\ Levels \subseteq {"unknown", "yes", "no"}
    /\ Drops \in BOOLEAN /\ MaxTime \in Nat

VARIABLES
    authorizing,  \* where the authorize handler of each session id stands
    authz,        \* the pending connects
    codes,        \* code (named by its session id) -> when it was created
    tokens,       \* token (named by its session id) -> when it ends
    redeem,       \* the redeem requests
    exchange,     \* the token requests
    registered,   \* external: the session keys II honours
    delivered,    \* history: connects whose code a redeem response carried
    minted,       \* history: codes reserved per connect
    issued,       \* history: tokens issued per connect
    lag           \* history: how long each token's handler waited between
                  \* reading the clock and stamping the token

oauthVars == <<authorizing, authz, codes, tokens, redeem, exchange, registered,
               delivered, minted, issued, lag>>
vars == <<sessionVars, now, oauthVars>>

NoConnect == [created |-> Absent, redeeming |-> FALSE, code |-> FALSE]
Connects  == [created : Nat \cup {Absent}, redeeming : BOOLEAN, code : BOOLEAN]

RedeemSteps == {"new", "claim", "ensure", "read", "calling", "landed", "grant",
                "record", "permit", "level", "mint", "insert", "release", "done"}
Attempts == [pc : RedeemSteps, sid : Sid \cup {Nil}, key : Nat, exp : Nat]
ExchangeSteps == {"new", "taken", "issue", "read", "store", "done"}
Exchanges == [pc : ExchangeSteps, sid : Sid \cup {Nil},
              at : Nat,                       \* when it read the clock
              grant : Nat \cup {Unknown}]     \* the grant it read
RedeemAt(pc) == [pc |-> pc, sid |-> Nil, key |-> 0, exp |-> 0]
ExchangeAt(pc) == [pc |-> pc, sid |-> Nil, at |-> 0, grant |-> Unknown]
(* The steps of an attempt that has claimed its connect and not settled it. *)
Attempting == {"ensure", "read", "calling", "landed", "grant", "record",
               "permit", "level", "mint", "release"}
(* The steps of an exchange that has taken its code.                        *)
Exchanging == {"taken", "issue", "read", "store"}

TypeOK ==
    /\ SessionsTypeOK
    /\ authorizing \in [Sid -> {"new", "key", "pending", "started", "ended"}]
    /\ authz \in [Sid -> Connects]
    /\ codes \in [Sid -> Nat \cup {Absent}]
    /\ tokens \in [Sid -> Nat \cup {Absent}]
    /\ redeem \in [Redeem -> Attempts]
    /\ exchange \in [Exchange -> Exchanges]
    /\ registered \in SUBSET (Sid \X Nat)
    /\ delivered \in SUBSET Sid
    /\ minted \in [Sid -> Nat] /\ issued \in [Sid -> Nat]
    /\ lag \in [Sid -> Nat \cup {Unknown}]

Init ==
    /\ SessionsInit
    /\ authorizing = [s \in Sid |-> "new"]
    /\ authz = [s \in Sid |-> NoConnect]
    /\ codes = [s \in Sid |-> Absent] /\ tokens = [s \in Sid |-> Absent]
    /\ redeem = [p \in Redeem |-> RedeemAt("new")]
    /\ exchange = [e \in Exchange |-> ExchangeAt("new")]
    /\ registered = {} /\ delivered = {}
    /\ minted = [s \in Sid |-> 0] /\ issued = [s \in Sid |-> 0]
    /\ lag = [s \in Sid |-> Unknown]

-----------------------------------------------------------------------------
Min2(a, b) == IF a <= b THEN a ELSE b

(* make_room over one of the maps of self-expiring entries: below the cap    *)
(* nothing goes; else what has expired, then what ends soonest, to cap - 1. *)
Kept(present, ends, cap, kept) ==
    LET alive == {s \in present : ends[s] > now}
    IN  IF Cardinality(present) < cap THEN kept = present
        ELSE /\ kept \subseteq alive
             /\ Cardinality(kept) = Min2(Cardinality(alive), cap - 1)
             /\ \A k \in kept, v \in alive \ kept : ends[v] <= ends[k]

Connecting    == {s \in Sid : authz[s].created # Absent}
ConnectEnds   == [s \in Sid |-> authz[s].created + ConnectTTL]
Redeemable(s) == s \in Connecting /\ ConnectEnds[s] > now
CodesHeld     == {s \in Sid : codes[s] # Absent}
CodeEnds      == [s \in Sid |-> codes[s] + CodeTTL]
TokensHeld    == {s \in Sid : tokens[s] # Absent}
TokenValid(s) == s \in TokensHeld /\ tokens[s] > now

-----------------------------------------------------------------------------
(* GET /oauth/authorize, for a request that passed every check. *)
AuthorizeGoes(s, from, to) ==
    authorizing[s] = from /\ authorizing' = [authorizing EXCEPT ![s] = to]

restOfAuthorize == <<codes, tokens, redeem, exchange, registered, delivered,
                     minted, issued, lag, now>>

AuthorizeEnsure(s) ==
    /\ \E ok \in BOOLEAN :
          /\ AuthorizeGoes(s, "new", IF ok THEN "key" ELSE "ended")
          /\ EnsureSession(s, ok)
    /\ UNCHANGED <<authz, restOfAuthorize>>

AuthorizeMintKey(s) ==
    /\ AuthorizeGoes(s, "key", IF s \in Held THEN "pending" ELSE "ended")
    /\ IF s \in Held THEN MintRegistrationKey(s) ELSE UNCHANGED sessionVars
    /\ UNCHANGED <<authz, restOfAuthorize>>

InsertPending(s) ==
    /\ AuthorizeGoes(s, "pending", "started")
    /\ \E kept \in SUBSET Connecting :
          /\ Kept(Connecting, ConnectEnds, MaxPending, kept)
          /\ authz' = [r \in Sid |->
                IF r = s THEN [created |-> now, redeeming |-> FALSE, code |-> FALSE]
                ELSE IF r \in kept THEN authz[r] ELSE NoConnect]
    /\ UNCHANGED <<sessionVars, restOfAuthorize>>

-----------------------------------------------------------------------------
(* POST /oauth/connect/redeem.  At(p) is the connect the request names. *)
At(p) == redeem[p].sid
RedeemGoes(p, from, to) ==
    redeem[p].pc = from /\ redeem' = [redeem EXCEPT ![p].pc = to]
RedeemEnds(p, from) ==
    redeem[p].pc = from /\ redeem' = [redeem EXCEPT ![p] = RedeemAt("done")]

restOfRedeem == <<authorizing, codes, tokens, exchange, minted, issued, lag, now>>

(* The snapshot: an unknown or expired connect, the wrong browser or an      *)
(* unreadable delegation end the request, an existing code answers it.      *)
RedeemSnapshot(p, s) ==
    /\ redeem[p].pc = "new"
    /\ authorizing[s] = "started"     \* II sends back only a link it was given
    /\ Redeemable(s)
    /\ IF authz[s].code
       THEN RedeemEnds(p, "new") /\ delivered' = delivered \cup {s}
       ELSE /\ redeem' = [redeem EXCEPT ![p].pc = "claim", ![p].sid = s]
            /\ UNCHANGED delivered
    /\ UNCHANGED <<sessionVars, authz, registered, restOfRedeem>>

(* claim_redemption. *)
\* mutant
ClaimUnguarded(p) ==
    /\ At(p) \in Connecting
    /\ RedeemGoes(p, "claim", "ensure")
    /\ authz' = [authz EXCEPT ![At(p)].redeeming = TRUE]
    /\ UNCHANGED <<sessionVars, delivered, registered, restOfRedeem>>

ClaimRedemption(p) ==
    /\ redeem[p].pc = "claim"
    /\ IF At(p) \in Connecting /\ ~authz[At(p)].code /\ ~authz[At(p)].redeeming
       THEN /\ RedeemGoes(p, "claim", "ensure")
            /\ authz' = [authz EXCEPT ![At(p)].redeeming = TRUE]
       ELSE RedeemEnds(p, "claim") /\ UNCHANGED authz
    /\ delivered' = IF authz[At(p)].code THEN delivered \cup {At(p)} ELSE delivered
    /\ UNCHANGED <<sessionVars, registered, restOfRedeem>>

(* redeem_registration_delegation: ensure_session, *)
RedeemEnsure(p) ==
    /\ \E ok \in BOOLEAN :
          /\ RedeemGoes(p, "ensure", IF ok THEN "read" ELSE "release")
          /\ EnsureSession(At(p), ok)
    /\ UNCHANGED <<authz, delivered, registered, restOfRedeem>>

(* read priv(X) and pub(S) under the read lock, and send mcp_register_v2,   *)
ReadKeys(p) ==
    /\ redeem[p].pc = "read"
    /\ IF At(p) \in Held /\ sessions[At(p)].x
       THEN redeem' = [redeem EXCEPT ![p].pc = "calling", ![p].key = sessions[At(p)].key]
       ELSE RedeemGoes(p, "read", "release")
    /\ UNCHANGED <<sessionVars, authz, delivered, registered, restOfRedeem>>

(* II binds S to the anchor and decides when the grant ends,                *)
Register(p) ==
    /\ redeem[p].pc = "calling"
    /\ redeem' = [redeem EXCEPT ![p].pc = "landed", ![p].key = 0, ![p].exp = now + GrantTTL]
    /\ registered' = registered \cup {<<At(p), redeem[p].key>>}
    /\ UNCHANGED <<sessionVars, authz, delivered, restOfRedeem>>

(* its reply arrives,                                                       *)
RegisterAnswered(p) ==
    /\ RedeemGoes(p, "landed", "grant")
    /\ UNCHANGED <<sessionVars, authz, delivered, registered, restOfRedeem>>

(* or an error does: the chain did not verify, II refused, or the answer    *)
(* was lost, in which case II may have registered S all the same.           *)
RegisterFailed(p) ==
    /\ redeem[p].pc \in {"calling", "landed"}
    /\ redeem' = [redeem EXCEPT ![p] = [RedeemAt("release") EXCEPT !.sid = At(p)]]
    /\ UNCHANGED <<sessionVars, authz, delivered, registered, restOfRedeem>>

(* set_grant_expiration: ensure_session; a refusal is logged and passed by, *)
GrantEnsure(p) ==
    /\ \E ok \in BOOLEAN :
          /\ RedeemGoes(p, "grant", IF ok THEN "record" ELSE "permit")
          /\ EnsureSession(At(p), ok)
    /\ UNCHANGED <<authz, delivered, registered, restOfRedeem>>

GrantRecord(p) ==
    /\ redeem[p].pc = "record"
    /\ redeem' = [redeem EXCEPT ![p].pc = "permit", ![p].exp = 0]
    /\ RecordGrant(At(p), redeem[p].exp)
    /\ UNCHANGED <<authz, delivered, registered, restOfRedeem>>

(* set_permissions: the same, for the access level.                         *)
PermitEnsure(p) ==
    /\ \E ok \in BOOLEAN :
          /\ RedeemGoes(p, "permit", IF ok THEN "level" ELSE "mint")
          /\ EnsureSession(At(p), ok)
    /\ UNCHANGED <<authz, delivered, registered, restOfRedeem>>

PermitRecord(p) ==
    /\ RedeemGoes(p, "level", "mint")
    /\ \E level \in Levels : RecordPermissions(At(p), level)
    /\ UNCHANGED <<authz, delivered, registered, restOfRedeem>>

(* Reserve the code under the authz lock; a connect that is gone ends here. *)
MintCode(p) ==
    LET s == At(p) IN
    /\ redeem[p].pc = "mint"
    /\ IF s \notin Connecting \/ authz[s].code
       THEN RedeemEnds(p, "mint") /\ UNCHANGED minted
       ELSE RedeemGoes(p, "mint", "insert") /\ minted' = [minted EXCEPT ![s] = @ + 1]
    /\ IF s \in Connecting
       THEN authz' = [authz EXCEPT ![s].redeeming = FALSE, ![s].code = TRUE]
       ELSE UNCHANGED authz
    /\ delivered' = IF s \in Connecting /\ authz[s].code THEN delivered \cup {s} ELSE delivered
    /\ UNCHANGED <<sessionVars, registered, authorizing, codes, tokens, exchange,
                   issued, lag, now>>

(* Store the code under the codes lock, and answer. *)
InsertCode(p) ==
    LET s == At(p) IN
    /\ RedeemEnds(p, "insert")
    /\ \E kept \in SUBSET CodesHeld :
          /\ Kept(CodesHeld, CodeEnds, MaxCodes, kept)
          /\ codes' = [r \in Sid |-> IF r = s THEN now
                                     ELSE IF r \in kept THEN codes[r] ELSE Absent]
    /\ delivered' = delivered \cup {s}
    /\ UNCHANGED <<sessionVars, authz, registered, authorizing, tokens, exchange,
                   minted, issued, lag, now>>

(* release_redemption. *)
\* mutant
ReleaseNothing(p) ==
    /\ RedeemEnds(p, "release")
    /\ UNCHANGED <<sessionVars, authz, delivered, registered, restOfRedeem>>

ReleaseRedemption(p) ==
    /\ RedeemEnds(p, "release")
    /\ authz' = IF At(p) \in Connecting
                THEN [authz EXCEPT ![At(p)].redeeming = FALSE] ELSE authz
    /\ UNCHANGED <<sessionVars, delivered, registered, restOfRedeem>>

-----------------------------------------------------------------------------
(* POST /oauth/token. *)
ExchangeEnds(e, from) ==
    exchange[e].pc = from /\ exchange' = [exchange EXCEPT ![e] = ExchangeAt("done")]

restOfExchange == <<authorizing, redeem, registered, delivered, minted, now>>

ExchangeTakes(e, s) ==
    /\ exchange[e].pc = "new"
    /\ exchange' = [exchange EXCEPT ![e].pc = "taken", ![e].sid = s]

(* The code leaves the map before anything is checked: a request with the   *)
(* wrong client_id or verifier burns it, and so does a code that is late.   *)
\* mutant
PeekCode(e, s, verified) ==
    /\ s \in delivered \cap CodesHeld
    /\ IF CodeEnds[s] > now /\ verified
       THEN ExchangeTakes(e, s) ELSE ExchangeEnds(e, "new")
    /\ UNCHANGED <<sessionVars, authz, codes, tokens, issued, lag, restOfExchange>>

TakeCode(e, s, verified) ==
    /\ s \in delivered \cap CodesHeld
    /\ codes' = [codes EXCEPT ![s] = Absent]
    /\ IF CodeEnds[s] > now /\ verified
       THEN ExchangeTakes(e, s) ELSE ExchangeEnds(e, "new")
    /\ UNCHANGED <<sessionVars, authz, tokens, issued, lag, restOfExchange>>

RemoveConnect(e) ==
    /\ exchange[e].pc = "taken"
    /\ exchange' = [exchange EXCEPT ![e].pc = "issue"]
    /\ authz' = [authz EXCEPT ![exchange[e].sid] = NoConnect]
    /\ UNCHANGED <<sessionVars, codes, tokens, issued, lag, restOfExchange>>

(* issue_token: once it has the session's principal it reads the clock,     *)
ReadClock(e) ==
    /\ exchange[e].pc = "issue"
    /\ exchange' = [exchange EXCEPT ![e].pc = "read", ![e].at = now]
    /\ UNCHANGED <<sessionVars, authz, codes, tokens, issued, lag, restOfExchange>>

(* then, under the sessions lock, the grant of the session,                 *)
ReadGrant(e) ==
    LET s == exchange[e].sid IN
    /\ exchange[e].pc = "read"
    /\ exchange' = [exchange EXCEPT ![e].pc = "store",
                        ![e].grant = IF s \in Held THEN sessions[s].grant ELSE Unknown]
    /\ UNCHANGED <<sessionVars, authz, codes, tokens, issued, lag, restOfExchange>>

(* token_ttl: what was left of the grant when the clock was read, or        *)
(* TokenTTL if none is recorded.                                            *)
\* mutant
TokenLifeUncapped(grant, at) == TokenTTL

TokenLife(grant, at) ==
    IF grant = Unknown THEN TokenTTL ELSE IF grant > at THEN grant - at ELSE 0

(* and under the tokens lock the token is stamped with the clock of now.    *)
InsertToken(e) ==
    LET s == exchange[e].sid  at == exchange[e].at  grant == exchange[e].grant IN
    /\ ExchangeEnds(e, "store")
    /\ \E kept \in SUBSET TokensHeld :
          /\ Kept(TokensHeld, tokens, MaxTokens, kept)
          /\ tokens' = [r \in Sid |-> IF r = s THEN now + TokenLife(grant, at)
                                      ELSE IF r \in kept THEN tokens[r] ELSE Absent]
    /\ issued' = [issued EXCEPT ![s] = @ + 1]
    /\ lag' = [lag EXCEPT ![s] = IF grant = Unknown THEN Unknown ELSE now - at]
    /\ UNCHANGED <<sessionVars, authz, codes, restOfExchange>>

-----------------------------------------------------------------------------
(* A request with a valid token: session_signer ensures its session.  (The   *)
(* activity stamp it refreshes feeds a gauge only.)                         *)
UseToken(s) ==
    /\ TokenValid(s)
    /\ \E ok \in BOOLEAN : EnsureSession(s, ok)
    /\ UNCHANGED <<oauthVars, now>>

(* The reaper's sweeps, one lock each; every 60 seconds, never in a hurry.  *)
SweepSessions == ReapSessions /\ UNCHANGED <<oauthVars, now>>

SweepOauth ==
    /\ authz' = [s \in Sid |-> IF Redeemable(s) THEN authz[s] ELSE NoConnect]
    /\ codes' = [s \in Sid |-> IF s \in CodesHeld /\ CodeEnds[s] > now THEN codes[s] ELSE Absent]
    /\ tokens' = [s \in Sid |-> IF TokenValid(s) THEN tokens[s] ELSE Absent]
    /\ UNCHANGED <<sessionVars, now, authorizing, redeem, exchange, registered,
                   delivered, minted, issued, lag>>

(* A handler's future is dropped where it awaits. *)
DropRedeem(p) ==
    /\ Drops /\ redeem[p].pc \notin {"new", "done"}
    /\ redeem' = [redeem EXCEPT ![p] = [RedeemAt("done") EXCEPT !.sid = At(p)]]
    /\ UNCHANGED <<sessionVars, authz, delivered, registered, restOfRedeem>>

DropExchange(e) ==
    /\ Drops /\ exchange[e].pc \in Exchanging
    /\ ExchangeEnds(e, exchange[e].pc)
    /\ UNCHANGED <<sessionVars, authz, codes, tokens, issued, lag, restOfExchange>>

DropAuthorize(s) ==
    /\ Drops /\ authorizing[s] \in {"key", "pending"}
    /\ authorizing' = [authorizing EXCEPT ![s] = "ended"]
    /\ UNCHANGED <<sessionVars, authz, restOfAuthorize>>

(* Time passes, but not past the end of a grant that II has handed out and  *)
(* a live handler is about to record: the shortest grant is ten minutes,    *)
(* and the agent gives up on a call long before that.  Nor inside authorize, *)
(* which waits for nothing but locks between its session and its connect.   *)
Tick ==
    /\ now < MaxTime
    /\ \A s \in Sid : authorizing[s] \notin {"key", "pending"}
    /\ \A p \in Redeem : redeem[p].pc \in {"landed", "grant", "record"}
                            => now + 1 < redeem[p].exp
    /\ now' = now + 1
    /\ UNCHANGED <<sessionVars, oauthVars>>

AuthorizeStep(s) == AuthorizeEnsure(s) \/ AuthorizeMintKey(s) \/ InsertPending(s)

RedeemStep(p) ==
    \/ ClaimRedemption(p) \/ RedeemEnsure(p) \/ ReadKeys(p)
    \/ RegisterAnswered(p) \/ RegisterFailed(p)
    \/ GrantEnsure(p) \/ GrantRecord(p) \/ PermitEnsure(p) \/ PermitRecord(p)
    \/ MintCode(p) \/ InsertCode(p) \/ ReleaseRedemption(p)

ExchangeStep(e) == RemoveConnect(e) \/ ReadClock(e) \/ ReadGrant(e) \/ InsertToken(e)

Next ==
    \/ \E s \in Sid : AuthorizeStep(s) \/ DropAuthorize(s) \/ UseToken(s)
    \/ \E p \in Redeem : RedeemStep(p) \/ Register(p) \/ DropRedeem(p)
    \/ \E p \in Redeem, s \in Sid : RedeemSnapshot(p, s)
    \/ \E e \in Exchange : ExchangeStep(e) \/ DropExchange(e)
    \/ \E e \in Exchange, s \in Sid, verified \in BOOLEAN : TakeCode(e, s, verified)
    \/ SweepSessions \/ SweepOauth \/ Tick

Spec == Init /\ [][Next]_vars

(* A redeem handler is polled until it ends: the locks it takes are released *)
(* and the agent's call returns, with an answer or an error.                *)
FairSpec == Spec /\ \A p \in Redeem : WF_vars(RedeemStep(p))

-----------------------------------------------------------------------------
(* claim_redemption: "a concurrent double-submit can't fire a second one".  *)
(* Two redeem requests are never both between claiming and settling the     *)
(* same connect, even after the connect itself was evicted.                 *)
SingleFlight ==
    \A p, q \in Redeem :
        redeem[p].pc \in Attempting /\ redeem[q].pc \in Attempting /\ At(p) = At(q)
            => p = q

(* token_ttl: "the token expires exactly when the grant does", but for a    *)
(* wait: a token outlives its grant by no more than its handler waited for  *)
(* locks after it had read the clock.  tokens[s] - lag[s] is the end of the *)
(* grant the token was issued on, and until then a session with a grant at  *)
(* least as long and a recorded access level stands behind the token,       *)
(* whatever the reaper, the caps and the other connects did since.  A token *)
(* issued without a recorded grant has no lag and is not meant.             *)
TokenBacked ==
    \A s \in Sid :
        TokenValid(s) /\ lag[s] # Unknown /\ now < tokens[s] - lag[s]
            => /\ s \in Held /\ sessions[s].grant >= tokens[s] - lag[s]
               /\ "unknown" \notin Levels => sessions[s].read_only # "unknown"

(* "A live grant is never evicted to make room": a session with a grant     *)
(* that has not ended keeps its place, its key and its grant's length.      *)
LiveGrantKept ==
    [][\A s \in Live : /\ s \in Held'
                       /\ sessions'[s].key = sessions[s].key
                       /\ sessions'[s].grant >= sessions[s].grant]_vars

(* The reaper never strands a connect: as long as it can be redeemed, its   *)
(* session goes only when a new session needs the room.                     *)
StrandedOnlyAtCap ==
    [][\A s \in Sid : Redeemable(s) /\ s \in Held /\ s \notin Held' => keys' # keys]_vars

(* make_room: a session closed to make room for another leaves no "session  *)
(* opened" line without its pair.  The log has one more opened than closed  *)
(* for the sessions that hold a grant, and is even for all others, although *)
(* a refused ensure_session drops the list of what it closed.               *)
JournalPaired ==
    \A s \in Sid : journal[s] = IF s \in Granted THEN 1 ELSE 0

(* A code is minted once per connect, only after consent, and buys at most  *)
(* one token: Connect implements OneShotCode.                               *)
Taken(s)    == \E e \in Exchange : exchange[e].sid = s
Reserved(s) == \E p \in Redeem : redeem[p].pc = "insert" /\ At(p) = s

Phase(s) ==
    IF s \in CodesHeld THEN "live"
    ELSE IF Taken(s) THEN "taken"
    ELSE IF issued[s] > 0 THEN "token"
    ELSE IF Reserved(s) THEN "reserved"
    ELSE IF minted[s] > 0 THEN "dead" ELSE "none"

Codes == INSTANCE OneShotCode
    WITH Connection <- Sid, consented <- {r[1] : r \in registered},
         phase <- [s \in Sid |-> Phase(s)], issues <- issued

ImplementsOneShotCode == Codes!Spec

(* A claimed connect is settled: a page that lost a race or met an error    *)
(* can be retried, unless a handler of that very connect was dropped.       *)
ClaimSettles ==
    \A s \in Sid : authz[s].redeeming
        ~> \/ ~authz[s].redeeming
           \/ \E p \in Redeem : redeem[p].pc = "done" /\ At(p) = s

-----------------------------------------------------------------------------
(* What comments in the code say, and the code does not keep.               *)

(* Session.key_seed: "bound to the anchor by mcp_register_v2": a session    *)
(* that records a grant holds the key II granted it to.                     *)
GrantedKeyRegistered ==
    \A s \in Granted : <<s, sessions[s].key>> \in registered
=============================================================================
