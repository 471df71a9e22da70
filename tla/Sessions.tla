------------------------------ MODULE Sessions ------------------------------
(***************************************************************************)
(* The map of Internet Identity sessions of one server instance            *)
(* (src/crates/imcp2-core/src/identities.rs).  A session is keyed by the   *)
(* connect's session id and holds the session key S that mcp_register_v2   *)
(* binds to the user's anchor, the registration key X of the connect, and  *)
(* the grant II answered with.  Every operator below is what one critical  *)
(* section of the map's lock does; Connect composes them with the OAuth    *)
(* handlers that call them.                                                *)
(*                                                                         *)
(* The n-th key pair generated for a session id is its key n: a session    *)
(* that is evicted and created again has the next one.                     *)
(***************************************************************************)
EXTENDS FiniteSets, Integers

CONSTANTS
    Sid,         \* the session ids authorize may mint
    Nil,         \* no session, or no session id
    MaxPending,  \* MAX_PENDING_CONNECTS
    MaxSessions, \* MAX_SESSIONS
    PendingTTL   \* PENDING_CONNECT_TTL_NS

VARIABLES
    sessions,
    now,
    keys,        \* history: how many session keys were generated per id
    journal      \* history: "session opened" minus "session closed" lines, per id

Unknown == -1    \* grant_expiration_ns: None

Session == [key : Nat \ {0}, created : Nat, x : BOOLEAN,
            grant : Nat \cup {Unknown}, read_only : {"unknown", "yes", "no"}]

ASSUME SessionsAssumption ==
    /\ IsFiniteSet(Sid) /\ Nil \notin Session \cup Sid
    /\ MaxPending \in Nat \ {0} /\ MaxSessions \in Nat
    /\ MaxPending <= MaxSessions /\ PendingTTL \in Nat

SessionsTypeOK ==
    /\ sessions \in [Sid -> Session \cup {Nil}]
    /\ now \in Nat
    /\ keys \in [Sid -> Nat] /\ journal \in [Sid -> Int]

SessionsInit ==
    /\ sessions = [s \in Sid |-> Nil] /\ now = 0
    /\ keys = [s \in Sid |-> 0] /\ journal = [s \in Sid |-> 0]

sessionVars == <<sessions, keys, journal>>

Held        == {s \in Sid : sessions[s] # Nil}
Granted     == {s \in Held : sessions[s].grant # Unknown}
Live        == {s \in Granted : sessions[s].grant > now}
Expired     == Granted \ Live
Abandoned   == {s \in Held \ Granted : now - sessions[s].created >= PendingTTL}

-----------------------------------------------------------------------------
(* make_room.  Below the pending cap nothing is scanned.  Otherwise what    *)
(* prune_stale finds goes (grants past their end, connects abandoned), and  *)
(* then the oldest pending connects down to one below their cap.            *)
Pending == Held \ (Granted \cup Abandoned)

\* mutant
MakeRoomIncludingGrants(evicted) ==
    IF Cardinality(Held) < MaxPending THEN evicted = {}
    ELSE \E victims \in SUBSET Held :
            /\ Cardinality(victims) = 1 /\ evicted = victims
            /\ \A v \in victims, k \in Held : sessions[v].created <= sessions[k].created

MakeRoom(evicted) ==
    IF Cardinality(Held) < MaxPending THEN evicted = {}
    ELSE \E victims \in SUBSET Pending :
            /\ evicted = Expired \cup Abandoned \cup victims
            /\ Cardinality(victims) = IF Cardinality(Pending) < MaxPending THEN 0
                                      ELSE Cardinality(Pending) + 1 - MaxPending
            /\ \A v \in victims, k \in Pending \ victims :
                  sessions[v].created <= sessions[k].created

(* One "session closed" line for each of ids. *)
Closing(ids) == [s \in Sid |-> IF s \in ids THEN journal[s] - 1 ELSE journal[s]]

NewSession(s) ==
    [key |-> keys[s] + 1, created |-> now, x |-> FALSE, grant |-> Unknown,
     read_only |-> "unknown"]

\* mutant
EnsureSessionUnlogged(s, ok) ==
    IF s \in Held THEN ok /\ UNCHANGED sessionVars
    ELSE \E evicted \in SUBSET Held :
        /\ MakeRoom(evicted)
        /\ ok = (Cardinality(Held \ evicted) < MaxSessions)
        /\ sessions' = [r \in Sid |-> IF r \in evicted THEN Nil
                                      ELSE IF r = s /\ ok THEN NewSession(s)
                                      ELSE sessions[r]]
        /\ keys' = IF ok THEN [keys EXCEPT ![s] = @ + 1] ELSE keys
        /\ UNCHANGED journal

(* ensure_session: an existing session is left as it is; otherwise room is  *)
(* made, and the session is created unless the map is still at MaxSessions. *)
(* What was evicted stays evicted when the new session is refused, but the  *)
(* "session closed" lines of a refused call are lost with its error;        *)
(* JournalPaired says that there are none to lose.                          *)
EnsureSession(s, ok) ==
    IF s \in Held THEN ok /\ UNCHANGED sessionVars
    ELSE \E evicted \in SUBSET Held :
        /\ MakeRoom(evicted)
        /\ ok = (Cardinality(Held \ evicted) < MaxSessions)
        /\ sessions' = [r \in Sid |-> IF r \in evicted THEN Nil
                                      ELSE IF r = s /\ ok THEN NewSession(s)
                                      ELSE sessions[r]]
        /\ keys' = IF ok THEN [keys EXCEPT ![s] = @ + 1] ELSE keys
        /\ journal' = IF ok THEN Closing(evicted \cap Expired) ELSE journal

(* registration_pubkey_b64, after ensure_session: mint X unless it exists.  *)
MintRegistrationKey(s) ==
    /\ s \in Held
    /\ sessions' = [sessions EXCEPT ![s].x = TRUE]
    /\ UNCHANGED <<keys, journal>>

(* set_grant_expiration, after ensure_session. *)
RecordGrant(s, expiration) ==
    IF s \notin Held THEN UNCHANGED sessionVars
    ELSE /\ sessions' = [sessions EXCEPT ![s].grant = expiration]
         /\ journal' = IF s \notin Live /\ expiration > now
                       THEN [journal EXCEPT ![s] = @ + 1] ELSE journal
         /\ UNCHANGED keys

(* set_permissions, after ensure_session; level "unknown" is an unrecognised *)
(* reply, which records nothing.                                            *)
RecordPermissions(s, level) ==
    IF s \notin Held \/ level = "unknown" THEN UNCHANGED sessionVars
    ELSE /\ sessions' = [sessions EXCEPT ![s].read_only = level]
         /\ UNCHANGED <<keys, journal>>

(* reap_expired_sessions: prune_stale, then one line per closed session. *)
\* mutant
ReapPendingEarly ==
    /\ sessions' = [s \in Sid |-> IF s \in Expired \cup {p \in Pending : now > sessions[p].created}
                                  THEN Nil ELSE sessions[s]]
    /\ journal' = Closing(Expired)
    /\ UNCHANGED keys

ReapSessions ==
    /\ sessions' = [s \in Sid |-> IF s \in Expired \cup Abandoned
                                  THEN Nil ELSE sessions[s]]
    /\ journal' = Closing(Expired)
    /\ UNCHANGED keys
=============================================================================
