--------------------------- MODULE ConnectProofs ---------------------------
(***************************************************************************)
(* Proofs about Connect, for any sets of session ids and requests, any     *)
(* caps and any lifetimes that the assumptions allow.                      *)
(*                                                                         *)
(* Six invariants, each resting on the ones before it:                     *)
(*   Flight   a connect is claimed by one attempt at a time, and no        *)
(*            attempt is under way once a code was minted for it           *)
(*   Once     a grant is recorded once per connect, before its code        *)
(*   Backing  a token has the grant, and the access level, it was issued on, *)
(*            and so has a token that is still to be stored                 *)
(*   Books    the session map keeps its cap, and its log is paired         *)
(*   Lasting  a session is no older than its connect, and a grant outlives *)
(*            the connect it was asked for in                              *)
(*   OneShot  a code is held in one place at a time, and paid out once     *)
(***************************************************************************)
EXTENDS Connect, FiniteSetTheorems, TLAPS

-----------------------------------------------------------------------------
(* The operators of the session map.                                        *)

(* Nil is neither a session nor a session id.                               *)
LEMMA NilIsNot == Nil \notin Session /\ Nil \notin Sid
BY SessionsAssumption

(* A created session is a session without a grant.                          *)
LEMMA NewSessionType ==
    ASSUME SessionsTypeOK, NEW s \in Sid
    PROVE  NewSession(s) \in Session /\ NewSession(s).grant = Unknown
BY DEF SessionsTypeOK, NewSession, Session, Unknown

(* make_room spares every session whose grant has not ended.                *)
LEMMA MakeRoomSparesLive ==
    ASSUME NEW evicted \in SUBSET Held, MakeRoom(evicted)
    PROVE  evicted \cap Live = {}
BY DEF MakeRoom, Expired, Abandoned, Pending, Granted, Live

(* What ensure_session may do to the map: live sessions stay as they are,   *)
(* no grant appears, and its refusal means that there is no session.        *)
LEMMA EnsureStep ==
    ASSUME SessionsTypeOK, now' = now, NEW s \in Sid, NEW ok \in BOOLEAN,
           EnsureSession(s, ok)
    PROVE  /\ SessionsTypeOK'
           /\ \A r \in Live : r \in Live' /\ sessions'[r] = sessions[r]
           /\ \A r \in Granted' : r \in Granted /\ sessions'[r] = sessions[r]
           /\ ~ok => s \notin Granted'
<1>1. CASE s \in Held
  BY <1>1 DEF EnsureSession, SessionsTypeOK, sessionVars, Live, Granted, Held
<1>2. CASE s \notin Held
  <2>1. PICK evicted \in SUBSET Held :
          /\ MakeRoom(evicted)
          /\ sessions' = [r \in Sid |-> IF r \in evicted THEN Nil
                                        ELSE IF r = s /\ ok THEN NewSession(s)
                                        ELSE sessions[r]]
          /\ keys' = IF ok THEN [keys EXCEPT ![s] = @ + 1] ELSE keys
          /\ journal' = IF ok THEN Closing(evicted \cap Expired) ELSE journal
    BY <1>2 DEF EnsureSession
  <2>2. evicted \cap Live = {}
    BY <2>1, MakeRoomSparesLive
  <2>3. s \notin evicted /\ sessions[s] = Nil
    BY <1>2 DEF Held
  <2>4. sessions' \in [Sid -> Session \cup {Nil}]
    BY <2>1, NewSessionType DEF SessionsTypeOK
  <2>5. keys' \in [Sid -> Nat] /\ journal' \in [Sid -> Int]
    BY <2>1 DEF SessionsTypeOK, Closing
  <2>6. \A r \in Granted' : r \in Granted /\ sessions'[r] = sessions[r]
    BY <2>1, <2>3, NewSessionType DEF Granted, Held, SessionsTypeOK
  <2>7. \A r \in Live : r \in Live' /\ sessions'[r] = sessions[r]
    BY <2>1, <2>2, <2>3 DEF Live, Granted, Held
  <2>8. ~ok => s \notin Granted'
    BY <2>1, <2>3 DEF Granted, Held
  <2> QED
    BY <2>4, <2>5, <2>6, <2>7, <2>8 DEF SessionsTypeOK
<1> QED
  BY <1>1, <1>2

(* reap_expired_sessions takes no live session either.                      *)
LEMMA ReapStep ==
    ASSUME SessionsTypeOK, now' = now, ReapSessions
    PROVE  /\ SessionsTypeOK'
           /\ \A r \in Live : r \in Live' /\ sessions'[r] = sessions[r]
           /\ \A r \in Granted' : r \in Granted /\ sessions'[r] = sessions[r]
<1>1. SessionsTypeOK'
  BY DEF ReapSessions, SessionsTypeOK, Closing
<1>2. \A r \in Live : r \in Live' /\ sessions'[r] = sessions[r]
  BY DEF ReapSessions, Live, Granted, Held, Expired, Abandoned
<1>3. \A r \in Granted' : r \in Granted /\ sessions'[r] = sessions[r]
  BY DEF ReapSessions, Granted, Held
<1> QED
  BY <1>1, <1>2, <1>3

(* set_grant_expiration and set_permissions write one field.                *)
LEMMA RecordTypes ==
    ASSUME SessionsTypeOK, now' = now, NEW s \in Sid,
           \/ MintRegistrationKey(s)
           \/ \E expiration \in Nat : RecordGrant(s, expiration)
           \/ \E level \in Levels : RecordPermissions(s, level)
    PROVE  SessionsTypeOK'
<1>1. s \in Held => sessions[s] \in Session
  BY DEF SessionsTypeOK, Held
<1>2. CASE MintRegistrationKey(s)
  BY <1>1, <1>2 DEF MintRegistrationKey, SessionsTypeOK, Session
<1>3. CASE \E expiration \in Nat : RecordGrant(s, expiration)
  BY <1>1, <1>3 DEF RecordGrant, SessionsTypeOK, Session, sessionVars
<1>4. CASE \E level \in Levels : RecordPermissions(s, level)
  BY <1>1, <1>4, ConnectAssumption DEF RecordPermissions, SessionsTypeOK, Session, sessionVars
<1> QED
  BY <1>2, <1>3, <1>4

-----------------------------------------------------------------------------
(* Every reachable state is well typed.                                     *)

(* Requests name connects, and a redeem request names only one whose         *)
(* authorize handler is through: nothing is inserted under a running attempt. *)
NamedIsStarted ==
    /\ \A p \in Redeem : redeem[p].pc \notin {"new", "done"}
          => At(p) \in Sid /\ authorizing[At(p)] = "started"
    /\ \A e \in Exchange : exchange[e].pc \in Exchanging => exchange[e].sid \in Sid

(* A token request read the clock in the past.                              *)
ClockRead == \A e \in Exchange : exchange[e].at <= now

(* A step changes the oauth variables within their types, group by group:   *)
(* the handlers' places, the maps of the OAuth store, the histories.        *)
PlacesTypeOK ==
    /\ authorizing \in [Sid -> {"new", "key", "pending", "started", "ended"}]
    /\ redeem \in [Redeem -> Attempts]
    /\ exchange \in [Exchange -> Exchanges]
MapsTypeOK ==
    /\ authz \in [Sid -> Connects]
    /\ codes \in [Sid -> Nat \cup {Absent}]
    /\ tokens \in [Sid -> Nat \cup {Absent}]
HistoriesTypeOK ==
    /\ registered \in SUBSET (Sid \X Nat)
    /\ delivered \in SUBSET Sid
    /\ minted \in [Sid -> Nat] /\ issued \in [Sid -> Nat]
    /\ lag \in [Sid -> Nat \cup {Unknown}]

(* Authorize requests and tool calls keep the types.                        *)
LEMMA AuthorizeTypes ==
    ASSUME TypeOK, NEW s \in Sid,
           AuthorizeStep(s) \/ DropAuthorize(s) \/ UseToken(s)
    PROVE  TypeOK'
<1> USE DEF PlacesTypeOK, MapsTypeOK, HistoriesTypeOK, AuthorizeGoes, restOfAuthorize, oauthVars
<1>0. SessionsTypeOK /\ PlacesTypeOK /\ MapsTypeOK /\ HistoriesTypeOK
  BY DEF TypeOK
<1>1. CASE AuthorizeEnsure(s)
  <2>1. SessionsTypeOK'
    BY <1>0, <1>1, EnsureStep DEF AuthorizeEnsure
  <2>2. (PlacesTypeOK /\ MapsTypeOK /\ HistoriesTypeOK)'
    BY <1>0, <1>1 DEF AuthorizeEnsure
  <2> QED
    BY <2>1, <2>2 DEF TypeOK
<1>2. CASE AuthorizeMintKey(s)
  <2>1. SessionsTypeOK'
    BY <1>0, <1>2, RecordTypes DEF AuthorizeMintKey, SessionsTypeOK, sessionVars
  <2>2. (PlacesTypeOK /\ MapsTypeOK /\ HistoriesTypeOK)'
    BY <1>0, <1>2 DEF AuthorizeMintKey
  <2> QED
    BY <2>1, <2>2 DEF TypeOK
<1>3. CASE InsertPending(s)
  <2>1. SessionsTypeOK' /\ PlacesTypeOK' /\ HistoriesTypeOK'
    BY <1>0, <1>3 DEF InsertPending, SessionsTypeOK, sessionVars
  <2>2. authz' \in [Sid -> Connects]
    BY <1>0, <1>3 DEF InsertPending, NoConnect, Connects, SessionsTypeOK
  <2> QED
    BY <1>0, <1>3, <2>1, <2>2 DEF InsertPending, TypeOK
<1>4. CASE DropAuthorize(s)
  <2>1. (SessionsTypeOK /\ PlacesTypeOK /\ MapsTypeOK /\ HistoriesTypeOK)'
    BY <1>0, <1>4 DEF DropAuthorize, SessionsTypeOK, sessionVars
  <2> QED
    BY <2>1 DEF TypeOK
<1>5. CASE UseToken(s)
  <2>1. SessionsTypeOK'
    BY <1>0, <1>5, EnsureStep DEF UseToken
  <2>2. (PlacesTypeOK /\ MapsTypeOK /\ HistoriesTypeOK)'
    BY <1>0, <1>5 DEF UseToken
  <2> QED
    BY <2>1, <2>2 DEF TypeOK
<1> QED
  BY <1>1, <1>2, <1>3, <1>4, <1>5 DEF AuthorizeStep

(* So do redeem requests,                                                   *)
LEMMA RedeemTypes ==
    ASSUME TypeOK, NamedIsStarted, NEW p \in Redeem,
           RedeemStep(p) \/ Register(p) \/ DropRedeem(p)
    PROVE  TypeOK'
<1> USE DEF restOfRedeem, RedeemGoes, RedeemEnds, RedeemSteps
<1> DEFINE s == At(p)
<1>0. SessionsTypeOK /\ PlacesTypeOK /\ MapsTypeOK /\ HistoriesTypeOK /\ redeem[p] \in Attempts
  BY DEF TypeOK, PlacesTypeOK, MapsTypeOK, HistoriesTypeOK
<1>1. redeem[p].pc \in RedeemSteps /\ redeem[p].key \in Nat /\ redeem[p].exp \in Nat
  BY <1>0 DEF Attempts
<1>2. s \in Sid
  BY <1>1 DEF NamedIsStarted, RedeemStep, ClaimRedemption, RedeemEnsure, ReadKeys, Register,
     RegisterAnswered, RegisterFailed, GrantEnsure, GrantRecord, PermitEnsure, PermitRecord,
     MintCode, InsertCode, ReleaseRedemption, DropRedeem
<1>3. s \in Held => sessions[s].key \in Nat
  BY <1>0, <1>2 DEF SessionsTypeOK, Held, Session
<1>4. SessionsTypeOK'
  <2>1. CASE RedeemEnsure(p) \/ GrantEnsure(p) \/ PermitEnsure(p)
    BY <1>0, <1>2, <2>1, EnsureStep DEF RedeemEnsure, GrantEnsure, PermitEnsure
  <2>2. CASE GrantRecord(p)
    BY <1>0, <1>1, <1>2, <2>2, RecordTypes DEF GrantRecord
  <2>3. CASE PermitRecord(p)
    BY <1>0, <1>2, <2>3, RecordTypes DEF PermitRecord
  <2>4. CASE UNCHANGED <<sessionVars, now>>
    BY <1>0, <2>4 DEF SessionsTypeOK, sessionVars
  <2> QED
    BY <2>1, <2>2, <2>3, <2>4 DEF RedeemStep, ClaimRedemption, ReadKeys, Register,
       RegisterAnswered, RegisterFailed, MintCode, InsertCode, ReleaseRedemption, DropRedeem
<1>5. redeem' \in [Redeem -> Attempts]
  <2> USE DEF PlacesTypeOK, Attempts, RedeemAt, At
  <2>1. CASE ClaimRedemption(p)
    BY <1>0, <2>1 DEF ClaimRedemption
  <2>2. CASE RedeemEnsure(p)
    BY <1>0, <2>2 DEF RedeemEnsure
  <2>3. CASE ReadKeys(p)
    BY <1>0, <1>3, <2>3 DEF ReadKeys
  <2>4. CASE RegisterAnswered(p)
    BY <1>0, <2>4 DEF RegisterAnswered
  <2>5. CASE RegisterFailed(p)
    BY <1>0, <2>5 DEF RegisterFailed
  <2>6. CASE GrantEnsure(p)
    BY <1>0, <2>6 DEF GrantEnsure
  <2>7. CASE GrantRecord(p)
    BY <1>0, <2>7 DEF GrantRecord
  <2>8. CASE PermitEnsure(p)
    BY <1>0, <2>8 DEF PermitEnsure
  <2>9. CASE PermitRecord(p)
    BY <1>0, <2>9 DEF PermitRecord
  <2>10. CASE MintCode(p)
    BY <1>0, <2>10 DEF MintCode
  <2>11. CASE InsertCode(p)
    BY <1>0, <2>11 DEF InsertCode
  <2>12. CASE ReleaseRedemption(p)
    BY <1>0, <2>12 DEF ReleaseRedemption
  <2>13. CASE Register(p)
    <3>1. now + GrantTTL \in Nat
      BY <1>0, ConnectAssumption DEF SessionsTypeOK
    <3> QED
      BY <1>0, <2>13, <3>1 DEF Register
  <2>14. CASE DropRedeem(p)
    BY <1>0, <2>14 DEF DropRedeem
  <2> QED
    BY <2>1, <2>2, <2>3, <2>4, <2>5, <2>6, <2>7, <2>8, <2>9, <2>10, <2>11, <2>12, <2>13, <2>14
    DEF RedeemStep
<1>6. authz' \in [Sid -> Connects] /\ codes' \in [Sid -> Nat \cup {Absent}]
  <2>1. CASE ClaimRedemption(p) \/ ReleaseRedemption(p) \/ MintCode(p)
    <3> USE DEF MapsTypeOK, Connects
    <3>1. UNCHANGED codes
      BY <2>1 DEF ClaimRedemption, ReleaseRedemption, MintCode
    <3>2. CASE ClaimRedemption(p)
      <4>1. authz' = [authz EXCEPT ![s].redeeming = TRUE] \/ UNCHANGED authz
        BY <3>2 DEF ClaimRedemption
      <4> QED
        BY <1>0, <3>1, <4>1
    <3>3. CASE ReleaseRedemption(p)
      BY <1>0, <3>1, <3>3 DEF ReleaseRedemption
    <3>4. CASE MintCode(p)
      <4>1. authz' = [authz EXCEPT ![s].redeeming = FALSE, ![s].code = TRUE] \/ UNCHANGED authz
        BY <3>4 DEF MintCode
      <4> QED
        BY <1>0, <3>1, <4>1
    <3> QED
      BY <2>1, <3>2, <3>3, <3>4
  <2>2. CASE InsertCode(p)
    BY <1>0, <2>2 DEF InsertCode, MapsTypeOK, SessionsTypeOK
  <2>3. CASE UNCHANGED <<authz, codes>>
    BY <1>0, <2>3 DEF MapsTypeOK
  <2> QED
    BY <2>1, <2>2, <2>3 DEF RedeemStep, RedeemEnsure, ReadKeys, Register, RegisterAnswered,
       RegisterFailed, GrantEnsure, GrantRecord, PermitEnsure, PermitRecord, DropRedeem
<1>7. UNCHANGED <<tokens, authorizing, exchange, issued, lag>>
  BY DEF RedeemStep, ClaimRedemption, RedeemEnsure, ReadKeys, Register, RegisterAnswered,
     RegisterFailed, GrantEnsure, GrantRecord, PermitEnsure, PermitRecord, MintCode,
     InsertCode, ReleaseRedemption, DropRedeem
<1>8. registered' \in SUBSET (Sid \X Nat) /\ delivered' \in SUBSET Sid /\ minted' \in [Sid -> Nat]
  <2>1. CASE Register(p)
    BY <1>0, <1>1, <1>2, <2>1 DEF Register, HistoriesTypeOK
  <2>2. CASE ClaimRedemption(p) \/ InsertCode(p) \/ MintCode(p)
    BY <1>0, <1>2, <2>2 DEF ClaimRedemption, InsertCode, MintCode, HistoriesTypeOK
  <2>3. CASE UNCHANGED <<registered, delivered, minted>>
    BY <1>0, <2>3 DEF HistoriesTypeOK
  <2> QED
    BY <2>1, <2>2, <2>3 DEF RedeemStep, RedeemEnsure, ReadKeys, RegisterAnswered,
       RegisterFailed, GrantEnsure, GrantRecord, PermitEnsure, PermitRecord,
       ReleaseRedemption, DropRedeem
<1> QED
  BY <1>0, <1>4, <1>5, <1>6, <1>7, <1>8
  DEF TypeOK, PlacesTypeOK, MapsTypeOK, HistoriesTypeOK

(* token requests,                                                          *)
LEMMA UpdatedExchange ==
    ASSUME NEW f \in [Exchange -> Exchanges], NEW e \in Exchange,
           NEW x \in Exchanges, NEW s \in Sid, NEW at \in Nat, NEW grant \in Nat \cup {Unknown}
    PROVE  /\ [f EXCEPT ![e] = x] \in [Exchange -> Exchanges]
           /\ [x EXCEPT !.pc = "taken", !.sid = s] \in Exchanges
           /\ [x EXCEPT !.pc = "read", !.at = at] \in Exchanges
           /\ [x EXCEPT !.pc = "store", !.grant = grant] \in Exchanges
<1>1. [f EXCEPT ![e] = x] \in [Exchange -> Exchanges]
  OBVIOUS
<1>2. [x EXCEPT !.pc = "taken", !.sid = s] \in Exchanges
  BY DEF Exchanges, ExchangeSteps
<1>3. [x EXCEPT !.pc = "read", !.at = at] \in Exchanges
  BY DEF Exchanges, ExchangeSteps
<1>4. [x EXCEPT !.pc = "store", !.grant = grant] \in Exchanges
  BY DEF Exchanges, ExchangeSteps
<1> QED
  BY <1>1, <1>2, <1>3, <1>4

LEMMA ExchangeTypes ==
    ASSUME TypeOK, NamedIsStarted, ClockRead, NEW e \in Exchange,
           \/ ExchangeStep(e) \/ DropExchange(e)
           \/ \E s \in Sid, verified \in BOOLEAN : TakeCode(e, s, verified)
    PROVE  TypeOK'
<1> USE DEF restOfExchange, ExchangeTakes, ExchangeEnds, ExchangeAt, ExchangeSteps, Exchanges
<1>0. SessionsTypeOK /\ PlacesTypeOK /\ MapsTypeOK /\ HistoriesTypeOK
  BY DEF TypeOK, PlacesTypeOK, MapsTypeOK, HistoriesTypeOK
<1>1. CASE RemoveConnect(e)
  BY <1>0, <1>1 DEF RemoveConnect, TypeOK, SessionsTypeOK, sessionVars, PlacesTypeOK,
     MapsTypeOK, HistoriesTypeOK, NoConnect, Connects
<1>2. CASE ReadClock(e)
  <2>1. /\ UNCHANGED <<sessionVars, now, authorizing, redeem, authz, codes, tokens>>
        /\ UNCHANGED <<registered, delivered, minted, issued, lag>>
    BY <1>2 DEF ReadClock
  <2>2. now \in Nat /\ exchange[e] \in Exchanges
    BY <1>0 DEF SessionsTypeOK, PlacesTypeOK
  <2>3. exchange' = [exchange EXCEPT ![e] = [exchange[e] EXCEPT !.pc = "read", !.at = now]]
    BY <1>0, <1>2 DEF ReadClock, PlacesTypeOK
  <2>4. exchange' \in [Exchange -> Exchanges]
    BY <1>0, <2>2, <2>3, UpdatedExchange DEF PlacesTypeOK
  <2> QED
    BY <1>0, <2>1, <2>4 DEF TypeOK, SessionsTypeOK, sessionVars, PlacesTypeOK, MapsTypeOK,
       HistoriesTypeOK
<1>3. CASE ReadGrant(e)
  <2> DEFINE s == exchange[e].sid
             grant == IF s \in Held THEN sessions[s].grant ELSE Unknown
  <2>1. s \in Sid
    BY <1>3 DEF ReadGrant, NamedIsStarted, Exchanging
  <2>2. grant \in Nat \cup {Unknown}
    BY <1>0, <2>1 DEF SessionsTypeOK, Held, Session
  <2>3. exchange' = [exchange EXCEPT ![e].pc = "store", ![e].grant = grant]
    BY <1>3 DEF ReadGrant
  <2> HIDE DEF grant
  <2>4. exchange' \in [Exchange -> Exchanges]
    <3>1. exchange[e] \in Exchanges
      BY <1>0 DEF PlacesTypeOK
    <3>2. exchange' = [exchange EXCEPT ![e] = [exchange[e] EXCEPT !.pc = "store", !.grant = grant]]
      BY <1>0, <2>3 DEF PlacesTypeOK
    <3> QED
      BY <1>0, <2>2, <3>1, <3>2, UpdatedExchange DEF PlacesTypeOK
  <2> QED
    BY <1>0, <1>3, <2>4 DEF ReadGrant, TypeOK, SessionsTypeOK, sessionVars, PlacesTypeOK,
       MapsTypeOK, HistoriesTypeOK
<1>4. CASE InsertToken(e)
  <2> DEFINE s == exchange[e].sid
             life == TokenLife(exchange[e].grant, exchange[e].at)
  <2>1. s \in Sid /\ exchange[e] \in Exchanges
    BY <1>0, <1>4 DEF InsertToken, NamedIsStarted, Exchanging, PlacesTypeOK
  <2>2. life \in Nat
    BY <2>1, ConnectAssumption DEF TokenLife, Unknown
  <2>3. now + life \in Nat /\ now - exchange[e].at \in Nat
    BY <1>0, <2>1, <2>2 DEF SessionsTypeOK, ClockRead
  <2> HIDE DEF life
  <2>4. tokens' \in [Sid -> Nat \cup {Absent}]
    <3>1. \E kept \in SUBSET TokensHeld :
             tokens' = [r \in Sid |-> IF r = s THEN now + life
                                      ELSE IF r \in kept THEN tokens[r] ELSE Absent]
      BY <1>4 DEF InsertToken, life
    <3> QED
      BY <1>0, <2>3, <3>1 DEF MapsTypeOK
  <2>5. lag' \in [Sid -> Nat \cup {Unknown}]
    BY <1>0, <1>4, <2>3 DEF InsertToken, HistoriesTypeOK
  <2>6. HistoriesTypeOK' /\ PlacesTypeOK' /\ SessionsTypeOK'
    BY <1>0, <1>4, <2>1, <2>5 DEF InsertToken, HistoriesTypeOK, PlacesTypeOK, SessionsTypeOK, sessionVars
  <2> QED
    BY <1>0, <1>4, <2>4, <2>6 DEF InsertToken, TypeOK, MapsTypeOK, PlacesTypeOK, HistoriesTypeOK
<1>5. CASE DropExchange(e)
  BY <1>0, <1>5 DEF DropExchange, TypeOK, SessionsTypeOK, sessionVars, PlacesTypeOK,
     MapsTypeOK, HistoriesTypeOK
<1>6. ASSUME NEW s \in Sid, NEW verified \in BOOLEAN, TakeCode(e, s, verified) PROVE TypeOK'
  <2>1. /\ UNCHANGED <<sessionVars, now, authorizing, redeem, authz, tokens>>
        /\ UNCHANGED <<registered, delivered, minted, issued, lag>>
        /\ codes' = [codes EXCEPT ![s] = Absent]
    BY <1>6 DEF TakeCode
  <2>2. exchange' \in [Exchange -> Exchanges]
    <3>1. exchange[e] \in Exchanges /\ ExchangeAt("done") \in Exchanges
      BY <1>0 DEF PlacesTypeOK
    <3>2. \/ exchange' = [exchange EXCEPT ![e] = [exchange[e] EXCEPT !.pc = "taken", !.sid = s]]
          \/ exchange' = [exchange EXCEPT ![e] = ExchangeAt("done")]
      BY <1>0, <1>6 DEF TakeCode, PlacesTypeOK
    <3>3. 0 \in Nat /\ Unknown \in Nat \cup {Unknown} /\ exchange \in [Exchange -> Exchanges]
      BY <1>0 DEF PlacesTypeOK
    <3> HIDE DEF Exchanges, ExchangeAt
    <3>4. [exchange[e] EXCEPT !.pc = "taken", !.sid = s] \in Exchanges
      BY <3>1, <3>3, UpdatedExchange
    <3> QED
      BY <3>1, <3>2, <3>3, <3>4
  <2>3. MapsTypeOK'
    BY <1>0, <2>1 DEF MapsTypeOK
  <2> QED
    BY <1>0, <2>1, <2>2, <2>3 DEF TypeOK, SessionsTypeOK, sessionVars, PlacesTypeOK,
       HistoriesTypeOK
<1> QED
  BY <1>1, <1>2, <1>3, <1>4, <1>5, <1>6 DEF ExchangeStep

(* and the reaper and the clock.                                            *)
LEMMA OtherTypes ==
    ASSUME TypeOK,
           \/ \E p \in Redeem, s \in Sid : RedeemSnapshot(p, s)
           \/ SweepSessions \/ SweepOauth \/ Tick \/ UNCHANGED vars
    PROVE  TypeOK'
<1> USE DEF oauthVars, sessionVars
<1>0. SessionsTypeOK /\ PlacesTypeOK /\ MapsTypeOK /\ HistoriesTypeOK
  BY DEF TypeOK, PlacesTypeOK, MapsTypeOK, HistoriesTypeOK
<1>1. ASSUME NEW p \in Redeem, NEW s \in Sid, RedeemSnapshot(p, s) PROVE TypeOK'
  <2>1. redeem' \in [Redeem -> Attempts]
    BY <1>0, <1>1 DEF RedeemSnapshot, RedeemEnds, RedeemSteps, RedeemAt, PlacesTypeOK, Attempts
  <2>2. delivered' \in SUBSET Sid
    BY <1>0, <1>1 DEF RedeemSnapshot, HistoriesTypeOK
  <2> QED
    BY <1>0, <1>1, <2>1, <2>2 DEF RedeemSnapshot, restOfRedeem, TypeOK, SessionsTypeOK,
       PlacesTypeOK, MapsTypeOK, HistoriesTypeOK
<1>2. CASE SweepSessions
  BY <1>0, <1>2, ReapStep DEF SweepSessions, TypeOK
<1>3. CASE SweepOauth
  BY <1>0, <1>3 DEF SweepOauth, TypeOK, SessionsTypeOK, MapsTypeOK, NoConnect, Connects
<1>4. CASE Tick
  BY <1>0, <1>4 DEF Tick, TypeOK, SessionsTypeOK
<1>5. CASE UNCHANGED vars
  BY <1>0, <1>5 DEF vars, TypeOK, SessionsTypeOK
<1> QED
  BY <1>1, <1>2, <1>3, <1>4, <1>5

(* Requests keep naming started connects: a snapshot picks one, and a       *)
(* handler that is through with authorize stays there.                      *)
LEMMA NamedStep ==
    ASSUME TypeOK, NamedIsStarted, [Next]_vars
    PROVE  NamedIsStarted'
<1> USE DEF NamedIsStarted, At
<1>0. PlacesTypeOK
  BY DEF TypeOK, PlacesTypeOK
<1>1. ASSUME NEW s \in Sid, AuthorizeStep(s) \/ DropAuthorize(s) \/ UseToken(s)
      PROVE  NamedIsStarted'
  BY <1>0, <1>1 DEF PlacesTypeOK, AuthorizeStep, AuthorizeEnsure, AuthorizeMintKey, InsertPending,
     DropAuthorize, UseToken, AuthorizeGoes, restOfAuthorize, oauthVars
<1>2. ASSUME NEW p \in Redeem, RedeemStep(p) \/ Register(p) \/ DropRedeem(p)
      PROVE  NamedIsStarted'
  <2>1. UNCHANGED <<authorizing, exchange>>
    BY <1>2 DEF RedeemStep, ClaimRedemption, RedeemEnsure, ReadKeys, Register, RegisterAnswered,
       RegisterFailed, GrantEnsure, GrantRecord, PermitEnsure, PermitRecord, MintCode,
       InsertCode, ReleaseRedemption, DropRedeem, restOfRedeem
  <2>2. \A q \in Redeem \ {p} : redeem'[q] = redeem[q]
    BY <1>0, <1>2 DEF PlacesTypeOK, RedeemStep, ClaimRedemption, RedeemEnsure, ReadKeys, Register,
       RegisterAnswered, RegisterFailed, GrantEnsure, GrantRecord, PermitEnsure, PermitRecord,
       MintCode, InsertCode, ReleaseRedemption, DropRedeem, RedeemGoes, RedeemEnds
  <2>3. \/ redeem[p].pc \notin {"new", "done"} /\ redeem'[p].sid = redeem[p].sid
        \/ redeem'[p].pc = "done"
    BY <1>0, <1>2 DEF PlacesTypeOK, Attempts, RedeemStep, ClaimRedemption, RedeemEnsure, ReadKeys,
       Register, RegisterAnswered, RegisterFailed, GrantEnsure, GrantRecord, PermitEnsure,
       PermitRecord, MintCode, InsertCode, ReleaseRedemption, DropRedeem, RedeemGoes, RedeemEnds,
       RedeemAt
  <2> QED
    BY <2>1, <2>2, <2>3
<1>3. ASSUME NEW p \in Redeem, NEW s \in Sid, RedeemSnapshot(p, s) PROVE NamedIsStarted'
  BY <1>0, <1>3 DEF PlacesTypeOK, Attempts, RedeemSnapshot, RedeemEnds, RedeemAt, restOfRedeem
<1>4. ASSUME NEW e \in Exchange,
             \/ ExchangeStep(e) \/ DropExchange(e)
             \/ \E s \in Sid, verified \in BOOLEAN : TakeCode(e, s, verified)
      PROVE  NamedIsStarted'
  BY <1>0, <1>4 DEF PlacesTypeOK, Exchanges, ExchangeStep, RemoveConnect, ReadClock, ReadGrant,
     InsertToken, DropExchange, TakeCode, ExchangeTakes, ExchangeEnds, ExchangeAt, Exchanging,
     restOfExchange
<1>5. CASE SweepSessions \/ SweepOauth \/ Tick \/ UNCHANGED vars
  BY <1>5 DEF SweepSessions, SweepOauth, Tick, vars, oauthVars
<1> QED
  BY <1>1, <1>2, <1>3, <1>4, <1>5 DEF Next

(* The clock does not go back.                                              *)
LEMMA ClockGoesOn ==
    ASSUME TypeOK, [Next]_vars
    PROVE  now \in Nat /\ now' \in Nat /\ now <= now'
<1>1. now \in Nat
  BY DEF TypeOK, SessionsTypeOK
<1>2. ASSUME NEW p \in Redeem, RedeemStep(p) \/ Register(p) \/ DropRedeem(p)
             \/ \E r \in Sid : RedeemSnapshot(p, r)
      PROVE  UNCHANGED now
  BY <1>2 DEF RedeemStep, ClaimRedemption, RedeemEnsure, ReadKeys, Register, RegisterAnswered,
     RegisterFailed, GrantEnsure, GrantRecord, PermitEnsure, PermitRecord, MintCode, InsertCode,
     ReleaseRedemption, DropRedeem, RedeemSnapshot, restOfRedeem
<1>3. ASSUME NEW r \in Sid, AuthorizeStep(r) \/ DropAuthorize(r) \/ UseToken(r)
      PROVE  UNCHANGED now
  BY <1>3 DEF AuthorizeStep, AuthorizeEnsure, AuthorizeMintKey, InsertPending, DropAuthorize,
     UseToken, restOfAuthorize
<1>4. ASSUME NEW e \in Exchange,
             \/ ExchangeStep(e) \/ DropExchange(e)
             \/ \E s \in Sid, verified \in BOOLEAN : TakeCode(e, s, verified)
      PROVE  UNCHANGED now
  BY <1>4 DEF ExchangeStep, RemoveConnect, ReadClock, ReadGrant, InsertToken, DropExchange,
     TakeCode, restOfExchange
<1>5. CASE SweepSessions \/ SweepOauth \/ UNCHANGED vars
  <2>1. UNCHANGED now
    BY <1>5 DEF SweepSessions, SweepOauth, vars
  <2> QED
    BY <1>1, <2>1
<1>6. CASE Tick
  BY <1>1, <1>6 DEF Tick
<1> QED
  BY <1>1, <1>2, <1>3, <1>4, <1>5, <1>6 DEF Next

(* What a step does to a token request: nothing, or its own next step.      *)
LEMMA ExchangeMoves ==
    ASSUME TypeOK, [Next]_vars, NEW e \in Exchange
    PROVE  \/ exchange'[e] = exchange[e]
           \/ exchange'[e].at = exchange[e].at /\ exchange'[e].pc # "store"
           \/ exchange'[e].at = 0 /\ exchange'[e].pc # "store"
           \/ exchange'[e].at = now /\ exchange'[e].pc # "store"
           \/ ReadGrant(e)
<1> USE DEF TypeOK
<1>1. ASSUME NEW d \in Exchange,
             \/ ExchangeStep(d) \/ DropExchange(d)
             \/ \E s \in Sid, verified \in BOOLEAN : TakeCode(d, s, verified)
      PROVE  \/ exchange'[e] = exchange[e]
             \/ exchange'[e].at = exchange[e].at /\ exchange'[e].pc # "store"
             \/ exchange'[e].at = 0 /\ exchange'[e].pc # "store"
             \/ exchange'[e].at = now /\ exchange'[e].pc # "store"
             \/ ReadGrant(e)
  <2>1. CASE d # e
    BY <1>1, <2>1 DEF ExchangeStep, RemoveConnect, ReadClock, ReadGrant, InsertToken,
       DropExchange, TakeCode, ExchangeTakes, ExchangeEnds
  <2>2. CASE RemoveConnect(e)
    BY <2>2 DEF RemoveConnect, Exchanges
  <2>3. CASE ReadClock(e)
    BY <2>3 DEF ReadClock, Exchanges
  <2>4. CASE InsertToken(e) \/ DropExchange(e)
    BY <2>4 DEF InsertToken, DropExchange, ExchangeEnds, ExchangeAt
  <2>5. ASSUME NEW s \in Sid, NEW verified \in BOOLEAN, TakeCode(e, s, verified)
        PROVE  /\ exchange'[e].at \in {exchange[e].at, 0}
               /\ exchange'[e].pc # "store"
    BY <2>5 DEF TakeCode, ExchangeTakes, ExchangeEnds, ExchangeAt, Exchanges
  <2> QED
    BY <1>1, <2>1, <2>2, <2>3, <2>4, <2>5 DEF ExchangeStep
<1>2. ASSUME NEW p \in Redeem, RedeemStep(p) \/ Register(p) \/ DropRedeem(p)
             \/ \E r \in Sid : RedeemSnapshot(p, r)
      PROVE  UNCHANGED exchange
  BY <1>2 DEF RedeemStep, ClaimRedemption, RedeemEnsure, ReadKeys, Register, RegisterAnswered,
     RegisterFailed, GrantEnsure, GrantRecord, PermitEnsure, PermitRecord, MintCode, InsertCode,
     ReleaseRedemption, DropRedeem, RedeemSnapshot, restOfRedeem
<1>3. ASSUME NEW r \in Sid, AuthorizeStep(r) \/ DropAuthorize(r) \/ UseToken(r)
      PROVE  UNCHANGED exchange
  BY <1>3 DEF AuthorizeStep, AuthorizeEnsure, AuthorizeMintKey, InsertPending, DropAuthorize,
     UseToken, restOfAuthorize, oauthVars
<1>4. CASE SweepSessions \/ SweepOauth \/ Tick \/ UNCHANGED vars
  BY <1>4 DEF SweepSessions, SweepOauth, Tick, vars, oauthVars
<1> QED
  BY <1>1, <1>2, <1>3, <1>4 DEF Next

(* So the clock it read stays in the past.                                  *)
LEMMA ClockReadStep ==
    ASSUME TypeOK, ClockRead, [Next]_vars
    PROVE  ClockRead'
<1> SUFFICES ASSUME NEW e \in Exchange PROVE exchange'[e].at <= now'
  BY DEF ClockRead
<1>1. exchange[e] \in Exchanges /\ exchange[e].at \in Nat /\ exchange[e].at <= now
  BY DEF TypeOK, Exchanges, ClockRead
<1>2. exchange'[e].at \in {exchange[e].at, 0, now}
  <2>1. ReadGrant(e) => exchange'[e].at = exchange[e].at
    BY <1>1 DEF TypeOK, ReadGrant, Exchanges
  <2> QED
    BY <2>1, ExchangeMoves
<1> QED
  BY <1>1, <1>2, ClockGoesOn

Typed == TypeOK /\ NamedIsStarted /\ ClockRead

(* Typed is inductive.                                                      *)
LEMMA TypedInvariant == Spec => []Typed
<1>1. Init => TypeOK
  <2> SUFFICES ASSUME Init PROVE TypeOK
    OBVIOUS
  <2>1. SessionsTypeOK
    BY DEF Init, SessionsInit, SessionsTypeOK
  <2>2. redeem \in [Redeem -> Attempts] /\ exchange \in [Exchange -> Exchanges]
    BY DEF Init, RedeemAt, RedeemSteps, Attempts, ExchangeAt, ExchangeSteps, Exchanges
  <2>3. authz \in [Sid -> Connects]
    BY DEF Init, NoConnect, Connects
  <2> QED
    BY <2>1, <2>2, <2>3 DEF Init, TypeOK
<1>2. Init => NamedIsStarted /\ ClockRead
  BY DEF Init, SessionsInit, NamedIsStarted, RedeemAt, Exchanging, ClockRead, ExchangeAt
<1>3. Typed /\ [Next]_vars => TypeOK'
  BY AuthorizeTypes, RedeemTypes, ExchangeTypes, OtherTypes DEF Next, Typed
<1>4. Typed /\ [Next]_vars => NamedIsStarted' /\ ClockRead'
  BY NamedStep, ClockReadStep DEF Typed
<1> QED
  BY <1>1, <1>2, <1>3, <1>4, PTL DEF Spec, Typed

(* Every reachable state of the connect is well typed.                      *)
THEOREM TypeCorrect == Spec => []TypeOK
BY TypedInvariant, PTL DEF Typed

-----------------------------------------------------------------------------
(* Flight.                                                                  *)

(* The claim of an attempt stands as long as its connect does.              *)
ClaimStands ==
    \A p \in Redeem : redeem[p].pc \in Attempting /\ At(p) \in Connecting
        => authz[At(p)].redeeming

(* A connect with a minted code remembers it, and is not attempted again;   *)
(* before it is inserted it has none.                                       *)
MintedIsRemembered == \A s \in Connecting : minted[s] > 0 => authz[s].code
MintedIsSettled ==
    \A p \in Redeem : redeem[p].pc \in Attempting => minted[At(p)] = 0
MintedIsStarted ==
    \A s \in Sid : minted[s] > 0 => authorizing[s] \notin {"new", "key", "pending"}

Flight ==
    /\ ClaimStands /\ SingleFlight
    /\ MintedIsRemembered /\ MintedIsSettled /\ MintedIsStarted

(* Whatever leaves redeem requests alone and only removes connects, or      *)
(* inserts one that nobody has named, keeps Flight.                         *)
LEMMA FlightAside ==
    ASSUME Typed, Flight, UNCHANGED <<redeem, minted>>,
           \A s \in Sid : \/ authz'[s] \in {authz[s], NoConnect}
                          \/ authorizing[s] = "pending",
           \A s \in Sid : authorizing'[s] \in {"new", "key", "pending"}
                             => authorizing[s] \in {"new", "key", "pending"}
    PROVE  Flight'
<1> USE DEF Typed, Flight, NamedIsStarted, At
<1>1. ClaimStands'
  BY DEF ClaimStands, Connecting, NoConnect, Attempting
<1>2. SingleFlight'
  BY DEF SingleFlight
<1>3. MintedIsRemembered'
  BY DEF MintedIsRemembered, MintedIsStarted, Connecting, NoConnect
<1>4. MintedIsSettled' /\ MintedIsStarted'
  BY DEF MintedIsSettled, MintedIsStarted
<1> QED
  BY <1>1, <1>2, <1>3, <1>4

(* The steps that are not a redeem request's are such steps.                *)
LEMMA AsideSteps ==
    ASSUME Typed, [Next]_vars,
           ~ \E p \in Redeem : RedeemStep(p) \/ Register(p) \/ DropRedeem(p),
           ~ \E p \in Redeem, s \in Sid : RedeemSnapshot(p, s)
    PROVE  /\ UNCHANGED <<redeem, minted>>
           /\ \A s \in Sid : \/ authz'[s] \in {authz[s], NoConnect}
                             \/ authorizing[s] = "pending"
           /\ \A s \in Sid : authorizing'[s] \in {"new", "key", "pending"}
                                => authorizing[s] \in {"new", "key", "pending"}
<1> USE DEF Typed, TypeOK, oauthVars
<1>1. ASSUME NEW s \in Sid, AuthorizeStep(s) \/ DropAuthorize(s) \/ UseToken(s)
      PROVE  /\ UNCHANGED <<redeem, minted>>
             /\ \A r \in Sid : \/ authz'[r] \in {authz[r], NoConnect}
                               \/ authorizing[r] = "pending"
             /\ \A r \in Sid : authorizing'[r] \in {"new", "key", "pending"}
                                => authorizing[r] \in {"new", "key", "pending"}
  BY <1>1 DEF AuthorizeStep, AuthorizeEnsure, AuthorizeMintKey, InsertPending, DropAuthorize,
     UseToken, AuthorizeGoes, restOfAuthorize
<1>2. ASSUME NEW e \in Exchange,
             \/ ExchangeStep(e) \/ DropExchange(e)
             \/ \E s \in Sid, verified \in BOOLEAN : TakeCode(e, s, verified)
      PROVE  /\ UNCHANGED <<redeem, minted, authorizing>>
             /\ \A r \in Sid : authz'[r] \in {authz[r], NoConnect}
  BY <1>2 DEF ExchangeStep, RemoveConnect, ReadClock, ReadGrant, InsertToken, DropExchange,
     TakeCode, restOfExchange
<1>3. CASE SweepSessions \/ SweepOauth \/ Tick \/ UNCHANGED vars
  BY <1>3 DEF SweepSessions, SweepOauth, Tick, vars
<1> QED
  BY <1>1, <1>2, <1>3 DEF Next

(* A claim that is granted begins an attempt of a connect that was free.    *)
LEMMA FlightClaim ==
    ASSUME Typed, Flight, NEW p \in Redeem, ClaimRedemption(p)
    PROVE  Flight'
<1> USE DEF Flight, Typed, TypeOK
<1>1. CASE At(p) \in Connecting /\ ~authz[At(p)].code /\ ~authz[At(p)].redeeming
  <2>1. /\ redeem[p].pc = "claim" /\ redeem' = [redeem EXCEPT ![p].pc = "ensure"]
        /\ authz' = [authz EXCEPT ![At(p)].redeeming = TRUE]
        /\ UNCHANGED <<authorizing, minted>>
    BY <1>1 DEF ClaimRedemption, RedeemGoes, restOfRedeem
  <2>2. /\ \A q \in Redeem : At(q)' = At(q) /\ (q # p => redeem'[q].pc = redeem[q].pc)
        /\ At(p) \in Sid
    BY <2>1 DEF At, Attempts, NamedIsStarted
  <2>3. /\ \A s \in Sid : /\ authz'[s].created = authz[s].created
                          /\ authz'[s].code = authz[s].code
                          /\ authz[s].redeeming => authz'[s].redeeming
        /\ authz'[At(p)].redeeming
    BY <2>1, <2>2 DEF Connects
  <2>4. ClaimStands' /\ MintedIsRemembered' /\ MintedIsSettled' /\ MintedIsStarted'
    BY <1>1, <2>1, <2>2, <2>3 DEF ClaimStands, MintedIsRemembered, MintedIsSettled,
       MintedIsStarted, Connecting, NamedIsStarted, Attempting
  <2>5. \A q \in Redeem \ {p} : redeem[q].pc \in Attempting => At(q) # At(p)
    BY <1>1 DEF ClaimStands
  <2>6. SingleFlight'
    BY <2>1, <2>2, <2>5 DEF SingleFlight
  <2> QED
    BY <2>4, <2>6
<1>2. CASE ~(At(p) \in Connecting /\ ~authz[At(p)].code /\ ~authz[At(p)].redeeming)
  <2>1. /\ redeem' = [redeem EXCEPT ![p] = RedeemAt("done")]
        /\ UNCHANGED <<authz, authorizing, minted>>
    BY <1>2 DEF ClaimRedemption, RedeemEnds, restOfRedeem
  <2> QED
    BY <2>1 DEF ClaimStands, SingleFlight, MintedIsRemembered, MintedIsSettled,
       MintedIsStarted, Connecting, At, RedeemAt, Attempting
<1> QED
  BY <1>1, <1>2

(* The attempt that gives its claim back, or mints the code, was the only   *)
(* one of its connect.                                                      *)
LEMMA FlightSettles ==
    ASSUME Typed, Flight, NEW p \in Redeem, ReleaseRedemption(p) \/ MintCode(p)
    PROVE  Flight'
<1> USE DEF Flight, Typed, TypeOK
<1>1. /\ redeem[p].pc \in Attempting /\ redeem'[p].pc \notin Attempting /\ At(p) \in Sid
      /\ \A q \in Redeem \ {p} : redeem'[q] = redeem[q]
      /\ UNCHANGED authorizing
  BY DEF ReleaseRedemption, MintCode, RedeemEnds, RedeemGoes, RedeemAt, Attempting, Attempts,
     NamedIsStarted, restOfRedeem
<1>2. /\ \A s \in Sid : /\ s # At(p) => authz'[s] = authz[s]
                        /\ authz'[s].created = authz[s].created
                        /\ authz[s].code => authz'[s].code
      /\ \A s \in Sid : s # At(p) => minted'[s] = minted[s]
      /\ At(p) \in Connecting /\ minted'[At(p)] > 0 => authz'[At(p)].code
      /\ authorizing[At(p)] = "started"
  <2>1. CASE ReleaseRedemption(p)
    <3>1. /\ authz' = [authz EXCEPT ![At(p)].redeeming = FALSE] \/ UNCHANGED authz
          /\ UNCHANGED minted
      BY <2>1 DEF ReleaseRedemption, restOfRedeem
    <3>2. minted[At(p)] = 0 /\ authorizing[At(p)] = "started"
      BY <1>1 DEF MintedIsSettled, NamedIsStarted, Attempting
    <3> QED
      BY <1>1, <3>1, <3>2 DEF Connects
  <2>2. CASE MintCode(p)
    <3>1. /\ \/ At(p) \notin Connecting /\ UNCHANGED authz
             \/ authz' = [authz EXCEPT ![At(p)].redeeming = FALSE, ![At(p)].code = TRUE]
          /\ UNCHANGED minted \/ minted' = [minted EXCEPT ![At(p)] = @ + 1]
      BY <2>2 DEF MintCode
    <3>2. authorizing[At(p)] = "started"
      BY <1>1 DEF NamedIsStarted, Attempting
    <3> QED
      BY <1>1, <3>1, <3>2 DEF Connects
  <2> QED
    BY <2>1, <2>2
<1>3. \A q \in Redeem \ {p} : redeem[q].pc \in Attempting => At(q) # At(p) /\ At(q) \in Sid
  BY <1>1 DEF SingleFlight, NamedIsStarted, Attempting
<1>4. ClaimStands' /\ MintedIsSettled'
  BY <1>1, <1>2, <1>3 DEF ClaimStands, MintedIsSettled, Connecting, At
<1>5. SingleFlight'
  BY <1>1 DEF SingleFlight, At
<1>6. MintedIsRemembered' /\ MintedIsStarted'
  BY <1>1, <1>2 DEF MintedIsRemembered, MintedIsStarted, Connecting
<1> QED
  BY <1>4, <1>5, <1>6

(* The other steps of a request leave its connect alone, and begin no       *)
(* attempt.                                                                 *)
LEMMA FlightGoesOn ==
    ASSUME Typed, Flight, NEW p \in Redeem,
           RedeemStep(p) \/ Register(p) \/ DropRedeem(p) \/ \E s \in Sid : RedeemSnapshot(p, s),
           ~ ClaimRedemption(p), ~ ReleaseRedemption(p), ~ MintCode(p)
    PROVE  Flight'
<1> USE DEF Flight, Typed, TypeOK
<1>1. UNCHANGED <<authz, authorizing, minted>>
  BY DEF RedeemStep, RedeemEnsure, ReadKeys, Register, RegisterAnswered, RegisterFailed,
     GrantEnsure, GrantRecord, PermitEnsure, PermitRecord, InsertCode, DropRedeem,
     RedeemSnapshot, restOfRedeem
<1>2. \A q \in Redeem : redeem'[q].pc \in Attempting
                          => redeem[q].pc \in Attempting /\ At(q)' = At(q)
  <2>1. CASE DropRedeem(p)
    <3>1. /\ redeem'[p].pc = "done"
          /\ \A q \in Redeem \ {p} : redeem'[q] = redeem[q]
      BY <2>1 DEF DropRedeem, RedeemAt
    <3> QED
      BY <3>1 DEF Attempting, At
  <2>2. CASE ~ DropRedeem(p)
    BY <2>2 DEF RedeemStep, RedeemEnsure, ReadKeys, Register, RegisterAnswered, RegisterFailed,
       GrantEnsure, GrantRecord, PermitEnsure, PermitRecord, InsertCode,
       RedeemSnapshot, RedeemGoes, RedeemEnds, RedeemAt, Attempting, Attempts, At
  <2> QED
    BY <2>1, <2>2
<1> QED
  BY <1>1, <1>2 DEF ClaimStands, SingleFlight, MintedIsRemembered, MintedIsSettled,
     MintedIsStarted, Connecting

(* Flight is inductive, given Typed.                                        *)
LEMMA FlightInvariant == Spec => []Flight
<1>1. Init => Flight
  <2> SUFFICES ASSUME Init PROVE Flight
    OBVIOUS
  <2>1. \A p \in Redeem : redeem[p].pc \notin Attempting
    BY DEF Init, RedeemAt, Attempting
  <2>2. \A s \in Sid : ~ minted[s] > 0
    BY DEF Init
  <2> QED
    BY <2>1, <2>2 DEF Flight, ClaimStands, SingleFlight, MintedIsRemembered, MintedIsSettled,
       MintedIsStarted, Connecting
<1>2. Typed /\ Flight /\ [Next]_vars => Flight'
  <2> SUFFICES ASSUME Typed, Flight, [Next]_vars PROVE Flight'
    OBVIOUS
  <2>1. ASSUME NEW p \in Redeem, RedeemStep(p) \/ Register(p) \/ DropRedeem(p) PROVE Flight'
    BY <2>1, FlightClaim, FlightSettles, FlightGoesOn
  <2>2. ASSUME NEW p \in Redeem, NEW s \in Sid, RedeemSnapshot(p, s) PROVE Flight'
    BY <2>2, FlightClaim, FlightSettles, FlightGoesOn
  <2> QED
    BY <2>1, <2>2, AsideSteps, FlightAside
<1> QED
  BY <1>1, <1>2, TypedInvariant, PTL DEF Spec

(* However redeem requests interleave, at most one of them is between its   *)
(* claim of a connect and the settling of it.                               *)
THEOREM SingleFlightHolds == Spec => []SingleFlight
BY FlightInvariant, PTL DEF Flight

-----------------------------------------------------------------------------
(* Once.                                                                    *)

(* The steps of an attempt before the grant is recorded.                    *)
BeforeGrant == {"ensure", "read", "calling", "landed", "grant", "record", "release"}

(* No grant is recorded before the consent of its connect has come back:    *)
(* not while authorize runs, nor while the connect is free to be claimed,   *)
(* nor in an attempt before it records one.                                 *)
NotYetGranted ==
    /\ \A s \in Granted : authorizing[s] \notin {"new", "key", "pending"}
    /\ \A s \in Granted \cap Connecting : authz[s].redeeming \/ authz[s].code
    /\ \A p \in Redeem : redeem[p].pc \in BeforeGrant => At(p) \notin Granted

(* Codes, exchanges and tokens exist only for connects with a minted code.  *)
NothingUnminted ==
    \A s \in Sid : minted[s] = 0 =>
        /\ s \notin CodesHeld /\ s \notin TokensHeld
        /\ \A e \in Exchange : exchange[e].sid # s
        /\ \A p \in Redeem : redeem[p].pc = "insert" => At(p) # s

Once == NotYetGranted /\ NothingUnminted

(* Only set_grant_expiration makes a session hold a grant.                  *)
LEMMA GrantsStay ==
    ASSUME Typed, [Next]_vars, ~ \E p \in Redeem : GrantRecord(p)
    PROVE  \A s \in Granted' : s \in Granted /\ sessions'[s].grant = sessions[s].grant
<1> USE DEF Typed, TypeOK
<1>1. CASE UNCHANGED sessions
  BY <1>1 DEF Granted, Held
<1>2. ASSUME NEW s \in Sid, NEW ok \in BOOLEAN, EnsureSession(s, ok), now' = now
      PROVE  \A r \in Granted' : r \in Granted /\ sessions'[r].grant = sessions[r].grant
  BY <1>2, EnsureStep
<1>3. ASSUME NEW s \in Sid, MintRegistrationKey(s) \/ \E level \in Levels : RecordPermissions(s, level)
      PROVE  \A r \in Granted' : r \in Granted /\ sessions'[r].grant = sessions[r].grant
  <2>1. \/ UNCHANGED sessions
        \/ s \in Held /\ sessions' = [sessions EXCEPT ![s].x = TRUE]
        \/ s \in Held /\ \E level \in Levels : sessions' = [sessions EXCEPT ![s].read_only = level]
    BY <1>3 DEF MintRegistrationKey, RecordPermissions, sessionVars
  <2>2. s \in Held => sessions[s] \in Session
    BY DEF Held, SessionsTypeOK
  <2> QED
    BY <2>1, <2>2, NilIsNot DEF Granted, Held, SessionsTypeOK, Session
<1>4. CASE SweepSessions
  BY <1>4, ReapStep DEF SweepSessions
<1>5. ASSUME NEW s \in Sid, AuthorizeStep(s) \/ DropAuthorize(s) \/ UseToken(s)
      PROVE  \A r \in Granted' : r \in Granted /\ sessions'[r].grant = sessions[r].grant
  BY <1>1, <1>2, <1>3, <1>5 DEF AuthorizeStep, AuthorizeEnsure, AuthorizeMintKey, InsertPending,
     DropAuthorize, UseToken, restOfAuthorize, sessionVars
<1>6. ASSUME NEW p \in Redeem, RedeemStep(p) \/ Register(p) \/ DropRedeem(p)
      PROVE  \A r \in Granted' : r \in Granted /\ sessions'[r].grant = sessions[r].grant
  <2>1. CASE UNCHANGED sessionVars
    BY <1>1, <2>1 DEF sessionVars
  <2>2. CASE RedeemEnsure(p) \/ GrantEnsure(p) \/ PermitEnsure(p)
    BY <1>2, <2>2 DEF RedeemEnsure, GrantEnsure, PermitEnsure, NamedIsStarted, RedeemGoes, restOfRedeem
  <2>3. CASE PermitRecord(p)
    BY <1>3, <2>3 DEF PermitRecord, NamedIsStarted, RedeemGoes
  <2> QED
    BY <1>6, <2>1, <2>2, <2>3 DEF RedeemStep, ClaimRedemption, ReadKeys, Register,
       RegisterAnswered, RegisterFailed, MintCode, InsertCode, ReleaseRedemption, DropRedeem
<1>7. CASE UNCHANGED sessionVars
  BY <1>1, <1>7 DEF sessionVars
<1> QED
  BY <1>4, <1>5, <1>6, <1>7 DEF Next, RedeemSnapshot, ExchangeStep, RemoveConnect, ReadClock,
     ReadGrant, InsertToken, DropExchange, TakeCode, SweepOauth, Tick, vars

(* The record of the grant itself: of the one attempt there is.             *)
LEMMA RecordOnce ==
    ASSUME Typed, Flight, NotYetGranted, NEW p \in Redeem, GrantRecord(p)
    PROVE  /\ NotYetGranted'
           /\ At(p) \notin Granted
           /\ \A s \in Sid \ {At(p)} : sessions'[s] = sessions[s]
<1> USE DEF Typed, TypeOK, Flight
<1>1. redeem[p].pc = "record" /\ At(p) \in Sid /\ authorizing[At(p)] = "started"
  BY DEF GrantRecord, NamedIsStarted
<1>2. UNCHANGED <<authz, authorizing>> /\ \A q \in Redeem : At(q)' = At(q)
  BY DEF GrantRecord, restOfRedeem, At, Attempts
<1>3. redeem'[p].pc = "permit" /\ \A q \in Redeem \ {p} : redeem'[q].pc = redeem[q].pc
  BY DEF GrantRecord, Attempts
<1>4. \A s \in Sid \ {At(p)} : sessions'[s] = sessions[s]
  BY DEF GrantRecord, RecordGrant, sessionVars, SessionsTypeOK
<1>5. Granted' \subseteq Granted \cup {At(p)}
  BY <1>4 DEF Granted, Held
<1>6. At(p) \in Connecting => authz[At(p)].redeeming
  BY <1>1 DEF ClaimStands, Attempting
<1>7. \A q \in Redeem \ {p} : redeem[q].pc \in BeforeGrant => At(q) # At(p)
  BY <1>1 DEF SingleFlight, Attempting, BeforeGrant
<1>8. NotYetGranted'
  BY <1>1, <1>2, <1>3, <1>5, <1>6, <1>7 DEF NotYetGranted, Connecting, BeforeGrant
<1> QED
  BY <1>1, <1>4, <1>8 DEF NotYetGranted, BeforeGrant

(* Whatever leaves redeem requests alone and adds no grant keeps            *)
(* NotYetGranted.                                                           *)
LEMMA NotYetAside ==
    ASSUME Typed, NotYetGranted, Granted' \subseteq Granted, UNCHANGED redeem,
           \A s \in Sid : \/ authz'[s] \in {authz[s], NoConnect}
                          \/ authorizing[s] = "pending",
           \A s \in Sid : authorizing'[s] \in {"new", "key", "pending"}
                             => authorizing[s] \in {"new", "key", "pending"}
    PROVE  NotYetGranted'
<1>1. Granted \subseteq Sid
  BY DEF Granted, Held
<1> QED
  BY <1>1 DEF NotYetGranted, Connecting, NoConnect, At

(* So does every step of a redeem request that records no grant.            *)
LEMMA NotYetStep ==
    ASSUME Typed, Flight, NotYetGranted, NEW p \in Redeem, Granted' \subseteq Granted,
           RedeemStep(p) \/ Register(p) \/ DropRedeem(p) \/ \E s \in Sid : RedeemSnapshot(p, s),
           ~ GrantRecord(p)
    PROVE  NotYetGranted'
<1> USE DEF Typed, TypeOK, NotYetGranted
<1>1. Granted \subseteq Sid
  BY DEF Granted, Held
<1>2. UNCHANGED authorizing
  BY DEF RedeemStep, ClaimRedemption, RedeemEnsure, ReadKeys, Register, RegisterAnswered,
     RegisterFailed, GrantEnsure, PermitEnsure, PermitRecord, MintCode, InsertCode,
     ReleaseRedemption, DropRedeem, RedeemSnapshot, restOfRedeem
<1>3. \A q \in Redeem : redeem'[q].pc \in BeforeGrant
         => /\ At(q)' = At(q)
            /\ \/ redeem[q].pc \in BeforeGrant
               \/ /\ redeem[q].pc = "claim" /\ At(q) \in Connecting
                  /\ ~authz[At(q)].code /\ ~authz[At(q)].redeeming
  <2>1. \A q \in Redeem \ {p} : redeem'[q] = redeem[q]
    BY DEF RedeemStep, ClaimRedemption, RedeemEnsure, ReadKeys, Register, RegisterAnswered,
       RegisterFailed, GrantEnsure, PermitEnsure, PermitRecord, MintCode, InsertCode,
       ReleaseRedemption, DropRedeem, RedeemSnapshot, RedeemGoes, RedeemEnds
  <2>2. CASE ClaimRedemption(p)
    BY <2>1, <2>2 DEF ClaimRedemption, RedeemGoes, RedeemEnds, RedeemAt, BeforeGrant, Attempts, At
  <2>3. CASE ~ClaimRedemption(p)
    BY <2>1, <2>3 DEF RedeemStep, RedeemEnsure, ReadKeys, Register, RegisterAnswered,
       RegisterFailed, GrantEnsure, PermitEnsure, PermitRecord, MintCode, InsertCode,
       ReleaseRedemption, DropRedeem, RedeemSnapshot, RedeemGoes, RedeemEnds, RedeemAt,
       BeforeGrant, Attempts, At
  <2> QED
    BY <2>2, <2>3
<1>4. \A s \in Granted \cap Connecting' : authz'[s].redeeming \/ authz'[s].code
  <2>1. CASE ClaimRedemption(p)
    <3>1. authz' = [authz EXCEPT ![At(p)].redeeming = TRUE] \/ UNCHANGED authz
      BY <2>1 DEF ClaimRedemption
    <3>2. \A s \in Sid : /\ authz'[s].created = authz[s].created
                         /\ authz'[s].code = authz[s].code
                         /\ authz[s].redeeming => authz'[s].redeeming
      BY <3>1 DEF Connects
    <3> QED
      BY <1>1, <3>2 DEF Connecting
  <2>2. CASE ReleaseRedemption(p)
    <3>1. authz' = [authz EXCEPT ![At(p)].redeeming = FALSE] \/ UNCHANGED authz
      BY <2>2 DEF ReleaseRedemption
    <3>2. At(p) \notin Granted
      BY <2>2 DEF ReleaseRedemption, RedeemEnds, BeforeGrant
    <3>3. \A s \in Granted : authz'[s] = authz[s]
      BY <1>1, <3>1, <3>2
    <3> QED
      BY <1>1, <3>3 DEF Connecting
  <2>3. CASE MintCode(p)
    <3>1. \/ authz' = [authz EXCEPT ![At(p)].redeeming = FALSE, ![At(p)].code = TRUE]
          \/ UNCHANGED authz
      BY <2>3 DEF MintCode
    <3>2. \A s \in Sid : /\ authz'[s].created = authz[s].created
                         /\ \/ authz'[s].code
                            \/ authz'[s] = authz[s]
      BY <3>1 DEF Connects
    <3> QED
      BY <1>1, <3>2 DEF Connecting
  <2>4. CASE UNCHANGED authz
    BY <2>4 DEF Connecting
  <2> QED
    BY <2>1, <2>2, <2>3, <2>4 DEF RedeemStep, RedeemEnsure, ReadKeys, Register,
       RegisterAnswered, RegisterFailed, GrantEnsure, PermitEnsure, PermitRecord, InsertCode,
       DropRedeem, RedeemSnapshot
<1> QED
  BY <1>1, <1>2, <1>3, <1>4

(* A code or a token appears only for a connect whose code was minted.      *)
LEMMA UnmintedStep ==
    ASSUME Typed, Flight, NothingUnminted, [Next]_vars
    PROVE  NothingUnminted'
<1> USE DEF Typed, TypeOK, NothingUnminted, CodesHeld, TokensHeld
<1>1. ASSUME NEW s \in Sid, AuthorizeStep(s) \/ DropAuthorize(s) \/ UseToken(s)
      PROVE  NothingUnminted'
  BY <1>1 DEF AuthorizeStep, AuthorizeEnsure, AuthorizeMintKey, InsertPending, DropAuthorize,
     UseToken, restOfAuthorize, oauthVars, At
<1>2. ASSUME NEW p \in Redeem, RedeemStep(p) \/ Register(p) \/ DropRedeem(p)
             \/ \E s \in Sid : RedeemSnapshot(p, s)
      PROVE  NothingUnminted'
  <2>1. UNCHANGED <<exchange, tokens>>
    BY <1>2 DEF RedeemStep, ClaimRedemption, RedeemEnsure, ReadKeys, Register, RegisterAnswered,
       RegisterFailed, GrantEnsure, GrantRecord, PermitEnsure, PermitRecord, MintCode, InsertCode,
       ReleaseRedemption, DropRedeem, RedeemSnapshot, restOfRedeem
  <2>2. CASE MintCode(p)
    <3>1. \A s \in Sid : minted'[s] = 0 => minted[s] = 0
      BY <2>2 DEF MintCode
    <3>2. \A q \in Redeem : redeem'[q].pc = "insert"
             => At(q)' = At(q) /\ (redeem[q].pc = "insert" \/ minted'[At(q)] # 0)
      BY <2>2 DEF MintCode, RedeemGoes, RedeemEnds, RedeemAt, Attempts, At, NamedIsStarted
    <3>3. UNCHANGED codes
      BY <2>2 DEF MintCode
    <3> QED
      BY <2>1, <3>1, <3>2, <3>3
  <2>3. CASE InsertCode(p)
    <3>1. redeem[p].pc = "insert" /\ UNCHANGED minted /\ At(p) \in Sid
      BY <2>3 DEF InsertCode, RedeemEnds, NamedIsStarted
    <3>2. \A s \in Sid \ {At(p)} : codes'[s] \in {codes[s], Absent}
      BY <2>3 DEF InsertCode
    <3>3. \A q \in Redeem : redeem'[q].pc = "insert" => redeem'[q] = redeem[q]
      BY <2>3 DEF InsertCode, RedeemEnds, RedeemAt, Attempts
    <3> QED
      BY <2>1, <3>1, <3>2, <3>3 DEF At
  <2>4. CASE ~ MintCode(p) /\ ~ InsertCode(p)
    <3>1. UNCHANGED <<minted, codes>>
      BY <1>2, <2>4 DEF RedeemStep, ClaimRedemption, RedeemEnsure, ReadKeys, Register,
         RegisterAnswered, RegisterFailed, GrantEnsure, GrantRecord, PermitEnsure, PermitRecord,
         ReleaseRedemption, DropRedeem, RedeemSnapshot, restOfRedeem
    <3>2. \A q \in Redeem : redeem'[q].pc = "insert" => redeem'[q] = redeem[q]
      BY <1>2, <2>4 DEF RedeemStep, ClaimRedemption, RedeemEnsure, ReadKeys, Register,
         RegisterAnswered, RegisterFailed, GrantEnsure, GrantRecord, PermitEnsure, PermitRecord,
         ReleaseRedemption, DropRedeem, RedeemSnapshot, RedeemGoes, RedeemEnds, RedeemAt, Attempts
    <3> QED
      BY <2>1, <3>1, <3>2 DEF At
  <2> QED
    BY <2>2, <2>3, <2>4
<1>3. ASSUME NEW e \in Exchange,
             \/ ExchangeStep(e) \/ DropExchange(e)
             \/ \E s \in Sid, verified \in BOOLEAN : TakeCode(e, s, verified)
      PROVE  NothingUnminted'
  <2>1. UNCHANGED <<minted, redeem>>
    BY <1>3 DEF ExchangeStep, RemoveConnect, ReadClock, ReadGrant, InsertToken, DropExchange,
       TakeCode, restOfExchange
  <2>2. \A s \in Sid : codes'[s] \in {codes[s], Absent}
    BY <1>3 DEF ExchangeStep, RemoveConnect, ReadClock, ReadGrant, InsertToken, DropExchange,
       TakeCode, Absent
  <2>3. \A s \in Sid : tokens'[s] # Absent => tokens[s] # Absent \/ exchange[e].sid = s
    <3>1. CASE InsertToken(e)
      BY <3>1 DEF InsertToken, TokensHeld
    <3>2. CASE ~InsertToken(e)
      BY <1>3, <3>2 DEF ExchangeStep, RemoveConnect, ReadClock, ReadGrant, DropExchange,
         TakeCode
    <3> QED
      BY <3>1, <3>2
  <2>4. \A d \in Exchange, s \in Sid : exchange'[d].sid = s
           => exchange[d].sid = s \/ s \in CodesHeld
    BY <1>3, NilIsNot DEF Exchanges, ExchangeStep, RemoveConnect, ReadClock, ReadGrant,
       InsertToken, DropExchange, TakeCode, ExchangeTakes, ExchangeEnds, ExchangeAt
  <2> QED
    BY <2>1, <2>2, <2>3, <2>4 DEF At
<1>4. CASE SweepSessions \/ SweepOauth \/ Tick \/ UNCHANGED vars
  BY <1>4 DEF SweepSessions, SweepOauth, Tick, vars, oauthVars, At
<1> QED
  BY <1>1, <1>2, <1>3, <1>4 DEF Next

(* Once is inductive, given Typed and Flight.                               *)
LEMMA OnceInvariant == Spec => []Once
<1>1. Init => Once
  <2> SUFFICES ASSUME Init PROVE Once
    OBVIOUS
  <2>1. Granted = {} /\ \A p \in Redeem : redeem[p].pc = "new"
    BY DEF Init, SessionsInit, Granted, Held, RedeemAt
  <2>2. \A e \in Exchange : exchange[e].sid = Nil
    BY DEF Init, ExchangeAt
  <2> QED
    BY <2>1, <2>2, NilIsNot DEF Init, Once, NotYetGranted, NothingUnminted, BeforeGrant,
       CodesHeld, TokensHeld
<1>2. Typed /\ Flight /\ Once /\ [Next]_vars => NotYetGranted'
  <2> SUFFICES ASSUME Typed, Flight, Once, [Next]_vars PROVE NotYetGranted'
    OBVIOUS
  <2>1. ASSUME NEW p \in Redeem, GrantRecord(p) PROVE NotYetGranted'
    BY <2>1, RecordOnce DEF Once
  <2>2. CASE ~ \E p \in Redeem : GrantRecord(p)
    <3>1. Granted' \subseteq Granted
      BY <2>2, GrantsStay
    <3>2. ASSUME NEW p \in Redeem,
                 RedeemStep(p) \/ Register(p) \/ DropRedeem(p) \/ \E s \in Sid : RedeemSnapshot(p, s)
          PROVE  NotYetGranted'
      BY <2>2, <3>1, <3>2, NotYetStep DEF Once
    <3> QED
      BY <3>1, <3>2, AsideSteps, NotYetAside DEF Once
  <2> QED
    BY <2>1, <2>2
<1>3. Typed /\ Flight /\ Once /\ [Next]_vars => NothingUnminted'
  BY UnmintedStep DEF Once
<1> QED
  BY <1>1, <1>2, <1>3, TypedInvariant, FlightInvariant, PTL DEF Spec, Once

(* The step of every live grant: only its read_only or x may change.        *)
LEMMA LiveStays ==
    ASSUME Typed, Flight, Once, [Next]_vars, NEW s \in Live
    PROVE  /\ s \in Held'
           /\ sessions'[s].key = sessions[s].key
           /\ sessions'[s].grant >= sessions[s].grant
<1> USE DEF Typed, TypeOK
<1>1. s \in Sid /\ s \in Held /\ sessions[s] \in Session /\ sessions[s].grant \in Int
  BY DEF Live, Granted, Held, SessionsTypeOK, Session, Unknown
<1>2. SUFFICES \/ UNCHANGED sessions
               \/ sessions'[s] = sessions[s]
               \/ \E r \in Sid : \/ sessions' = [sessions EXCEPT ![r].x = TRUE]
                                 \/ \E l \in Levels : sessions' = [sessions EXCEPT ![r].read_only = l]
  <2>1. s \in Sid /\ sessions[s] \in Session /\ sessions \in [Sid -> Session \cup {Nil}]
    BY <1>1 DEF SessionsTypeOK
  <2>2. CASE sessions'[s] = sessions[s]
    BY <1>1, <2>2 DEF Held
  <2>3. ASSUME NEW r \in Sid, sessions' = [sessions EXCEPT ![r].x = TRUE]
        PROVE  sessions'[s] # Nil /\ sessions'[s].key = sessions[s].key
               /\ sessions'[s].grant = sessions[s].grant
    <3>1. sessions'[s] \in {sessions[s], [sessions[s] EXCEPT !.x = TRUE]}
      BY <2>1, <2>3
    <3>2. [sessions[s] EXCEPT !.x = TRUE] \in Session
      BY <2>1 DEF Session
    <3>3. /\ [sessions[s] EXCEPT !.x = TRUE].key = sessions[s].key
          /\ [sessions[s] EXCEPT !.x = TRUE].grant = sessions[s].grant
      BY <2>1 DEF Session
    <3> QED
      BY <2>1, <3>1, <3>2, <3>3, NilIsNot
  <2>4. ASSUME NEW r \in Sid, NEW l \in Levels,
               sessions' = [sessions EXCEPT ![r].read_only = l]
        PROVE  sessions'[s] # Nil /\ sessions'[s].key = sessions[s].key
               /\ sessions'[s].grant = sessions[s].grant
    <3>1. sessions'[s] \in {sessions[s], [sessions[s] EXCEPT !.read_only = l]}
      BY <2>1, <2>4
    <3>2. [sessions[s] EXCEPT !.read_only = l] \in Session
      BY <2>1, ConnectAssumption DEF Session
    <3>3. /\ [sessions[s] EXCEPT !.read_only = l].key = sessions[s].key
          /\ [sessions[s] EXCEPT !.read_only = l].grant = sessions[s].grant
      BY <2>1 DEF Session
    <3> QED
      BY <2>1, <3>1, <3>2, <3>3, NilIsNot
  <2> QED
    BY <1>1, <1>2, <2>1, <2>2, <2>3, <2>4 DEF Held
<1>3. ASSUME NEW r \in Sid, NEW ok \in BOOLEAN, EnsureSession(r, ok), now' = now
      PROVE  sessions'[s] = sessions[s]
  BY <1>3, EnsureStep
<1>4. CASE SweepSessions
  BY <1>4, ReapStep DEF SweepSessions
<1>5. ASSUME NEW r \in Sid, AuthorizeStep(r) \/ DropAuthorize(r) \/ UseToken(r)
      PROVE  \/ UNCHANGED sessions
             \/ sessions'[s] = sessions[s]
             \/ sessions' = [sessions EXCEPT ![r].x = TRUE]
  BY <1>3, <1>5 DEF AuthorizeStep, AuthorizeEnsure, AuthorizeMintKey, InsertPending,
     DropAuthorize, UseToken, restOfAuthorize, sessionVars, MintRegistrationKey
<1>6. ASSUME NEW p \in Redeem, RedeemStep(p) \/ Register(p) \/ DropRedeem(p)
      PROVE  \/ UNCHANGED sessions
             \/ sessions'[s] = sessions[s]
             \/ \E r \in Sid : \E l \in Levels : sessions' = [sessions EXCEPT ![r].read_only = l]
  <2>1. CASE RedeemEnsure(p) \/ GrantEnsure(p) \/ PermitEnsure(p)
    BY <1>3, <2>1 DEF RedeemEnsure, GrantEnsure, PermitEnsure, NamedIsStarted, RedeemGoes,
       restOfRedeem
  <2>2. CASE GrantRecord(p)
    BY <1>1, <2>2, RecordOnce DEF Once, Live
  <2>3. CASE PermitRecord(p)
    BY <2>3 DEF PermitRecord, RecordPermissions, NamedIsStarted, RedeemGoes, sessionVars
  <2> QED
    BY <1>6, <2>1, <2>2, <2>3 DEF RedeemStep, ClaimRedemption, ReadKeys, Register,
       RegisterAnswered, RegisterFailed, MintCode, InsertCode, ReleaseRedemption, DropRedeem,
       sessionVars
<1>7. CASE UNCHANGED sessionVars
  BY <1>7 DEF sessionVars
<1> QED
  BY <1>4, <1>5, <1>6, <1>7 DEF Next, RedeemSnapshot, ExchangeStep, RemoveConnect,
     ReadClock, ReadGrant, InsertToken, DropExchange, TakeCode, SweepOauth, Tick, vars

(* A live grant keeps its session, its key and its length: no eviction, no  *)
(* sweep and no other connect touches it, and nothing records it anew.      *)
THEOREM LiveGrantKeptHolds == Spec => LiveGrantKept
<1>1. Typed /\ Flight /\ Once /\ [Next]_vars
        => [\A s \in Live : /\ s \in Held'
                            /\ sessions'[s].key = sessions[s].key
                            /\ sessions'[s].grant >= sessions[s].grant]_vars
  BY LiveStays
<1> QED
  BY <1>1, TypedInvariant, FlightInvariant, OnceInvariant, PTL DEF Spec, LiveGrantKept

-----------------------------------------------------------------------------
(* Backing.                                                                 *)

(* The access level is recorded after the grant and before the code.        *)
Known(s) == "unknown" \notin Levels => sessions[s].read_only # "unknown"
LevelBeforeCode ==
    /\ \A p \in Redeem : redeem[p].pc = "mint" /\ At(p) \in Granted => Known(At(p))
    /\ \A s \in Granted : minted[s] > 0 => Known(s)

(* What stands behind a token that ends with a grant: a session with a      *)
(* grant at least as long, and its access level.                            *)
Backed(s, end) == s \in Held /\ sessions[s].grant >= end /\ Known(s)

(* The grant that a token request has read stands until it ends, however    *)
(* long the request waits before it stores the token.                       *)
ReadBacked ==
    \A e \in Exchange :
        exchange[e].pc = "store" /\ exchange[e].grant # Unknown /\ now < exchange[e].grant
            => Backed(exchange[e].sid, exchange[e].grant)

Backing == LevelBeforeCode /\ ReadBacked /\ TokenBacked

(* set_permissions records a level, or finds no session to record it in.    *)
LEMMA LevelRecorded ==
    ASSUME Typed, NEW p \in Redeem, PermitRecord(p)
    PROVE  /\ \A s \in Granted' : Known(s) => Known(s)'
           /\ At(p) \in Granted' => Known(At(p))'
<1> USE DEF Typed, TypeOK, Known
<1>1. PICK level \in Levels : RecordPermissions(At(p), level)
  BY DEF PermitRecord
<1>2. At(p) \in Sid
  BY DEF PermitRecord, RedeemGoes, NamedIsStarted
<1>3. CASE At(p) \notin Held \/ level = "unknown"
  BY <1>1, <1>3 DEF RecordPermissions, sessionVars, Granted, Held
<1>4. CASE ~(At(p) \notin Held \/ level = "unknown")
  <2>1. sessions' = [sessions EXCEPT ![At(p)].read_only = level] /\ sessions[At(p)] \in Session
    BY <1>1, <1>2, <1>4 DEF RecordPermissions, SessionsTypeOK, Held
  <2>2. \A s \in Sid \ {At(p)} : sessions'[s] = sessions[s]
    BY <2>1 DEF SessionsTypeOK
  <2>3. sessions'[At(p)].read_only = level
    BY <1>2, <2>1 DEF SessionsTypeOK, Session
  <2>4. Granted' \subseteq Sid
    BY DEF Granted, Held
  <2>5. \A s \in Granted' : Known(s) => Known(s)'
    BY <1>4, <2>2, <2>3, <2>4
  <2>6. Known(At(p))'
    <3>1. At(p)' = At(p)
      BY DEF PermitRecord, RedeemGoes, At, Attempts
    <3> QED
      BY <1>4, <2>3, <3>1
  <2> QED
    BY <2>5, <2>6
<1> QED
  BY <1>3, <1>4

(* No other step takes the level of a session that keeps its grant.         *)
LEMMA LevelStays ==
    ASSUME Typed, Flight, Once, [Next]_vars
    PROVE  \A s \in Granted' : s \in Granted /\ Known(s) => Known(s)'
<1> USE DEF Typed, TypeOK, Known
<1>1. CASE UNCHANGED sessionVars
  BY <1>1 DEF sessionVars
<1>2. ASSUME NEW s \in Sid, NEW ok \in BOOLEAN, EnsureSession(s, ok), now' = now
      PROVE  \A r \in Granted' : sessions'[r] = sessions[r]
  BY <1>2, EnsureStep
<1>3. ASSUME NEW s \in Sid, MintRegistrationKey(s)
      PROVE  \A r \in Sid : Known(r) => Known(r)'
  BY <1>3 DEF MintRegistrationKey, SessionsTypeOK, Held, Session
<1>4. CASE SweepSessions
  BY <1>4, ReapStep DEF SweepSessions
<1>5. ASSUME NEW s \in Sid, AuthorizeStep(s) \/ DropAuthorize(s) \/ UseToken(s)
      PROVE  \A r \in Granted' : r \in Granted /\ Known(r) => Known(r)'
  BY <1>1, <1>2, <1>3, <1>5 DEF AuthorizeStep, AuthorizeEnsure, AuthorizeMintKey, InsertPending,
     DropAuthorize, UseToken, restOfAuthorize, Granted, Held
<1>6. ASSUME NEW p \in Redeem, RedeemStep(p) \/ Register(p) \/ DropRedeem(p)
      PROVE  \A r \in Granted' : r \in Granted /\ Known(r) => Known(r)'
  <2>1. CASE RedeemEnsure(p) \/ GrantEnsure(p) \/ PermitEnsure(p)
    BY <1>2, <2>1 DEF RedeemEnsure, GrantEnsure, PermitEnsure, NamedIsStarted, RedeemGoes, restOfRedeem
  <2>2. CASE GrantRecord(p)
    BY <2>2, RecordOnce DEF Once, Granted, Held
  <2>3. CASE PermitRecord(p)
    BY <2>3, LevelRecorded
  <2> QED
    BY <1>1, <1>6, <2>1, <2>2, <2>3 DEF RedeemStep, ClaimRedemption, ReadKeys, Register,
       RegisterAnswered, RegisterFailed, MintCode, InsertCode, ReleaseRedemption, DropRedeem
<1> QED
  BY <1>1, <1>4, <1>5, <1>6 DEF Next, RedeemSnapshot, ExchangeStep, RemoveConnect, ReadClock,
     ReadGrant, InsertToken, DropExchange, TakeCode, SweepOauth, Tick, vars, sessionVars

(* How a grant appears: in an attempt, so with no code minted yet.          *)
LEMMA GrantAppears ==
    ASSUME Typed, Flight, Once, [Next]_vars, NEW s \in Granted', s \notin Granted
    PROVE  \E p \in Redeem : /\ GrantRecord(p) /\ s = At(p) /\ minted[s] = 0 /\ UNCHANGED minted
                             /\ \A q \in Redeem \ {p} : At(q) = s => redeem[q].pc \notin Attempting
                             /\ redeem'[p].pc = "permit" /\ UNCHANGED tokens
<1> USE DEF Typed, TypeOK, Flight
<1>1. PICK p \in Redeem : GrantRecord(p)
  BY GrantsStay
<1>2. s = At(p)
  BY <1>1, RecordOnce DEF Once, Granted, Held
<1>3. redeem[p].pc \in Attempting
  BY <1>1 DEF GrantRecord, Attempting
<1>4. minted[s] = 0 /\ \A q \in Redeem \ {p} : At(q) = s => redeem[q].pc \notin Attempting
  BY <1>2, <1>3 DEF MintedIsSettled, SingleFlight
<1>5. redeem'[p].pc = "permit" /\ UNCHANGED <<minted, tokens>>
  BY <1>1 DEF GrantRecord, Attempts, restOfRedeem
<1> QED
  BY <1>1, <1>2, <1>4, <1>5

(* How a request comes to mint: through set_permissions.                    *)
LEMMA MintComes ==
    ASSUME Typed, [Next]_vars, NEW p \in Redeem, redeem'[p].pc = "mint"
    PROVE  /\ At(p)' = At(p)
           /\ \/ redeem[p].pc = "mint"
              \/ At(p) \notin Granted'
              \/ PermitRecord(p)
<1> USE DEF Typed, TypeOK, Attempts, RedeemGoes, RedeemEnds, RedeemAt, At
<1>1. CASE UNCHANGED redeem
  BY <1>1
<1>2. ASSUME NEW q \in Redeem, RedeemStep(q) \/ Register(q) \/ DropRedeem(q)
             \/ \E s \in Sid : RedeemSnapshot(q, s)
      PROVE  /\ At(p)' = At(p)
             /\ redeem[p].pc = "mint" \/ PermitEnsure(p) \/ PermitRecord(p)
  <2>1. CASE q # p
    BY <1>2, <2>1 DEF RedeemStep, ClaimRedemption, RedeemEnsure, ReadKeys, Register,
       RegisterAnswered, RegisterFailed, GrantEnsure, GrantRecord, PermitEnsure, PermitRecord,
       MintCode, InsertCode, ReleaseRedemption, DropRedeem, RedeemSnapshot
  <2>2. CASE PermitEnsure(p) \/ PermitRecord(p)
    BY <2>2 DEF PermitEnsure, PermitRecord
  <2>3. CASE q = p /\ ~(PermitEnsure(p) \/ PermitRecord(p))
    BY <1>2, <2>3 DEF RedeemStep, ClaimRedemption, RedeemEnsure, ReadKeys, Register,
       RegisterAnswered, RegisterFailed, GrantEnsure, GrantRecord, MintCode, InsertCode,
       ReleaseRedemption, DropRedeem, RedeemSnapshot
  <2> QED
    BY <2>1, <2>2, <2>3
<1>3. CASE PermitEnsure(p)
  <2>1. PICK ok \in BOOLEAN : /\ RedeemGoes(p, "permit", IF ok THEN "level" ELSE "mint")
                              /\ EnsureSession(At(p), ok)
    BY <1>3 DEF PermitEnsure
  <2>2. ~ok /\ At(p) \in Sid /\ now' = now
    BY <1>3, <2>1 DEF NamedIsStarted, PermitEnsure, restOfRedeem
  <2> QED
    BY <2>1, <2>2, EnsureStep
<1> QED
  BY <1>1, <1>2, <1>3, AsideSteps

(* set_permissions comes before the code is minted, so LevelBeforeCode      *)
(* stays.                                                                   *)
LEMMA LevelStep ==
    ASSUME Typed, Flight, Once, LevelBeforeCode, [Next]_vars
    PROVE  LevelBeforeCode'
<1>1. ASSUME NEW p \in Redeem, redeem'[p].pc = "mint", At(p)' \in Granted'
      PROVE  Known(At(p))'
  <2>1. At(p)' = At(p)
    BY <1>1, MintComes
  <2>2. CASE PermitRecord(p)
    BY <1>1, <2>1, <2>2, LevelRecorded DEF Known
  <2>3. CASE redeem[p].pc = "mint"
    <3>1. At(p) \in Granted
      BY <1>1, <2>1, <2>3, GrantAppears DEF Attempting, GrantRecord
    <3>2. Known(At(p))
      BY <2>3, <3>1 DEF LevelBeforeCode
    <3> QED
      BY <1>1, <2>1, <3>1, <3>2, LevelStays DEF Known
  <2> QED
    BY <1>1, <2>1, <2>2, <2>3, MintComes
<1>2. ASSUME NEW s \in Granted', minted'[s] > 0
      PROVE  Known(s)'
  <2>1. s \in Granted
    BY <1>2, GrantAppears
  <2>2. CASE minted[s] > 0
    BY <2>1, <2>2, <1>2, LevelStays DEF LevelBeforeCode
  <2>3. CASE ~ minted[s] > 0
    <3>1. PICK p \in Redeem : MintCode(p) /\ minted' = [minted EXCEPT ![At(p)] = @ + 1]
      <4>1. minted' # minted
        BY <1>2, <2>3
      <4>2. PICK p \in Redeem : \/ RedeemStep(p) \/ Register(p) \/ DropRedeem(p)
                                \/ \E r \in Sid : RedeemSnapshot(p, r)
        BY <4>1, AsideSteps
      <4> QED
        BY <4>1, <4>2 DEF RedeemStep, ClaimRedemption, RedeemEnsure, ReadKeys, Register,
           RegisterAnswered, RegisterFailed, GrantEnsure, GrantRecord, PermitEnsure, PermitRecord,
           MintCode, InsertCode, ReleaseRedemption, DropRedeem, RedeemSnapshot, restOfRedeem
    <3>2. s = At(p) /\ redeem[p].pc = "mint" /\ UNCHANGED sessions
      BY <1>2, <2>3, <3>1 DEF MintCode, sessionVars, Typed, TypeOK, Granted, Held
    <3> QED
      BY <2>1, <3>2 DEF LevelBeforeCode, Known
  <2> QED
    BY <2>2, <2>3
<1> QED
  BY <1>1, <1>2 DEF LevelBeforeCode

(* A token changes hands only by its exchange, which cuts it to what was    *)
(* left of the grant it read when it read the clock.                        *)
StoredBy(e, s) ==
    /\ exchange[e].pc = "store" /\ exchange[e].sid = s
    /\ tokens'[s] = now + TokenLife(exchange[e].grant, exchange[e].at)
    /\ lag'[s] = IF exchange[e].grant = Unknown THEN Unknown ELSE now - exchange[e].at
    /\ UNCHANGED <<sessions, now>>

LEMMA TokenWrites ==
    ASSUME Typed, [Next]_vars, NEW s \in TokensHeld'
    PROVE  \/ s \in TokensHeld /\ tokens'[s] = tokens[s] /\ lag'[s] = lag[s]
           \/ \E e \in Exchange : StoredBy(e, s)
<1> USE DEF Typed, TypeOK, TokensHeld
<1>1. CASE UNCHANGED <<tokens, lag>>
  BY <1>1
<1>2. ASSUME NEW e \in Exchange, InsertToken(e)
      PROVE  (tokens'[s] = tokens[s] /\ lag'[s] = lag[s]) \/ StoredBy(e, s)
  <2>1. CASE exchange[e].sid = s
    BY <1>2, <2>1 DEF InsertToken, ExchangeEnds, restOfExchange, sessionVars, StoredBy
  <2>2. CASE exchange[e].sid # s
    BY <1>2, <2>2 DEF InsertToken
  <2> QED
    BY <2>1, <2>2
<1>3. CASE SweepOauth
  BY <1>3 DEF SweepOauth
<1>4. ASSUME NEW p \in Redeem, RedeemStep(p) \/ Register(p) \/ DropRedeem(p)
             \/ \E r \in Sid : RedeemSnapshot(p, r)
      PROVE  UNCHANGED <<tokens, lag>>
  BY <1>4 DEF RedeemStep, ClaimRedemption, RedeemEnsure, ReadKeys, Register, RegisterAnswered,
     RegisterFailed, GrantEnsure, GrantRecord, PermitEnsure, PermitRecord, MintCode, InsertCode,
     ReleaseRedemption, DropRedeem, RedeemSnapshot, restOfRedeem
<1>5. ASSUME NEW r \in Sid, AuthorizeStep(r) \/ DropAuthorize(r) \/ UseToken(r)
      PROVE  UNCHANGED <<tokens, lag>>
  BY <1>5 DEF AuthorizeStep, AuthorizeEnsure, AuthorizeMintKey, InsertPending, DropAuthorize,
     UseToken, restOfAuthorize, oauthVars
<1> QED
  BY <1>1, <1>2, <1>3, <1>4, <1>5 DEF Next, ExchangeStep, RemoveConnect, ReadClock, ReadGrant,
     DropExchange, TakeCode, SweepSessions, Tick, vars, oauthVars

(* What is backed stays so until the grant ends: it is a live grant.        *)
LEMMA StaysBacked ==
    ASSUME Typed, Flight, Once, [Next]_vars, NEW s \in Sid, NEW end \in Int,
           Backed(s, end), now < end
    PROVE  /\ s \in Held' /\ sessions'[s].grant >= end /\ Known(s)'
<1> USE DEF Typed, TypeOK, SessionsTypeOK
<1>1. s \in Held /\ sessions[s].grant >= end /\ Known(s) /\ now \in Nat
  BY DEF Backed
<1>2. sessions[s].grant \in Int /\ sessions[s].grant > now
  BY <1>1 DEF Held, Session, Unknown
<1>3. s \in Live
  BY <1>1, <1>2 DEF Live, Granted, Unknown
<1>4. s \in Held' /\ sessions'[s].grant >= sessions[s].grant
  BY <1>3, LiveStays
<1>5. TypeOK'
  BY AuthorizeTypes, RedeemTypes, ExchangeTypes, OtherTypes DEF Next
<1>6. sessions'[s].grant \in Int
  BY <1>4, <1>5 DEF Held, Session, Unknown
<1>7. s \in Granted'
  BY <1>1, <1>2, <1>4, <1>6 DEF Granted, Unknown
<1>8. Known(s)'
  BY <1>1, <1>3, <1>7, LevelStays DEF Live
<1> QED
  BY <1>1, <1>2, <1>4, <1>6, <1>8

(* A grant that is read is backed: its code was minted after the level was  *)
(* recorded.  From then on it is a live grant.                              *)
LEMMA ReadStep ==
    ASSUME Typed, Flight, Once, LevelBeforeCode, ReadBacked, [Next]_vars
    PROVE  ReadBacked'
<1> USE DEF Typed, TypeOK
<1> SUFFICES ASSUME NEW e \in Exchange, exchange'[e].pc = "store",
                    exchange'[e].grant # Unknown, now' < exchange'[e].grant
             PROVE  /\ exchange'[e].sid \in Held' /\ Known(exchange[e].sid)'
                    /\ exchange'[e].sid = exchange[e].sid
                    /\ sessions'[exchange[e].sid].grant >= exchange'[e].grant
  BY DEF ReadBacked, Backed, Known
<1>1. exchange[e] \in Exchanges /\ now \in Nat /\ now' \in Nat /\ now <= now'
  BY ClockGoesOn
<1>2. CASE exchange'[e] = exchange[e]
  <2>1. exchange[e].sid \in Sid /\ exchange[e].grant \in Int /\ now < exchange[e].grant
    BY <1>1, <1>2 DEF NamedIsStarted, Exchanging, Exchanges, Unknown
  <2>2. Backed(exchange[e].sid, exchange[e].grant)
    BY <1>2, <2>1 DEF ReadBacked
  <2>3. PICK s \in Sid, end \in Int : s = exchange[e].sid /\ end = exchange[e].grant
    BY <2>1
  <2>4. s \in Held' /\ sessions'[s].grant >= end /\ Known(s)'
    BY <2>1, <2>2, <2>3, StaysBacked
  <2> QED
    BY <1>2, <2>3, <2>4 DEF Backed, Known
<1>3. CASE ReadGrant(e)
  <2>1. PICK s \in Sid : s = exchange[e].sid
    BY <1>3 DEF ReadGrant, NamedIsStarted, Exchanging
  <2>2. /\ exchange'[e].sid = s
        /\ exchange'[e].grant = IF s \in Held THEN sessions[s].grant ELSE Unknown
        /\ UNCHANGED sessions
    BY <1>1, <1>3, <2>1 DEF ReadGrant, Exchanges, sessionVars
  <2>3. s \in Granted /\ minted[s] > 0
    BY <2>1, <2>2 DEF Granted, Once, NothingUnminted
  <2>4. Known(s)
    BY <2>3 DEF LevelBeforeCode
  <2>5. sessions[s].grant \in Nat
    BY <2>3 DEF Granted, Held, SessionsTypeOK, Session
  <2> QED
    BY <2>1, <2>2, <2>3, <2>4, <2>5 DEF Known, Granted, Held
<1> QED
  BY <1>2, <1>3, ExchangeMoves

(* A token stays backed: by the grant it was cut to, which stays until it   *)
(* ends.                                                                    *)
LEMMA BackedStep ==
    ASSUME Typed, Flight, Once, ReadBacked, TokenBacked, [Next]_vars
    PROVE  TokenBacked'
<1> USE DEF Typed, TypeOK
<1> SUFFICES ASSUME NEW s \in Sid, TokenValid(s)', lag'[s] # Unknown,
                    now' < tokens'[s] - lag'[s]
             PROVE  /\ s \in Held' /\ sessions'[s].grant >= tokens'[s] - lag'[s]
                    /\ Known(s)'
  BY DEF TokenBacked, Known
<1>1. s \in TokensHeld' /\ tokens'[s] > now' /\ now <= now' /\ now \in Nat /\ now' \in Nat
  BY ClockGoesOn DEF TokenValid
<1>2. CASE s \in TokensHeld /\ tokens'[s] = tokens[s] /\ lag'[s] = lag[s]
  <2>1. PICK end \in Int : end = tokens[s] - lag[s]
    BY <1>2 DEF Absent, Unknown
  <2>2. tokens[s] \in Int /\ tokens[s] > now /\ now < end
    BY <1>1, <1>2, <2>1 DEF Absent
  <2>3. Backed(s, end)
    BY <1>2, <2>1, <2>2 DEF TokenBacked, TokenValid, Backed, Known
  <2>4. s \in Held' /\ sessions'[s].grant >= end /\ Known(s)'
    BY <2>2, <2>3, StaysBacked
  <2> QED
    BY <1>2, <2>1, <2>4
<1>3. ASSUME NEW e \in Exchange, StoredBy(e, s)
      PROVE  /\ s \in Held' /\ sessions'[s].grant >= tokens'[s] - lag'[s]
             /\ Known(s)'
  <2>1. /\ exchange[e].pc = "store" /\ exchange[e].sid = s
        /\ tokens'[s] = now + TokenLife(exchange[e].grant, exchange[e].at)
        /\ exchange[e].grant # Unknown /\ lag'[s] = now - exchange[e].at
        /\ UNCHANGED <<sessions, now>>
    BY <1>3 DEF StoredBy
  <2>2. /\ exchange[e].at \in Nat /\ exchange[e].grant \in Nat
        /\ exchange[e].at <= now
    BY <2>1 DEF Exchanges, ClockRead
  <2>3. exchange[e].grant > exchange[e].at /\ tokens'[s] - lag'[s] = exchange[e].grant
    BY <1>1, <2>1, <2>2 DEF TokenLife
  <2>4. Backed(s, exchange[e].grant)
    BY <2>1, <2>3 DEF ReadBacked
  <2> QED
    BY <2>1, <2>3, <2>4 DEF Backed, Known, Held
<1> QED
  BY <1>1, <1>2, <1>3, TokenWrites

(* Backing is inductive, given the three before it.                         *)
LEMMA BackingInvariant == Spec => []Backing
<1>1. Init => Backing
  <2> SUFFICES ASSUME Init PROVE Backing
    OBVIOUS
  <2>1. Granted = {} /\ TokensHeld = {}
    BY DEF Init, SessionsInit, Granted, Held, TokensHeld
  <2> QED
    BY <2>1 DEF Init, Backing, LevelBeforeCode, ReadBacked, ExchangeAt, TokenBacked, TokenValid
<1>2. Typed /\ Flight /\ Once /\ Backing /\ [Next]_vars => LevelBeforeCode'
  BY LevelStep DEF Backing
<1>3. Typed /\ Flight /\ Once /\ Backing /\ [Next]_vars => ReadBacked' /\ TokenBacked'
  BY ReadStep, BackedStep DEF Backing
<1> QED
  BY <1>1, <1>2, <1>3, TypedInvariant, FlightInvariant, OnceInvariant, PTL DEF Spec, Backing

(* A token issued on a recorded grant has, until that grant ends, a session  *)
(* with a grant as long and with a recorded access level to act for it, and  *)
(* is valid after that for no longer than its handler had waited to store it. *)
THEOREM TokenBackedHolds == Spec => []TokenBacked
BY BackingInvariant, PTL DEF Backing

-----------------------------------------------------------------------------
(* The size of the session map and the log of what it closes.               *)

(* The lock sections of the session map that a step may hold: everything    *)
(* else leaves the map alone.  Only the authorize handler of a session id   *)
(* runs before its connect is there.                                        *)
LEMMA SessionMoves ==
    ASSUME Typed, Flight, Once, [Next]_vars
    PROVE  \/ UNCHANGED sessionVars
           \/ \E s \in Sid, ok \in BOOLEAN :
                 /\ EnsureSession(s, ok) /\ now' = now
                 /\ \/ AuthorizeEnsure(s)
                    \/ /\ authorizing[s] \notin {"new", "key", "pending"}
                       /\ UNCHANGED authorizing
           \/ \E s \in Sid : AuthorizeMintKey(s) /\ MintRegistrationKey(s) /\ now' = now
           \/ \E p \in Redeem : GrantRecord(p) /\ now' = now
           \/ \E s \in Sid, level \in Levels : RecordPermissions(s, level) /\ now' = now
           \/ ReapSessions /\ now' = now
<1> USE DEF Typed, TypeOK
<1>1. ASSUME NEW s \in Sid, UseToken(s)
      PROVE  \E ok \in BOOLEAN : /\ EnsureSession(s, ok) /\ now' = now
                                 /\ authorizing[s] \notin {"new", "key", "pending"}
                                 /\ UNCHANGED authorizing
  <2>1. minted[s] > 0
    BY <1>1 DEF UseToken, TokenValid, Once, NothingUnminted
  <2> QED
    BY <1>1, <2>1 DEF UseToken, Flight, MintedIsStarted, oauthVars
<1>2. ASSUME NEW s \in Sid, AuthorizeStep(s) \/ DropAuthorize(s)
      PROVE  \/ UNCHANGED sessionVars
             \/ /\ AuthorizeEnsure(s) /\ now' = now
                /\ \E ok \in BOOLEAN : EnsureSession(s, ok)
             \/ AuthorizeMintKey(s) /\ MintRegistrationKey(s) /\ now' = now
  BY <1>2 DEF AuthorizeStep, AuthorizeEnsure, AuthorizeMintKey, InsertPending, DropAuthorize,
     restOfAuthorize
<1>3. ASSUME NEW p \in Redeem, RedeemEnsure(p) \/ GrantEnsure(p) \/ PermitEnsure(p)
      PROVE  \E s \in Sid, ok \in BOOLEAN :
                 /\ EnsureSession(s, ok) /\ now' = now
                 /\ authorizing[s] \notin {"new", "key", "pending"}
                 /\ UNCHANGED authorizing
  BY <1>3 DEF RedeemEnsure, GrantEnsure, PermitEnsure, RedeemGoes, restOfRedeem, NamedIsStarted
<1>4. ASSUME NEW p \in Redeem, PermitRecord(p)
      PROVE  \E s \in Sid, level \in Levels : RecordPermissions(s, level) /\ now' = now
  BY <1>4 DEF PermitRecord, RedeemGoes, restOfRedeem, NamedIsStarted
<1>5. ASSUME NEW p \in Redeem, RedeemStep(p) \/ Register(p) \/ DropRedeem(p)
             \/ \E s \in Sid : RedeemSnapshot(p, s)
      PROVE  \/ UNCHANGED sessionVars
             \/ RedeemEnsure(p) \/ GrantEnsure(p) \/ PermitEnsure(p) \/ PermitRecord(p)
             \/ GrantRecord(p) /\ now' = now
  BY <1>5 DEF RedeemStep, ClaimRedemption, ReadKeys, Register, RegisterAnswered, RegisterFailed,
     GrantRecord, MintCode, InsertCode, ReleaseRedemption, DropRedeem, RedeemSnapshot, restOfRedeem
<1>6. CASE SweepSessions
  BY <1>6 DEF SweepSessions
<1>7. ASSUME NEW e \in Exchange,
             \/ ExchangeStep(e) \/ DropExchange(e)
             \/ \E s \in Sid, verified \in BOOLEAN : TakeCode(e, s, verified)
      PROVE  UNCHANGED sessionVars
  BY <1>7 DEF ExchangeStep, RemoveConnect, ReadClock, ReadGrant, InsertToken, DropExchange,
     TakeCode
<1>8. CASE SweepOauth \/ Tick \/ UNCHANGED vars
  BY <1>8 DEF SweepOauth, Tick, vars
<1> QED
  BY <1>1, <1>2, <1>3, <1>4, <1>5, <1>6, <1>7, <1>8 DEF Next

(* MAX_SESSIONS bounds the map.                                             *)
Capped == Cardinality(Held) <= MaxSessions

LEMMA HeldIsFinite ==
    ASSUME NEW S \in SUBSET Sid
    PROVE  IsFiniteSet(S) /\ Cardinality(S) \in Nat
BY FS_Subset, FS_CardinalityType, SessionsAssumption

(* ensure_session keeps the map within its cap, and refuses a session only  *)
(* when make_room found nothing to close: a refused call closes nothing, so *)
(* the list of closed sessions that its error drops is empty.               *)
LEMMA RefusedClosesNothing ==
    ASSUME SessionsTypeOK, Capped, NEW s \in Sid, NEW ok \in BOOLEAN, EnsureSession(s, ok)
    PROVE  /\ Capped'
           /\ Held' \subseteq Held \cup {s}
           /\ ~ok => UNCHANGED sessionVars
           /\ \/ UNCHANGED sessionVars
              \/ /\ s \notin Held /\ keys' = [keys EXCEPT ![s] = @ + 1]
                 /\ sessions'[s] = NewSession(s)
                 /\ \E evicted \in SUBSET Held :
                       /\ MakeRoom(evicted)
                       /\ \A r \in Sid \ {s} : sessions'[r] = IF r \in evicted THEN Nil ELSE sessions[r]
                       /\ journal' = Closing(evicted \cap Expired)
<1>0. Held \in SUBSET Sid
  BY DEF Held
<1>1. CASE s \in Held
  BY <1>1 DEF EnsureSession, Capped, Held, sessionVars
<1>2. CASE s \notin Held
  <2>1. PICK evicted \in SUBSET Held :
          /\ MakeRoom(evicted)
          /\ ok <=> Cardinality(Held \ evicted) < MaxSessions
          /\ sessions' = [r \in Sid |-> IF r \in evicted THEN Nil
                                        ELSE IF r = s /\ ok THEN NewSession(s)
                                        ELSE sessions[r]]
          /\ keys' = IF ok THEN [keys EXCEPT ![s] = @ + 1] ELSE keys
          /\ journal' = IF ok THEN Closing(evicted \cap Expired) ELSE journal
    BY <1>2 DEF EnsureSession
  <2> DEFINE left == Held \ evicted
  <2>2. /\ IsFiniteSet(Held) /\ Cardinality(Held) \in Nat
        /\ IsFiniteSet(left) /\ Cardinality(left) \in Nat
        /\ Cardinality(left) <= Cardinality(Held)
        /\ Cardinality(left) = Cardinality(Held) => left = Held
    <3>1. left \in SUBSET Held /\ left \in SUBSET Sid
      BY <1>0
    <3> QED
      BY <1>0, <3>1, HeldIsFinite, FS_Subset
  <2>3. CASE ok
    <3>1. Held' \subseteq left \cup {s}
      BY <2>1, <2>3 DEF Held
    <3>2. Cardinality(Held') <= Cardinality(left \cup {s})
          /\ Cardinality(left \cup {s}) = Cardinality(left) + 1
          /\ Cardinality(Held') \in Nat
      <4>1. IsFiniteSet(left \cup {s}) /\ Cardinality(left \cup {s}) = Cardinality(left) + 1
        BY <1>2, <2>2, FS_AddElement
      <4>2. Held' \in SUBSET (left \cup {s}) /\ Held' \in SUBSET Sid
        BY <3>1, <1>0
      <4>3. Cardinality(Held') <= Cardinality(left \cup {s})
        BY <4>1, <4>2, FS_Subset
      <4>4. Cardinality(Held') \in Nat
        BY <4>2, HeldIsFinite
      <4> QED
        BY <4>1, <4>3, <4>4
    <3>3. Capped'
      BY <2>1, <2>2, <2>3, <3>2, SessionsAssumption DEF Capped
    <3>4. s \notin evicted
      BY <1>2
    <3>5. sessions'[s] = NewSession(s)
          /\ \A r \in Sid \ {s} : sessions'[r] = IF r \in evicted THEN Nil ELSE sessions[r]
      BY <2>1, <2>3, <3>4
    <3> QED
      BY <1>2, <2>1, <2>3, <3>1, <3>3, <3>5
  <2>4. CASE ~ok
    <3>1. left = Held
      <4>1. ~(Cardinality(left) < MaxSessions)
        BY <2>1, <2>4
      <4>2. Cardinality(left) = Cardinality(Held)
        BY <2>2, <4>1, SessionsAssumption DEF Capped
      <4> QED
        BY <2>2, <4>2
    <3>2. evicted = {}
      BY <3>1
    <3>3. sessions' = sessions
      BY <2>1, <2>4, <3>2 DEF SessionsTypeOK
    <3>4. UNCHANGED sessionVars
      BY <2>1, <2>4, <3>3 DEF sessionVars
    <3> QED
      BY <3>3, <3>4 DEF Capped, Held
  <2> QED
    BY <2>3, <2>4
<1> QED
  BY <1>1, <1>2

(* What the other lock sections do to the map: one field of one session, or *)
(* the end of the sessions that prune_stale finds.                          *)
LEMMA FieldWrites ==
    ASSUME SessionsTypeOK, NEW s \in Sid,
           \/ MintRegistrationKey(s)
           \/ \E level \in Levels : RecordPermissions(s, level)
    PROVE  /\ Held' = Held /\ Granted' = Granted /\ UNCHANGED <<keys, journal>>
           /\ \A r \in Held : /\ sessions'[r].created = sessions[r].created
                              /\ sessions'[r].grant = sessions[r].grant
<1>1. \/ UNCHANGED sessions
      \/ s \in Held /\ sessions' = [sessions EXCEPT ![s].x = TRUE]
      \/ s \in Held /\ \E level \in Levels : sessions' = [sessions EXCEPT ![s].read_only = level]
  BY DEF MintRegistrationKey, RecordPermissions, sessionVars
<1>2. UNCHANGED <<keys, journal>>
  BY DEF MintRegistrationKey, RecordPermissions, sessionVars
<1>3. \A r \in Sid : /\ sessions[r] = Nil <=> sessions'[r] = Nil
                     /\ r \in Held => /\ sessions'[r].created = sessions[r].created
                                      /\ sessions'[r].grant = sessions[r].grant
  <2>1. CASE UNCHANGED sessions
    BY <2>1
  <2>2. CASE s \in Held /\ sessions' = [sessions EXCEPT ![s].x = TRUE]
    <3>1. sessions[s] \in Session
      BY <2>2 DEF Held, SessionsTypeOK
    <3> QED
      BY <2>2, <3>1, NilIsNot DEF Held, SessionsTypeOK, Session
  <2>3. ASSUME NEW level \in Levels, s \in Held,
               sessions' = [sessions EXCEPT ![s].read_only = level]
        PROVE  \A r \in Sid : /\ sessions[r] = Nil <=> sessions'[r] = Nil
                              /\ r \in Held => /\ sessions'[r].created = sessions[r].created
                                               /\ sessions'[r].grant = sessions[r].grant
    <3>1. sessions[s] \in Session /\ [sessions[s] EXCEPT !.read_only = level] \in Session
      BY <2>3, ConnectAssumption DEF Held, SessionsTypeOK, Session
    <3> QED
      BY <2>3, <3>1, NilIsNot DEF Held, SessionsTypeOK, Session
  <2> QED
    BY <1>1, <2>1, <2>2, <2>3
<1> QED
  BY <1>2, <1>3 DEF Held, Granted

LEMMA GrantWrite ==
    ASSUME Typed, Flight, Once, NEW p \in Redeem, GrantRecord(p)
    PROVE  /\ At(p) \in Sid /\ At(p) \notin Granted
           /\ Held' = Held /\ Granted' = Granted \cup ({At(p)} \cap Held)
           /\ UNCHANGED keys
           /\ \A r \in Held : /\ sessions'[r].created = sessions[r].created
                              /\ r # At(p) => sessions'[r] = sessions[r]
           /\ At(p) \in Held => sessions'[At(p)].grant = redeem[p].exp
           /\ journal' = IF At(p) \in Held /\ redeem[p].exp > now
                         THEN [journal EXCEPT ![At(p)] = @ + 1] ELSE journal
<1> USE DEF Typed, TypeOK
<1>1. At(p) \in Sid /\ redeem[p].exp \in Nat
  BY DEF GrantRecord, NamedIsStarted, Attempts
<1>2. At(p) \notin Granted
  BY RecordOnce DEF Once
<1>3. CASE At(p) \notin Held
  BY <1>1, <1>2, <1>3 DEF GrantRecord, RecordGrant, sessionVars, Held, Granted
<1>4. CASE At(p) \in Held
  <2>1. /\ sessions' = [sessions EXCEPT ![At(p)].grant = redeem[p].exp]
        /\ journal' = IF At(p) \notin Live /\ redeem[p].exp > now
                      THEN [journal EXCEPT ![At(p)] = @ + 1] ELSE journal
        /\ UNCHANGED keys
    BY <1>4 DEF GrantRecord, RecordGrant
  <2>2. At(p) \notin Live
    BY <1>2 DEF Live
  <2>3. sessions[At(p)] \in Session
    BY <1>1, <1>4 DEF Held, SessionsTypeOK
  <2>4. /\ \A r \in Sid \ {At(p)} : sessions'[r] = sessions[r]
        /\ sessions'[At(p)] = [sessions[At(p)] EXCEPT !.grant = redeem[p].exp]
    BY <1>1, <2>1 DEF SessionsTypeOK
  <2>5. /\ sessions'[At(p)] \in Session
        /\ sessions'[At(p)].grant = redeem[p].exp
        /\ sessions'[At(p)].created = sessions[At(p)].created
    BY <1>1, <2>3, <2>4 DEF Session
  <2>6. Held' = Held
    BY <1>1, <1>4, <2>4, <2>5, NilIsNot DEF Held
  <2>7. Granted' = Granted \cup {At(p)}
    <3>1. At(p) \in Granted'
      BY <1>1, <1>4, <2>5, <2>6 DEF Granted, Unknown
    <3>2. \A r \in Sid \ {At(p)} : r \in Granted' <=> r \in Granted
      BY <2>4, <2>6 DEF Granted
    <3>3. Granted \subseteq Sid /\ Granted' \subseteq Sid
      BY DEF Granted, Held
    <3> QED
      BY <1>1, <3>1, <3>2, <3>3
  <2> QED
    BY <1>1, <1>2, <1>4, <2>1, <2>2, <2>4, <2>5, <2>6, <2>7 DEF Held
<1> QED
  BY <1>3, <1>4

(* A grant on its way from II to the map has not ended: II makes grants of  *)
(* at least ten minutes, and the agent gives up long before that.           *)
GrantAhead ==
    \A p \in Redeem : redeem[p].pc \in {"landed", "grant", "record"} => now < redeem[p].exp

LEMMA GrantAheadStep ==
    ASSUME Typed, GrantAhead, [Next]_vars
    PROVE  GrantAhead'
<1> USE DEF Typed, TypeOK, SessionsTypeOK
<1>1. CASE Tick
  BY <1>1 DEF Tick, GrantAhead, oauthVars
<1>2. ASSUME NEW p \in Redeem, RedeemStep(p) \/ Register(p) \/ DropRedeem(p)
             \/ \E s \in Sid : RedeemSnapshot(p, s)
      PROVE  GrantAhead'
  <2>1. UNCHANGED now
    BY <1>2 DEF RedeemStep, ClaimRedemption, RedeemEnsure, ReadKeys, Register, RegisterAnswered,
       RegisterFailed, GrantEnsure, GrantRecord, PermitEnsure, PermitRecord, MintCode, InsertCode,
       ReleaseRedemption, DropRedeem, RedeemSnapshot, restOfRedeem
  <2>2. CASE Register(p)
    <3>1. now < now + GrantTTL
      BY ConnectAssumption
    <3>2. /\ redeem'[p].exp = now + GrantTTL
          /\ \A q \in Redeem \ {p} : redeem'[q] = redeem[q]
      BY <2>2 DEF Register, Attempts
    <3> QED
      BY <2>1, <3>1, <3>2 DEF GrantAhead
  <2>3. CASE ~ Register(p)
    <3>1. \A q \in Redeem \ {p} : redeem'[q] = redeem[q]
      BY <1>2, <2>3 DEF RedeemStep, ClaimRedemption, RedeemEnsure, ReadKeys, RegisterAnswered,
         RegisterFailed, GrantEnsure, GrantRecord, PermitEnsure, PermitRecord, MintCode, InsertCode,
         ReleaseRedemption, DropRedeem, RedeemSnapshot, RedeemGoes, RedeemEnds
    <3>2. CASE RegisterAnswered(p) \/ GrantEnsure(p)
      <4>1. redeem[p].pc \in {"landed", "grant"} /\ redeem'[p].exp = redeem[p].exp
        BY <3>2 DEF RegisterAnswered, GrantEnsure, RedeemGoes, Attempts
      <4> QED
        BY <2>1, <3>1, <4>1 DEF GrantAhead
    <3>3. CASE ~ (RegisterAnswered(p) \/ GrantEnsure(p))
      <4>1. redeem'[p].pc \notin {"landed", "grant", "record"}
        BY <1>2, <2>3, <3>3 DEF RedeemStep, ClaimRedemption, RedeemEnsure, ReadKeys, RegisterFailed,
           GrantRecord, PermitEnsure, PermitRecord, MintCode, InsertCode, ReleaseRedemption,
           DropRedeem, RedeemSnapshot, RedeemGoes, RedeemEnds, RedeemAt, Attempts
      <4> QED
        BY <2>1, <3>1, <4>1 DEF GrantAhead
    <3> QED
      BY <3>2, <3>3
  <2> QED
    BY <2>2, <2>3
<1>3. ASSUME NEW r \in Sid, AuthorizeStep(r) \/ DropAuthorize(r) \/ UseToken(r)
      PROVE  UNCHANGED <<redeem, now>>
  BY <1>3 DEF AuthorizeStep, AuthorizeEnsure, AuthorizeMintKey, InsertPending, DropAuthorize,
     UseToken, restOfAuthorize, oauthVars
<1>4. ASSUME NEW e \in Exchange,
             \/ ExchangeStep(e) \/ DropExchange(e)
             \/ \E s \in Sid, verified \in BOOLEAN : TakeCode(e, s, verified)
      PROVE  UNCHANGED <<redeem, now>>
  BY <1>4 DEF ExchangeStep, RemoveConnect, ReadClock, ReadGrant, InsertToken, DropExchange,
     TakeCode, restOfExchange
<1>5. CASE SweepSessions \/ SweepOauth \/ UNCHANGED vars
  BY <1>5 DEF SweepSessions, SweepOauth, vars, oauthVars, GrantAhead
<1> QED
  BY <1>1, <1>2, <1>3, <1>4, <1>5 DEF Next, GrantAhead

(* A grant is logged as opened when it is recorded, and as closed when its  *)
(* session goes.                                                            *)
LEMMA JournalStep ==
    ASSUME Typed, Flight, Once, Capped, GrantAhead, JournalPaired, [Next]_vars
    PROVE  Capped' /\ JournalPaired'
<1> USE DEF Typed, TypeOK, JournalPaired
<1>1. CASE UNCHANGED sessionVars
  BY <1>1 DEF sessionVars, Capped, Granted, Held
<1>2. ASSUME NEW s \in Sid, NEW ok \in BOOLEAN, EnsureSession(s, ok), now' = now
      PROVE  Capped' /\ JournalPaired'
  <2>1. CASE UNCHANGED sessionVars
    BY <1>1, <2>1
  <2>2. CASE ~ UNCHANGED sessionVars
    <3>1. PICK evicted \in SUBSET Held :
             /\ MakeRoom(evicted)
             /\ \A r \in Sid \ {s} : sessions'[r] = IF r \in evicted THEN Nil ELSE sessions[r]
             /\ journal' = Closing(evicted \cap Expired)
             /\ s \notin Held /\ sessions'[s] = NewSession(s)
      BY <1>2, <2>2, RefusedClosesNothing
    <3>2. Granted' = Granted \ evicted
      BY <3>1, NewSessionType DEF Granted, Held
    <3>3. evicted \cap Granted = evicted \cap Expired
      BY <3>1, MakeRoomSparesLive DEF Expired
    <3>4. \A r \in Sid : journal'[r] = IF r \in Granted' THEN 1 ELSE 0
      BY <3>1, <3>2, <3>3 DEF Closing
    <3> QED
      BY <1>2, <3>4, RefusedClosesNothing
  <2> QED
    BY <2>1, <2>2
<1>3. ASSUME NEW s \in Sid, MintRegistrationKey(s) \/ \E level \in Levels : RecordPermissions(s, level)
      PROVE  Capped' /\ JournalPaired'
  BY <1>3, FieldWrites DEF Capped
<1>4. ASSUME NEW p \in Redeem, GrantRecord(p)
      PROVE  Capped' /\ JournalPaired'
  <2>1. now < redeem[p].exp /\ redeem[p].exp \in Nat
    BY <1>4 DEF GrantAhead, GrantRecord, Attempts
  <2>2. /\ At(p) \in Sid /\ At(p) \notin Granted /\ Held' = Held
        /\ Granted' = Granted \cup ({At(p)} \cap Held)
        /\ journal' = IF At(p) \in Held THEN [journal EXCEPT ![At(p)] = @ + 1] ELSE journal
    BY <1>4, <2>1, GrantWrite
  <2>3. \A r \in Sid : journal'[r] = IF r \in Granted' THEN 1 ELSE 0
    BY <2>2 DEF SessionsTypeOK
  <2> QED
    BY <2>2, <2>3 DEF Capped
<1>5. CASE ReapSessions
  <2>1. Granted' = Granted \ Expired /\ Held' \in SUBSET Held
    BY <1>5 DEF ReapSessions, Granted, Held, Abandoned
  <2>2. \A r \in Sid : journal'[r] = IF r \in Granted' THEN 1 ELSE 0
    BY <1>5, <2>1 DEF ReapSessions, Closing, Expired
  <2>3. Cardinality(Held') <= Cardinality(Held) /\ Cardinality(Held') \in Nat /\ Cardinality(Held) \in Nat
    <3>1. Held \in SUBSET Sid
      BY DEF Held
    <3> QED
      BY <2>1, <3>1, HeldIsFinite, FS_Subset
  <2> QED
    BY <2>2, <2>3, SessionsAssumption DEF Capped
<1> QED
  BY <1>1, <1>2, <1>3, <1>4, <1>5, SessionMoves

Books == Capped /\ GrantAhead /\ JournalPaired

(* Books is inductive, given the invariants before it.                      *)
LEMMA BooksInvariant == Spec => []Books
<1>1. Init => Books
  <2> SUFFICES ASSUME Init PROVE Books
    OBVIOUS
  <2>1. Held = {} /\ Granted = {}
    BY DEF Init, SessionsInit, Held, Granted
  <2>2. Capped
    BY <2>1, FS_EmptySet, SessionsAssumption DEF Capped
  <2>3. GrantAhead
    BY DEF Init, RedeemAt, GrantAhead
  <2> QED
    BY <2>1, <2>2, <2>3 DEF Books, JournalPaired, Init, SessionsInit
<1>2. Typed /\ Flight /\ Once /\ Books /\ [Next]_vars => Books'
  BY JournalStep, GrantAheadStep DEF Books
<1> QED
  BY <1>1, <1>2, TypedInvariant, FlightInvariant, OnceInvariant, PTL DEF Spec

(* The log of sessions opened and closed stays paired, whatever is evicted, *)
(* swept or refused: one line too many for a grant that is held, none       *)
(* otherwise.                                                               *)
THEOREM JournalPairedHolds == Spec => []JournalPaired
BY BooksInvariant, PTL DEF Books

(* The map of sessions never outgrows MAX_SESSIONS.                         *)
THEOREM SessionsCapped == Spec => [](Cardinality(Held) <= MaxSessions)
BY BooksInvariant, PTL DEF Books, Capped

-----------------------------------------------------------------------------
(* Lasting: what may take the session of a connect that can be redeemed.    *)

(* A session id has no session before its authorize handler makes one, and  *)
(* none is older than the connect it is for: the clock stands still inside  *)
(* authorize, and whoever makes the session anew does so later.             *)
SessionsFollow ==
    /\ \A s \in Sid : authorizing[s] = "new" => s \notin Held
    /\ \A s \in Held : authorizing[s] \in {"key", "pending"} => sessions[s].created = now
ConnectsStarted ==
    \A s \in Connecting : authorizing[s] = "started" /\ authz[s].created <= now
ConnectsFirst ==
    \A s \in Connecting \cap Held : authz[s].created <= sessions[s].created

(* A grant outlives the connect it was asked for in.                        *)
GrantsOutlive ==
    /\ \A p \in Redeem : redeem[p].pc \in {"landed", "grant", "record"} /\ At(p) \in Connecting
          => ConnectEnds[At(p)] <= redeem[p].exp
    /\ \A s \in Granted \cap Connecting : ConnectEnds[s] <= sessions[s].grant

Lasting == SessionsFollow /\ ConnectsStarted /\ ConnectsFirst /\ GrantsOutlive

(* Where connects come from: from their authorize handler, and now.         *)
LEMMA ConnectMoves ==
    ASSUME Typed, [Next]_vars, NEW s \in Connecting'
    PROVE  \/ s \in Connecting /\ authz'[s].created = authz[s].created
           \/ InsertPending(s) /\ authz'[s].created = now
<1> USE DEF Typed, TypeOK, Connecting, NoConnect
<1>1. ASSUME NEW r \in Sid, AuthorizeStep(r) \/ DropAuthorize(r) \/ UseToken(r)
      PROVE  \/ authz'[s].created = authz[s].created
             \/ InsertPending(s) /\ authz'[s].created = now
  <2>1. CASE InsertPending(r)
    <3>1. /\ authz'[r] = [created |-> now, redeeming |-> FALSE, code |-> FALSE]
          /\ s # r => authz'[s] \in {authz[s], NoConnect}
      BY <2>1 DEF InsertPending
    <3>2. CASE s = r
      BY <2>1, <3>1, <3>2
    <3>3. CASE s # r
      BY <3>1, <3>3
    <3> QED
      BY <3>2, <3>3
  <2>2. CASE ~ InsertPending(r)
    BY <1>1, <2>2 DEF AuthorizeStep, AuthorizeEnsure, AuthorizeMintKey, DropAuthorize,
       UseToken, oauthVars
  <2> QED
    BY <2>1, <2>2
<1>2. ASSUME NEW p \in Redeem, RedeemStep(p) \/ Register(p) \/ DropRedeem(p)
             \/ \E r \in Sid : RedeemSnapshot(p, r)
      PROVE  authz'[s].created = authz[s].created
  <2>1. \/ UNCHANGED authz
        \/ authz' = [authz EXCEPT ![At(p)].redeeming = TRUE]
        \/ authz' = [authz EXCEPT ![At(p)].redeeming = FALSE]
        \/ authz' = [authz EXCEPT ![At(p)].redeeming = FALSE, ![At(p)].code = TRUE]
    BY <1>2 DEF RedeemStep, ClaimRedemption, RedeemEnsure, ReadKeys, Register, RegisterAnswered,
       RegisterFailed, GrantEnsure, GrantRecord, PermitEnsure, PermitRecord, MintCode, InsertCode,
       ReleaseRedemption, DropRedeem, RedeemSnapshot
  <2> QED
    BY <2>1 DEF Connects
<1>3. ASSUME NEW e \in Exchange,
             \/ ExchangeStep(e) \/ DropExchange(e)
             \/ \E r \in Sid, verified \in BOOLEAN : TakeCode(e, r, verified)
      PROVE  authz'[s].created = authz[s].created
  BY <1>3 DEF ExchangeStep, RemoveConnect, ReadClock, ReadGrant, InsertToken, DropExchange,
     TakeCode
<1>4. CASE SweepSessions \/ SweepOauth \/ Tick \/ UNCHANGED vars
  BY <1>4 DEF SweepSessions, SweepOauth, Tick, vars, oauthVars
<1> QED
  BY <1>1, <1>2, <1>3, <1>4 DEF Next

(* How an authorize handler moves, and that the clock waits for it.         *)
LEMMA HandlerMoves ==
    ASSUME Typed, [Next]_vars, NEW s \in Sid
    PROVE  /\ \/ authorizing'[s] = authorizing[s]
              \/ AuthorizeEnsure(s) /\ authorizing'[s] \in {"key", "ended"}
              \/ AuthorizeMintKey(s) /\ authorizing[s] = "key"
                                     /\ authorizing'[s] \in {"pending", "ended"}
              \/ InsertPending(s) /\ authorizing[s] = "pending" /\ authorizing'[s] = "started"
              \/ /\ authorizing[s] \in {"key", "pending"} /\ authorizing'[s] = "ended"
                 /\ UNCHANGED <<sessionVars, authz, now>>
           /\ authorizing[s] \in {"key", "pending"} => now' = now
<1> USE DEF Typed, TypeOK
<1>1. ASSUME NEW r \in Sid, AuthorizeStep(r) \/ DropAuthorize(r) \/ UseToken(r)
      PROVE  /\ now' = now
             /\ \/ authorizing'[s] = authorizing[s]
                \/ AuthorizeEnsure(s) /\ authorizing'[s] \in {"key", "ended"}
                \/ AuthorizeMintKey(s) /\ authorizing[s] = "key"
                                       /\ authorizing'[s] \in {"pending", "ended"}
                \/ InsertPending(s) /\ authorizing[s] = "pending" /\ authorizing'[s] = "started"
                \/ /\ authorizing[s] \in {"key", "pending"} /\ authorizing'[s] = "ended"
                   /\ UNCHANGED <<sessionVars, authz, now>>
  BY <1>1 DEF AuthorizeStep, AuthorizeEnsure, AuthorizeMintKey, InsertPending, DropAuthorize,
     UseToken, AuthorizeGoes, restOfAuthorize, oauthVars
<1>2. ASSUME NEW p \in Redeem, RedeemStep(p) \/ Register(p) \/ DropRedeem(p)
             \/ \E r \in Sid : RedeemSnapshot(p, r)
      PROVE  UNCHANGED <<authorizing, now>>
  BY <1>2 DEF RedeemStep, ClaimRedemption, RedeemEnsure, ReadKeys, Register, RegisterAnswered,
     RegisterFailed, GrantEnsure, GrantRecord, PermitEnsure, PermitRecord, MintCode, InsertCode,
     ReleaseRedemption, DropRedeem, RedeemSnapshot, restOfRedeem
<1>3. ASSUME NEW e \in Exchange,
             \/ ExchangeStep(e) \/ DropExchange(e)
             \/ \E r \in Sid, verified \in BOOLEAN : TakeCode(e, r, verified)
      PROVE  UNCHANGED <<authorizing, now>>
  BY <1>3 DEF ExchangeStep, RemoveConnect, ReadClock, ReadGrant, InsertToken, DropExchange,
     TakeCode, restOfExchange
<1>4. CASE SweepSessions \/ SweepOauth \/ Tick \/ UNCHANGED vars
  BY <1>4 DEF SweepSessions, SweepOauth, Tick, vars, oauthVars
<1> QED
  BY <1>1, <1>2, <1>3, <1>4 DEF Next

(* Where sessions come from: from ensure_session, now; their making is      *)
(* never moved.                                                             *)
LEMMA HeldMoves ==
    ASSUME Typed, Flight, Once, Capped, [Next]_vars, NEW s \in Held'
    PROVE  \/ s \in Held /\ sessions'[s].created = sessions[s].created
           \/ /\ s \notin Held /\ sessions'[s].created = now /\ now' = now
              /\ s \notin Granted'
              /\ \/ AuthorizeEnsure(s)
                 \/ authorizing[s] \notin {"new", "key", "pending"} /\ UNCHANGED authorizing
<1> USE DEF Typed, TypeOK
<1>0. s \in Sid
  BY DEF Held
<1>1. CASE UNCHANGED sessionVars
  BY <1>1 DEF sessionVars, Held
<1>2. ASSUME NEW r \in Sid, NEW ok \in BOOLEAN, EnsureSession(r, ok), ~ UNCHANGED sessionVars
      PROVE  \/ s \in Held /\ sessions'[s].created = sessions[s].created
             \/ /\ s = r /\ s \notin Held /\ sessions'[s].created = now /\ s \notin Granted'
  <2>1. PICK evicted \in SUBSET Held :
          /\ MakeRoom(evicted)
          /\ \A q \in Sid \ {r} : sessions'[q] = IF q \in evicted THEN Nil ELSE sessions[q]
          /\ journal' = Closing(evicted \cap Expired)
          /\ r \notin Held /\ sessions'[r] = NewSession(r)
    BY <1>2, RefusedClosesNothing
  <2>2. CASE s = r
    BY <2>1, <2>2, NewSessionType DEF Granted, NewSession
  <2>3. CASE s # r
    BY <1>0, <2>1, <2>3 DEF Held
  <2> QED
    BY <2>2, <2>3
<1>3. ASSUME NEW r \in Sid, MintRegistrationKey(r) \/ \E level \in Levels : RecordPermissions(r, level)
      PROVE  s \in Held /\ sessions'[s].created = sessions[s].created
  BY <1>3, FieldWrites
<1>4. ASSUME NEW p \in Redeem, GrantRecord(p)
      PROVE  s \in Held /\ sessions'[s].created = sessions[s].created
  BY <1>4, GrantWrite
<1>5. CASE ReapSessions
  BY <1>0, <1>5 DEF ReapSessions, Held
<1> QED
  BY <1>1, <1>2, <1>3, <1>4, <1>5, SessionMoves

LEMMA FollowStep ==
    ASSUME Typed, Flight, Once, Capped, Lasting, [Next]_vars
    PROVE  SessionsFollow' /\ ConnectsStarted' /\ ConnectsFirst'
<1> USE DEF Typed, TypeOK, SessionsTypeOK, Lasting
<1>0. /\ \A s \in Held' : s \in Sid
      /\ \A s \in Connecting' : s \in Sid /\ authz'[s].created \in Int
      /\ \A s \in Sid : authz[s].created \in Int /\ (s \in Held => sessions[s].created \in Nat)
      /\ now \in Nat /\ now' \in Int /\ now <= now'
  <2>1. TypeOK'
    BY AuthorizeTypes, RedeemTypes, ExchangeTypes, OtherTypes DEF Next
  <2> QED
    BY <2>1, ClockGoesOn DEF Held, Connecting, Connects, Session, Absent
<1>1. \A s \in Sid : AuthorizeEnsure(s) => authorizing[s] = "new" /\ authorizing'[s] \in {"key", "ended"}
  BY DEF AuthorizeEnsure, AuthorizeGoes
<1>2. \A s \in Sid : InsertPending(s) => /\ authorizing[s] = "pending" /\ authorizing'[s] = "started"
                                         /\ UNCHANGED <<sessions, now>>
  BY DEF InsertPending, AuthorizeGoes, restOfAuthorize, sessionVars
<1>3. SessionsFollow'
  <2>1. ASSUME NEW s \in Sid, authorizing'[s] = "new" PROVE s \notin Held'
    <3>1. authorizing[s] = "new"
      BY <1>1, <2>1, HandlerMoves
    <3>2. s \notin Held
      BY <3>1 DEF SessionsFollow
    <3> QED
      BY <1>1, <2>1, <3>1, <3>2, HeldMoves
  <2>2. ASSUME NEW s \in Held', authorizing'[s] \in {"key", "pending"}
        PROVE  sessions'[s].created = now'
    <3>1. CASE authorizing[s] = "new"
      <4>1. s \notin Held
        BY <1>0, <3>1 DEF SessionsFollow
      <4> QED
        BY <4>1, HeldMoves
    <3>2. CASE authorizing[s] \in {"key", "pending"}
      <4>1. now' = now
        BY <1>0, <3>2, HandlerMoves
      <4>2. s \in Held => sessions[s].created = now
        BY <3>2 DEF SessionsFollow
      <4> QED
        BY <4>1, <4>2, HeldMoves
    <3>3. CASE authorizing[s] \notin {"new", "key", "pending"}
      BY <1>0, <1>1, <2>2, <3>3, HandlerMoves
    <3> QED
      BY <3>1, <3>2, <3>3
  <2> QED
    BY <2>1, <2>2 DEF SessionsFollow
<1>4. ConnectsStarted'
  <2> SUFFICES ASSUME NEW s \in Connecting'
               PROVE  authorizing'[s] = "started" /\ authz'[s].created <= now'
    BY DEF ConnectsStarted
  <2>1. CASE s \in Connecting /\ authz'[s].created = authz[s].created
    <3>1. authorizing[s] = "started" /\ authz[s].created <= now
      BY <2>1 DEF ConnectsStarted
    <3>2. authorizing'[s] = "started"
      BY <1>0, <1>1, <3>1, HandlerMoves
    <3> QED
      BY <1>0, <2>1, <3>1, <3>2
  <2>2. CASE InsertPending(s) /\ authz'[s].created = now
    BY <1>0, <1>2, <2>2
  <2> QED
    BY <2>1, <2>2, ConnectMoves
<1>5. ConnectsFirst'
  <2> SUFFICES ASSUME NEW s \in Connecting', s \in Held'
               PROVE  authz'[s].created <= sessions'[s].created
    BY DEF ConnectsFirst
  <2>1. CASE s \in Connecting /\ authz'[s].created = authz[s].created
    <3>1. authz[s].created <= now
      BY <2>1 DEF ConnectsStarted
    <3>2. s \in Held => authz[s].created <= sessions[s].created
      BY <2>1 DEF ConnectsFirst
    <3> QED
      BY <1>0, <2>1, <3>1, <3>2, HeldMoves
  <2>2. CASE InsertPending(s) /\ authz'[s].created = now
    <3>1. s \in Held /\ authorizing[s] = "pending" /\ sessions'[s] = sessions[s]
      BY <1>0, <1>2, <2>2 DEF Held
    <3> QED
      BY <1>0, <2>2, <3>1 DEF SessionsFollow
  <2> QED
    BY <2>1, <2>2, ConnectMoves
<1> QED
  BY <1>3, <1>4, <1>5

(* How a request comes to carry a grant: II answered it with one.           *)
LEMMA GrantTravels ==
    ASSUME Typed, [Next]_vars, NEW p \in Redeem,
           redeem'[p].pc \in {"landed", "grant", "record"}
    PROVE  /\ At(p)' = At(p) /\ At(p) \in Sid /\ authorizing[At(p)] = "started"
           /\ \/ /\ redeem[p].pc \in {"landed", "grant", "record"}
                 /\ redeem'[p].exp = redeem[p].exp
              \/ redeem'[p].exp = now + GrantTTL
<1> USE DEF Typed, TypeOK, Attempts, At
<1>1. CASE UNCHANGED redeem
  BY <1>1 DEF NamedIsStarted
<1>2. ASSUME NEW q \in Redeem, RedeemStep(q) \/ Register(q) \/ DropRedeem(q)
             \/ \E s \in Sid : RedeemSnapshot(q, s)
      PROVE  \/ redeem'[p] = redeem[p]
             \/ Register(p) \/ RegisterAnswered(p) \/ GrantEnsure(p)
  <2>1. p # q => redeem'[p] = redeem[p]
    BY <1>2 DEF RedeemStep, ClaimRedemption, RedeemEnsure, ReadKeys, Register, RegisterAnswered,
       RegisterFailed, GrantEnsure, GrantRecord, PermitEnsure, PermitRecord, MintCode, InsertCode,
       ReleaseRedemption, DropRedeem, RedeemSnapshot, RedeemGoes, RedeemEnds
  <2>2. CASE Register(q) \/ RegisterAnswered(q) \/ GrantEnsure(q)
    BY <2>1, <2>2
  <2>3. CASE ~ (Register(q) \/ RegisterAnswered(q) \/ GrantEnsure(q))
    <3>1. redeem'[q].pc \notin {"landed", "grant", "record"}
      BY <1>2, <2>3 DEF RedeemStep, ClaimRedemption, RedeemEnsure, ReadKeys, RegisterFailed,
         GrantRecord, PermitEnsure, PermitRecord, MintCode, InsertCode, ReleaseRedemption,
         DropRedeem, RedeemSnapshot, RedeemGoes, RedeemEnds, RedeemAt
    <3> QED
      BY <2>1, <3>1
  <2> QED
    BY <2>2, <2>3
<1>3. CASE redeem'[p] = redeem[p]
  BY <1>3 DEF NamedIsStarted
<1>4. CASE Register(p) \/ RegisterAnswered(p) \/ GrantEnsure(p)
  BY <1>4 DEF NamedIsStarted, Register, RegisterAnswered, GrantEnsure, RedeemGoes
<1> QED
  BY <1>1, <1>2, <1>3, <1>4, AsideSteps

(* A grant is recorded from the answer of the one attempt there is.         *)
LEMMA OutliveStep ==
    ASSUME Typed, Flight, Once, Capped, Lasting, [Next]_vars
    PROVE  GrantsOutlive'
<1> USE DEF Typed, TypeOK, SessionsTypeOK, Lasting, GrantsOutlive
<1>0. \A s \in Sid : authz[s].created \in Int
  BY DEF Connects, Absent
<1>1. \A s \in Connecting' : authorizing[s] # "pending"
         => s \in Connecting /\ ConnectEnds'[s] = ConnectEnds[s]
  BY ConnectMoves DEF InsertPending, AuthorizeGoes, Connecting, ConnectEnds
<1>2. ASSUME NEW p \in Redeem, redeem'[p].pc \in {"landed", "grant", "record"},
             At(p)' \in Connecting'
      PROVE  ConnectEnds'[At(p)'] <= redeem'[p].exp
  <2>1. /\ At(p)' = At(p) /\ At(p) \in Connecting
        /\ ConnectEnds'[At(p)] = ConnectEnds[At(p)]
    BY <1>1, <1>2, GrantTravels
  <2>2. authz[At(p)].created <= now /\ ConnectEnds[At(p)] = authz[At(p)].created + ConnectTTL
        /\ authz[At(p)].created \in Int
    BY <1>0, <2>1 DEF ConnectsStarted, ConnectEnds, Connecting
  <2>3. ConnectEnds[At(p)] <= now + GrantTTL
    BY <2>2, ConnectAssumption
  <2> QED
    BY <1>2, <2>1, <2>3, GrantTravels
<1>3. ASSUME NEW s \in Granted', s \in Connecting'
      PROVE  ConnectEnds'[s] <= sessions'[s].grant
  <2>1. CASE s \in Granted
    <3>1. sessions'[s].grant = sessions[s].grant
      <4>1. ASSUME NEW p \in Redeem, GrantRecord(p) PROVE sessions'[s].grant = sessions[s].grant
        BY <2>1, <4>1, GrantWrite DEF Granted
      <4> QED
        BY <1>3, <4>1, GrantsStay
    <3>2. authorizing[s] # "pending"
      BY <2>1 DEF Once, NotYetGranted
    <3> QED
      BY <1>1, <1>3, <2>1, <3>1, <3>2
  <2>2. CASE s \notin Granted
    <3>1. PICK p \in Redeem : GrantRecord(p) /\ s = At(p)
      BY <1>3, <2>2, GrantAppears
    <3>2. redeem[p].pc = "record" /\ authorizing[s] = "started"
      BY <3>1 DEF GrantRecord, NamedIsStarted
    <3>3. s \in Held' /\ Held' = Held
      BY <1>3, <3>1, GrantWrite DEF Granted
    <3>4. sessions'[s].grant = redeem[p].exp
      BY <3>1, <3>3, GrantWrite
    <3> QED
      BY <1>1, <1>3, <3>1, <3>2, <3>4
  <2> QED
    BY <2>1, <2>2
<1> QED
  BY <1>2, <1>3

(* Lasting is inductive, given the invariants before it.                    *)
LEMMA LastingInvariant == Spec => []Lasting
<1>1. Init => Lasting
  <2> SUFFICES ASSUME Init PROVE Lasting
    OBVIOUS
  <2>1. Held = {} /\ Granted = {} /\ Connecting = {}
    BY DEF Init, SessionsInit, Held, Granted, Connecting, NoConnect
  <2>2. \A p \in Redeem : redeem[p].pc = "new"
    BY DEF Init, RedeemAt
  <2> QED
    BY <2>1, <2>2 DEF Lasting, SessionsFollow, ConnectsStarted, ConnectsFirst, GrantsOutlive
<1>2. Typed /\ Flight /\ Once /\ Books /\ Lasting /\ [Next]_vars => Lasting'
  BY FollowStep, OutliveStep DEF Books, Lasting
<1> QED
  BY <1>1, <1>2, TypedInvariant, FlightInvariant, OnceInvariant, BooksInvariant, PTL DEF Spec

(* prune_stale takes no session whose connect can still be redeemed: it is  *)
(* too young to be abandoned, and its grant, if it has one, goes on.        *)
LEMMA RedeemableIsKept ==
    ASSUME Typed, Lasting, NEW s \in Held, Redeemable(s)
    PROVE  s \notin Expired \cup Abandoned
<1> USE DEF Typed, TypeOK, SessionsTypeOK, Lasting
<1>1. /\ s \in Sid /\ s \in Connecting /\ now \in Nat
      /\ authz[s].created \in Int /\ sessions[s].created \in Nat
      /\ sessions[s].grant \in Int /\ authz[s].created + ConnectTTL > now
      /\ ConnectEnds[s] = authz[s].created + ConnectTTL
  BY DEF Held, Redeemable, ConnectEnds, Connecting, Connects, Session, Absent, Unknown
<1>2. authz[s].created <= sessions[s].created
  BY <1>1 DEF ConnectsFirst
<1>3. s \notin Abandoned
  BY <1>1, <1>2, ConnectAssumption, SessionsAssumption DEF Abandoned
<1>4. s \notin Expired
  <2>1. s \in Granted => ConnectEnds[s] <= sessions[s].grant
    BY <1>1 DEF GrantsOutlive
  <2>2. s \in Granted => sessions[s].grant > now
    BY <1>1, <2>1, ConnectAssumption
  <2> QED
    BY <2>2 DEF Expired, Live
<1> QED
  BY <1>3, <1>4

LEMMA StrandedStep ==
    ASSUME Typed, Flight, Once, Capped, Lasting, [Next]_vars,
           NEW s \in Held, Redeemable(s), s \notin Held'
    PROVE  keys' # keys
<1> USE DEF Typed, TypeOK, SessionsTypeOK
<1>1. CASE UNCHANGED sessionVars
  BY <1>1 DEF sessionVars, Held
<1>2. ASSUME NEW r \in Sid, NEW ok \in BOOLEAN, EnsureSession(r, ok), ~ UNCHANGED sessionVars
      PROVE  keys' # keys
  <2>1. keys' = [keys EXCEPT ![r] = @ + 1]
    BY <1>2, RefusedClosesNothing
  <2> QED
    BY <2>1
<1>3. ASSUME NEW r \in Sid, MintRegistrationKey(r) \/ \E level \in Levels : RecordPermissions(r, level)
      PROVE  FALSE
  BY <1>3, FieldWrites
<1>4. ASSUME NEW p \in Redeem, GrantRecord(p)
      PROVE  FALSE
  BY <1>4, GrantWrite
<1>5. CASE ReapSessions
  BY <1>5, RedeemableIsKept DEF ReapSessions, Held
<1> QED
  BY <1>1, <1>2, <1>3, <1>4, <1>5, SessionMoves

(* A user who consents in time finds the session of the connect: the reaper *)
(* never takes it, only a new session in a full map does.                   *)
THEOREM StrandedOnlyAtCapHolds == Spec => StrandedOnlyAtCap
<1>1. Typed /\ Flight /\ Once /\ Books /\ Lasting /\ [Next]_vars
        => [\A s \in Sid : Redeemable(s) /\ s \in Held /\ s \notin Held' => keys' # keys]_vars
  BY StrandedStep DEF Books
<1> QED
  BY <1>1, TypedInvariant, FlightInvariant, OnceInvariant, BooksInvariant, LastingInvariant, PTL
  DEF Spec, StrandedOnlyAtCap

-----------------------------------------------------------------------------
(* OneShot: the code of a connect goes one way, once.                       *)

(* Nobody mints before II has bound the session key to the user's anchor.   *)
Consented == {r[1] : r \in registered}
AfterConsent ==
    \A p \in Redeem :
        redeem[p].pc \in {"landed", "grant", "record", "permit", "level", "mint", "insert"}
            => At(p) \in Consented

(* A code is reserved by one redeem request, or stored, or taken by one     *)
(* exchange, and all of that before its token is issued.                    *)
Exclusive(s) ==
    /\ Reserved(s) => s \notin CodesHeld /\ ~Taken(s) /\ issued[s] = 0
    /\ s \in CodesHeld => ~Taken(s) /\ issued[s] = 0
    /\ Taken(s) => issued[s] = 0
    /\ issued[s] > 0 => minted[s] > 0
OneHolder ==
    /\ \A p, q \in Redeem : redeem[p].pc = "insert" /\ redeem[q].pc = "insert" /\ At(p) = At(q)
                               => p = q
    /\ \A d, e \in Exchange : exchange[d].sid = exchange[e].sid /\ exchange[e].sid # Nil => d = e
    /\ \A e \in Exchange : exchange[e].pc \in {"new", "done"} => exchange[e].sid = Nil

OneShot == AfterConsent /\ OneHolder /\ \A s \in Sid : Exclusive(s)

(* What a step may do to the code of a connect: nothing,                    *)
Idle(s) ==
    /\ s \in CodesHeld' <=> s \in CodesHeld
    /\ Taken(s)' <=> Taken(s)
    /\ Reserved(s)' <=> Reserved(s)
    /\ issued'[s] = issued[s] /\ minted'[s] = minted[s]
(* reserve it,                                                              *)
Reserves(s) ==
    /\ minted[s] = 0 /\ minted'[s] > 0 /\ s \in Consented
    /\ Reserved(s)' /\ s \notin CodesHeld' /\ ~Taken(s)' /\ issued'[s] = issued[s]
(* store it, take it, or lose it wherever it is,                            *)
Passes(s) ==
    /\ minted'[s] = minted[s] /\ issued'[s] = issued[s] /\ ~Reserved(s)'
    /\ \/ Reserved(s) /\ ~Taken(s)'
       \/ s \in CodesHeld /\ s \notin CodesHeld'
       \/ Taken(s) /\ ~Taken(s)' /\ s \notin CodesHeld'
(* or pay it out.                                                           *)
PaysOut(s) ==
    /\ minted'[s] = minted[s] /\ ~Reserved(s)'
    /\ Taken(s) /\ ~Taken(s)' /\ s \notin CodesHeld' /\ issued'[s] = issued[s] + 1

(* A connect without a minted code has nothing of all that.                 *)
LEMMA UnmintedIsIdle ==
    ASSUME Once, NEW s \in Sid, minted[s] = 0
    PROVE  s \notin CodesHeld /\ ~Taken(s) /\ ~Reserved(s)
BY DEF Once, NothingUnminted, Taken, Reserved

(* Each of these keeps a code in one place, and is a move of OneShotCode.   *)
LEMMA CodeMoves ==
    ASSUME Typed, Once, NEW s \in Sid, Exclusive(s), Reserved(s) => s \in Consented,
           Idle(s) \/ Reserves(s) \/ Passes(s) \/ PaysOut(s)
    PROVE  /\ Exclusive(s)'
           /\ Phase(s)' # Phase(s) => <<Phase(s), Phase(s)'>> \in Codes!Moves
           /\ Phase(s)' = "reserved" => s \in Consented
           /\ issued'[s] = IF Phase(s) = "taken" /\ Phase(s)' = "token"
                           THEN issued[s] + 1 ELSE issued[s]
<1>0. issued[s] \in Nat /\ minted[s] \in Nat
  BY DEF Typed, TypeOK
<1>1. CASE Idle(s)
  <2>1. Phase(s)' = Phase(s) /\ Exclusive(s)'
    BY <1>1 DEF Idle, Phase, Exclusive
  <2>2. Phase(s) = "reserved" => Reserved(s)
    BY DEF Phase
  <2>3. issued'[s] = issued[s]
    BY <1>1 DEF Idle
  <2> QED
    BY <2>1, <2>2, <2>3 DEF Phase
<1>2. CASE Reserves(s)
  <2>1. s \notin CodesHeld /\ ~Taken(s) /\ ~Reserved(s) /\ issued[s] = 0
    BY <1>0, <1>2, UnmintedIsIdle DEF Reserves, Exclusive
  <2>2. Phase(s) = "none" /\ Phase(s)' = "reserved"
    BY <1>2, <2>1 DEF Phase, Reserves
  <2>3. Exclusive(s)'
    BY <1>2, <2>1 DEF Exclusive, Reserves
  <2> QED
    BY <1>2, <2>2, <2>3 DEF Codes!Moves, Reserves
<1>3. CASE Passes(s)
  <2>1. issued[s] = 0 /\ issued'[s] = 0 /\ minted'[s] = minted[s] /\ minted[s] > 0 /\ ~Reserved(s)'
    BY <1>0, <1>3, UnmintedIsIdle DEF Passes, Exclusive
  <2>2. CASE Reserved(s) /\ ~Taken(s)'
    <3>1. Phase(s) = "reserved" /\ Phase(s)' \in {"live", "dead"}
      BY <2>1, <2>2 DEF Phase, Exclusive
    <3> QED
      BY <2>1, <2>2, <3>1 DEF Exclusive, Codes!Moves
  <2>3. CASE s \in CodesHeld /\ s \notin CodesHeld'
    <3>1. Phase(s) = "live" /\ Phase(s)' \in {"taken", "dead"}
      BY <2>1, <2>3 DEF Phase
    <3> QED
      BY <2>1, <2>3, <3>1 DEF Exclusive, Codes!Moves
  <2>4. CASE Taken(s) /\ ~Taken(s)' /\ s \notin CodesHeld'
    <3>1. Phase(s) = "taken" /\ Phase(s)' = "dead"
      BY <2>1, <2>4 DEF Phase, Exclusive
    <3> QED
      BY <2>1, <2>4, <3>1 DEF Exclusive, Codes!Moves
  <2> QED
    BY <1>3, <2>2, <2>3, <2>4 DEF Passes
<1>4. CASE PaysOut(s)
  <2>1. issued[s] = 0 /\ issued'[s] = 1 /\ minted'[s] = minted[s] /\ minted[s] > 0 /\ ~Reserved(s)'
    BY <1>0, <1>4, UnmintedIsIdle DEF PaysOut, Exclusive
  <2>2. Phase(s) = "taken" /\ Phase(s)' = "token"
    BY <1>4, <2>1 DEF Phase, PaysOut, Exclusive
  <2>3. Exclusive(s)'
    BY <1>4, <2>1 DEF Exclusive, PaysOut
  <2> QED
    BY <2>1, <2>2, <2>3 DEF Codes!Moves
<1> QED
  BY <1>1, <1>2, <1>3, <1>4

(* Redeem requests: only MintCode reserves a code, only InsertCode stores   *)
(* one, and a request that is dropped in between loses it.                  *)
LEMMA RedeemMoves ==
    ASSUME Typed, NEW p \in Redeem,
           RedeemStep(p) \/ Register(p) \/ DropRedeem(p) \/ \E s \in Sid : RedeemSnapshot(p, s)
    PROVE  /\ UNCHANGED <<exchange, issued>>
           /\ \A q \in Redeem \ {p} : redeem'[q] = redeem[q]
           /\ \/ /\ redeem[p].pc # "insert" /\ redeem'[p].pc # "insert"
                 /\ UNCHANGED <<codes, minted>>
              \/ /\ MintCode(p) /\ redeem[p].pc = "mint" /\ redeem'[p].pc = "insert"
                 /\ At(p) \in Sid /\ At(p)' = At(p)
                 /\ minted' = [minted EXCEPT ![At(p)] = @ + 1] /\ UNCHANGED codes
              \/ /\ redeem[p].pc = "insert" /\ redeem'[p].pc = "done" /\ At(p) \in Sid
                 /\ UNCHANGED minted
                 /\ \A s \in Sid \ {At(p)} : codes'[s] \in {codes[s], Absent}
                 /\ codes'[At(p)] = now \/ UNCHANGED codes
<1> USE DEF Typed, TypeOK
<1>1. UNCHANGED <<exchange, issued>>
  BY DEF RedeemStep, ClaimRedemption, RedeemEnsure, ReadKeys, Register, RegisterAnswered,
     RegisterFailed, GrantEnsure, GrantRecord, PermitEnsure, PermitRecord, MintCode, InsertCode,
     ReleaseRedemption, DropRedeem, RedeemSnapshot, restOfRedeem
<1>2. \A q \in Redeem \ {p} : redeem'[q] = redeem[q]
  BY DEF RedeemStep, ClaimRedemption, RedeemEnsure, ReadKeys, Register, RegisterAnswered,
     RegisterFailed, GrantEnsure, GrantRecord, PermitEnsure, PermitRecord, MintCode, InsertCode,
     ReleaseRedemption, DropRedeem, RedeemSnapshot, RedeemGoes, RedeemEnds
<1>3. CASE MintCode(p)
  <2>1. redeem[p].pc = "mint" /\ At(p) \in Sid /\ UNCHANGED codes
    BY <1>3 DEF MintCode, NamedIsStarted
  <2>2. \/ redeem' = [redeem EXCEPT ![p] = RedeemAt("done")] /\ UNCHANGED minted
        \/ /\ redeem' = [redeem EXCEPT ![p].pc = "insert"]
           /\ minted' = [minted EXCEPT ![At(p)] = @ + 1]
    BY <1>3 DEF MintCode, RedeemGoes, RedeemEnds
  <2>3. CASE redeem' = [redeem EXCEPT ![p] = RedeemAt("done")] /\ UNCHANGED minted
    BY <1>1, <1>2, <2>1, <2>3 DEF RedeemAt
  <2>4. CASE /\ redeem' = [redeem EXCEPT ![p].pc = "insert"]
             /\ minted' = [minted EXCEPT ![At(p)] = @ + 1]
    BY <1>1, <1>2, <1>3, <2>1, <2>4 DEF Attempts, At
  <2> QED
    BY <2>2, <2>3, <2>4
<1>4. CASE InsertCode(p)
  <2>1. redeem[p].pc = "insert" /\ At(p) \in Sid /\ redeem'[p].pc = "done" /\ UNCHANGED minted
    BY <1>4 DEF InsertCode, RedeemEnds, NamedIsStarted, RedeemAt
  <2>2. /\ \A s \in Sid \ {At(p)} : codes'[s] \in {codes[s], Absent}
        /\ codes'[At(p)] = now
    BY <1>4, <2>1 DEF InsertCode
  <2> QED
    BY <1>1, <1>2, <2>1, <2>2
<1>5. CASE DropRedeem(p) /\ redeem[p].pc = "insert"
  <2>1. At(p) \in Sid /\ redeem'[p].pc = "done" /\ UNCHANGED <<minted, codes>>
    BY <1>5 DEF DropRedeem, NamedIsStarted, RedeemAt, restOfRedeem
  <2> QED
    BY <1>1, <1>2, <1>5, <2>1
<1>6. CASE ~ MintCode(p) /\ ~ InsertCode(p) /\ ~ (DropRedeem(p) /\ redeem[p].pc = "insert")
  <2>1. UNCHANGED <<codes, minted>>
    BY <1>6 DEF RedeemStep, ClaimRedemption, RedeemEnsure, ReadKeys, Register, RegisterAnswered,
       RegisterFailed, GrantEnsure, GrantRecord, PermitEnsure, PermitRecord,
       ReleaseRedemption, DropRedeem, RedeemSnapshot, restOfRedeem
  <2>2. redeem[p].pc # "insert"
    BY <1>6 DEF RedeemStep, ClaimRedemption, RedeemEnsure, ReadKeys, Register, RegisterAnswered,
       RegisterFailed, GrantEnsure, GrantRecord, PermitEnsure, PermitRecord,
       ReleaseRedemption, DropRedeem, RedeemSnapshot, RedeemGoes, RedeemEnds
  <2>3. redeem'[p].pc # "insert"
    BY <1>6, <2>2 DEF RedeemStep, ClaimRedemption, RedeemEnsure, ReadKeys, Register, RegisterAnswered,
       RegisterFailed, GrantEnsure, GrantRecord, PermitEnsure, PermitRecord, Attempts,
       ReleaseRedemption, DropRedeem, RedeemSnapshot, RedeemGoes, RedeemEnds, RedeemAt
  <2> QED
    BY <1>1, <1>2, <2>1, <2>2, <2>3
<1> QED
  BY <1>3, <1>4, <1>5, <1>6

LEMMA RedeemOneShot ==
    ASSUME Typed, Flight, Once, OneShot, NEW p \in Redeem,
           RedeemStep(p) \/ Register(p) \/ DropRedeem(p) \/ \E s \in Sid : RedeemSnapshot(p, s)
    PROVE  /\ OneHolder'
           /\ \A s \in Sid : Idle(s) \/ Reserves(s) \/ Passes(s)
<1> USE DEF OneShot, OneHolder
<1>0. /\ UNCHANGED <<exchange, issued>> /\ \A s \in Sid : Taken(s)' <=> Taken(s)
      /\ \A q \in Redeem \ {p} : redeem'[q] = redeem[q]
  BY RedeemMoves DEF Taken
<1>1. CASE /\ redeem[p].pc # "insert" /\ redeem'[p].pc # "insert"
           /\ UNCHANGED <<codes, minted>>
  <2>1. \A s \in Sid : Reserved(s)' <=> Reserved(s)
    BY <1>0, <1>1 DEF Reserved, At
  <2>2. OneHolder'
    BY <1>0, <1>1 DEF At
  <2> QED
    BY <1>0, <1>1, <2>1, <2>2 DEF Idle, CodesHeld
<1>2. CASE /\ MintCode(p) /\ redeem[p].pc = "mint" /\ redeem'[p].pc = "insert"
           /\ At(p) \in Sid /\ At(p)' = At(p)
           /\ minted' = [minted EXCEPT ![At(p)] = @ + 1] /\ UNCHANGED codes
  <2>1. minted[At(p)] = 0 /\ minted'[At(p)] > 0 /\ \A s \in Sid \ {At(p)} : minted'[s] = minted[s]
    BY <1>2 DEF Typed, TypeOK, Flight, MintedIsSettled, Attempting
  <2>2. At(p) \notin CodesHeld /\ ~Taken(At(p)) /\ ~Reserved(At(p))
    BY <1>2, <2>1, UnmintedIsIdle
  <2>3. Reserved(At(p))' /\ \A s \in Sid \ {At(p)} : Reserved(s)' <=> Reserved(s)
    BY <1>0, <1>2 DEF Reserved, At
  <2>4. At(p) \in Consented
    BY <1>2 DEF AfterConsent
  <2>5. Reserves(At(p))
    BY <1>0, <1>2, <2>1, <2>2, <2>3, <2>4 DEF Reserves, CodesHeld
  <2>6. \A s \in Sid \ {At(p)} : Idle(s)
    BY <1>0, <1>2, <2>1, <2>3 DEF Idle, CodesHeld
  <2>7. OneHolder'
    BY <1>0, <1>2, <2>2 DEF Reserved, At
  <2> QED
    BY <2>5, <2>6, <2>7
<1>3. CASE /\ redeem[p].pc = "insert" /\ redeem'[p].pc = "done" /\ At(p) \in Sid
           /\ UNCHANGED minted
           /\ \A s \in Sid \ {At(p)} : codes'[s] \in {codes[s], Absent}
           /\ codes'[At(p)] = now \/ UNCHANGED codes
  <2>0. PICK s \in Sid : s = At(p)
    BY <1>3
  <2>1. Reserved(s) /\ ~Taken(s)
    BY <1>3, <2>0 DEF Reserved, Exclusive
  <2>2. ~Reserved(s)'
    BY <1>0, <1>3, <2>0 DEF Reserved, At
  <2>3. \A r \in Sid \ {s} : Reserved(r)' <=> Reserved(r)
    BY <1>0, <1>3, <2>0 DEF Reserved, At
  <2>4. Passes(s)
    BY <1>0, <1>3, <2>1, <2>2 DEF Passes
  <2>5. ASSUME NEW r \in Sid \ {s} PROVE Idle(r) \/ Passes(r)
    <3>1. CASE r \in CodesHeld' <=> r \in CodesHeld
      BY <1>0, <1>3, <2>3, <3>1 DEF Idle
    <3>2. CASE r \in CodesHeld /\ r \notin CodesHeld'
      BY <1>0, <1>3, <2>3, <3>2 DEF Passes, Exclusive
    <3>3. r \in CodesHeld' => r \in CodesHeld
      BY <1>3, <2>0, <2>5 DEF CodesHeld
    <3> QED
      BY <3>1, <3>2, <3>3
  <2>6. OneHolder'
    BY <1>0, <1>3 DEF At
  <2> QED
    BY <2>4, <2>5, <2>6
<1> QED
  BY <1>1, <1>2, <1>3, RedeemMoves

(* Token requests: a code is taken out of the map by one of them, which     *)
(* pays it out or drops it; the sweep only takes codes away.                *)
LEMMA ExchangeOneShot ==
    ASSUME Typed, Once, OneShot, NEW e \in Exchange,
           \/ ExchangeStep(e) \/ DropExchange(e)
           \/ \E s \in Sid, verified \in BOOLEAN : TakeCode(e, s, verified)
    PROVE  /\ OneHolder'
           /\ \A s \in Sid : Idle(s) \/ Passes(s) \/ PaysOut(s)
<1> USE DEF Typed, TypeOK, OneShot, OneHolder, Exchanges
<1>0. /\ UNCHANGED <<redeem, minted>> /\ \A s \in Sid : Reserved(s)' <=> Reserved(s)
  BY DEF ExchangeStep, RemoveConnect, ReadClock, ReadGrant, InsertToken, DropExchange, TakeCode,
     restOfExchange, Reserved, At
<1>1. CASE RemoveConnect(e) \/ ReadClock(e) \/ ReadGrant(e)
  <2>1. /\ exchange'[e].sid = exchange[e].sid /\ exchange'[e].pc \notin {"new", "done"}
        /\ \A d \in Exchange \ {e} : exchange'[d] = exchange[d]
        /\ UNCHANGED <<codes, issued>>
    BY <1>1 DEF RemoveConnect, ReadClock, ReadGrant
  <2>2. \A d \in Exchange : /\ exchange'[d].sid = exchange[d].sid
                            /\ exchange'[d].pc \in {"new", "done"} => exchange'[d] = exchange[d]
    BY <2>1
  <2>3. \A s \in Sid : Taken(s)' <=> Taken(s)
    BY <2>2 DEF Taken
  <2> QED
    BY <1>0, <2>1, <2>2, <2>3 DEF Idle, CodesHeld, At
<1>2. ASSUME exchange[e].pc \in Exchanging,
             exchange' = [exchange EXCEPT ![e] = ExchangeAt("done")], UNCHANGED codes,
             \A s \in Sid \ {exchange[e].sid} : issued'[s] = issued[s],
             issued'[exchange[e].sid] \in {issued[exchange[e].sid], issued[exchange[e].sid] + 1}
      PROVE  /\ OneHolder'
             /\ \A s \in Sid : Idle(s) \/ Passes(s) \/ PaysOut(s)
  <2>1. PICK s \in Sid : s = exchange[e].sid /\ s # Nil
    BY <1>2, NilIsNot DEF NamedIsStarted, Exchanging
  <2>2. /\ exchange'[e].pc = "done" /\ exchange'[e].sid = Nil
        /\ \A d \in Exchange \ {e} : exchange'[d] = exchange[d] /\ exchange[d].sid # s
    BY <1>2, <2>1 DEF ExchangeAt
  <2>3. Taken(s) /\ ~Taken(s)' /\ \A r \in Sid \ {s} : Taken(r)' <=> Taken(r)
    BY <2>1, <2>2, NilIsNot DEF Taken
  <2>4. ~Reserved(s) /\ s \notin CodesHeld
    BY <2>1, <2>3 DEF Exclusive
  <2>5. Passes(s) \/ PaysOut(s)
    BY <1>0, <1>2, <2>1, <2>3, <2>4 DEF Passes, PaysOut, CodesHeld
  <2>6. \A r \in Sid \ {s} : Idle(r)
    BY <1>0, <1>2, <2>1, <2>3 DEF Idle, CodesHeld
  <2>7. OneHolder'
    BY <1>0, <2>2 DEF At
  <2> QED
    BY <2>5, <2>6, <2>7
<1>3. CASE InsertToken(e) \/ DropExchange(e)
  <2>1. exchange[e].pc \in Exchanging
    BY <1>3 DEF InsertToken, ExchangeEnds, DropExchange, Exchanging
  <2>2. exchange[e].sid \in Sid
    BY <2>1 DEF NamedIsStarted
  <2> QED
    BY <1>2, <1>3, <2>1, <2>2 DEF InsertToken, DropExchange, ExchangeEnds
<1>4. ASSUME NEW s \in Sid, NEW verified \in BOOLEAN, TakeCode(e, s, verified)
      PROVE  /\ OneHolder'
             /\ \A r \in Sid : Idle(r) \/ Passes(r)
  <2>1. /\ s \in CodesHeld /\ codes' = [codes EXCEPT ![s] = Absent] /\ UNCHANGED issued
        /\ exchange[e].pc = "new"
        /\ \/ exchange' = [exchange EXCEPT ![e].pc = "taken", ![e].sid = s]
           \/ exchange' = [exchange EXCEPT ![e] = ExchangeAt("done")]
    BY <1>4 DEF TakeCode, ExchangeTakes, ExchangeEnds
  <2>2. ~Taken(s) /\ ~Reserved(s) /\ s \notin CodesHeld'
    BY <2>1 DEF Exclusive, CodesHeld
  <2>3. exchange[e].sid = Nil /\ \A d \in Exchange : exchange[d].sid # s
    BY <2>1, <2>2 DEF Taken
  <2>4. \A d \in Exchange \ {e} : exchange'[d] = exchange[d]
    BY <2>1
  <2>5. \/ exchange'[e].pc = "taken" /\ exchange'[e].sid = s
        \/ exchange'[e].pc = "done" /\ exchange'[e].sid = Nil
    BY <2>1 DEF ExchangeAt
  <2>6. \A r \in Sid \ {s} : Taken(r)' <=> Taken(r)
    BY <2>3, <2>4, <2>5, NilIsNot DEF Taken
  <2>7. Passes(s)
    BY <1>0, <2>1, <2>2 DEF Passes
  <2>8. \A r \in Sid \ {s} : Idle(r)
    BY <1>0, <2>1, <2>6 DEF Idle, CodesHeld
  <2>9. OneHolder'
    <3>1. \A p \in Redeem : redeem'[p] = redeem[p] /\ At(p)' = At(p)
      BY <1>0 DEF At
    <3>2. \A d, f \in Exchange : exchange'[d].sid = exchange'[f].sid /\ exchange'[f].sid # Nil
                                   => d = f
      BY <2>3, <2>4, <2>5, NilIsNot
    <3>3. \A d \in Exchange : exchange'[d].pc \in {"new", "done"} => exchange'[d].sid = Nil
      BY <2>4, <2>5
    <3> QED
      BY <3>1, <3>2, <3>3
  <2> QED
    BY <2>7, <2>8, <2>9
<1> QED
  BY <1>1, <1>3, <1>4 DEF ExchangeStep

LEMMA OtherOneShot ==
    ASSUME Typed, OneShot,
           \/ \E s \in Sid : AuthorizeStep(s) \/ DropAuthorize(s) \/ UseToken(s)
           \/ SweepSessions \/ SweepOauth \/ Tick \/ UNCHANGED vars
    PROVE  /\ OneHolder'
           /\ \A s \in Sid : Idle(s) \/ Passes(s)
<1>1. UNCHANGED <<redeem, exchange, minted, issued>>
  BY DEF AuthorizeStep, AuthorizeEnsure, AuthorizeMintKey, InsertPending, DropAuthorize,
     UseToken, restOfAuthorize, oauthVars, SweepSessions, SweepOauth, Tick, vars
<1>2. OneHolder' /\ \A s \in Sid : (Taken(s)' <=> Taken(s)) /\ (Reserved(s)' <=> Reserved(s))
  BY <1>1 DEF OneShot, OneHolder, Taken, Reserved, At
<1>3. \A s \in Sid : codes'[s] \in {codes[s], Absent}
  <2>1. CASE SweepOauth
    BY <2>1 DEF SweepOauth
  <2>2. CASE ~ SweepOauth
    BY <2>2 DEF AuthorizeStep, AuthorizeEnsure, AuthorizeMintKey, InsertPending, DropAuthorize,
       UseToken, restOfAuthorize, oauthVars, SweepSessions, Tick, vars
  <2> QED
    BY <2>1, <2>2
<1>4. ASSUME NEW s \in Sid PROVE Idle(s) \/ Passes(s)
  <2>1. CASE s \in CodesHeld' <=> s \in CodesHeld
    BY <1>1, <1>2, <2>1 DEF Idle
  <2>2. CASE s \in CodesHeld /\ s \notin CodesHeld'
    BY <1>1, <1>2, <2>2 DEF Passes, OneShot, Exclusive
  <2> QED
    BY <1>3, <2>1, <2>2 DEF CodesHeld
<1> QED
  BY <1>2, <1>4

(* Consent comes before the grant, and the grant before the code.           *)
LEMMA ConsentStep ==
    ASSUME Typed, AfterConsent, [Next]_vars
    PROVE  Consented \subseteq Consented' /\ AfterConsent'
<1> USE DEF Typed, TypeOK
<1>1. CASE UNCHANGED <<redeem, registered>>
  BY <1>1 DEF AfterConsent, Consented, At
<1>2. ASSUME NEW p \in Redeem,
             RedeemStep(p) \/ Register(p) \/ DropRedeem(p) \/ \E s \in Sid : RedeemSnapshot(p, s)
      PROVE  Consented \subseteq Consented' /\ AfterConsent'
  <2>1. \A q \in Redeem \ {p} : redeem'[q] = redeem[q]
    BY <1>2, RedeemMoves
  <2>2. registered \subseteq registered'
    BY <1>2 DEF RedeemStep, ClaimRedemption, RedeemEnsure, ReadKeys, Register, RegisterAnswered,
       RegisterFailed, GrantEnsure, GrantRecord, PermitEnsure, PermitRecord, MintCode, InsertCode,
       ReleaseRedemption, DropRedeem, RedeemSnapshot, restOfRedeem
  <2>3. Consented \subseteq Consented'
    BY <2>2 DEF Consented
  <2>4. \/ redeem'[p].pc \notin {"landed", "grant", "record", "permit", "level", "mint", "insert"}
        \/ At(p)' \in Consented'
    <3>1. CASE Register(p)
      <4>1. At(p)' = At(p) /\ <<At(p), redeem[p].key>> \in registered'
        BY <3>1 DEF Register, Attempts, At
      <4> QED
        BY <4>1 DEF Consented
    <3>2. CASE ~ Register(p)
      <4>1. redeem'[p].pc \in {"landed", "grant", "record", "permit", "level", "mint", "insert"}
              => /\ redeem[p].pc \in {"landed", "grant", "record", "permit", "level", "mint", "insert"}
                 /\ At(p)' = At(p)
        BY <1>2, <3>2 DEF RedeemStep, ClaimRedemption, RedeemEnsure, ReadKeys, RegisterAnswered,
           RegisterFailed, GrantEnsure, GrantRecord, PermitEnsure, PermitRecord, MintCode, InsertCode,
           ReleaseRedemption, DropRedeem, RedeemSnapshot, RedeemGoes, RedeemEnds, RedeemAt,
           Attempts, At
      <4> QED
        BY <2>3, <4>1 DEF AfterConsent
    <3> QED
      BY <3>1, <3>2
  <2> QED
    BY <2>1, <2>3, <2>4 DEF AfterConsent, At
<1>3. ASSUME NEW e \in Exchange,
             \/ ExchangeStep(e) \/ DropExchange(e)
             \/ \E s \in Sid, verified \in BOOLEAN : TakeCode(e, s, verified)
      PROVE  UNCHANGED <<redeem, registered>>
  BY <1>3 DEF ExchangeStep, RemoveConnect, ReadClock, ReadGrant, InsertToken, DropExchange,
     TakeCode, restOfExchange
<1>4. ASSUME \/ \E s \in Sid : AuthorizeStep(s) \/ DropAuthorize(s) \/ UseToken(s)
             \/ SweepSessions \/ SweepOauth \/ Tick \/ UNCHANGED vars
      PROVE  UNCHANGED <<redeem, registered>>
  BY <1>4 DEF AuthorizeStep, AuthorizeEnsure, AuthorizeMintKey, InsertPending, DropAuthorize,
     UseToken, restOfAuthorize, oauthVars, SweepSessions, SweepOauth, Tick, vars
<1> QED
  BY <1>1, <1>2, <1>3, <1>4 DEF Next

(* Every step, as a step of the codes.                                      *)
LEMMA OneShotStep ==
    ASSUME Typed, Flight, Once, OneShot, [Next]_vars
    PROVE  /\ OneShot'
           /\ Consented \subseteq Consented'
           /\ \A s \in Sid :
                /\ Phase(s)' # Phase(s) => <<Phase(s), Phase(s)'>> \in Codes!Moves
                /\ Phase(s)' = "reserved" => s \in Consented
                /\ issued'[s] = IF Phase(s) = "taken" /\ Phase(s)' = "token"
                                THEN issued[s] + 1 ELSE issued[s]
<1>1. /\ OneHolder'
      /\ \A s \in Sid : Idle(s) \/ Reserves(s) \/ Passes(s) \/ PaysOut(s)
  BY RedeemOneShot, ExchangeOneShot, OtherOneShot DEF Next
<1>2. Consented \subseteq Consented' /\ AfterConsent'
  BY ConsentStep DEF OneShot
<1>3. \A s \in Sid : Exclusive(s) /\ (Reserved(s) => s \in Consented)
  BY DEF OneShot, AfterConsent, Reserved
<1> QED
  BY <1>1, <1>2, <1>3, CodeMoves DEF OneShot

(* OneShot is inductive, given the invariants before it.                    *)
LEMMA OneShotInvariant == Spec => []OneShot
<1>1. Init => OneShot
  <2> SUFFICES ASSUME Init PROVE OneShot
    OBVIOUS
  <2>1. \A p \in Redeem : redeem[p].pc = "new"
    BY DEF Init, RedeemAt
  <2>2. \A e \in Exchange : exchange[e].sid = Nil
    BY DEF Init, ExchangeAt
  <2>3. \A s \in Sid : s \notin CodesHeld /\ ~Taken(s) /\ ~Reserved(s) /\ issued[s] = 0
    BY <2>1, <2>2, NilIsNot DEF Init, CodesHeld, Taken, Reserved
  <2> QED
    BY <2>1, <2>2, <2>3 DEF OneShot, AfterConsent, OneHolder, Exclusive
<1>2. Typed /\ Flight /\ Once /\ OneShot /\ [Next]_vars => OneShot'
  BY OneShotStep
<1> QED
  BY <1>1, <1>2, TypedInvariant, FlightInvariant, OnceInvariant, PTL DEF Spec

LEMMA OneShotInit == Init => Codes!Init
<1> SUFFICES ASSUME Init PROVE Codes!Init
  OBVIOUS
<1>1. registered = {} /\ issued = [s \in Sid |-> 0]
  BY DEF Init
<1>2. \A s \in Sid : Phase(s) = "none"
  <2>1. \A s \in Sid : s \notin CodesHeld /\ ~Taken(s) /\ ~Reserved(s) /\ issued[s] = 0 /\ minted[s] = 0
    BY NilIsNot DEF Init, CodesHeld, Taken, Reserved, RedeemAt, ExchangeAt
  <2> QED
    BY <2>1 DEF Phase
<1> QED
  BY <1>1, <1>2 DEF Codes!Init

LEMMA OneShotRefines ==
    Typed /\ Flight /\ Once /\ OneShot /\ Typed' /\ [Next]_vars => [Codes!Next]_(Codes!vars)
<1> SUFFICES ASSUME Typed, Flight, Once, OneShot, Typed', [Next]_vars
             PROVE  Codes!Next
  OBVIOUS
<1>1. \A s \in Sid : Phase(s)' \in Codes!Phases
  BY DEF Phase, Codes!Phases
<1>2. Consented' \subseteq Sid
  BY DEF Typed, TypeOK, Consented
<1>3. {r[1] : r \in registered} \subseteq {r[1] : r \in registered}'
  BY OneShotStep DEF Consented
<1>4. ASSUME NEW s \in Sid PROVE Codes!Step(s)
  BY OneShotStep DEF Codes!Step, Consented
<1> QED
  BY <1>1, <1>2, <1>3, <1>4 DEF Codes!Next, Consented

(* A code is minted once per connect, after consent, and buys at most one   *)
(* token: whatever handlers, caps, sweeps and dropped requests do, Connect  *)
(* implements OneShotCode.                                                  *)
THEOREM ConnectIsOneShotCode == Spec => ImplementsOneShotCode
BY OneShotInit, OneShotRefines, TypedInvariant, FlightInvariant, OnceInvariant,
   OneShotInvariant, PTL DEF Spec, ImplementsOneShotCode, Codes!Spec
=============================================================================
