------------------------- MODULE LocalBinaryProofs -------------------------
(***************************************************************************)
(* Proofs about the local binary: its sign-in (LocalLogin), for any sets   *)
(* of session ids and of requests, and its setup (ClientSetup), for any of *)
(* its clients, any texts of their files, and any number of runs and edits.*)
(***************************************************************************)
EXTENDS LocalLogin, ClientSetup, TLAPS

(***************************************************************************)
(* The sign-in.  A session id is minted once (its watchdog is set and      *)
(* never reset), so a sign-in that has left `pending` cannot come back.    *)
(* That makes the claim exclusive (Claims), a committed session final      *)
(* (Settled), and, with the registration lock, the slot agree with         *)
(* Internet Identity (Ordered).                                            *)
(***************************************************************************)

(* The steps of Next that one session id names.                             *)
SidNext(s) == Watchdog(s) \/ WindowCloses(s) \/ GrantLapses(s)

(* The steps of Next that one redeem request names.                         *)
RedeemNext(p) ==
    \/ Claim(p) \/ Lock(p) \/ Call(p) \/ CallRefused(p)
    \/ AnswerLost(p) \/ Commit(p) \/ Fail(p)
    \/ Land(p) \/ Reject(p) \/ Drop(p)

(* Next, actor by actor.                                                    *)
LEMMA NextCases ==
    Next <=> \/ \E s \in Sid, refresh, ok \in BOOLEAN : Begin(s, refresh, ok)
             \/ \E s \in Sid : SidNext(s)
             \/ \E p \in Redeem, s \in Sid : Validate(p, s)
             \/ \E p \in Redeem : RedeemNext(p)
BY DEF Next, SidNext, RedeemNext, RedeemStep

-----------------------------------------------------------------------------
(* What is pending is a handshake, also with its claim set or cleared.      *)
LEMMA PendingShape ==
    ASSUME TypeOK, NEW s \in Sid, PendingIs(s), NEW b \in BOOLEAN
    PROVE  /\ watchdog[s] = "armed"
           /\ [pending EXCEPT !.redeeming = b] = [sid |-> s, redeeming |-> b]
BY DEF TypeOK, PendingIs, Handshakes

(* A handshake is not Nil.                                                  *)
LEMMA HandshakeIsSome ==
    ASSUME NEW s \in Sid, NEW b \in BOOLEAN
    PROVE  [sid |-> s, redeeming |-> b] # Nil
<1>1. [sid |-> s, redeeming |-> b] \in [sid : Sid, redeeming : BOOLEAN]
  OBVIOUS
<1> QED
  BY <1>1, LoginAssumption

-----------------------------------------------------------------------------
(* Every reachable state is well typed; in particular the watchdog of the   *)
(* pending sign-in has not run.                                             *)
THEOREM TypeCorrect == Spec => []TypeOK
<1>1. Init => TypeOK
  <2> SUFFICES ASSUME Init PROVE TypeOK
    OBVIOUS
  <2>1. watchdog \in [Sid -> {"none", "armed", "done"}]
    BY DEF Init
  <2>2. redeem \in [Redeem -> [pc : Steps, sid : Sid \cup {Nil}]]
    BY DEF Init, Steps
  <2>3. sent \in [Redeem -> Sid \cup {Nil}]
    BY DEF Init
  <2> QED
    BY <2>1, <2>2, <2>3 DEF Init, TypeOK
<1>2. TypeOK /\ [Next]_vars => TypeOK'
  <2> SUFFICES ASSUME TypeOK, [Next]_vars PROVE TypeOK'
    OBVIOUS
  <2> USE DEF TypeOK, Steps, Handshakes
  <2>1. ASSUME NEW s \in Sid, NEW refresh \in BOOLEAN, NEW ok \in BOOLEAN,
               Begin(s, refresh, ok)
        PROVE  TypeOK'
    <3>1. pending' \in {h \in Handshakes : watchdog'[h.sid] = "armed"} \cup {Nil}
      <4>1. CASE pending' = Nil
        BY <4>1
      <4>2. CASE pending' = [sid |-> s, redeeming |-> FALSE]
        <5>1. pending' \in Handshakes /\ pending'.sid = s
          BY <4>2
        <5>2. watchdog'[s] = "armed"
          BY <2>1, <4>2, HandshakeIsSome DEF Begin
        <5> QED
          BY <5>1, <5>2
      <4> QED
        BY <2>1, <4>1, <4>2 DEF Begin
    <3>2. /\ watchdog' \in [Sid -> {"none", "armed", "done"}]
          /\ listening' \in SUBSET Sid
      BY <2>1 DEF Begin
    <3> QED
      BY <2>1, <3>1, <3>2 DEF Begin, clock, remote, history
  <2>2. ASSUME NEW s \in Sid, SidNext(s) PROVE TypeOK'
    <3>1. CASE Watchdog(s)
      BY <3>1 DEF Watchdog, PendingIs, clock, remote, history
    <3>2. CASE WindowCloses(s)
      BY <3>2 DEF WindowCloses, login, remote, history
    <3>3. CASE GrantLapses(s)
      BY <3>3 DEF GrantLapses, login, remote, history
    <3> QED
      BY <2>2, <3>1, <3>2, <3>3 DEF SidNext
  <2>3. ASSUME NEW p \in Redeem, NEW s \in Sid, Validate(p, s) PROVE TypeOK'
    BY <2>3 DEF Validate, login, clock, remote, history
  <2>4. ASSUME NEW p \in Redeem, RedeemNext(p) PROVE TypeOK'
    <3>1. CASE Claim(p)
      <4>1. pending' \in {h \in Handshakes : watchdog[h.sid] = "armed"} \cup {Nil}
        BY <3>1, PendingShape, LoginAssumption
           DEF Claim, GoTo, At, InWindow, PendingIs
      <4>2. redeem' \in [Redeem -> [pc : Steps, sid : Sid \cup {Nil}]]
        BY <3>1 DEF Claim, GoTo
      <4> QED
        BY <3>1, <4>1, <4>2 DEF Claim, clock, remote, history
    <3>2. CASE Lock(p)
      BY <3>2 DEF Lock, GoTo, login, clock, remote, history
    <3>3. CASE Call(p)
      BY <3>3 DEF Call, GoTo, At, login, clock, history
    <3>4. CASE CallRefused(p)
      BY <3>4 DEF CallRefused, GoTo, login, clock, remote, history
    <3>5. CASE AnswerLost(p)
      BY <3>5 DEF AnswerLost, GoTo, login, clock, remote
    <3>6. CASE Commit(p)
      BY <3>6 DEF Commit, GoTo, At, Freed, PendingIs, clock, remote
    <3>7. CASE Fail(p)
      BY <3>7 DEF Fail, GoTo, At, Freed, PendingIs, clock, remote, history
    <3>8. CASE Land(p)
      BY <3>8 DEF Land, login, clock, history
    <3>9. CASE Reject(p)
      BY <3>9 DEF Reject, login, clock, history
    <3>10. CASE Drop(p)
      BY <3>10 DEF Drop, Freed, login, clock, remote
    <3> QED
      BY <2>4, <3>1, <3>2, <3>3, <3>4, <3>5, <3>6, <3>7, <3>8, <3>9, <3>10
         DEF RedeemNext
  <2>5. CASE UNCHANGED vars
    BY <2>5 DEF vars, login, clock, remote, history
  <2> QED
    BY <2>1, <2>2, <2>3, <2>4, <2>5, NextCases
<1> QED
  BY <1>1, <1>2, PTL DEF Spec
-----------------------------------------------------------------------------
(* What the steps have in common.                                           *)
Trying(p) == redeem[p].pc \in Attempting

(* A request's step moves that request only, keeps the handshake it names,  *)
(* starts no sign-in, and begins an attempt only by claiming it.            *)
LEMMA RedeemFrame ==
    ASSUME TypeOK, NEW p \in Redeem, RedeemNext(p)
    PROVE  /\ watchdog' = watchdog
           /\ \A q \in Redeem : At(q)' = At(q)
           /\ \A q \in Redeem : q # p => redeem'[q] = redeem[q]
           /\ redeem'[p].pc = "new" <=> redeem[p].pc = "new"
           /\ \A s \in Sid : (PendingIs(s))' => PendingIs(s)
           /\ (Trying(p))' => Trying(p) \/ (Claim(p) /\ redeem'[p].pc = "lock")
<1> USE DEF TypeOK, Trying, Attempting, At, GoTo
<1>1. CASE Claim(p)
  <2>1. CASE InWindow(At(p)) /\ pending' = [pending EXCEPT !.redeeming = TRUE]
    <3>1. At(p) \in Sid
      BY <2>1, LoginAssumption DEF InWindow, PendingIs, Handshakes
    <3>2. \A s \in Sid : (PendingIs(s))' => PendingIs(s)
      BY <2>1, <3>1, PendingShape DEF InWindow, PendingIs
    <3> QED
      BY <1>1, <3>2 DEF Claim
  <2>2. CASE pending' = pending
    BY <1>1, <2>2 DEF Claim, PendingIs
  <2> QED
    BY <1>1, <2>1, <2>2 DEF Claim
<1>2. CASE Lock(p)
  BY <1>2 DEF Lock, login, PendingIs
<1>3. CASE Call(p)
  BY <1>3 DEF Call, login, PendingIs
<1>4. CASE CallRefused(p)
  BY <1>4 DEF CallRefused, login, PendingIs
<1>5. CASE AnswerLost(p)
  BY <1>5 DEF AnswerLost, login, PendingIs
<1>6. CASE Commit(p)
  BY <1>6 DEF Commit, PendingIs
<1>7. CASE Fail(p)
  <2>1. CASE PendingIs(At(p)) /\ pending' = [pending EXCEPT !.redeeming = FALSE]
    <3>1. At(p) \in Sid
      BY <2>1, LoginAssumption DEF PendingIs, Handshakes
    <3>2. \A s \in Sid : (PendingIs(s))' => PendingIs(s)
      BY <2>1, <3>1, PendingShape DEF PendingIs
    <3> QED
      BY <1>7, <3>2 DEF Fail
  <2>2. CASE pending' = pending
    BY <1>7, <2>2 DEF Fail, PendingIs
  <2> QED
    BY <1>7, <2>1, <2>2 DEF Fail
<1>8. CASE Land(p)
  BY <1>8 DEF Land, login, PendingIs
<1>9. CASE Reject(p)
  BY <1>9 DEF Reject, login, PendingIs
<1>10. CASE Drop(p)
  BY <1>10 DEF Drop, login, PendingIs
<1> QED
  BY <1>1, <1>2, <1>3, <1>4, <1>5, <1>6, <1>7, <1>8, <1>9, <1>10 DEF RedeemNext

(* A sign-in that starts has an id that was never used; whatever begin does *)
(* else, no sign-in becomes pending.                                        *)
LEMMA BeginFrame ==
    ASSUME TypeOK, NEW s \in Sid, NEW refresh \in BOOLEAN, NEW ok \in BOOLEAN,
           Begin(s, refresh, ok)
    PROVE  /\ \A r \in Sid : watchdog[r] # "none" => watchdog'[r] # "none"
           /\ \A r \in Sid : (PendingIs(r))' =>
                 watchdog[r] = "none" /\ watchdog'[r] # "none"
           /\ UNCHANGED <<slot, redeem, replaced>>
BY DEF Begin, TypeOK, PendingIs, history

(* A step of a session id's timers makes no sign-in pending.                *)
LEMMA SidFrame ==
    ASSUME TypeOK, NEW s \in Sid, SidNext(s)
    PROVE  /\ \A r \in Sid : watchdog[r] # "none" => watchdog'[r] # "none"
           /\ pending' \in {pending, Nil}
           /\ UNCHANGED <<slot, redeem, replaced>>
BY DEF SidNext, Watchdog, WindowCloses, GrantLapses, TypeOK, login, history
-----------------------------------------------------------------------------
(* A listener is up exactly while its handshake is pending.                 *)
THEOREM Listening == Spec => []ListenerIsPending
<1>1. Init => ListenerIsPending
  BY DEF Init, ListenerIsPending, PendingIs
<1>2. TypeOK /\ ListenerIsPending /\ [Next]_vars => ListenerIsPending'
  <2> SUFFICES ASSUME TypeOK, ListenerIsPending, [Next]_vars
               PROVE  ListenerIsPending'
    OBVIOUS
  <2> USE DEF ListenerIsPending, PendingIs
  <2>1. ASSUME NEW s \in Sid, NEW refresh \in BOOLEAN, NEW ok \in BOOLEAN,
               Begin(s, refresh, ok)
        PROVE  ListenerIsPending'
    <3>1. CASE pending' = Nil
      BY <2>1, <3>1, HandshakeIsSome DEF Begin
    <3>2. CASE pending' = [sid |-> s, redeeming |-> FALSE]
      BY <2>1, <3>2, HandshakeIsSome DEF Begin
    <3> QED
      BY <2>1, <3>1, <3>2 DEF Begin
  <2>2. ASSUME NEW s \in Sid, SidNext(s) PROVE ListenerIsPending'
    BY <2>2 DEF SidNext, Watchdog, WindowCloses, GrantLapses, login
  <2>3. ASSUME NEW p \in Redeem, NEW s \in Sid, Validate(p, s)
        PROVE  ListenerIsPending'
    BY <2>3 DEF Validate, login
  <2>4. ASSUME NEW p \in Redeem, RedeemNext(p) PROVE ListenerIsPending'
    <3>1. ASSUME listening' = listening,
                 \/ pending' = pending
                 \/ /\ PendingIs(At(p))
                    /\ \E b \in BOOLEAN : pending' = [pending EXCEPT !.redeeming = b]
          PROVE  ListenerIsPending'
      <4>1. CASE pending' = pending
        BY <3>1, <4>1
      <4>2. CASE PendingIs(At(p)) /\ pending' # pending
        <5>1. At(p) \in Sid
          BY <4>2, LoginAssumption DEF TypeOK, Handshakes
        <5>2. PICK b \in BOOLEAN : pending' = [sid |-> At(p), redeeming |-> b]
          BY <3>1, <4>2, <5>1, PendingShape
        <5> QED
          BY <3>1, <4>2, <5>1, <5>2, HandshakeIsSome
      <4> QED
        BY <3>1, <4>1, <4>2
    <3>2. CASE Commit(p)
      BY <3>2 DEF Commit
    <3>3. CASE Claim(p)
      BY <3>1, <3>3 DEF Claim, InWindow
    <3>4. CASE Fail(p)
      BY <3>1, <3>4 DEF Fail
    <3>5. CASE \/ Lock(p) \/ Call(p) \/ CallRefused(p) \/ AnswerLost(p)
               \/ Land(p) \/ Reject(p) \/ Drop(p)
      BY <3>1, <3>5 DEF Lock, Call, CallRefused, AnswerLost, Land, Reject, Drop, login
    <3> QED
      BY <2>4, <3>2, <3>3, <3>4, <3>5 DEF RedeemNext
  <2>5. CASE UNCHANGED vars
    BY <2>5 DEF vars, login
  <2> QED
    BY <2>1, <2>2, <2>3, <2>4, <2>5, NextCases
<1> QED
  BY <1>1, <1>2, TypeCorrect, PTL DEF Spec

-----------------------------------------------------------------------------
(* At most one redeem of a handshake is under way.  A handshake a request   *)
(* names was minted, so it cannot start again with its claim cleared; and   *)
(* while an attempt goes on, its handshake, if still pending, is claimed.   *)
Minted ==
    \A p \in Redeem : redeem[p].pc # "new" => At(p) \in Sid /\ watchdog[At(p)] # "none"
Claims ==
    \A p \in Redeem : Trying(p) /\ PendingIs(At(p)) => pending.redeeming
Flight == TypeOK /\ Minted /\ Claims /\ SingleFlight

(* The first request of a handshake finds no attempt under way on it.       *)
LEMMA ClaimIsFirst ==
    ASSUME Flight, NEW p \in Redeem, Claim(p), redeem'[p].pc = "lock"
    PROVE  /\ PendingIs(At(p))
           /\ \A q \in Redeem : Trying(q) => At(q) # At(p)
BY DEF Flight, TypeOK, Claims, Claim, GoTo, InWindow, PendingIs

(* Flight is inductive.                                                     *)
LEMMA FlightInvariant == Spec => []Flight
<1>1. Init => Flight
  <2> SUFFICES ASSUME Init PROVE Minted /\ Claims /\ SingleFlight /\ TypeOK
    BY DEF Flight
  <2>1. TypeOK
    BY DEF Init, TypeOK, Steps
  <2> QED
    BY <2>1 DEF Init, Minted, Claims, SingleFlight, Trying, Attempting
<1>2. Flight /\ TypeOK' /\ [Next]_vars => Flight'
  <2> SUFFICES ASSUME Flight, TypeOK', [Next]_vars
               PROVE  Minted' /\ Claims' /\ SingleFlight'
    BY DEF Flight
  <2> USE DEF Flight
  <2>1. ASSUME NEW s \in Sid, NEW refresh \in BOOLEAN, NEW ok \in BOOLEAN,
               Begin(s, refresh, ok)
        PROVE  Minted' /\ Claims' /\ SingleFlight'
    <3>1. Minted'
      BY <2>1, BeginFrame DEF Minted, At
    <3>2. Claims'
      BY <2>1, BeginFrame DEF Minted, Claims, At, Trying, Attempting
    <3>3. SingleFlight'
      BY <2>1, BeginFrame DEF SingleFlight, At
    <3> QED
      BY <3>1, <3>2, <3>3
  <2>2. ASSUME NEW s \in Sid, SidNext(s)
        PROVE  Minted' /\ Claims' /\ SingleFlight'
    <3>1. Minted'
      BY <2>2, SidFrame DEF Minted, At
    <3>2. Claims'
      BY <2>2, SidFrame DEF Claims, At, Trying, PendingIs
    <3>3. SingleFlight'
      BY <2>2, SidFrame DEF SingleFlight, At
    <3> QED
      BY <3>1, <3>2, <3>3
  <2>3. ASSUME NEW p \in Redeem, NEW s \in Sid, Validate(p, s)
        PROVE  Minted' /\ Claims' /\ SingleFlight'
    <3>1. /\ redeem' = [redeem EXCEPT ![p] = [pc |-> "claim", sid |-> s]]
          /\ pending' = pending /\ watchdog' = watchdog
          /\ PendingIs(s)
      BY <2>3 DEF Validate, login, InWindow
    <3>2. watchdog[s] # "none"
      BY <3>1, PendingShape
    <3>3. \A q \in Redeem : q # p => redeem'[q] = redeem[q]
      BY <3>1 DEF TypeOK
    <3>4. redeem'[p].pc = "claim" /\ redeem'[p].sid = s
      BY <3>1 DEF TypeOK
    <3>5. Minted'
      BY <3>1, <3>2, <3>3, <3>4 DEF Minted, At
    <3>6. Claims'
      BY <3>1, <3>3, <3>4 DEF Claims, At, Trying, Attempting, PendingIs
    <3>7. SingleFlight'
      BY <3>3, <3>4 DEF SingleFlight, At, Attempting
    <3> QED
      BY <3>5, <3>6, <3>7
  <2>4. ASSUME NEW p \in Redeem, RedeemNext(p)
        PROVE  Minted' /\ Claims' /\ SingleFlight'
    <3>1. Minted'
      BY <2>4, RedeemFrame DEF Minted
    <3>2. Claims'
      <4> SUFFICES ASSUME NEW q \in Redeem, (Trying(q))', (PendingIs(At(q)))'
                   PROVE  pending'.redeeming
        BY DEF Claims
      <4>0. At(q) \in Sid /\ At(q)' = At(q) /\ PendingIs(At(q))
        BY <2>4, RedeemFrame, LoginAssumption DEF PendingIs, TypeOK, Handshakes
      <4>1. CASE Claim(p) /\ redeem'[p].pc = "lock"
        <5>1. pending' = [pending EXCEPT !.redeeming = TRUE]
          BY <4>1 DEF Claim, GoTo, TypeOK
        <5> QED
          BY <4>0, <5>1, PendingShape
      <4>2. CASE Fail(p)
        <5>1. Trying(p) /\ ~(Trying(p))'
          BY <4>2 DEF Fail, GoTo, Trying, Attempting, TypeOK
        <5>2. q # p /\ Trying(q)
          BY <2>4, <5>1, RedeemFrame DEF Trying
        <5>3. At(q) # At(p)
          BY <5>1, <5>2 DEF SingleFlight, Trying
        <5>4. pending' = pending
          BY <4>0, <4>2, <5>3 DEF Fail, PendingIs
        <5> QED
          BY <4>0, <5>2, <5>4 DEF Claims
      <4>3. CASE ~Fail(p) /\ ~(Claim(p) /\ redeem'[p].pc = "lock")
        <5>1. Trying(q)
          BY <2>4, <4>3, RedeemFrame DEF Trying
        <5>2. pending' = pending \/ pending' = Nil
          BY <2>4, <4>3 DEF RedeemNext, Claim, GoTo, Lock, Call, CallRefused,
             AnswerLost, Commit, Land, Reject, Drop, login, TypeOK
        <5> QED
          BY <4>0, <5>1, <5>2 DEF Claims, PendingIs
      <4> QED
        BY <4>1, <4>2, <4>3
    <3>3. SingleFlight'
      <4> SUFFICES ASSUME NEW q \in Redeem, NEW r \in Redeem,
                          (Trying(q))', (Trying(r))', At(q)' = At(r)'
                   PROVE  q = r
        BY DEF SingleFlight, Trying
      <4>1. CASE Claim(p) /\ redeem'[p].pc = "lock"
        BY <2>4, <4>1, RedeemFrame, ClaimIsFirst DEF SingleFlight, Trying
      <4>2. CASE ~(Claim(p) /\ redeem'[p].pc = "lock")
        BY <2>4, <4>2, RedeemFrame DEF SingleFlight, Trying
      <4> QED
        BY <4>1, <4>2
    <3> QED
      BY <3>1, <3>2, <3>3
  <2>5. CASE UNCHANGED vars
    BY <2>5 DEF vars, login, Minted, Claims, SingleFlight, At, Trying, PendingIs
  <2> QED
    BY <2>1, <2>2, <2>3, <2>4, <2>5, NextCases
<1> QED
  BY <1>1, <1>2, TypeCorrect, PTL DEF Spec

(* A page's double submit cannot register twice.                            *)
THEOREM OneRedeem == Spec => []SingleFlight
BY FlightInvariant, PTL DEF Flight
-----------------------------------------------------------------------------
(* A session that was committed, current or replaced, is out of reach: it   *)
(* is not pending, and nobody tries to register it.                         *)
Committed == {c \in Sid : c = slot \/ c \in replaced}
Settled ==
    \A c \in Committed :
        /\ watchdog[c] # "none" /\ ~PendingIs(c)
        /\ \A p \in Redeem : Trying(p) => At(p) # c

(* Settled is inductive, given Flight.                                      *)
LEMMA SettledInvariant == Spec => []Settled
<1>1. Init => Settled
  BY LoginAssumption DEF Init, Settled, Committed
<1>2. Flight /\ Settled /\ [Next]_vars => Settled'
  <2> SUFFICES ASSUME Flight, Settled, [Next]_vars PROVE Settled'
    OBVIOUS
  <2> USE DEF Flight
  <2> SUFFICES ASSUME NEW c \in Committed'
               PROVE  /\ watchdog'[c] # "none" /\ ~(PendingIs(c))'
                      /\ \A q \in Redeem : (Trying(q))' => At(q)' # c
    BY DEF Settled
  <2>0. c \in Sid
    BY DEF Committed
  <2>1. ASSUME NEW s \in Sid, NEW refresh \in BOOLEAN, NEW ok \in BOOLEAN,
               Begin(s, refresh, ok)
        PROVE  /\ watchdog'[c] # "none" /\ ~(PendingIs(c))'
               /\ \A q \in Redeem : (Trying(q))' => At(q)' # c
    BY <2>0, <2>1, BeginFrame DEF Settled, Committed, Trying, At
  <2>2. ASSUME NEW s \in Sid, SidNext(s)
        PROVE  /\ watchdog'[c] # "none" /\ ~(PendingIs(c))'
               /\ \A q \in Redeem : (Trying(q))' => At(q)' # c
    BY <2>0, <2>2, SidFrame DEF Settled, Committed, Trying, At, PendingIs
  <2>3. ASSUME NEW p \in Redeem, NEW s \in Sid, Validate(p, s)
        PROVE  /\ watchdog'[c] # "none" /\ ~(PendingIs(c))'
               /\ \A q \in Redeem : (Trying(q))' => At(q)' # c
    <3>1. c \in Committed /\ watchdog' = watchdog /\ pending' = pending
      BY <2>0, <2>3 DEF Validate, login, history, Committed
    <3>2. \A q \in Redeem : (Trying(q))' => Trying(q) /\ At(q)' = At(q)
      BY <2>3 DEF Validate, Trying, Attempting, At, TypeOK
    <3> QED
      BY <3>1, <3>2 DEF Settled, PendingIs
  <2>4. ASSUME NEW p \in Redeem, RedeemNext(p)
        PROVE  /\ watchdog'[c] # "none" /\ ~(PendingIs(c))'
               /\ \A q \in Redeem : (Trying(q))' => At(q)' # c
    <3>1. CASE Commit(p)
      <4>1. At(p) \in Sid /\ Trying(p) /\ ~(Trying(p))' /\ ~(PendingIs(At(p)))'
        BY <3>1 DEF Commit, GoTo, Minted, Trying, Attempting, TypeOK, PendingIs, At
      <4>2. c \in Committed \/ c = At(p)
        BY <2>0, <3>1 DEF Commit, Committed
      <4>3. \A q \in Redeem : (Trying(q))' => Trying(q) /\ q # p /\ At(q)' = At(q)
        BY <2>4, <4>1, RedeemFrame DEF Trying
      <4>4. CASE c = At(p)
        BY <2>4, <4>1, <4>3, <4>4, RedeemFrame
           DEF Minted, SingleFlight, Trying, Attempting, At, PendingIs
      <4>5. CASE c \in Committed
        BY <2>0, <2>4, <4>3, <4>5, RedeemFrame DEF Settled
      <4> QED
        BY <4>2, <4>4, <4>5
    <3>2. CASE ~Commit(p)
      <4>1. c \in Committed
        BY <2>0, <2>4, <3>2 DEF RedeemNext, Claim, Lock, Call, CallRefused,
           AnswerLost, Fail, Land, Reject, Drop, login, history, Committed
      <4>2. \A q \in Redeem : (Trying(q))' => At(q)' # c
        BY <2>4, <4>1, RedeemFrame, ClaimIsFirst DEF Settled, Trying
      <4> QED
        BY <2>0, <2>4, <4>1, <4>2, RedeemFrame DEF Settled
    <3> QED
      BY <3>1, <3>2
  <2>5. CASE UNCHANGED vars
    BY <2>5 DEF vars, login, history, Settled, Committed, Trying, At, PendingIs
  <2> QED
    BY <2>1, <2>2, <2>3, <2>4, <2>5, NextCases
<1> QED
  BY <1>1, <1>2, FlightInvariant, PTL DEF Spec

(* The tools never come back to a session that a login has replaced.        *)
THEOREM FreshSlot == Spec => FreshSession
<1>1. Flight /\ Settled /\ [Next]_vars => [slot' # slot => slot' \notin replaced]_vars
  <2> SUFFICES ASSUME Flight, Settled, Next, slot' # slot
               PROVE  slot' \notin replaced
    BY DEF vars, login
  <2>1. PICK p \in Redeem : Commit(p)
    BY NextCases DEF Begin, SidNext, Watchdog, WindowCloses, GrantLapses, Validate,
       RedeemNext, Claim, Lock, Call, CallRefused, AnswerLost, Fail, Land, Reject,
       Drop, login
  <2>2. Trying(p) /\ slot' = At(p) /\ At(p) \in Sid
    BY <2>1 DEF Commit, GoTo, Trying, Attempting, Flight, Minted
  <2> QED
    BY <2>2 DEF Settled, Committed
<1> QED
  BY <1>1, FlightInvariant, SettledInvariant, PTL DEF Spec, FreshSession

(* Inside its window a handshake ends only by being redeemed.               *)
THEOREM WindowIsKept == Spec => WindowKept
<1>1. TypeOK /\ [Next]_vars
         => [\A s \in Sid : InWindow(s) => (PendingIs(s))' \/ slot' = s]_vars
  <2> SUFFICES ASSUME TypeOK, Next, NEW s \in Sid, InWindow(s), slot' # s
               PROVE  (PendingIs(s))'
    OBVIOUS
  <2>1. PendingIs(s) /\ s \notin late
    BY DEF InWindow
  <2>2. ASSUME UNCHANGED pending PROVE (PendingIs(s))'
    BY <2>1, <2>2 DEF PendingIs
  <2>3. ASSUME NEW b \in BOOLEAN, pending' = [pending EXCEPT !.redeeming = b]
        PROVE  (PendingIs(s))'
    BY <2>1, <2>3, PendingShape, HandshakeIsSome DEF PendingIs
  <2>4. ASSUME NEW r \in Sid, SidNext(r) PROVE (PendingIs(s))'
    BY <2>1, <2>2, <2>4
       DEF SidNext, Watchdog, WindowCloses, GrantLapses, login, PendingIs
  <2>5. ASSUME NEW p \in Redeem, RedeemNext(p) PROVE (PendingIs(s))'
    <3>1. CASE Commit(p)
      BY <2>1, <2>2, <3>1 DEF Commit, PendingIs
    <3>2. CASE Claim(p) \/ Fail(p)
      BY <2>2, <2>3, <3>2 DEF Claim, Fail
    <3>3. CASE \/ Lock(p) \/ Call(p) \/ CallRefused(p) \/ AnswerLost(p)
               \/ Land(p) \/ Reject(p) \/ Drop(p)
      BY <2>2, <3>3 DEF Lock, Call, CallRefused, AnswerLost, Land, Reject, Drop, login
    <3> QED
      BY <2>5, <3>1, <3>2, <3>3 DEF RedeemNext
  <2> QED
    BY <2>1, <2>2, <2>4, <2>5, NextCases DEF Begin, Validate, login
<1> QED
  BY <1>1, TypeCorrect, PTL DEF Spec, WindowKept

-----------------------------------------------------------------------------
(* Registrations are committed in the order II executes them.  Who is past  *)
(* the lock holds it; while no answer was lost, a call in transit is its    *)
(* holder's, what II honours is what its holder is about to commit, and     *)
(* without such a holder it is what the slot names.                         *)
Holding == {"call", "sent", "landed", "failed"}
HolderLocked == \A p \in Redeem : redeem[p].pc \in Holding => registration = p
Answered == \A p \in Redeem : sent[p] # Nil => redeem[p].pc = "sent" /\ sent[p] = At(p)
Landing ==
    /\ \A p \in Redeem : redeem[p].pc = "landed" => honoured = At(p)
    /\ (\A p \in Redeem : redeem[p].pc # "landed") => slot = honoured
Ordered == HolderLocked /\ (~orphaned => Answered /\ Landing)

(* Ordered is inductive.                                                    *)
LEMMA OrderedInvariant == Spec => []Ordered
<1>1. Init => Ordered
  BY DEF Init, Ordered, HolderLocked, Holding, Answered, Landing
<1>2. TypeOK /\ Ordered /\ [Next]_vars => Ordered'
  <2> SUFFICES ASSUME TypeOK, Ordered, [Next]_vars PROVE Ordered'
    OBVIOUS
  <2> USE DEF TypeOK, Ordered, Holding
  <2>1. ASSUME UNCHANGED <<slot, registration, redeem, remote, orphaned>>
        PROVE  Ordered'
    BY <2>1 DEF remote, HolderLocked, Answered, Landing, At
  <2>2. ASSUME NEW p \in Redeem, NEW s \in Sid, Validate(p, s) PROVE Ordered'
    BY <2>2 DEF Validate, login, remote, history, HolderLocked, Answered, Landing, At
  <2>3. ASSUME NEW p \in Redeem, RedeemNext(p) PROVE Ordered'
    <3>1. CASE Claim(p)
      BY <3>1 DEF Claim, GoTo, remote, history, HolderLocked, Answered, Landing, At
    <3>2. CASE Lock(p)
      BY <3>2, LoginAssumption
         DEF Lock, GoTo, login, remote, history, HolderLocked, Answered, Landing, At
    <3>3. CASE Call(p)
      BY <3>3 DEF Call, GoTo, login, history, HolderLocked, Answered, Landing, At
    <3>4. CASE CallRefused(p)
      BY <3>4 DEF CallRefused, GoTo, login, remote, history,
                  HolderLocked, Answered, Landing, At
    <3>5. CASE AnswerLost(p)
      BY <3>5 DEF AnswerLost, GoTo, HolderLocked
    <3>6. CASE Commit(p)
      <4>1. /\ redeem[p].pc = "landed" /\ redeem' = [redeem EXCEPT ![p].pc = "done"]
            /\ slot' = At(p)
            /\ registration' = IF registration = p THEN Nil ELSE registration
            /\ UNCHANGED <<sent, honoured, orphaned>>
        BY <3>6 DEF Commit, GoTo, Freed, remote
      <4>2. \A q \in Redeem : /\ redeem'[q].sid = redeem[q].sid
                             /\ redeem'[q].pc = IF q = p THEN "done" ELSE redeem[q].pc
        BY <4>1
      <4>3. \A q \in Redeem : redeem'[q].pc \notin Holding
        BY <4>1, <4>2 DEF HolderLocked
      <4>4. ~orphaned => slot' = honoured'
        BY <4>1 DEF Landing
      <4>5. ~orphaned => Answered'
        BY <4>1, <4>2 DEF Answered, At
      <4> QED
        BY <4>1, <4>3, <4>4, <4>5 DEF HolderLocked, Landing
    <3>7. CASE Fail(p)
      BY <3>7, LoginAssumption
         DEF Fail, GoTo, Freed, remote, history, HolderLocked, Answered, Landing, At
    <3>8. CASE Land(p)
      <4>1. /\ sent[p] # Nil /\ honoured' = sent[p]
            /\ sent' = [sent EXCEPT ![p] = Nil]
            /\ UNCHANGED <<slot, registration, orphaned>>
        BY <3>8 DEF Land, login, history
      <4>2. \A q \in Redeem :
               /\ redeem'[q].sid = redeem[q].sid
               /\ redeem'[q].pc = IF q = p /\ redeem[q].pc = "sent"
                                  THEN "landed" ELSE redeem[q].pc
        BY <3>8 DEF Land
      <4>3. HolderLocked'
        BY <4>1, <4>2 DEF HolderLocked
      <4>4. ASSUME ~orphaned PROVE Answered' /\ Landing'
        <5>1. redeem[p].pc = "sent" /\ sent[p] = At(p)
          BY <4>1, <4>4 DEF Answered
        <5>2. \A q \in Redeem : redeem'[q].pc = "landed" <=> q = p
          BY <4>2, <5>1 DEF HolderLocked
        <5>3. Answered'
          BY <4>1, <4>2, <4>4, <5>2 DEF Answered, At
        <5>4. Landing'
          BY <4>1, <4>2, <5>1, <5>2 DEF Landing, At
        <5> QED
          BY <5>3, <5>4
      <4> QED
        BY <4>1, <4>3, <4>4
    <3>9. CASE Reject(p)
      <4>1. /\ sent[p] # Nil /\ sent' = [sent EXCEPT ![p] = Nil]
            /\ UNCHANGED <<slot, honoured, registration, orphaned>>
        BY <3>9 DEF Reject, login, history
      <4>2. \A q \in Redeem :
               /\ redeem'[q].sid = redeem[q].sid
               /\ redeem'[q].pc = IF q = p /\ redeem[q].pc = "sent"
                                  THEN "failed" ELSE redeem[q].pc
        BY <3>9 DEF Reject
      <4>3. HolderLocked'
        BY <4>1, <4>2 DEF HolderLocked
      <4>4. ASSUME ~orphaned PROVE Answered' /\ Landing'
        <5>1. redeem[p].pc = "sent" /\ sent[p] = At(p)
          BY <4>1, <4>4 DEF Answered
        <5>2. Answered'
          BY <4>1, <4>2, <4>4, <5>1 DEF Answered, At
        <5>3. Landing'
          BY <4>1, <4>2, <4>4, <5>1 DEF Landing, At
        <5> QED
          BY <5>2, <5>3
      <4> QED
        BY <4>1, <4>3, <4>4
    <3>10. CASE Drop(p)
      <4>1. /\ registration' = IF registration = p THEN Nil ELSE registration
            /\ orphaned' = (orphaned \/ redeem[p].pc \in {"sent", "landed"})
            /\ UNCHANGED <<slot, sent, honoured>>
        BY <3>10 DEF Drop, Freed, login, remote
      <4>2. \A q \in Redeem : /\ redeem'[q].sid = redeem[q].sid
                             /\ redeem'[q].pc = IF q = p THEN "done" ELSE redeem[q].pc
        BY <3>10 DEF Drop
      <4>3. HolderLocked'
        BY <4>1, <4>2 DEF HolderLocked
      <4>4. ASSUME ~orphaned' PROVE Answered' /\ Landing'
        <5>1. ~orphaned /\ redeem[p].pc \notin {"sent", "landed"}
          BY <4>1, <4>4
        <5>2. Answered'
          BY <4>1, <4>2, <5>1 DEF Answered, At
        <5>3. Landing'
          BY <4>1, <4>2, <5>1 DEF Landing, At
        <5> QED
          BY <5>2, <5>3
      <4> QED
        BY <4>3, <4>4
    <3> QED
      BY <2>3, <3>1, <3>2, <3>3, <3>4, <3>5, <3>6, <3>7, <3>8, <3>9, <3>10
         DEF RedeemNext
  <2>4. ASSUME NEW s \in Sid, NEW refresh \in BOOLEAN, NEW ok \in BOOLEAN,
               Begin(s, refresh, ok)
        PROVE  Ordered'
    BY <2>1, <2>4 DEF Begin, remote, history
  <2>5. ASSUME NEW s \in Sid, SidNext(s) PROVE Ordered'
    BY <2>1, <2>5 DEF SidNext, Watchdog, WindowCloses, GrantLapses, login, remote, history
  <2>6. CASE UNCHANGED vars
    BY <2>1, <2>6 DEF vars, login, remote, history
  <2> QED
    BY <2>2, <2>3, <2>4, <2>5, <2>6, NextCases
<1> QED
  BY <1>1, <1>2, TypeCorrect, PTL DEF Spec

(* With no registration under way and no answer lost, the tools act as the  *)
(* session II honours.                                                      *)
THEOREM SlotAgrees == Spec => []SlotHonoured
<1>1. Ordered => SlotHonoured
  BY LoginAssumption DEF Ordered, HolderLocked, Holding, Landing, SlotHonoured
<1> QED
  BY <1>1, OrderedInvariant, PTL

-----------------------------------------------------------------------------
(***************************************************************************)
(* The setup.  One client is visited at a time, so what a run holds (the   *)
(* text it read, the text it will write) is that client's.  BackedUp says  *)
(* of each client what its backup, and a copy under way, hold; Ahead says  *)
(* what the run has in hand for the client it visits; ToldTrue says what   *)
(* is so of a client the run is done with.  All three are inductive        *)
(* together with the types, and carry BackupPredates, NothingLost and      *)
(* ExitTells.                                                              *)
(***************************************************************************)
Working == {"backup", "copy", "keep", "stage", "write", "carry", "publish"}
RunSteps   == {"off", "visit", "exit"} \cup Working
Files   == [text : Text, perm : Perm \cup {Default}]
Wrote   == {"never", "over an edit", "made", "changed"}

Typed ==
    /\ machine \in [installed : SUBSET Client, codex : BOOLEAN]
    /\ disk \in [Client -> [live : Files, staged : Files, backup : Text, copy : Text,
                            link : {"plain", "link", "dangling"}]]
    /\ setup \in [at : RunSteps, mode : Modes, todo : SUBSET Client, read : Text, text : Text,
                  failed : Nat, edited : SUBSET Client, runs : Nat]
    /\ before \in [Client -> SUBSET Text] /\ wrote \in [Client -> Wrote] /\ edits \in Nat

(* A file that says nothing is not there, nobody cuts one short, and what it *)
(* says is remembered until setup writes it; a backup is whole, says what   *)
(* the file said, and is there once setup has changed the file.             *)
BackedUp(c) ==
    LET d == disk[c]
    IN  /\ d.live.text = NoFile => d.live = Gone
        /\ d.live.text # Partial
        /\ wrote[c] = "never" => d.live.text \in before[c]
        /\ wrote[c] = "changed" => d.backup # NoFile
        /\ d.backup # Partial
        /\ d.backup # NoFile /\ wrote[c] \in {"never", "changed"} => d.backup \in before[c]

(* What the run holds for the client it is at work on.                      *)
Ahead(c) ==
    LET d == disk[c]
    IN  Visiting(c) /\ setup.at \in Working =>
          /\ setup.mode \in {"apply", "remove"}
          /\ setup.text \in Config /\ setup.text = Edited(c, setup.mode, setup.read)
          /\ setup.read # NoFile => d.live.text # NoFile
          /\ setup.at \in {"copy", "keep"} => d.live.text # NoFile /\ d.backup = NoFile
          /\ setup.at = "keep" =>
                d.copy \notin {NoFile, Partial} /\ (wrote[c] = "never" => d.copy \in before[c])
          /\ setup.at \in {"stage", "write", "carry", "publish"} /\ setup.read # NoFile =>
                d.backup # NoFile
          /\ setup.at \in {"carry", "publish"} => d.staged.text = setup.text
          /\ setup.at = "publish" /\ setup.read # NoFile => d.staged.perm = d.live.perm

(* What the run left behind at a client.                                    *)
Left(c) ==
    LET text == disk[c].live.text
    IN  /\ setup.mode = "apply" => Registered(text)
        /\ setup.mode = "remove" /\ text \in Config /\ text.table => text.entry = NoEntry

ToldTrue(c) ==
    /\ setup.at # "off" /\ setup.failed = 0
    /\ c \in machine.installed \ (setup.edited \cup setup.todo \cup {"perplexity"})
    => Left(c)

(* A run exits when it has visited everyone.                                *)
Visited == setup.at = "exit" => setup.todo = {}

Inv == Typed /\ Visited /\ \A c \in Client : BackedUp(c) /\ Ahead(c) /\ ToldTrue(c)

-----------------------------------------------------------------------------
(* The edits.                                                               *)

(* What an upsert writes has the entry, and keeps the rest.                 *)
LEMMA UpsertedIs ==
    ASSUME NEW text \in Text
    PROVE  /\ Upserted(text) \in Config \cup {Refused}
           /\ Upserted(text) \in Config => Registered(Upserted(text))
           /\ Upserted(text) \in Config /\ text \in Config =>
                 /\ Upserted(text).other = text.other
                 /\ text.entry \notin {NoEntry, Scalar} =>
                       Upserted(text).entry.extra = text.entry.extra
<1>1. ASSUME NEW config \in Config
      PROVE  /\ [config EXCEPT !.entry = WithCommand(@)] \in Config
             /\ Registered([config EXCEPT !.entry = WithCommand(@)])
             /\ [config EXCEPT !.entry = WithCommand(@)].other = config.other
             /\ config.entry \notin {NoEntry, Scalar} =>
                   [config EXCEPT !.entry = WithCommand(@)].entry.extra = config.entry.extra
  <2> DEFINE new == [config EXCEPT !.entry = WithCommand(@)]
  <2>1. /\ WithCommand(config.entry) \in [command : {"exe", "another"}, extra : BOOLEAN]
        /\ WithCommand(config.entry).command = "exe"
        /\ config.entry \notin {NoEntry, Scalar} =>
              WithCommand(config.entry).extra = config.entry.extra
    BY DEF WithCommand, Config, Entry
  <2>2. /\ new \in Config /\ new.entry = WithCommand(config.entry)
        /\ new.other = config.other
    BY <2>1 DEF Config, Entry
  <2> QED
    BY <2>1, <2>2, TextAssumption DEF Registered
<1>2. Empty \in Config
  BY DEF Empty, Config, Entry
<1>3. CASE text \in {NoFile, Blank}
  BY <1>1, <1>2, <1>3, TextAssumption DEF Upserted, Text
<1>4. CASE text \notin {NoFile, Blank}
  BY <1>1, <1>4, TextAssumption DEF Upserted, Text
<1> QED
  BY <1>3, <1>4

(* A removal leaves no entry it could have taken out, and keeps the rest.   *)
LEMMA RemovedIs ==
    ASSUME NEW text \in Text, NEW edit \in {RemovedJson(text), RemovedCodex(text)}
    PROVE  /\ edit \in Config \cup {Refused, Nothing}
           /\ edit \in Config =>
                 /\ edit.entry = NoEntry
                 /\ text \in Config => edit.other = text.other
           /\ edit = Nothing /\ text \in Config /\ text.table => text.entry = NoEntry
<1>1. ASSUME NEW config \in Config
      PROVE  /\ [config EXCEPT !.entry = NoEntry] \in Config
             /\ [config EXCEPT !.entry = NoEntry].entry = NoEntry
             /\ [config EXCEPT !.entry = NoEntry].other = config.other
  BY DEF Config, Entry
<1>2. CASE text \in Config
  BY <1>1, <1>2, TextAssumption DEF RemovedJson, RemovedCodex, Text
<1>3. CASE text \notin Config
  BY <1>3, TextAssumption DEF RemovedJson, RemovedCodex, Text
<1> QED
  BY <1>2, <1>3

(* What a run would write, whatever it read.                                *)
LEMMA EditedIs ==
    ASSUME NEW c \in Client, NEW mode \in {"apply", "remove"}, NEW text \in Text
    PROVE  LET edit == Edited(c, mode, text)
           IN  /\ edit \in Config \cup {Refused, Nothing}
               /\ edit \in Config /\ mode = "apply" => Registered(edit)
               /\ edit \in Config /\ mode = "remove" => edit.entry = NoEntry
               /\ edit \in Config /\ text \in Config =>
                     /\ edit.other = text.other
                     /\ mode = "apply" /\ text.entry \notin {NoEntry, Scalar} =>
                           edit.entry.extra = text.entry.extra
               /\ edit = Nothing => mode = "remove"
               /\ edit = Nothing /\ text \in Config /\ text.table => text.entry = NoEntry
<1>1. CASE mode = "apply"
  <2>1. Edited(c, mode, text) = Upserted(text) /\ mode # "remove"
    BY <1>1 DEF Edited
  <2>2. Nothing \notin Config \cup {Refused}
    BY TextAssumption DEF Text
  <2> QED
    BY <1>1, <2>1, <2>2, UpsertedIs
<1>2. CASE mode = "remove"
  <2>1. Edited(c, mode, text) \in {RemovedJson(text), RemovedCodex(text)} /\ mode # "apply"
    BY <1>2 DEF Edited
  <2> QED
    BY <1>2, <2>1, RemovedIs
<1> QED
  BY <1>1, <1>2

-----------------------------------------------------------------------------
(* One client is visited at a time.                                         *)
LEMMA OneVisited ==
    ASSUME Typed, NEW c \in Client, NEW d \in Client, Visiting(c), Visiting(d)
    PROVE  c = d
<1>1. Order(c) <= Order(d) /\ Order(d) <= Order(c)
  BY DEF Visiting
<1>2. \A e \in Client : e \in {"desktop", "code", "codex", "cursor", "antigravity", "perplexity"}
  BY ClientAssumption
<1> QED
  BY <1>1, <1>2 DEF Order

-----------------------------------------------------------------------------
(* Types.                                                                   *)
SetupType ==
    [at : RunSteps, mode : Modes, todo : SUBSET Client, read : Text, text : Text,
     failed : Nat, edited : SUBSET Client, runs : Nat]
DiskType ==
    [live : Files, staged : Files, backup : Text, copy : Text,
     link : {"plain", "link", "dangling"}]

(* What others write is a text, and no cut one.                             *)
LEMMA TextsAre ==
    ASSUME NEW c, NEW text \in TextsOf(c)
    PROVE  text \in Text /\ text # Partial
BY GivenAssumption DEF TextsOf

(* The texts that name the state of a file.                                 *)
LEMMA SomeTexts ==
    /\ NoFile \in Text /\ Partial \in Text /\ Gone \in Files /\ Gone.text = NoFile
    /\ \A text \in Text, perm \in Perm \cup {Default} :
          /\ File(text, perm) \in Files
          /\ File(text, perm).text = text /\ File(text, perm).perm = perm
    /\ Config \subseteq Text
BY DEF Text, Gone, File, Files

(* The loop goes on with the other clients.                                 *)
LEMMA NextClientIs ==
    ASSUME setup \in SetupType, NEW c \in Client, NEW n \in Nat, NextClient(c, n)
    PROVE  /\ setup' \in SetupType
           /\ setup'.at = "visit" /\ setup'.mode = setup.mode
           /\ setup'.todo = setup.todo \ {c} /\ setup'.failed = setup.failed + n
           /\ setup'.edited = setup.edited
<1>1. NoFile \in Text /\ "visit" \in RunSteps
  BY SomeTexts DEF RunSteps
<1>2. setup.todo \in SUBSET Client /\ setup.failed \in Nat
  BY DEF SetupType
<1> DEFINE todo   == setup.todo \ {c}
           failed == setup.failed + n
<1>3. todo \in SUBSET Client /\ failed \in Nat
  BY <1>2
<1>4. setup' = [setup EXCEPT !.at = "visit", !.todo = todo, !.failed = failed,
                             !.read = NoFile, !.text = NoFile]
  BY DEF NextClient, SetupType
<1> HIDE DEF todo, failed
<1>5. /\ setup' \in SetupType /\ setup'.at = "visit" /\ setup'.mode = setup.mode
      /\ setup'.todo = todo /\ setup'.failed = failed /\ setup'.edited = setup.edited
  BY <1>1, <1>3, <1>4 DEF SetupType
<1> QED
  BY <1>5 DEF todo, failed

(* A file or a text beside it is written.                                   *)
LEMMA DiskIs ==
    ASSUME disk \in [Client -> DiskType], NEW c \in Client
    PROVE  /\ disk[c] \in DiskType /\ disk[c].live \in Files /\ disk[c].staged \in Files
           /\ disk[c].live.text \in Text /\ disk[c].live.perm \in Perm \cup {Default}
           /\ disk[c].staged.perm \in Perm \cup {Default}
           /\ \A file \in Files, text \in Text, perm \in Perm \cup {Default} :
                 /\ [file EXCEPT !.text = text] \in Files
                 /\ [file EXCEPT !.perm = perm] \in Files
           /\ \A d \in DiskType : [disk EXCEPT ![c] = d] \in [Client -> DiskType]
           /\ \A d \in DiskType, file \in Files, text \in Text :
                 /\ [d EXCEPT !.live = file] \in DiskType
                 /\ [d EXCEPT !.staged = file] \in DiskType
                 /\ [d EXCEPT !.backup = text] \in DiskType
                 /\ [d EXCEPT !.copy = text] \in DiskType
BY DEF DiskType, Files

(* A step of the run at client c.                                           *)
LEMMA RunTyped ==
    ASSUME Typed, NEW c \in Client, OfRun(c)
    PROVE  Typed'
<1> USE DEF Typed
<1>1. setup \in SetupType /\ disk \in [Client -> DiskType]
  BY DEF SetupType, DiskType
<1>2. SUFFICES setup' \in SetupType /\ disk' \in [Client -> DiskType]
               /\ before' \in [Client -> SUBSET Text] /\ wrote' \in [Client -> Wrote]
               /\ machine' = machine /\ edits' = edits
  BY DEF SetupType, DiskType
<1> HIDE DEF Typed
<1>3. before \in [Client -> SUBSET Text] /\ wrote \in [Client -> Wrote]
  BY DEF Typed
<1>4. CASE Skip(c)
  BY <1>1, <1>3, <1>4, NextClientIs DEF Skip
<1>5. CASE VendorCli(c)
  <2> DEFINE text == disk[c].live.text
             asked == IF setup.mode = "apply" THEN Upserted(text)
                      ELSE IF text \in Config THEN [text EXCEPT !.entry = NoEntry] ELSE text
  <2>1. setup' \in SetupType
    BY <1>1, <1>5, NextClientIs DEF VendorCli
  <2>2. text \in Text
    BY <1>1 DEF DiskType, Files
  <2>3. asked \in Text \cup {Refused}
    <3>1. CASE setup.mode = "apply"
      BY <2>2, <3>1, UpsertedIs, SomeTexts
    <3>2. CASE setup.mode # "apply"
      <4>1. text \in Config => [text EXCEPT !.entry = NoEntry] \in Config
        BY DEF Config, Entry
      <4> QED
        BY <2>2, <3>2, <4>1, SomeTexts
    <3> QED
      BY <3>1, <3>2
  <2> HIDE DEF asked, text
  <2>4. CASE UNCHANGED <<disk, before>>
    BY <1>1, <1>3, <1>5, <2>1, <2>4 DEF VendorCli
  <2>5. CASE ~ UNCHANGED <<disk, before>>
    <3>1. /\ asked \in Text
          /\ disk' = [disk EXCEPT ![c].live.text = asked,
                     ![c].live.perm = IF text = NoFile THEN Default ELSE @,
                     ![c].link = IF @ = "dangling" THEN "plain" ELSE @]
          /\ before' = [before EXCEPT ![c] =
                     IF wrote[c] = "never" THEN @ \cup {asked} ELSE @]
          /\ UNCHANGED <<machine, wrote, edits>>
      BY <1>5, <2>3, <2>5 DEF VendorCli, asked, text
    <3> DEFINE perm == IF text = NoFile THEN Default ELSE disk[c].live.perm
               link == IF disk[c].link = "dangling" THEN "plain" ELSE disk[c].link
    <3>2. disk' = [disk EXCEPT ![c] = [disk[c] EXCEPT
              !.live = [disk[c].live EXCEPT !.text = asked, !.perm = perm], !.link = link]]
      BY <1>1, <3>1 DEF DiskType, Files
    <3>3. perm \in Perm \cup {Default} /\ link \in {"plain", "link", "dangling"}
      BY <1>1, DiskIs DEF DiskType
    <3> HIDE DEF perm, link
    <3>4. [disk[c].live EXCEPT !.text = asked, !.perm = perm] \in Files
      BY <1>1, <3>1, <3>3, DiskIs DEF Files
    <3>5. disk' \in [Client -> DiskType]
      BY <1>1, <3>2, <3>3, <3>4, DiskIs DEF DiskType
    <3> QED
      BY <1>3, <2>1, <3>1, <3>5
  <2> QED
    BY <2>4, <2>5
<1>6. CASE ReadConfig(c)
  <2>1. setup' \in SetupType
    <3> DEFINE edit == Edited(c, setup.mode, disk[c].live.text)
    <3> HIDE DEF edit
    <3>1. CASE \E n \in {0, 1} : NextClient(c, n)
      BY <1>1, <3>1, NextClientIs
    <3>2. CASE /\ edit \in Config
               /\ setup' = [setup EXCEPT !.at = "backup", !.read = disk[c].live.text,
                                         !.text = edit]
      BY <1>1, <3>2, SomeTexts DEF SetupType, DiskType, Files, RunSteps, Working
    <3> QED
      BY <1>6, <3>1, <3>2 DEF ReadConfig, edit
  <2> QED
    BY <1>1, <1>3, <1>6, <2>1 DEF ReadConfig
<1>7. CASE SkipBackup(c)
  BY <1>1, <1>3, <1>7 DEF SkipBackup, SetupType, RunSteps, Working
<1>8. CASE CopyBackup(c)
  <2>1. setup' \in SetupType
    BY <1>1, <1>8, NextClientIs DEF CopyBackup, SetupType, RunSteps, Working
  <2>2. disk' \in [Client -> DiskType]
    BY <1>1, <1>8, SomeTexts DEF CopyBackup, DiskType
  <2> QED
    BY <1>3, <1>8, <2>1, <2>2 DEF CopyBackup
<1>9. CASE CopyEnds(c)
  <2>1. setup' \in SetupType
    BY <1>1, <1>9 DEF CopyEnds, SetupType, RunSteps, Working
  <2>2. disk' \in [Client -> DiskType]
    BY <1>1, <1>9, DiskIs DEF CopyEnds, DiskType
  <2> QED
    BY <1>3, <1>9, <2>1, <2>2 DEF CopyEnds
<1>10. CASE KeepBackup(c)
  <2>1. setup' \in SetupType
    BY <1>1, <1>10, NextClientIs DEF KeepBackup, SetupType, RunSteps, Working
  <2>2. disk' \in [Client -> DiskType]
    BY <1>1, <1>10, SomeTexts DEF KeepBackup, DiskType
  <2> QED
    BY <1>3, <1>10, <2>1, <2>2 DEF KeepBackup
<1>11. CASE Stage(c)
  <2>1. setup' \in SetupType
    BY <1>1, <1>11, NextClientIs DEF Stage, SetupType, RunSteps, Working
  <2>2. disk' \in [Client -> DiskType]
    <3> DEFINE perm == IF disk[c].staged = Gone THEN Default ELSE disk[c].staged.perm
    <3>1. disk' = disk \/ disk' = [disk EXCEPT ![c].staged = File(Partial, perm)]
      BY <1>1, <1>11 DEF Stage, DiskType
    <3>2. File(Partial, perm) \in Files
      BY <1>1, DiskIs, SomeTexts
    <3> HIDE DEF perm
    <3> QED
      BY <1>1, <3>1, <3>2 DEF DiskType
  <2> QED
    BY <1>3, <1>11, <2>1, <2>2 DEF Stage
<1>12. CASE StageEnds(c)
  <2>1. setup' \in SetupType
    BY <1>1, <1>12 DEF StageEnds, SetupType, RunSteps, Working
  <2>2. setup.text \in Text
    BY <1>1 DEF SetupType
  <2>3. disk' = [disk EXCEPT ![c] =
            [disk[c] EXCEPT !.staged = [disk[c].staged EXCEPT !.text = setup.text]]]
    BY <1>1, <1>12 DEF StageEnds, DiskType, Files
  <2>4. disk' \in [Client -> DiskType]
    BY <1>1, <2>2, <2>3, DiskIs
  <2> QED
    BY <1>3, <1>12, <2>1, <2>4 DEF StageEnds
<1>13. CASE CarryPermissions(c)
  <2>1. setup' \in SetupType
    BY <1>1, <1>13, NextClientIs DEF CarryPermissions, SetupType, RunSteps, Working
  <2>2. disk' \in [Client -> DiskType]
    <3> DEFINE perm == IF disk[c].live = Gone THEN disk[c].staged.perm ELSE disk[c].live.perm
    <3>1. CASE disk' = [disk EXCEPT ![c].staged.perm =
                           IF disk[c].live = Gone THEN @ ELSE disk[c].live.perm]
      <4>1. disk' = [disk EXCEPT ![c] =
                [disk[c] EXCEPT !.staged = [disk[c].staged EXCEPT !.perm = perm]]]
        BY <1>1, <3>1 DEF DiskType, Files
      <4>2. perm \in Perm \cup {Default}
        BY <1>1, DiskIs
      <4> QED
        BY <1>1, <4>1, <4>2, DiskIs
    <3>2. CASE disk' = [disk EXCEPT ![c].staged = Gone]
      BY <1>1, <3>2, SomeTexts DEF DiskType
    <3> QED
      BY <1>13, <3>1, <3>2 DEF CarryPermissions
  <2> QED
    BY <1>3, <1>13, <2>1, <2>2 DEF CarryPermissions
<1>14. CASE Publish(c)
  <2>1. setup' \in SetupType
    BY <1>1, <1>14, NextClientIs DEF Publish
  <2>2. disk' \in [Client -> DiskType]
    <3> DEFINE published == [disk[c] EXCEPT !.live = disk[c].staged, !.staged = Gone]
               dropped   == [disk[c] EXCEPT !.staged = Gone]
    <3>1. disk' = [disk EXCEPT ![c] = published] \/ disk' = [disk EXCEPT ![c] = dropped]
      <4>1. \/ disk' = [disk EXCEPT ![c].live = disk[c].staged, ![c].staged = Gone]
            \/ disk' = [disk EXCEPT ![c].staged = Gone]
        BY <1>14 DEF Publish
      <4> QED
        BY <1>1, <4>1 DEF DiskType
    <3>2. published \in DiskType /\ dropped \in DiskType
      BY <1>1, DiskIs, SomeTexts DEF DiskType
    <3> HIDE DEF published, dropped
    <3> QED
      BY <1>1, <3>1, <3>2, DiskIs
  <2>3. wrote' \in [Client -> Wrote]
    BY <1>3, <1>14 DEF Publish, Wrote
  <2> QED
    BY <1>3, <1>14, <2>1, <2>2, <2>3 DEF Publish
<1> QED
  BY <1>4, <1>5, <1>6, <1>7, <1>8, <1>9, <1>10, <1>11, <1>12, <1>13, <1>14 DEF OfRun

(* Types are kept by every step, and by others' edits.                      *)
LEMMA TypedKept == Typed /\ [SetupNext]_setupVars => Typed'
<1> SUFFICES ASSUME Typed, [SetupNext]_setupVars PROVE Typed'
  OBVIOUS
<1>1. setup \in SetupType /\ disk \in [Client -> DiskType]
  BY DEF Typed, SetupType, DiskType
<1>2. SUFFICES ASSUME ~ \E c \in Client : OfRun(c)
               PROVE  /\ setup' \in SetupType /\ disk' \in [Client -> DiskType]
                      /\ before' \in [Client -> SUBSET Text] /\ wrote' = wrote
                      /\ machine' = machine /\ edits' \in Nat
  BY RunTyped DEF Typed, SetupType, DiskType
<1>3. before \in [Client -> SUBSET Text] /\ edits \in Nat
  BY DEF Typed
<1>4. ASSUME NEW n \in Nat PROVE Idle(n) \in SetupType
  BY SomeTexts DEF Idle, SetupType, RunSteps, Modes
<1>5. ASSUME NEW mode \in Modes, Start(mode)
      PROVE  setup' \in SetupType /\ UNCHANGED <<machine, disk, before, wrote, edits>>
  <2>1. Idle(setup.runs + 1) \in SetupType
    BY <1>1, <1>4 DEF SetupType
  <2> QED
    BY <1>5, <2>1 DEF Start, SetupType, RunSteps
<1>6. CASE Finish
  BY <1>1, <1>3, <1>6 DEF Finish, SetupType, RunSteps
<1>7. CASE Kill
  <2>1. Idle(setup.runs) \in SetupType
    BY <1>1, <1>4 DEF SetupType
  <2> QED
    BY <1>1, <1>3, <1>7, <2>1 DEF Kill
<1>8. ASSUME NEW c \in Client, Edit(c)
      PROVE  /\ setup' \in SetupType /\ disk' \in [Client -> DiskType]
             /\ before' \in [Client -> SUBSET Text] /\ edits' \in Nat
             /\ UNCHANGED <<machine, wrote>>
  <2>1. PICK text \in TextsOf(c) :
           /\ disk' = [disk EXCEPT
                 ![c].live = IF text = NoFile THEN Gone ELSE File(text, @.perm),
                 ![c].link = IF @ = "dangling" THEN "link" ELSE @]
           /\ before' = [before EXCEPT ![c] = IF wrote[c] = "never" THEN @ \cup {text} ELSE @]
           /\ setup' = [setup EXCEPT !.edited = @ \cup {c}]
           /\ edits' = edits + 1
           /\ UNCHANGED <<machine, wrote>>
    BY <1>8 DEF Edit
  <2>2. text \in Text
    BY TextsAre
  <2> DEFINE live == IF text = NoFile THEN Gone ELSE File(text, disk[c].live.perm)
             link == IF disk[c].link = "dangling" THEN "link" ELSE disk[c].link
  <2>3. live \in Files /\ link \in {"plain", "link", "dangling"}
    BY <1>1, <2>2, SomeTexts, DiskIs DEF DiskType
  <2>4. disk' = [disk EXCEPT ![c] = [disk[c] EXCEPT !.live = live, !.link = link]]
    BY <1>1, <2>1 DEF DiskType
  <2> HIDE DEF live, link
  <2>5. [disk[c] EXCEPT !.live = live, !.link = link] \in DiskType
    <3>1. disk[c] \in DiskType
      BY <1>1
    <3> QED
      BY <2>3, <3>1 DEF DiskType
  <2>6. disk' \in [Client -> DiskType]
    BY <1>1, <2>4, <2>5
  <2>7. setup' \in SetupType
    <3>1. setup.edited \cup {c} \in SUBSET Client
      BY <1>1 DEF SetupType
    <3> QED
      BY <1>1, <2>1, <3>1 DEF SetupType
  <2> QED
    BY <1>3, <2>1, <2>2, <2>6, <2>7
<1>9. CASE UNCHANGED setupVars
  BY <1>1, <1>3, <1>9 DEF setupVars
<1> QED
  BY <1>1, <1>2, <1>3, <1>5, <1>6, <1>7, <1>8, <1>9 DEF SetupNext

(* A step of the run at c leaves the other clients alone, and either stays  *)
(* with c or goes on without it.                                            *)
LEMMA RunMoves ==
    ASSUME Typed, NEW c \in Client, OfRun(c)
    PROVE  /\ Visiting(c) /\ machine' = machine
           /\ setup'.mode = setup.mode /\ setup'.edited = setup.edited
           /\ \A d \in Client \ {c} :
                 disk'[d] = disk[d] /\ before'[d] = before[d] /\ wrote'[d] = wrote[d]
           /\ \/ /\ setup'.at \in Working /\ setup'.todo = setup.todo
                 /\ setup'.failed = setup.failed
              \/ \E n \in {0, 1} : NextClient(c, n)
           /\ setup.at # "off"
<1>1. setup \in SetupType /\ disk \in [Client -> DiskType]
  BY DEF Typed, SetupType, DiskType
<1> USE DEF Typed
<1>2. CASE \E n \in {0, 1} : NextClient(c, n)
  <2>1. setup'.mode = setup.mode /\ setup'.edited = setup.edited
    BY <1>1, <1>2, NextClientIs
  <2>2. CASE Skip(c) \/ VendorCli(c) \/ ReadConfig(c)
    BY <1>2, <2>1, <2>2 DEF Skip, VendorCli, ReadConfig
  <2>3. CASE SkipBackup(c) \/ CopyBackup(c) \/ CopyEnds(c) \/ KeepBackup(c)
    BY <1>2, <2>1, <2>3 DEF SkipBackup, CopyBackup, CopyEnds, KeepBackup
  <2>4. CASE Stage(c) \/ StageEnds(c) \/ CarryPermissions(c) \/ Publish(c)
    BY <1>2, <2>1, <2>4 DEF Stage, StageEnds, CarryPermissions, Publish
  <2> QED
    BY <2>2, <2>3, <2>4 DEF OfRun
<1>3. CASE ~ \E n \in {0, 1} : NextClient(c, n)
  <2>1. CASE Skip(c) \/ VendorCli(c)
    BY <1>3, <2>1 DEF Skip, VendorCli
  <2>2. CASE ReadConfig(c) \/ SkipBackup(c) \/ CopyBackup(c) \/ CopyEnds(c) \/ KeepBackup(c)
    BY <1>3, <2>2 DEF ReadConfig, SkipBackup, CopyBackup, CopyEnds, KeepBackup, Working
  <2>3. CASE Stage(c) \/ StageEnds(c) \/ CarryPermissions(c) \/ Publish(c)
    BY <1>3, <2>3 DEF Stage, StageEnds, CarryPermissions, Publish, Working
  <2> QED
    BY <2>1, <2>2, <2>3 DEF OfRun
<1> QED
  BY <1>2, <1>3

(* So what holds of the others still does.                                  *)
LEMMA OthersKept ==
    ASSUME Inv, Typed', NEW c \in Client, OfRun(c), NEW d \in Client \ {c}
    PROVE  BackedUp(d)' /\ Ahead(d)' /\ ToldTrue(d)'
<1>1. Typed /\ setup \in SetupType /\ BackedUp(d) /\ ToldTrue(d)
  BY DEF Inv, Typed, SetupType
<1>2. BackedUp(d)'
  BY <1>1, RunMoves DEF BackedUp
<1>3. Ahead(d)'
  <2>1. CASE \E n \in {0, 1} : NextClient(c, n)
    BY <1>1, <2>1, NextClientIs DEF Ahead, Working
  <2>2. CASE setup'.todo = setup.todo
    <3>1. ~ Visiting(d)
      BY <1>1, RunMoves, OneVisited
    <3> QED
      BY <2>2, <3>1 DEF Ahead, Visiting
  <2> QED
    BY <1>1, <2>1, <2>2, RunMoves
<1>4. ToldTrue(d)'
  <2>1. setup'.failed = 0 => setup.failed = 0
    <3>1. \A n \in {0, 1} : NextClient(c, n) => setup'.failed = setup.failed + n
      BY <1>1, NextClientIs
    <3>2. setup.failed \in Nat
      BY <1>1 DEF SetupType
    <3> QED
      BY <1>1, <3>1, <3>2, RunMoves
  <2>2. d \notin setup'.todo => d \notin setup.todo
    BY <1>1, RunMoves, NextClientIs
  <2> QED
    BY <1>1, <2>1, <2>2, RunMoves DEF ToldTrue, Left
<1> QED
  BY <1>2, <1>3, <1>4

-----------------------------------------------------------------------------
(* The client that the step is about.                                       *)
Kept(c) == BackedUp(c)' /\ Ahead(c)' /\ ToldTrue(c)'

(* A client the run goes on without asks nothing more of it, and nothing    *)
(* is told of one that failed.                                              *)
LEMMA Passed ==
    ASSUME Typed, NEW c \in Client, NEW n \in {0, 1}, NextClient(c, n)
    PROVE  /\ Ahead(c)'
           /\ n = 1 => ToldTrue(c)'
           /\ Left(c)' => ToldTrue(c)'
<1>1. /\ setup'.at = "visit" /\ setup'.failed = setup.failed + n /\ setup.failed \in Nat
  BY NextClientIs DEF Typed, SetupType
<1>2. Ahead(c)'
  BY <1>1 DEF Ahead, Working
<1>3. n = 1 => setup'.failed # 0
  BY <1>1
<1> QED
  BY <1>2, <1>3 DEF ToldTrue

(* Nothing is told yet of a client the run is still at.                     *)
LEMMA Staying ==
    ASSUME NEW c \in Client, Visiting(c), setup'.todo = setup.todo
    PROVE  ToldTrue(c)'
BY DEF Visiting, ToldTrue

(* What is known of the visited client's file and of the run.               *)
LEMMA AtWork ==
    ASSUME Inv, NEW c \in Client, Visiting(c)
    PROVE  /\ Typed /\ BackedUp(c) /\ setup \in SetupType /\ disk \in [Client -> DiskType]
           /\ before \in [Client -> SUBSET Text] /\ wrote \in [Client -> Wrote]
           /\ setup.at \in Working =>
                 /\ setup.mode \in {"apply", "remove"}
                 /\ setup.text \in Config /\ setup.text = Edited(c, setup.mode, setup.read)
                 /\ setup.read # NoFile => disk[c].live.text # NoFile
BY DEF Inv, Ahead, Typed, SetupType, DiskType

(* A client passed over is one not asked about.                            *)
LEMMA SkipStep ==
    ASSUME Inv, Typed', NEW c \in Client, Skip(c)
    PROVE  Kept(c)
<1>1. Visiting(c) /\ NextClient(c, 0) /\ UNCHANGED <<machine, disk, before, wrote>>
  BY DEF Skip
<1>2. Typed /\ BackedUp(c) /\ setup \in SetupType
  BY <1>1, AtWork
<1>3. BackedUp(c)' /\ Ahead(c)'
  BY <1>1, <1>2, Passed DEF BackedUp
<1>4. ToldTrue(c)'
  <2>1. CASE setup.mode = "print"
    <3>1. setup'.mode = "print"
      BY <1>1, <1>2, <2>1, NextClientIs
    <3>2. Left(c)'
      BY <3>1 DEF Left
    <3> QED
      BY <1>1, <1>2, <3>2, Passed
  <2>2. CASE Target(c, FALSE) \in {"not detected", "manual"}
    <3>1. c \notin machine.installed \/ c = "perplexity"
      BY <2>2, ClientAssumption DEF Target, JsonClient
    <3> QED
      BY <1>1, <3>1 DEF ToldTrue
  <2> QED
    BY <2>1, <2>2 DEF Skip
<1> QED
  BY <1>3, <1>4 DEF Kept

(* A client asked through its CLI has what was asked for, or counts as failed.*)
LEMMA VendorCliStep ==
    ASSUME Inv, Typed', NEW c \in Client, VendorCli(c)
    PROVE  Kept(c)
<1> DEFINE text == disk[c].live.text
           asked == IF setup.mode = "apply" THEN Upserted(text)
                    ELSE IF text \in Config THEN [text EXCEPT !.entry = NoEntry] ELSE text
           absent == text \in Config => text.entry = NoEntry
<1>1. Visiting(c) /\ setup.mode # "print" /\ UNCHANGED <<machine, wrote, edits>>
  BY DEF VendorCli
<1>2. /\ Typed /\ BackedUp(c) /\ setup \in SetupType /\ disk \in [Client -> DiskType]
      /\ before \in [Client -> SUBSET Text] /\ wrote \in [Client -> Wrote]
      /\ setup.mode \in {"apply", "remove"}
  <2>1. /\ Typed /\ BackedUp(c) /\ setup \in SetupType /\ disk \in [Client -> DiskType]
        /\ before \in [Client -> SUBSET Text] /\ wrote \in [Client -> Wrote]
    BY <1>1, AtWork
  <2> QED
    BY <1>1, <2>1 DEF SetupType, Modes
<1>3. \A n \in {0, 1} : NextClient(c, n) => setup'.mode = setup.mode
  BY <1>2, NextClientIs
<1>4. text \in Text
  BY <1>2, DiskIs
<1>5. CASE NextClient(c, 1) /\ UNCHANGED <<disk, before>>
  BY <1>1, <1>2, <1>5, Passed DEF BackedUp, Kept
<1>6. CASE setup.mode = "remove" /\ absent /\ NextClient(c, 0) /\ UNCHANGED <<disk, before>>
  <2>1. BackedUp(c)' /\ Ahead(c)'
    BY <1>1, <1>2, <1>6, Passed DEF BackedUp
  <2>2. Left(c)'
    BY <1>3, <1>6 DEF Left
  <2> QED
    BY <1>2, <1>6, <2>1, <2>2, Passed DEF Kept
<1>7. CASE /\ asked # Refused
           /\ disk' = [disk EXCEPT ![c].live.text = asked,
                  ![c].live.perm = IF text = NoFile THEN Default ELSE @,
                  ![c].link = IF @ = "dangling" THEN "plain" ELSE @]
           /\ before' = [before EXCEPT ![c] = IF wrote[c] = "never" THEN @ \cup {asked} ELSE @]
           /\ NextClient(c, 0)
  <2>1. /\ setup.mode = "apply" => asked \in Config /\ Registered(asked)
        /\ setup.mode = "remove" /\ asked \in Config => asked.entry = NoEntry
        /\ asked # Partial
        /\ asked = NoFile => text = NoFile
    <3>1. CASE setup.mode = "apply"
      <4>1. asked = Upserted(text)
        BY <3>1
      <4> HIDE DEF asked
      <4>2. asked \in Config /\ Registered(asked)
        BY <1>4, <1>7, <4>1, UpsertedIs
      <4> QED
        BY <3>1, <4>2, TextAssumption
    <3>2. CASE setup.mode = "remove" /\ text \in Config
      <4>1. asked = [text EXCEPT !.entry = NoEntry]
        BY <3>2
      <4>2. asked \in Config /\ asked.entry = NoEntry
        BY <3>2, <4>1 DEF Config, Entry
      <4> QED
        BY <3>2, <4>2, TextAssumption
    <3>3. CASE setup.mode = "remove" /\ text \notin Config
      BY <1>2, <3>3 DEF BackedUp
    <3> QED
      BY <1>2, <3>1, <3>2, <3>3
  <2> HIDE DEF asked
  <2>2. /\ disk'[c].live.text = asked
        /\ disk'[c].live.perm = IF text = NoFile THEN Default ELSE disk[c].live.perm
        /\ disk'[c].backup = disk[c].backup
        /\ disk'[c].live \in Files
    <3>1. disk' = [disk EXCEPT ![c] = [disk[c] EXCEPT
              !.live = [disk[c].live EXCEPT
                  !.text = asked, !.perm = IF text = NoFile THEN Default ELSE disk[c].live.perm],
              !.link = IF disk[c].link = "dangling" THEN "plain" ELSE disk[c].link]]
      BY <1>2, <1>7 DEF DiskType, Files
    <3>2. disk[c] \in DiskType /\ disk[c].live \in Files
      BY <1>2, DiskIs
    <3>3. disk'[c].live \in Files
      BY DEF Typed
    <3> QED
      BY <1>2, <3>1, <3>2, <3>3 DEF DiskType, Files
  <2>3. asked = NoFile => disk'[c].live = Gone
    BY <2>1, <2>2 DEF Gone, File, Files
  <2>4. before'[c] = IF wrote[c] = "never" THEN before[c] \cup {asked} ELSE before[c]
    BY <1>2, <1>7
  <2>5. BackedUp(c)'
    BY <1>1, <1>2, <2>1, <2>2, <2>3, <2>4 DEF BackedUp
  <2>6. Left(c)'
    BY <1>2, <1>3, <1>7, <2>1, <2>2 DEF Left
  <2> QED
    BY <1>2, <1>7, <2>5, <2>6, Passed DEF Kept
<1> QED
  BY <1>5, <1>6, <1>7 DEF VendorCli

(* An edit computed is one of the text read; with none to make, none was due.*)
LEMMA ReadConfigStep ==
    ASSUME Inv, Typed', NEW c \in Client, ReadConfig(c)
    PROVE  Kept(c)
<1> DEFINE text == disk[c].live.text
           edit == Edited(c, setup.mode, text)
<1>1. Visiting(c) /\ setup.mode # "print" /\ UNCHANGED <<machine, disk, before, wrote, edits>>
  BY DEF ReadConfig
<1>2. /\ Typed /\ BackedUp(c) /\ setup \in SetupType /\ disk \in [Client -> DiskType]
      /\ setup.mode \in {"apply", "remove"} /\ text \in Text
  BY <1>1, AtWork, DiskIs DEF SetupType, Modes
<1>3. BackedUp(c)'
  BY <1>1, <1>2 DEF BackedUp
<1>4. CASE NextClient(c, 1)
  BY <1>2, <1>3, <1>4, Passed DEF Kept
<1>5. CASE edit = Nothing /\ NextClient(c, 0)
  <2>1. setup.mode = "remove" /\ setup'.mode = setup.mode
    BY <1>2, <1>5, EditedIs, NextClientIs
  <2>2. text \in Config /\ text.table => text.entry = NoEntry
    BY <1>2, <1>5, EditedIs
  <2>3. Left(c)'
    BY <1>1, <2>1, <2>2 DEF Left
  <2> QED
    BY <1>2, <1>3, <1>5, <2>3, Passed DEF Kept
<1>6. CASE /\ edit \in Config
           /\ setup' = [setup EXCEPT !.at = "backup", !.read = text, !.text = edit]
  <2> HIDE DEF edit, text
  <2>1. /\ setup'.at = "backup" /\ setup'.read = text /\ setup'.text = edit
        /\ setup'.todo = setup.todo /\ setup'.mode = setup.mode
    BY <1>2, <1>6 DEF SetupType
  <2>2. Ahead(c)'
    BY <1>1, <1>2, <1>6, <2>1 DEF Ahead, edit, text
  <2>3. ToldTrue(c)'
    BY <1>1, <2>1, Staying
  <2> QED
    BY <1>3, <2>2, <2>3 DEF Kept
<1> QED
  BY <1>4, <1>5, <1>6 DEF ReadConfig

(* A backup is made of a file setup has not changed, and is whole.         *)
LEMMA BackupStep ==
    ASSUME Inv, Typed', NEW c \in Client,
           SkipBackup(c) \/ CopyBackup(c) \/ CopyEnds(c) \/ KeepBackup(c)
    PROVE  Kept(c)
<1>1. /\ Visiting(c) /\ setup.at \in {"backup", "copy", "keep"}
      /\ UNCHANGED <<machine, before, wrote>>
  BY DEF SkipBackup, CopyBackup, CopyEnds, KeepBackup
<1>2. /\ Typed /\ BackedUp(c) /\ Ahead(c) /\ setup \in SetupType
      /\ disk \in [Client -> DiskType] /\ disk[c] \in DiskType
  BY <1>1, AtWork, DiskIs DEF Inv
<1> USE DEF Kept
<1>3. CASE SkipBackup(c)
  <2>1. /\ ~BackupNeeded(c) /\ UNCHANGED disk
        /\ setup' = [setup EXCEPT !.at = "stage"] /\ setup.at = "backup"
    BY <1>3 DEF SkipBackup
  <2>2. disk[c].live.text # NoFile => disk[c].backup # NoFile
    BY <2>1, SomeTexts DEF BackupNeeded
  <2>3. BackedUp(c)' /\ Ahead(c)'
    BY <1>1, <1>2, <2>1, <2>2 DEF BackedUp, Ahead, SetupType, Working, Visiting
  <2> QED
    BY <1>1, <1>2, <2>1, <2>3, Staying DEF SetupType
<1>4. CASE CopyBackup(c)
  <2>1. BackupNeeded(c) /\ disk' = [disk EXCEPT ![c].copy = Partial] /\ setup.at = "backup"
    BY <1>4 DEF CopyBackup
  <2>2. /\ disk'[c].live = disk[c].live /\ disk'[c].backup = disk[c].backup
        /\ disk'[c].staged = disk[c].staged
    BY <1>2, <2>1 DEF DiskType
  <2>3. BackedUp(c)'
    BY <1>1, <1>2, <2>2 DEF BackedUp
  <2>4. CASE NextClient(c, 1)
    BY <1>2, <2>3, <2>4, Passed
  <2>5. CASE setup' = [setup EXCEPT !.at = "copy"]
    <3>1. disk[c].live.text # NoFile /\ disk[c].backup = NoFile
      BY <1>2, <2>1 DEF BackedUp, BackupNeeded
    <3>2. Ahead(c)'
      BY <1>1, <1>2, <2>1, <2>2, <2>5, <3>1 DEF Ahead, SetupType, Working, Visiting
    <3> QED
      BY <1>1, <1>2, <2>3, <2>5, <3>2, Staying DEF SetupType
  <2> QED
    BY <1>4, <2>4, <2>5 DEF CopyBackup
<1>5. CASE CopyEnds(c)
  <2>1. /\ disk' = [disk EXCEPT ![c].copy = disk[c].live.text]
        /\ setup' = [setup EXCEPT !.at = "keep"] /\ setup.at = "copy"
    BY <1>5 DEF CopyEnds
  <2>2. /\ disk'[c].live = disk[c].live /\ disk'[c].backup = disk[c].backup
        /\ disk'[c].staged = disk[c].staged /\ disk'[c].copy = disk[c].live.text
    BY <1>2, <2>1 DEF DiskType
  <2>3. BackedUp(c)' /\ Ahead(c)'
    BY <1>1, <1>2, <2>1, <2>2 DEF BackedUp, Ahead, SetupType, Working, Visiting
  <2> QED
    BY <1>1, <1>2, <2>1, <2>3, Staying DEF SetupType
<1>6. CASE KeepBackup(c) /\ ~ NextClient(c, 1)
  <2>1. /\ disk' = [disk EXCEPT ![c].backup = disk[c].copy, ![c].copy = NoFile]
        /\ setup' = [setup EXCEPT !.at = "stage"] /\ setup.at = "keep"
    BY <1>6 DEF KeepBackup
  <2>2. /\ disk'[c].live = disk[c].live /\ disk'[c].backup = disk[c].copy
        /\ disk'[c].staged = disk[c].staged
    BY <1>2, <2>1 DEF DiskType
  <2>3. /\ disk[c].copy \notin {NoFile, Partial}
        /\ wrote[c] = "never" => disk[c].copy \in before[c]
        /\ wrote[c] # "changed"
    BY <1>1, <1>2, <2>1 DEF Ahead, BackedUp, Working
  <2>4. BackedUp(c)' /\ Ahead(c)'
    BY <1>1, <1>2, <2>1, <2>2, <2>3 DEF BackedUp, Ahead, SetupType, Working, Visiting
  <2> QED
    BY <1>1, <1>2, <2>1, <2>4, Staying DEF SetupType
<1>7. CASE KeepBackup(c) /\ NextClient(c, 1)
  <2>1. \/ disk' = [disk EXCEPT ![c].copy = NoFile]
        \/ setup' = [setup EXCEPT !.at = "stage"]
    BY <1>7 DEF KeepBackup
  <2>2. setup'.at = "visit"
    BY <1>2, <1>7, NextClientIs
  <2>3. disk' = [disk EXCEPT ![c].copy = NoFile]
    BY <1>2, <2>1, <2>2 DEF SetupType
  <2>4. disk'[c].live = disk[c].live /\ disk'[c].backup = disk[c].backup
    BY <1>2, <2>3 DEF DiskType
  <2> QED
    BY <1>1, <1>2, <1>7, <2>4, Passed DEF BackedUp
<1> QED
  BY <1>3, <1>4, <1>5, <1>6, <1>7

(* The staged text and permissions are those that the rename will publish. *)
LEMMA PersistStep ==
    ASSUME Inv, Typed', NEW c \in Client, Stage(c) \/ StageEnds(c) \/ CarryPermissions(c)
    PROVE  Kept(c)
<1>1. /\ Visiting(c) /\ setup.at \in {"stage", "write", "carry"}
      /\ UNCHANGED <<machine, before, wrote>>
  BY DEF Stage, StageEnds, CarryPermissions
<1>2. /\ Typed /\ BackedUp(c) /\ Ahead(c) /\ setup \in SetupType
      /\ disk \in [Client -> DiskType] /\ disk[c] \in DiskType
      /\ disk[c].staged \in Files /\ disk[c].live \in Files
  BY <1>1, AtWork, DiskIs DEF Inv
<1>3. /\ disk'[c].live = disk[c].live /\ disk'[c].backup = disk[c].backup
  BY <1>2 DEF Stage, StageEnds, CarryPermissions, DiskType
<1>4. BackedUp(c)'
  BY <1>1, <1>2, <1>3 DEF BackedUp
<1>5. CASE NextClient(c, 1)
  BY <1>2, <1>4, <1>5, Passed DEF Kept
<1>6. CASE ~ NextClient(c, 1)
  <2>1. \/ /\ setup.at = "stage" /\ setup' = [setup EXCEPT !.at = "write"]
        \/ /\ setup.at = "write" /\ setup' = [setup EXCEPT !.at = "carry"]
           /\ disk'[c].staged.text = setup.text
        \/ /\ setup.at = "carry" /\ setup' = [setup EXCEPT !.at = "publish"]
           /\ disk'[c].staged.text = disk[c].staged.text
           /\ disk[c].live # Gone => disk'[c].staged.perm = disk[c].live.perm
    BY <1>2, <1>6 DEF Stage, StageEnds, CarryPermissions, DiskType, Files
  <2>2. disk[c].live.text # NoFile => disk[c].live # Gone
    BY SomeTexts
  <2>3. Ahead(c)'
    BY <1>1, <1>2, <1>3, <2>1, <2>2 DEF Ahead, SetupType, Working, Visiting
  <2> QED
    BY <1>1, <1>2, <1>4, <2>1, <2>3, Staying DEF SetupType, Kept
<1> QED
  BY <1>5, <1>6

(* What the rename puts in the file's place.                                *)
LEMMA PublishIs ==
    ASSUME Inv, NEW c \in Client, Publish(c)
    PROVE  \/ /\ disk'[c].live = disk[c].live /\ UNCHANGED wrote /\ NextClient(c, 1)
              /\ disk'[c].backup = disk[c].backup /\ disk'[c].link = disk[c].link
           \/ /\ disk'[c].live = disk[c].staged /\ disk'[c].live.text = setup.text
              /\ setup.read # NoFile => disk'[c].live.perm = disk[c].live.perm
              /\ disk'[c].backup = disk[c].backup /\ disk'[c].link = disk[c].link
              /\ setup.read # NoFile => disk[c].backup # NoFile
              /\ wrote' = [wrote EXCEPT ![c] =
                     CASE @ # "never" -> @
                       [] disk[c].live.text # setup.read -> "over an edit"
                       [] setup.read = NoFile -> "made"
                       [] OTHER -> "changed"]
              /\ NextClient(c, 0)
<1>1. Visiting(c) /\ setup.at = "publish"
  BY DEF Publish
<1>2. /\ Ahead(c) /\ disk \in [Client -> DiskType] /\ disk[c] \in DiskType
  BY <1>1, AtWork, DiskIs DEF Inv
<1>3. /\ disk[c].staged.text = setup.text
      /\ setup.read # NoFile =>
            disk[c].staged.perm = disk[c].live.perm /\ disk[c].backup # NoFile
  BY <1>1, <1>2 DEF Ahead, Working
<1>4. CASE disk' = [disk EXCEPT ![c].staged = Gone] /\ NextClient(c, 1) /\ UNCHANGED wrote
  BY <1>2, <1>4 DEF DiskType
<1>5. CASE ~ (disk' = [disk EXCEPT ![c].staged = Gone] /\ NextClient(c, 1) /\ UNCHANGED wrote)
  <2>1. /\ disk' = [disk EXCEPT ![c].live = disk[c].staged, ![c].staged = Gone]
        /\ wrote' = [wrote EXCEPT ![c] =
                     CASE @ # "never" -> @
                       [] disk[c].live.text # setup.read -> "over an edit"
                       [] setup.read = NoFile -> "made"
                       [] OTHER -> "changed"]
        /\ NextClient(c, 0)
    BY <1>5 DEF Publish
  <2>2. /\ disk'[c].live = disk[c].staged /\ disk'[c].backup = disk[c].backup
        /\ disk'[c].link = disk[c].link
    BY <1>2, <2>1 DEF DiskType
  <2> QED
    BY <1>3, <2>1, <2>2
<1> QED
  BY <1>4, <1>5

(* The renamed file says what the run set out to write.                    *)
LEMMA PublishStep ==
    ASSUME Inv, Typed', NEW c \in Client, Publish(c)
    PROVE  Kept(c)
<1>1. /\ Visiting(c) /\ setup.at = "publish" /\ UNCHANGED <<machine, before>>
  BY DEF Publish
<1>2. /\ Typed /\ BackedUp(c) /\ setup \in SetupType /\ wrote \in [Client -> Wrote]
      /\ setup.mode \in {"apply", "remove"} /\ setup.text \in Config
      /\ setup.text = Edited(c, setup.mode, setup.read) /\ setup.read \in Text
  BY <1>1, AtWork DEF Working, SetupType
<1>3. CASE disk'[c].live = disk[c].live /\ UNCHANGED wrote /\ NextClient(c, 1)
           /\ disk'[c].backup = disk[c].backup
  BY <1>1, <1>2, <1>3, Passed DEF BackedUp, Kept
<1>4. CASE /\ disk'[c].live = disk[c].staged /\ disk'[c].live.text = setup.text
           /\ disk'[c].backup = disk[c].backup
           /\ setup.read # NoFile => disk[c].backup # NoFile
           /\ wrote' = [wrote EXCEPT ![c] =
                  CASE @ # "never" -> @
                    [] disk[c].live.text # setup.read -> "over an edit"
                    [] setup.read = NoFile -> "made"
                    [] OTHER -> "changed"]
           /\ NextClient(c, 0)
  <2>1. setup.text \notin {NoFile, Partial}
    BY <1>2, TextAssumption
  <2>2. /\ wrote'[c] # "never"
        /\ wrote'[c] = "changed" =>
              wrote[c] = "changed" \/ (wrote[c] = "never" /\ setup.read # NoFile)
    <3>1. wrote'[c] = CASE wrote[c] # "never" -> wrote[c]
                        [] disk[c].live.text # setup.read -> "over an edit"
                        [] setup.read = NoFile -> "made"
                        [] OTHER -> "changed"
      BY <1>2, <1>4
    <3> QED
      BY <3>1
  <2>3. BackedUp(c)'
    BY <1>1, <1>2, <1>4, <2>1, <2>2 DEF BackedUp
  <2>4. setup'.mode = setup.mode
    BY <1>2, <1>4, NextClientIs
  <2>5. /\ setup.mode = "apply" => Registered(setup.text)
        /\ setup.mode = "remove" => setup.text.entry = NoEntry
    BY <1>2, EditedIs
  <2>6. Left(c)'
    BY <1>4, <2>4, <2>5 DEF Left
  <2> QED
    BY <1>2, <1>4, <2>3, <2>6, Passed DEF Kept
<1> QED
  BY <1>3, <1>4, PublishIs

-----------------------------------------------------------------------------
(* The steps that are not the run's at a client.                            *)

(* A run that has just begun, or ended, or was killed, holds nothing.       *)
LEMMA BetweenClients ==
    ASSUME Inv, Typed', (\E mode \in Modes : Start(mode)) \/ Finish \/ Kill \/ UNCHANGED setupVars
    PROVE  Inv'
<1>1. Typed /\ setup \in SetupType /\ UNCHANGED <<machine, disk, before, wrote>>
  BY DEF Inv, Typed, SetupType, Start, Finish, Kill, setupVars
<1>2. Visited'
  <2>1. CASE (\E mode \in Modes : Start(mode)) \/ Kill
    <3>1. setup'.at # "exit"
      <4>1. (\E mode \in Modes : Start(mode)) => setup'.at = "visit"
        BY DEF Start, Idle
      <4>2. Kill => setup'.at = "off"
        BY DEF Kill, Idle
      <4> QED
        BY <2>1, <4>1, <4>2
    <3> QED
      BY <3>1 DEF Visited
  <2>2. CASE Finish \/ UNCHANGED setupVars
    BY <1>1, <2>2 DEF Inv, Visited, Finish, setupVars, SetupType
  <2> QED
    BY <2>1, <2>2
<1> SUFFICES ASSUME NEW c \in Client PROVE BackedUp(c)' /\ Ahead(c)' /\ ToldTrue(c)'
  BY <1>1, <1>2 DEF Inv
<1>3. BackedUp(c) /\ Ahead(c) /\ ToldTrue(c)
  BY DEF Inv
<1>4. BackedUp(c)'
  BY <1>1, <1>3 DEF BackedUp
<1>5. CASE \E mode \in Modes : Start(mode)
  <2>1. setup'.at = "visit" /\ setup'.todo = Client
    BY <1>5 DEF Start, Idle
  <2> QED
    BY <1>4, <2>1 DEF Ahead, ToldTrue, Working
<1>6. CASE Kill
  <2>1. setup'.at = "off"
    BY <1>6 DEF Kill, Idle
  <2> QED
    BY <1>4, <2>1 DEF Ahead, ToldTrue, Working
<1>7. CASE Finish
  <2>1. /\ setup.at = "visit" /\ setup'.at = "exit" /\ setup'.mode = setup.mode
        /\ setup'.todo = setup.todo /\ setup'.failed = setup.failed
        /\ setup'.edited = setup.edited
    BY <1>1, <1>7 DEF Finish, SetupType
  <2> QED
    BY <1>1, <1>3, <1>4, <2>1 DEF Ahead, ToldTrue, Left, Working
<1>8. CASE UNCHANGED setupVars
  BY <1>3, <1>8 DEF setupVars, BackedUp, Ahead, ToldTrue, Left, Visiting
<1> QED
  BY <1>5, <1>6, <1>7, <1>8

(* An edit by others leaves a whole file, with its permissions, does not    *)
(* take one away under a run, and counts as one.                            *)
LEMMA EditStep ==
    ASSUME Inv, Typed', NEW c \in Client, Edit(c)
    PROVE  Inv'
<1>1. PICK text \in TextsOf(c) :
         /\ text = NoFile => setup.at \in {"off", "exit"}
         /\ disk' = [disk EXCEPT
               ![c].live = IF text = NoFile THEN Gone ELSE File(text, @.perm),
               ![c].link = IF @ = "dangling" THEN "link" ELSE @]
         /\ before' = [before EXCEPT ![c] = IF wrote[c] = "never" THEN @ \cup {text} ELSE @]
         /\ setup' = [setup EXCEPT !.edited = @ \cup {c}]
         /\ UNCHANGED <<machine, wrote>>
  BY DEF Edit
<1>2. text \in Text /\ text # Partial
  BY TextsAre
<1>3. /\ Typed /\ setup \in SetupType /\ disk \in [Client -> DiskType]
      /\ before \in [Client -> SUBSET Text]
  BY DEF Inv, Typed, SetupType, DiskType
<1>4. /\ setup'.at = setup.at /\ setup'.mode = setup.mode /\ setup'.todo = setup.todo
      /\ setup'.read = setup.read /\ setup'.text = setup.text
      /\ setup'.failed = setup.failed /\ setup'.edited = setup.edited \cup {c}
  BY <1>1, <1>3 DEF SetupType
<1>5. \A d \in Client : Visiting(d)' <=> Visiting(d)
  BY <1>4 DEF Visiting
<1>6. BackedUp(c) /\ Ahead(c)
  BY DEF Inv
<1>7. /\ disk'[c].live = IF text = NoFile THEN Gone ELSE File(text, disk[c].live.perm)
      /\ disk'[c].backup = disk[c].backup /\ disk'[c].staged = disk[c].staged
      /\ disk'[c].copy = disk[c].copy
  BY <1>1, <1>3 DEF DiskType
<1>8. /\ disk'[c].live.text = text
      /\ text = NoFile => disk'[c].live = Gone
      /\ text # NoFile => disk'[c].live.perm = disk[c].live.perm
  BY <1>2, <1>3, <1>7, DiskIs, SomeTexts
<1>9. BackedUp(c)'
  BY <1>1, <1>2, <1>3, <1>6, <1>7, <1>8 DEF BackedUp
<1>10. Ahead(c)'
  BY <1>1, <1>3, <1>4, <1>5, <1>6, <1>7, <1>8 DEF Ahead, Working
<1>11. ToldTrue(c)'
  BY <1>4 DEF ToldTrue
<1>12. ASSUME NEW d \in Client \ {c}
       PROVE  BackedUp(d)' /\ Ahead(d)' /\ ToldTrue(d)'
  <2>1. disk'[d] = disk[d] /\ before'[d] = before[d] /\ wrote'[d] = wrote[d]
        /\ machine' = machine
    BY <1>1, <1>3
  <2>2. BackedUp(d) /\ Ahead(d) /\ ToldTrue(d)
    BY DEF Inv
  <2> QED
    BY <1>4, <1>5, <2>1, <2>2 DEF BackedUp, Ahead, ToldTrue, Left
<1> QED
  BY <1>4, <1>9, <1>10, <1>11, <1>12 DEF Inv, Visited

(* A run's step at a client.                                                *)
LEMMA RunStep ==
    ASSUME Inv, Typed', NEW c \in Client, OfRun(c)
    PROVE  Inv'
<1>1. Kept(c)
  BY SkipStep, VendorCliStep, ReadConfigStep, BackupStep, PersistStep, PublishStep DEF OfRun
<1>2. Visited'
  <2>1. setup'.at \in Working \cup {"visit"}
    BY RunMoves, NextClientIs DEF Inv, Typed, SetupType
  <2> QED
    BY <2>1 DEF Visited, Working
<1> QED
  BY <1>1, <1>2, OthersKept DEF Inv, Kept

(* The inductive invariant.                                                 *)
LEMMA InvAlways == SetupSpec => []Inv
<1>1. SetupInit => Inv
  <2> SUFFICES ASSUME SetupInit PROVE Inv
    OBVIOUS
  <2>1. setup = Idle(0) /\ Idle(0) \in SetupType /\ setup.at = "off"
    BY SomeTexts DEF SetupInit, Idle, SetupType, RunSteps, Modes
  <2>2. ASSUME NEW c \in Client
        PROVE  /\ disk[c] \in DiskType /\ disk[c].backup = NoFile
               /\ disk[c].live.text \in Text /\ disk[c].live.text # Partial
               /\ disk[c].live.text = NoFile => disk[c].live = Gone
    <3>1. PICK text \in Given, perm \in Perm, link \in {"plain", "link", "dangling"} :
             disk[c] = [live |-> IF text = NoFile THEN Gone ELSE File(text, perm),
                        staged |-> Gone, backup |-> NoFile, copy |-> NoFile, link |-> link]
      BY DEF SetupInit
    <3>2. text \in Text /\ text # Partial
      BY GivenAssumption
    <3> DEFINE live == IF text = NoFile THEN Gone ELSE File(text, perm)
    <3>3. live \in Files /\ live.text = text /\ (text = NoFile => live = Gone)
      BY <3>2, SomeTexts
    <3> HIDE DEF live
    <3>4. disk[c] = [live |-> live, staged |-> Gone, backup |-> NoFile, copy |-> NoFile,
                     link |-> link]
      BY <3>1 DEF live
    <3> QED
      BY <3>2, <3>3, <3>4, SomeTexts DEF DiskType
  <2>3. DOMAIN disk = Client /\ disk = [c \in Client |-> disk[c]]
    BY DEF SetupInit
  <2>4. disk \in [Client -> DiskType]
    BY <2>2, <2>3
  <2>5. before \in [Client -> SUBSET Text] /\ wrote \in [Client -> Wrote] /\ edits \in Nat
    BY <2>2 DEF SetupInit, Wrote
  <2>6. machine \in [installed : SUBSET Client, codex : BOOLEAN]
    BY DEF SetupInit
  <2>7. Typed
    BY <2>1, <2>4, <2>5, <2>6 DEF Typed, SetupType, DiskType
  <2>8. ASSUME NEW c \in Client PROVE BackedUp(c) /\ Ahead(c) /\ ToldTrue(c)
    <3>1. before[c] = {disk[c].live.text} /\ wrote[c] = "never"
      <4>1. /\ before = [d \in Client |-> {disk[d].live.text}]
            /\ wrote = [d \in Client |-> "never"]
        BY DEF SetupInit
      <4> QED
        BY <4>1
    <3> QED
      BY <2>1, <2>2, <3>1, TextAssumption DEF BackedUp, Ahead, ToldTrue, Working
  <2> QED
    BY <2>1, <2>7, <2>8 DEF Inv, Visited
<1>2. Inv /\ [SetupNext]_setupVars => Inv'
  <2> SUFFICES ASSUME Inv, [SetupNext]_setupVars PROVE Inv'
    OBVIOUS
  <2>1. Typed'
    BY TypedKept DEF Inv
  <2> QED
    BY <2>1, BetweenClients, EditStep, RunStep DEF SetupNext
<1> QED
  BY <1>1, <1>2, PTL DEF SetupSpec

-----------------------------------------------------------------------------
(* Every reachable state is well typed.                                     *)
THEOREM SetupTypeCorrect == SetupSpec => []Typed
BY InvAlways, PTL DEF Inv

(* However often setup is run, killed or refused a write, the one backup of *)
(* a file is whole and says what the file said before setup wrote it        *)
(* (backup_once of setup.rs).                                               *)
THEOREM BackupPredatesHolds == SetupSpec => []BackupPredates
<1>1. Inv => BackupPredates
  BY DEF Inv, BackedUp, BackupPredates
<1> QED
  BY <1>1, InvAlways, PTL

(* A run that reports no failure has registered, or removed, what it says   *)
(* (run and run_in of setup.rs).                                            *)
THEOREM ExitTellsHolds == SetupSpec => []ExitTells
<1>1. Inv => ExitTells
  <2> SUFFICES ASSUME Inv, setup.at = "exit", setup.failed = 0,
                      NEW c \in (Client \cap machine.installed) \ (setup.edited \cup {"perplexity"})
               PROVE  Left(c)
    BY DEF ExitTells, Left
  <2> QED
    BY DEF Inv, Visited, ToldTrue
<1> QED
  BY <1>1, InvAlways, PTL

(* What setup puts in a file's place is whole and loses nothing that is not *)
(* its own (persist and the upsert and remove functions of setup.rs).       *)
THEOREM NothingLostHolds == SetupSpec => NothingLost
<1>1. ASSUME Inv, [SetupNext]_setupVars, setup.at = "publish", edits' = edits,
             NEW c \in Client, disk'[c].live # disk[c].live
      PROVE  LET old == disk[c].live
                 new == disk'[c].live
             IN  /\ new.text \in Config
                 /\ disk'[c].link = disk[c].link
                 /\ setup.read # NoFile => new.perm = old.perm
                 /\ old.text = setup.read /\ old.text \in Config =>
                       /\ new.text.other = old.text.other
                       /\ setup.mode = "apply" /\ old.text.entry \notin {NoEntry, Scalar} =>
                             new.text.entry.extra = old.text.entry.extra
  <2>1. setup.edited \subseteq Client /\ edits \in Nat /\ Typed
    BY <1>1 DEF Inv, Typed
  <2>2. ~ \E d \in Client : Edit(d)
    <3>1. ASSUME NEW d \in Client, Edit(d) PROVE edits' = edits + 1
      BY <3>1 DEF Edit
    <3> QED
      BY <1>1, <2>1, <3>1
  <2>3. PICK d \in Client : OfRun(d)
    BY <1>1, <2>2 DEF SetupNext, Start, Finish, Kill, setupVars
  <2>4. d = c
    BY <1>1, <2>1, <2>3, RunMoves
  <2>5. Publish(c)
    BY <1>1, <2>3, <2>4 DEF OfRun, Skip, VendorCli, ReadConfig, SkipBackup, CopyBackup,
       CopyEnds, KeepBackup, Stage, StageEnds, CarryPermissions
  <2>6. /\ disk'[c].live.text = setup.text /\ disk'[c].link = disk[c].link
        /\ setup.read # NoFile => disk'[c].live.perm = disk[c].live.perm
    BY <1>1, <2>5, PublishIs
  <2>7. /\ setup.mode \in {"apply", "remove"} /\ setup.text \in Config
        /\ setup.text = Edited(c, setup.mode, setup.read) /\ setup.read \in Text
    BY <1>1, <2>5, AtWork DEF Publish, Working, SetupType
  <2>8. setup.read \in Config =>
           /\ setup.text.other = setup.read.other
           /\ setup.mode = "apply" /\ setup.read.entry \notin {NoEntry, Scalar} =>
                 setup.text.entry.extra = setup.read.entry.extra
    BY <2>7, EditedIs
  <2> QED
    BY <2>6, <2>7, <2>8
<1>2. Inv /\ [SetupNext]_setupVars =>
         (setup.at = "publish" /\ edits' = edits => \A c \in Client :
            LET old == disk[c].live
                new == disk'[c].live
            IN  new # old =>
                 /\ new.text \in Config
                 /\ disk'[c].link = disk[c].link
                 /\ setup.read # NoFile => new.perm = old.perm
                 /\ old.text = setup.read /\ old.text \in Config =>
                       /\ new.text.other = old.text.other
                       /\ setup.mode = "apply" /\ old.text.entry \notin {NoEntry, Scalar} =>
                             new.text.entry.extra = old.text.entry.extra)
  BY <1>1
<1> QED
  BY <1>2, InvAlways, PTL DEF SetupSpec, NothingLost
=============================================================================
