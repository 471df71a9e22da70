----------------------------- MODULE LocalLogin -----------------------------
(***************************************************************************)
(* The browser sign-in of the local binary                                 *)
(* (src/crates/imcp2-local/src/login): one pending handshake at a time, a  *)
(* transient listener and a watchdog for each, redeems that register the   *)
(* handshake's session at Internet Identity (II) one after another, and    *)
(* the slot that names the session the tools act as.                       *)
(*                                                                         *)
(* A handshake is named by its session id, which is fresh.  Steps end      *)
(* where the code gives up the state lock or awaits.  Time is two facts    *)
(* about a session: it is late once its handshake window has closed, and   *)
(* lapsed once its grant has ended.  One user signs in, so II honours the  *)
(* session that was registered last.                                       *)
(***************************************************************************)
EXTENDS FiniteSets, Integers

CONSTANTS
    Sid,       \* the session ids begin may mint
    Redeem,    \* the POST /redeem requests
    Nil

ASSUME LoginAssumption ==
    Nil \notin Sid \cup Redeem \cup [sid : Sid, redeeming : BOOLEAN]

VARIABLES
    pending,       \* LoginState.pending
    grant,         \* LoginState.grant
    slot,          \* the SessionSlot
    registration,  \* who holds Inner::registration
    listening,     \* the handshakes whose listener was not told to close
    watchdog,      \* of each session id
    redeem,        \* where each redeem request stands
    late, lapsed,
    sent,          \* external: mcp_register_v2 calls II has not yet executed
    honoured,      \* external: the session II honours
    orphaned,      \* history: an answer of II was lost
    replaced       \* history: the sessions the slot named before

login  == <<pending, grant, slot, listening, watchdog>>
clock  == <<late, lapsed>>
remote == <<sent, honoured>>
history == <<orphaned, replaced>>
vars   == <<login, registration, redeem, clock, remote, history>>

Steps == {"new", "claim", "lock", "call", "sent", "landed", "failed", "done"}
Handshakes == [sid : Sid, redeeming : BOOLEAN]

TypeOK ==
    /\ pending \in {h \in Handshakes : watchdog[h.sid] = "armed"} \cup {Nil}
    /\ grant \in Sid \cup {Nil} /\ slot \in Sid \cup {Nil}
    /\ registration \in Redeem \cup {Nil}
    /\ listening \in SUBSET Sid
    /\ watchdog \in [Sid -> {"none", "armed", "done"}]
    /\ redeem \in [Redeem -> [pc : Steps, sid : Sid \cup {Nil}]]
    /\ late \in SUBSET Sid /\ lapsed \in SUBSET Sid
    /\ sent \in [Redeem -> Sid \cup {Nil}] /\ honoured \in Sid \cup {Nil}
    /\ orphaned \in BOOLEAN /\ replaced \in SUBSET Sid

Init ==
    /\ pending = Nil /\ grant = Nil /\ slot = Nil /\ registration = Nil
    /\ listening = {} /\ watchdog = [s \in Sid |-> "none"]
    /\ redeem = [p \in Redeem |-> [pc |-> "new", sid |-> Nil]]
    /\ late = {} /\ lapsed = {}
    /\ sent = [p \in Redeem |-> Nil] /\ honoured = Nil
    /\ orphaned = FALSE /\ replaced = {}

PendingIs(s) == pending # Nil /\ pending.sid = s
InWindow(s)  == PendingIs(s) /\ s \notin late

-----------------------------------------------------------------------------
(* LoginDriver::begin, under the state lock.  A handshake inside its window *)
(* is handed out again, which changes nothing.  An expired one is torn      *)
(* down; then a live grant is reported, unless refresh asks for a new one,  *)
(* or a fresh handshake starts, if its key and its port can be had.         *)
Begin(s, refresh, ok) ==
    LET old == {r \in Sid : PendingIs(r)} IN
    /\ ~ \E r \in Sid : InWindow(r)
    /\ IF ok /\ (refresh \/ grant = Nil \/ grant \in lapsed)
       THEN /\ watchdog[s] = "none"
            /\ watchdog' = [watchdog EXCEPT ![s] = "armed"]
            /\ pending' = [sid |-> s, redeeming |-> FALSE]
            /\ listening' = (listening \ old) \cup {s}
       ELSE /\ pending' = Nil
            /\ listening' = listening \ old
            /\ UNCHANGED watchdog
    /\ UNCHANGED <<grant, slot, registration, redeem, clock, remote, history>>

(* The watchdog spawned by begin sleeps through the window, and then drops  *)
(* the handshake if it is still the pending one.                            *)
\* mutant
WatchdogSparingClaims(s) ==
    /\ watchdog[s] = "armed" /\ s \in late
    /\ watchdog' = [watchdog EXCEPT ![s] = "done"]
    /\ IF PendingIs(s) /\ ~pending.redeeming
       THEN pending' = Nil /\ listening' = listening \ {s}
       ELSE UNCHANGED <<pending, listening>>
    /\ UNCHANGED <<grant, slot, registration, redeem, clock, remote, history>>

Watchdog(s) ==
    /\ watchdog[s] = "armed" /\ s \in late
    /\ watchdog' = [watchdog EXCEPT ![s] = "done"]
    /\ IF PendingIs(s)
       THEN pending' = Nil /\ listening' = listening \ {s}
       ELSE UNCHANGED <<pending, listening>>
    /\ UNCHANGED <<grant, slot, registration, redeem, clock, remote, history>>

-----------------------------------------------------------------------------
(* POST /redeem, for request p.  At(p) is the handshake it names. *)
At(p) == redeem[p].sid
GoTo(p, from, to) == redeem[p].pc = from /\ redeem' = [redeem EXCEPT ![p].pc = to]
Freed(p) == registration' = IF registration = p THEN Nil ELSE registration

(* The first look; what it refuses, or answers from the grant, ends here.   *)
Validate(p, s) ==
    /\ redeem[p].pc = "new"
    /\ s \in listening /\ grant # s /\ InWindow(s)
    /\ redeem' = [redeem EXCEPT ![p] = [pc |-> "claim", sid |-> s]]
    /\ UNCHANGED <<login, registration, clock, remote, history>>

(* The second, after the delegation was parsed, claims the handshake.       *)
\* mutant
ClaimUnguarded(p) ==
    /\ InWindow(At(p))
    /\ GoTo(p, "claim", "lock")
    /\ pending' = [pending EXCEPT !.redeeming = TRUE]
    /\ UNCHANGED <<grant, slot, listening, watchdog, registration, clock, remote, history>>

Claim(p) ==
    /\ IF grant # At(p) /\ InWindow(At(p)) /\ ~pending.redeeming
       THEN GoTo(p, "claim", "lock") /\ pending' = [pending EXCEPT !.redeeming = TRUE]
       ELSE GoTo(p, "claim", "done") /\ UNCHANGED pending
    /\ UNCHANGED <<grant, slot, listening, watchdog, registration, clock, remote, history>>

(* registration.lock().await *)
\* mutant
LockNothing(p) ==
    /\ GoTo(p, "lock", "call")
    /\ UNCHANGED <<login, registration, clock, remote, history>>

Lock(p) ==
    /\ registration = Nil /\ registration' = p
    /\ GoTo(p, "lock", "call")
    /\ UNCHANGED <<login, clock, remote, history>>

(* redeem_registration_delegation: send mcp_register_v2, unless the session *)
(* or its key is gone or the delegation does not fit them.                  *)
Call(p) ==
    /\ GoTo(p, "call", "sent")
    /\ sent' = [sent EXCEPT ![p] = At(p)]
    /\ UNCHANGED <<login, registration, clock, honoured, history>>

CallRefused(p) ==
    /\ GoTo(p, "call", "failed")
    /\ UNCHANGED <<login, registration, clock, remote, history>>

(* II executes the call, whoever still waits for it: the new session takes  *)
(* the place of the last one, or the call is rejected.                      *)
Land(p) ==
    /\ sent[p] # Nil
    /\ sent' = [sent EXCEPT ![p] = Nil] /\ honoured' = sent[p]
    /\ redeem' = IF redeem[p].pc = "sent" THEN [redeem EXCEPT ![p].pc = "landed"] ELSE redeem
    /\ UNCHANGED <<login, registration, clock, history>>

Reject(p) ==
    /\ sent[p] # Nil
    /\ sent' = [sent EXCEPT ![p] = Nil]
    /\ redeem' = IF redeem[p].pc = "sent" THEN [redeem EXCEPT ![p].pc = "failed"] ELSE redeem
    /\ UNCHANGED <<login, registration, clock, honoured, history>>

(* The call ends without II's answer: it timed out or the network failed.   *)
AnswerLost(p) ==
    /\ GoTo(p, "sent", "failed") \/ GoTo(p, "landed", "failed")
    /\ orphaned' = TRUE
    /\ UNCHANGED <<login, registration, clock, remote, replaced>>

(* The answer is committed: slot and grant are set, and the handshake ends  *)
(* with its listener if it is still the pending one.                        *)
Commit(p) ==
    /\ GoTo(p, "landed", "done")
    /\ slot' = At(p) /\ grant' = At(p)
    /\ IF PendingIs(At(p))
       THEN pending' = Nil /\ listening' = listening \ {At(p)}
       ELSE UNCHANGED <<pending, listening>>
    /\ replaced' = replaced \cup ({slot} \ {At(p), Nil})
    /\ Freed(p)
    /\ UNCHANGED <<watchdog, clock, remote, orphaned>>

(* A failure gives the claim back. *)
Fail(p) ==
    /\ GoTo(p, "failed", "done")
    /\ pending' = IF PendingIs(At(p)) THEN [pending EXCEPT !.redeeming = FALSE] ELSE pending
    /\ Freed(p)
    /\ UNCHANGED <<grant, slot, listening, watchdog, clock, remote, history>>

(* The browser goes away and the handler is dropped where it awaits.        *)
Drop(p) ==
    /\ redeem[p].pc \notin {"new", "claim", "done"}
    /\ redeem' = [redeem EXCEPT ![p].pc = "done"]
    /\ Freed(p)
    /\ orphaned' = (orphaned \/ redeem[p].pc \in {"sent", "landed"})
    /\ UNCHANGED <<login, clock, remote, replaced>>

-----------------------------------------------------------------------------
(* HANDSHAKE_TTL is over; a grant's expiration_ns is reached. *)
WindowCloses(s) ==
    /\ watchdog[s] # "none" /\ s \notin late
    /\ late' = late \cup {s}
    /\ UNCHANGED <<login, registration, redeem, lapsed, remote, history>>

GrantLapses(s) ==
    /\ s \in {grant, honoured} \ lapsed
    /\ lapsed' = lapsed \cup {s}
    /\ UNCHANGED <<login, registration, redeem, late, remote, history>>

RedeemStep(p) ==
    \/ Claim(p) \/ Lock(p) \/ Call(p) \/ CallRefused(p)
    \/ AnswerLost(p) \/ Commit(p) \/ Fail(p)

Next ==
    \/ \E s \in Sid, refresh, ok \in BOOLEAN : Begin(s, refresh, ok)
    \/ \E s \in Sid : Watchdog(s) \/ WindowCloses(s) \/ GrantLapses(s)
    \/ \E p \in Redeem, s \in Sid : Validate(p, s)
    \/ \E p \in Redeem : RedeemStep(p) \/ Land(p) \/ Reject(p) \/ Drop(p)

Spec == Init /\ [][Next]_vars

(* Time passes, and the runtime polls a watchdog whose sleep is over.       *)
FairSpec == Spec /\ \A s \in Sid : WF_vars(WindowCloses(s)) /\ WF_vars(Watchdog(s))

-----------------------------------------------------------------------------
(* "The commit order equals the settle order": whenever no registration is  *)
(* under way, the tools act as the session II honours, also when an expired *)
(* handshake's late registration crosses a newer handshake's, unless an     *)
(* answer of II was lost on its way.                                        *)
SlotHonoured == registration = Nil /\ ~orphaned => slot = honoured

(* "A page double-submit can't fire two": at most one redeem of a handshake *)
(* is between its claim and its end, even after the handshake was dropped.  *)
Attempting == {"lock", "call", "sent", "landed", "failed"}
SingleFlight ==
    \A p, q \in Redeem :
        redeem[p].pc \in Attempting /\ redeem[q].pc \in Attempting /\ At(p) = At(q)
            => p = q

(* A listener is up exactly as long as its handshake is the pending one:    *)
(* none is leaked when handshakes expire, are replaced, or are redeemed.    *)
ListenerIsPending == listening = {s \in Sid : PendingIs(s)}

(* Inside its window a handshake ends only by being redeemed: no watchdog   *)
(* of an earlier one, and no other redeem, takes it away.                   *)
WindowKept ==
    [][\A s \in Sid : InWindow(s) => PendingIs(s)' \/ slot' = s]_vars

(* "A FRESH session key per login": the tools never come back to a session  *)
(* that another login has replaced, whose grant II has replaced too.        *)
FreshSession == [][slot' # slot => slot' \notin replaced]_vars

(* No handshake stays pending for ever, also when its redeem was dropped    *)
(* after claiming it.                                                       *)
PendingEnds == \A s \in Sid : PendingIs(s) ~> ~PendingIs(s)
=============================================================================
