----------------------------- MODULE ToolCalls ------------------------------
(***************************************************************************)
(* The canister tools of src/crates/imcp2-core/src/tools.rs, from the      *)
(* request to the answer: the gates a call passes (compliance.rs,          *)
(* discoverability.rs), the documents and the interface they read, and the *)
(* message that is sent.  Every read is an action of its own, because the  *)
(* app's operator may republish a document and the canister may be         *)
(* upgraded between any two of them.                                       *)
(*                                                                         *)
(* The calls share nothing but the world they read; what they share of a   *)
(* session is in AppDelegation, and here the delegated identity is there   *)
(* or it is not.                                                           *)
(***************************************************************************)
EXTENDS Compliance, Integers

CONSTANTS
    Call,
    Asks,        \* the requests made: records of Ask
    Sites,       \* what an origin may come to serve: [Origin -> SUBSET Site]
    Interfaces,  \* what a canister may come to publish
    Provided,    \* interfaces a caller passes along with a query
    MaxChanges   \* bound on the changes of the world

(* An origin as a caller spells it.  odd: control characters, or only white *)
(* space; shouted: upper case where target_origin looks for a gateway.      *)
Spelling == [scheme : {"none", "https", "http"}, user : BOOLEAN, host : Origin \cup {None},
             odd : BOOLEAN, shouted : BOOLEAN]

(* The tools: "principal" stands for get_app_principal and list_app_accounts; *)
(* "open", open_app, looks at an origin rather than at one canister.          *)
Kind == {"update", "query", "oql", "schema", "candid", "doc", "open", "principal"}
Ask  == [kind : Kind, app : Spelling \cup {None}, as : Spelling \cup {None},
         canister : Canister, method : Method]

Site == [arch : Page(Manifest), legacy : Page(OldDoc), layer5 : Page(Origin),
         alts : Page(SUBSET Origin), moved : Origin, ic : BOOLEAN]

ASSUME ToolCallsAssumption ==
    /\ Asks \subseteq Ask /\ MaxChanges \in Nat
    /\ Sites \in [Origin -> SUBSET Site] /\ Interfaces \in [Canister -> SUBSET Interface]
    /\ Provided \subseteq Interface
    /\ \A a \in Asks : /\ a.kind = "open" => a.app # None /\ a.as = None
                      /\ a.kind = "principal" => a.as # None /\ a.app = None

VARIABLES
    world,    \* [site |-> [Origin -> Site], iface |-> [Canister -> Interface]]
    step,     \* where each call is in its handler
    ask,
    got,      \* the answers to each call's document reads
    did,      \* the interface a call works with
    verdict,  \* how a call ended
    sent,     \* history: every message sent to a canister
    seen,     \* history: the worlds there were while the call was running
    changes

vars == <<world, step, ask, got, did, verdict, sent, seen, changes>>

(* The reads: the legacy document is fetched once for each of its two uses. *)
Read  == {"arch", "old_arch", "layer5", "old_origin", "alts", "root"}
Field == [arch |-> "arch", old_arch |-> "legacy", layer5 |-> "layer5",
          old_origin |-> "legacy", alts |-> "alts"]

(* What a call ends with: the refusals of the manifest gate, those of the   *)
(* binding to an identity and of its verdict, and the rest.                 *)
ManifestRefusal == {"missing_origin", "unreachable", "withheld", "no_manifest", "legacy_only"}
BindingRefusal  == {"mismatch", "unresolvable", "unfit", "unvouched", "not_declared", "undetermined"}
Verdict == ManifestRefusal \cup BindingRefusal \cup
           {"ok", "failed", "bad_origin", "refused", "unchecked", "ledger", "oql_first",
            "not_query", "unread", "no_doc", "bad_args", "no_identity", "not_ic"}
ASSUME VerdictsAssumption == None \notin Verdict

Message == [call : Call, mode : {"update", "query", "interface"}, canister : Canister,
            method : Method \cup {None}, as : Origin \cup {None}]

(* Every variable has its type. *)
TypeOK ==
    /\ world.site \in [Origin -> Site] /\ world.iface \in [Canister -> Interface]
    /\ step \in [Call -> {"asked", "reading", "interface", "identity", "send",
                          "replying", "diagnose", "probing", "done"}]
    /\ ask \in [Call -> Asks]
    /\ \A c \in Call, r \in Read : got[c][r] = None \/ got[c][r].status \in Status \cup {"lost"}
    /\ did \in [Call -> Interface \cup {None}]
    /\ verdict \in [Call -> Verdict \cup {None}]
    /\ sent \subseteq Message
    /\ \A c \in Call : world \in seen[c] \/ step[c] = "done"
    /\ changes \in 0..MaxChanges

Init ==
    /\ \E s \in [Origin -> UNION {Sites[o] : o \in Origin}],
          i \in [Canister -> UNION {Interfaces[k] : k \in Canister}] :
          /\ \A o \in Origin : s[o] \in Sites[o]
          /\ \A k \in Canister : i[k] \in Interfaces[k]
          /\ world = [site |-> s, iface |-> i]
    /\ step = [c \in Call |-> "asked"]
    /\ ask \in [Call -> Asks]
    /\ got = [c \in Call |-> [r \in Read |-> None]]
    /\ did = [c \in Call |-> None]
    /\ verdict = [c \in Call |-> None]
    /\ sent = {} /\ changes = 0
    /\ seen = [c \in Call |-> {world}]

-----------------------------------------------------------------------------
(* Operators on a call. *)

(* clean_identity_arg, canonicalize_derivation_origin and clean_app_url take *)
(* https alone, a host and no user-info.                                     *)
CleanIdentityArg(s) == ~s.odd
WellFormed(s)       == s.scheme # "http" /\ s.host # None /\ ~s.user
CleanAppUrl(s)      == CleanIdentityArg(s) /\ WellFormed(s)

(* The text is remapped to the gateway's one spelling before the URL parser  *)
(* puts its host in lower case.                                              *)
CanonicalizeDerivationOrigin(s) == IF s.shouted THEN s.host ELSE TargetOrigin(s.host)

(* app_origin_of: what the manifest is fetched from, never remapped. *)
AppOriginOf(s) == s.host

(* The origin whose manifest has to declare the canister (declaration_origin) *)
(* and whether an identity has to be bound to it (authorize_canister_call).   *)
AppOf(a)        == AppOriginOf(IF a.app # None THEN a.app ELSE a.as)
Signs(a)        == a.as # None /\ a.kind \in {"update", "query", "oql", "schema", "principal"}

\* mutant
BindsUpdates(a) == a.app # None /\ a.as # None /\ a.kind = "update"

NeedsBinding(a) == a.app # None /\ Signs(a)
Resolves(a)     == NeedsBinding(a) \/ a.kind = "open"
NeedsOrigin(a)  == a.kind \in {"oql", "schema"}

Ended(c, v) == step' = [step EXCEPT ![c] = "done"] /\ verdict' = [verdict EXCEPT ![c] = v]
Goes(c, s)  == step' = [step EXCEPT ![c] = s] /\ UNCHANGED verdict

Declared(c) == DeclaredOrigin(AppOf(ask[c]), got[c]["layer5"], got[c]["old_origin"])

(* The reads a call can make now: authorize_call and bind_identity run      *)
(* together, and bind_identity asks for more when its first two are in.     *)
Readable(c) ==
    LET first  == {"arch", "old_arch"} \cup
                  (IF Resolves(ask[c]) THEN {"layer5", "old_origin"} ELSE {})
        second == IF ~Resolves(ask[c]) \/ None \in {got[c]["layer5"], got[c]["old_origin"]} THEN {}
                  ELSE IF CrossOrigin(AppOf(ask[c]), Declared(c)) THEN {"alts"}
                  ELSE IF NeedsRoot(AppOf(ask[c]), got[c]["layer5"], got[c]["old_origin"]) THEN {"root"}
                  ELSE {}
    IN {r \in first \cup second : got[c][r] = None}

(* resolve_app_identity: the derivation origin, or Unknown.                  *)
ResolveAppIdentity(c) ==
    LET o    == AppOf(ask[c])
        alts == IF CrossOrigin(o, Declared(c))
                THEN FetchAlternativeOrigins(got[c]["alts"], Declared(c)) ELSE {}
    IN IF NeedsRoot(o, got[c]["layer5"], got[c]["old_origin"]) /\ got[c]["root"].status = "lost"
       THEN Unknown ELSE DecideDeclaredOrigin(o, Declared(c), alts)

(* application_is_ic = Some(false): the default was assumed of an origin that *)
(* answered, and not through the IC's gateway.                                *)
AssumedOfNoIC(c) ==
    /\ NeedsRoot(AppOf(ask[c]), got[c]["layer5"], got[c]["old_origin"])
    /\ ~(got[c]["root"].ic /\ AnsweredBy(got[c]["root"], AppOf(ask[c])))

(* identity_unresolvable_refusal: a claim that nobody vouches for and a      *)
(* lasting cause are told apart from what a retry may clear.                 *)
Unresolvable(c) ==
    LET o      == AppOf(ask[c])
        layer5 == FetchWellKnown(got[c]["layer5"], o, TRUE)
        read   == got[c][IF layer5.is = "unreachable" THEN "layer5" ELSE "old_origin"]
    IN CASE Declared(c) \in Origin -> "unvouched"
         [] Declared(c) = Unknown /\ AnsweredBy(read, o) /\ CauseIsPersistent(read) -> "unfit"
         [] OTHER -> "unresolvable"

(* bind_identity: "bound", or its refusal. *)
BindIdentity(c) ==
    CASE ~NeedsBinding(ask[c]) -> "bound"
      [] NeedsBinding(ask[c]) /\ ResolveAppIdentity(c) = Unknown -> Unresolvable(c)
      [] OTHER -> IF TargetOrigin(ResolveAppIdentity(c)) = CanonicalizeDerivationOrigin(ask[c].as)
                  THEN "bound" ELSE "mismatch"

(* authorize_call: decide, and the two refusals of a manifest not read. *)
AuthorizeCall(c) ==
    LET decision == Decide(FetchDeclaredManifest(AppOf(ask[c]), got[c]["arch"], got[c]["old_arch"]),
                           ask[c].canister)
    IN IF decision = "unreachable" /\ CauseIsPersistent(got[c]["arch"]) THEN "withheld" ELSE decision

AfterReading(kind)   == IF kind \in {"oql", "schema"} THEN "identity" ELSE "interface"

-----------------------------------------------------------------------------
(* The handlers, step by step. *)

(* The request is looked at: the name rules on an update, and the origins.   *)
Vet(c) ==
    /\ step[c] = "asked"
    /\ IF ask[c].kind = "update" /\ DisallowedUpdateMethod(ask[c].canister, ask[c].method) # None
       THEN Ended(c, "refused")
       ELSE IF ask[c].as # None /\ ~CleanAppUrl(ask[c].as)
       THEN Ended(c, "bad_origin")
       ELSE IF ask[c].as = None /\ (NeedsOrigin(ask[c]) \/ ask[c].app = None)
       THEN Ended(c, "missing_origin")
       ELSE IF ask[c].app # None /\ ~CleanAppUrl(ask[c].app)
       THEN Ended(c, "bad_origin")
       ELSE Goes(c, IF ask[c].kind = "principal" THEN "identity" ELSE "reading")
    /\ UNCHANGED <<world, ask, got, did, sent, seen, changes>>

(* One document fetch is answered: with the page of whoever answers for the *)
(* origin asked, or not at all.                                             *)
AskedOf(c, r) == IF r = "alts" THEN Declared(c) ELSE AppOf(ask[c])

Reply(o, r) ==
    LET by   == world.site[o].moved
        page == IF r = "root" THEN [status |-> "ok", fits |-> TRUE, doc |-> None]
                ELSE world.site[by][Field[r]]
    IN [by |-> by, ic |-> world.site[by].ic, status |-> page.status,
        fits |-> page.fits, doc |-> page.doc]

Lost(o) == [by |-> o, ic |-> FALSE, status |-> "lost", fits |-> TRUE, doc |-> None]

ReadDocument(c, r) ==
    /\ step[c] = "reading" /\ r \in Readable(c)
    /\ \E answer \in {Reply(AskedOf(c, r), r), Lost(AskedOf(c, r))} :
          got' = [got EXCEPT ![c][r] = answer]
    /\ UNCHANGED <<world, step, ask, did, verdict, sent, seen, changes>>

(* Both halves of authorize_canister_call are in; a failed binding is told  *)
(* before a failed authorization.                                           *)
Authorize(c) ==
    /\ step[c] = "reading" /\ Readable(c) = {} /\ ask[c].kind # "open"
    /\ IF BindIdentity(c) # "bound" THEN Ended(c, BindIdentity(c))
       ELSE IF AuthorizeCall(c) # "declared" THEN Ended(c, AuthorizeCall(c))
       ELSE Goes(c, AfterReading(ask[c].kind))
    /\ UNCHANGED <<world, ask, got, did, sent, seen, changes>>

(* open_app: the identity is the gate; discovery only fails to find.  Which   *)
(* of the canisters it found the app declares, mark_declared takes from the   *)
(* parse of the gate, not from where they were found.                         *)
Open(c) ==
    /\ step[c] = "reading" /\ Readable(c) = {} /\ ask[c].kind = "open"
    /\ IF ResolveAppIdentity(c) = Unknown THEN Ended(c, "unresolvable")
       ELSE IF AssumedOfNoIC(c) THEN Ended(c, "not_ic")
       ELSE Goes(c, "probing")
    /\ UNCHANGED <<world, ask, got, did, sent, seen, changes>>

MarkDeclared(c) ==
    LET doc == GetDocument(got[c]["arch"])
    IN IF ServedHere(doc, AppOf(ask[c])) /\ doc.doc # None
       THEN ManifestCanisterIds(doc.doc) ELSE {}

(* enrich_capabilities reads the interfaces of some of them, all at once.     *)
Touch(c, k) == [call |-> c, mode |-> "interface", canister |-> k, method |-> None, as |-> None]

EnrichCapabilities(c) ==
    /\ step[c] = "probing" /\ Ended(c, "ok")
    /\ \E found \in SUBSET Canister :
          sent' = sent \cup {Touch(c, k) : k \in found \cap MarkDeclared(c)}
    /\ UNCHANGED <<world, ask, got, did, seen, changes>>

(* The interface is read and judged; the arguments are encoded against it.   *)
UpdateInterface(c) ==
    /\ step[c] = "interface" /\ ask[c].kind = "update"
    /\ \E failed \in BOOLEAN :
          LET i == world.iface[ask[c].canister]
              refusal == JudgeUpdate(i, failed, ask[c].method)
          IN IF refusal # None THEN Ended(c, refusal) /\ UNCHANGED did
             ELSE /\ did' = [did EXCEPT ![c] = i]
                  /\ Goes(c, "identity") \/ Ended(c, "bad_args")
    /\ sent' = sent \cup {Touch(c, ask[c].canister)}
    /\ UNCHANGED <<world, ask, got, seen, changes>>

(* resolve_did: the published text, or else what the caller passed.         *)
QueryInterface(c) ==
    /\ step[c] = "interface" /\ ask[c].kind = "query"
    /\ \E i \in {world.iface[ask[c].canister]} \cup Provided \cup {None} :
          /\ i = world.iface[ask[c].canister] => i.status = "published"
          /\ did' = [did EXCEPT ![c] = i]
          /\ IF JudgeQuery(i, ask[c].method) # None
             THEN Ended(c, JudgeQuery(i, ask[c].method))
             ELSE Goes(c, "identity") \/ Ended(c, "bad_args")
    /\ sent' = sent \cup {Touch(c, ask[c].canister)}
    /\ UNCHANGED <<world, ask, got, seen, changes>>

(* get_canister_api_doc goes on to an anonymous call; get_canister_candid    *)
(* only shows the interface.                                                *)
ShowInterface(c) ==
    /\ step[c] = "interface" /\ ask[c].kind \in {"doc", "candid"}
    /\ \E failed \in BOOLEAN :
          LET i == world.iface[ask[c].canister]
              refusal == IF ask[c].kind = "doc" THEN JudgeDoc(i, failed)
                         ELSE IF failed \/ i.status # "published" THEN "unread" ELSE "ok"
          IN IF refusal # None THEN Ended(c, refusal) /\ UNCHANGED did
             ELSE did' = [did EXCEPT ![c] = i] /\ Goes(c, "send")
    /\ sent' = sent \cup {Touch(c, ask[c].canister)}
    /\ UNCHANGED <<world, ask, got, seen, changes>>

(* resolve_agent: the anonymous agent, or the delegated identity if the      *)
(* session yields one.                                                      *)
ResolveAgent(c) ==
    /\ step[c] = "identity"
    /\ \/ ask[c].kind # "principal" /\ Goes(c, "send")
       \/ ask[c].kind = "principal" /\ Ended(c, "ok")
       \/ Signs(ask[c]) /\ Ended(c, "no_identity")
    /\ UNCHANGED <<world, ask, got, did, sent, seen, changes>>

(* raw_call. *)
Msg(c, method) ==
    [call |-> c, mode |-> IF ask[c].kind = "update" THEN "update" ELSE "query",
     canister |-> ask[c].canister, method |-> method,
     as |-> IF Signs(ask[c]) THEN TargetOrigin(CanonicalizeDerivationOrigin(ask[c].as)) ELSE None]

Send(c) ==
    /\ step[c] = "send" /\ Goes(c, "replying")
    /\ sent' = sent \cup {Msg(c, ask[c].method)}
    /\ UNCHANGED <<world, ask, got, did, seen, changes>>

(* The reply, or none.  canister_oql_query looks for the reason of a failed  *)
(* or empty one in the schema.                                              *)
Receive(c) ==
    /\ step[c] = "replying"
    /\ Ended(c, "ok") \/ Ended(c, "failed")
       \/ (ask[c].kind = "oql" /\ Goes(c, "diagnose"))
    /\ UNCHANGED <<world, ask, got, did, sent, seen, changes>>

Diagnose(c) ==
    /\ step[c] = "diagnose"
    /\ sent' = sent \cup {Msg(c, SchemaMethod)}
    /\ Ended(c, "ok") \/ Ended(c, "failed")
    /\ UNCHANGED <<world, ask, got, did, seen, changes>>

-----------------------------------------------------------------------------
(* The world: an operator republishes, moves or loses a site; a canister is  *)
(* upgraded.  Every call still running has then seen both worlds.            *)
Running == {c \in Call : step[c] # "done"}

Changed(w) ==
    /\ changes < MaxChanges /\ changes' = changes + 1
    /\ world' = w
    /\ seen' = [c \in Call |-> IF c \in Running THEN seen[c] \cup {w} ELSE seen[c]]
    /\ UNCHANGED <<step, ask, got, did, verdict, sent>>

Republish(o) == \E s \in Sites[o] \ {world.site[o]} : Changed([world EXCEPT !.site[o] = s])
Upgrade(k)   == \E i \in Interfaces[k] \ {world.iface[k]} : Changed([world EXCEPT !.iface[k] = i])

CallStep(c) ==
    \/ Vet(c) \/ (\E r \in Read : ReadDocument(c, r)) \/ Authorize(c) \/ Open(c)
    \/ EnrichCapabilities(c) \/ UpdateInterface(c) \/ QueryInterface(c) \/ ShowInterface(c)
    \/ ResolveAgent(c) \/ Send(c) \/ Receive(c) \/ Diagnose(c)

Finished == Running = {} /\ UNCHANGED vars

Next ==
    \/ \E c \in Call : CallStep(c)
    \/ \E o \in Origin : Republish(o)
    \/ \E k \in Canister : Upgrade(k)
    \/ Finished

Spec == Init /\ [][Next]_vars
-----------------------------------------------------------------------------
(* What has to hold.  A call's own site may change while it runs, so each    *)
(* property asks for a world there was between its start and its end.        *)
Serves(w, o, field) ==
    /\ w.site[o].moved = o
    /\ w.site[o][field].status = "ok" /\ w.site[o][field].fits /\ w.site[o][field].doc # None

Lists(w, o, k) == Serves(w, o, "arch") /\ k \in w.site[o].arch.doc.read \cap Canister

(* No canister is contacted, to call it or to read its interface, that the   *)
(* app the caller named did not list itself, within the cap, in its standard *)
(* manifest: not on the word of its old document, of the origin a redirect   *)
(* led to, or of the derivation origin.                                      *)
SentAsDeclared ==
    \A m \in sent : \E w \in seen[m.call] : Lists(w, AppOf(ask[m.call]), m.canister)

(* What an app pins as its derivation origin, as its operator sees it.       *)
Blank(w, o, field, oneLine) ==
    /\ w.site[o].moved = o
    /\ LET p == w.site[o][field] IN p.status = "gone" \/ (p.status = "ok" /\ (oneLine \/ p.fits))

Pins(ws, o, d) ==
    LET noLine == \E w \in ws : Blank(w, o, "layer5", TRUE) /\ ~Serves(w, o, "layer5")
    IN \/ \E w \in ws : Serves(w, o, "layer5") /\ w.site[o].layer5.doc = d
       \/ noLine /\ \E w \in ws : Serves(w, o, "legacy") /\ w.site[o].legacy.doc.origin = d
       \/ /\ noLine /\ d = None
          /\ \E w \in ws : Blank(w, o, "legacy", FALSE) /\ ~Serves(w, o, "legacy")

Vouches(w, d, o) == d = o \/ (Serves(w, d, "alts") /\ o \in w.site[d].alts.doc)

(* A call for an app is signed only with the identity that app pins, vouched *)
(* for by the origin it names, or its default when it pins none: never with  *)
(* a fallback taken because a declaration could not be read.                 *)
SignedAsApp ==
    \A m \in sent :
        LET o == AppOf(ask[m.call])
        IN m.as # None /\ ask[m.call].app # None =>
              \/ \E d \in Origin : /\ Canon[d] = m.as /\ Pins(seen[m.call], o, d)
                                   /\ \E w \in seen[m.call] : Vouches(w, d, o)
              \/ /\ Pins(seen[m.call], o, None)
                 /\ m.as = Canon[IF Known[o] # None THEN Known[o] ELSE o]

(* An update is sent only under an interface the canister published while    *)
(* the call ran, with no ledger method in it; and it was encoded against     *)
(* that very interface, not one that was read again.                         *)
JudgedBeforeSent ==
    \A m \in sent : m.mode = "update" =>
        \E w \in seen[m.call] :
            LET i == w.iface[m.canister]
            IN /\ i.status = "published" /\ i.parses /\ i.methods \cap LedgerNamed = {}
               /\ did[m.call] = i

(* A refusal that tells the agent not to retry was true of the app while the *)
(* call ran.  An outage, a body that was cut off, or an entry past the cap   *)
(* never reads as a declaration left out, an outage never as a path that is  *)
(* withheld, and a caller who spelled the app's own identity is not told     *)
(* that it is another's.  Two exceptions are what the code does: a list of   *)
(* alternative origins that could not be read counts as one that does not    *)
(* vouch, and a gateway host in upper case as another host.                  *)
SilentOn(w, o, k) ==
    \/ w.site[o].moved # o
    \/ w.site[o].arch.status = "gone"
    \/ /\ w.site[o].arch.status = "ok" /\ w.site[o].arch.fits
       /\ w.site[o].arch.doc # None => k \notin Canister \cap
                (w.site[o].arch.doc.read \cup w.site[o].arch.doc.beyond)

Withholds(w, o, fields) ==
    \E f \in fields : LET p == w.site[w.site[o].moved][f]
                      IN p.status = "declined" \/ (p.status = "ok" /\ ~p.fits)

(* The app pinned nothing but the identity asked for while the call ran.     *)
PinsOnly(c, as) ==
    LET o == AppOf(ask[c])
        own == IF Known[o] # None THEN Known[o] ELSE o
    IN \A d \in Origin \cup {None} :
          Pins(seen[c], o, d) => Canon[IF d = None THEN own ELSE d] = Canon[as.host]

EarnedVerdict == \A c \in Call :
    LET o == AppOf(ask[c])
        k == ask[c].canister
    IN /\ verdict[c] \in {"no_manifest", "legacy_only", "not_declared"} =>
            \E w \in seen[c] : SilentOn(w, o, k)
       /\ verdict[c] = "withheld" => \E w \in seen[c] : Withholds(w, o, {"arch"})
       /\ verdict[c] = "unfit" => \E w \in seen[c] : Withholds(w, o, {"layer5", "legacy"})
       /\ verdict[c] = "unvouched" =>
            \E w \in seen[c], d \in Origin :
                Pins(seen[c], o, d) /\ (~Vouches(w, d, o) \/ got[c]["alts"].status = "lost")
       /\ verdict[c] = "mismatch" => ask[c].as.shouted \/ ~PinsOnly(c, ask[c].as)
       /\ verdict[c] = "no_doc" =>
            \E w \in seen[c] : w.iface[k].status = "published"
                /\ (~w.iface[k].parses \/ w.iface[k].methods \cap DocMethods = {})
       /\ verdict[c] = "not_ic" => \E w \in seen[c] : w.site[o].moved # o \/ ~w.site[o].ic
=============================================================================
