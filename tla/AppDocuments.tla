---------------------------- MODULE AppDocuments ----------------------------
(***************************************************************************)
(* What the server concludes from the well-known documents of an app's     *)
(* origin (src/crates/imcp2-core/src/discover.rs and discoverability.rs):  *)
(* which canisters the app declares, and which origin it derives Internet  *)
(* Identity principals against.  Everything here is pure; ToolCalls makes  *)
(* the fetches, one action each, and hands the answers over.               *)
(*                                                                         *)
(* A page is what an origin serves at one path: its status, whether its    *)
(* body is within the cap that path is read with, and the document in it   *)
(* (None when the body is something else, such as the index.html of a      *)
(* single-page app).  An answer adds who gave it, which a redirect makes   *)
(* another origin than the one asked, and whether it bore the IC gateway's *)
(* header.  Addresses, DNS and TLS are left out: a refused or failed       *)
(* exchange of any kind is an answer with the status "lost".               *)
(***************************************************************************)
EXTENDS FiniteSets

CONSTANTS
    Origin,    \* canonical https origins
    Principal, \* the ids a manifest may spell
    Canister,  \* those of them that are canister principals
    None,      \* nothing declared, no document, not asked yet
    Unknown,   \* could not be found out: an Err of the code
    Known,     \* KNOWN_DERIVATION_ORIGINS: the registry entry of an origin
    Canon      \* identities::target_origin: gateway hosts have one spelling

(* A manifest: the entries within MAX_MANIFEST_CANISTERS, and those past it. *)
Manifest  == [read : SUBSET Principal, beyond : SUBSET Principal]
OldDoc    == [canisters : Manifest \cup {None}, origin : Origin \cup {None}]
Status    == {"ok", "gone", "declined", "failing"}
Page(D)   == [status : Status, fits : BOOLEAN, doc : D \cup {None}]
Answer(D) == [by : Origin, ic : BOOLEAN, status : Status \cup {"lost"},
              fits : BOOLEAN, doc : D \cup {None}]

ASSUME DocumentsAssumption ==
    /\ Canister \subseteq Principal
    /\ Known \in [Origin -> Origin \cup {None}] /\ Canon \in [Origin -> Origin]
    /\ \A o \in Origin : Canon[Canon[o]] = Canon[o]
    /\ None \notin Origin /\ \A set \in SUBSET Origin : None # set
    /\ \A m \in Manifest : None # m
    /\ Unknown \notin Origin \cup {None}

(* An answer is told apart from having none and from an error.              *)
Told(D) == \A a \in Answer(D) : a # None /\ a # Unknown

ASSUME AnswersAssumption ==
    Told(Manifest) /\ Told(OldDoc) /\ Told(Origin) /\ Told(SUBSET Origin)

-----------------------------------------------------------------------------
(* known_derivation_origin_for_url: by host, so an origin on another port    *)
(* has no entry.                                                             *)
KnownDerivationOrigin(o) == Known[o]

(* target_origin: every gateway of a canister names its one classic origin.  *)
TargetOrigin(o) == Canon[o]

(* answered_by and the status rule of both fetch paths: only 404 and 410    *)
(* mean that a document is not published.  Of the others, a redirect that   *)
(* was stopped and a 4xx decline; a 408, a 429 and a 5xx fail for a while.  *)
AnsweredBy(r, o) == r.by = o

\* mutant
NotPublishedOrDeclined(r) == r.status \in {"gone", "declined"}

MeansNotPublished(r) == r.status = "gone"

(* cause_is_persistent, of an answer that was no document. *)
CauseIsPersistent(r) == r.status = "declined" \/ (r.status = "ok" /\ ~r.fits)

-----------------------------------------------------------------------------
(* The manifest path: get_document, then probe_from_documents.  An over-cap *)
(* body is a read that did not finish.                                      *)
GetDocument(r) ==
    CASE MeansNotPublished(r)       -> None
      [] r.status = "ok" /\ r.fits  -> r
      [] OTHER                      -> Unknown

(* manifest_canister_ids: only canister principals, and only up to the cap. *)
ManifestCanisterIds(m) == m.read \cap Canister

Omitted(m) == m.beyond # {}

(* The part of probe_from_documents that pins a document to its origin.     *)
\* mutant
AnyoneServes(d, o) == d \notin {None, Unknown}

ServedHere(d, o) == d \notin {None, Unknown} /\ AnsweredBy(d, o)

Probe(is, m) == [is |-> is, manifest |-> m]

(* fetch_declared_manifest: only the standard path authorizes and only its  *)
(* failure is fatal; the legacy document does no more than name a refusal.  *)
FetchDeclaredManifest(o, arch, legacy) ==
    LET a == GetDocument(arch)
        l == GetDocument(legacy)
        declared == ServedHere(a, o) /\ a.doc # None
        old == ServedHere(l, o) /\ l.doc # None /\ l.doc.canisters # None
    IN CASE a = Unknown -> Probe("unreachable", None)
         [] a # Unknown /\ declared -> Probe("declared", a.doc)
         [] a # Unknown /\ ~declared /\ old -> Probe("legacy_only", None)
         [] OTHER -> Probe("no_manifest", None)

(* decide: the declaration, or the refusal. *)
Decide(probe, canister) ==
    CASE probe.is # "declared" -> probe.is
      [] probe.is = "declared" /\ canister \in ManifestCanisterIds(probe.manifest) -> "declared"
      [] probe.is = "declared" /\ canister \notin ManifestCanisterIds(probe.manifest) ->
            IF Omitted(probe.manifest) THEN "undetermined" ELSE "not_declared"

-----------------------------------------------------------------------------
(* The identity path: fetch_well_known.  The origin is checked before the   *)
(* status.  oneLine: an over-cap body at the Layer 5 path is not its        *)
(* document at all, at the legacy path it is a read that did not finish.    *)
Outcome(is, doc) == [is |-> is, doc |-> doc]

FetchWellKnown(r, o, oneLine) ==
    CASE AnsweredBy(r, o) /\ MeansNotPublished(r) -> Outcome("absent", None)
      [] AnsweredBy(r, o) /\ r.status = "ok" /\ r.fits -> Outcome("served", r.doc)
      [] AnsweredBy(r, o) /\ r.status = "ok" /\ ~r.fits /\ oneLine -> Outcome("absent", None)
      [] OTHER -> Outcome("unreachable", None)

(* declared_from_legacy *)
DeclaredFromLegacy(legacy) ==
    CASE legacy.is = "unreachable" -> Unknown
      [] legacy.is = "served" /\ legacy.doc # None -> legacy.doc.origin
      [] OTHER -> None

(* The precedence of resolve_declared_origin: an unreachable probe is an    *)
(* error, never a fallback to the next source.                              *)
DeclaredOrigin(o, layer5, legacy) ==
    LET top == FetchWellKnown(layer5, o, TRUE)
    IN CASE top.is = "unreachable" -> Unknown
         [] top.is = "served" /\ top.doc # None -> top.doc
         [] OTHER -> DeclaredFromLegacy(FetchWellKnown(legacy, o, FALSE))

CrossOrigin(o, declared) == declared \in Origin \ {o}

(* fetch_alternative_origins, asked of the declared origin; soft on failure. *)
FetchAlternativeOrigins(r, declared) ==
    IF r.status = "ok" /\ r.fits /\ AnsweredBy(r, declared) /\ r.doc # None
    THEN r.doc ELSE {}

(* derivation_origin_authorized *)
DerivationOriginAuthorized(o, declared, alts) == declared = o \/ o \in alts

(* decide_declared_origin, then the known-app registry for an app that      *)
(* declares nothing.  alts is the empty set unless the claim crosses.       *)
DecideDeclaredOrigin(o, declared, alts) ==
    CASE declared = Unknown -> Unknown
      [] declared = None ->
            IF KnownDerivationOrigin(o) # None THEN KnownDerivationOrigin(o) ELSE o
      [] declared \in Origin ->
            IF DerivationOriginAuthorized(o, declared, alts) THEN declared ELSE Unknown

(* Whether the origin root has to be asked for IC evidence: nothing is      *)
(* declared or known, and no earlier answer of this origin showed it.       *)
NeedsRoot(o, layer5, legacy) ==
    /\ DeclaredOrigin(o, layer5, legacy) = None /\ KnownDerivationOrigin(o) = None
    /\ \A r \in {layer5, legacy} : ~(r.ic /\ AnsweredBy(r, o))
=============================================================================
