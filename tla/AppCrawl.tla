------------------------------ MODULE AppCrawl ------------------------------
(* The crawl behind open_app: which canisters `discover` lists for a site,  *)
(* in which order, with which label, and which of them it marks as declared *)
(* (src/crates/imcp2-core/src/discover.rs).                                 *)
(*                                                                          *)
(* The site is read document by document: the two manifests at once, then   *)
(* the page, /env.json and the scripts of the page.  Every id met is kept   *)
(* in one table of bounded size, the table is sorted by authority, cut to   *)
(* what a reply can hold, and annotated from the dashboard.  What the site  *)
(* serves is chosen when it is read; a document that is absent or cannot be *)
(* read, and a manifest that another origin answered with, names nothing    *)
(* and is the empty sequence.                                               *)
EXTENDS Lists, SequencesExt

CONSTANTS
    Text,          \* what documents spell as ids: numbers, in the order of the strings
    Of,            \* Principal::from_text: the principal a text spells, or None
    Canister,      \* the principals of the kind a canister has
    None,
    Blank,         \* an id of white space
    Manifests,     \* bound: what the protocol path can answer
    OldManifests,  \* bound: what the legacy path can answer
    EnvFiles,      \* bound: the ids of an /env.json
    Pages,         \* bound: the id in the page's header, and the matches in its text
    Scripts,       \* bound: the matches in a script
    MaxManifest,   \* MAX_MANIFEST_CANISTERS
    MaxFound,      \* Findings::MAX
    MaxSources,    \* Findings::MAX_SOURCES
    MaxScripts,    \* the scripts fetched of a page
    MaxBare,       \* MAX_BARE_BUNDLE
    MaxCanisters   \* MAX_CANISTERS

Constant == {"bundle:A", "bundle:B"}        \* bundle:<LABEL>, for two labels
Bundle   == Constant \cup {"bundle"}
Source   == {"ic-architecture", "ic-app.json", "header", "env.json"} \cup Bundle

(* A manifest entry with its label, and an id matched in a text under a constant or bare.  *)
Role  == {"backend", "frontend"}
Label == Role \cup Constant \cup {"env.json", None}
Entry == [text : Text \cup {Blank}, role : Role \cup {None}]
Match == [text : Text, source : Bundle]
Page  == [header : Text \cup {None}, matches : Seq(Match)]

ASSUME CrawlAssumption ==
    /\ Text \subseteq Nat /\ Blank \notin Text /\ None \notin Text
    /\ DOMAIN Of = Text /\ Canister \subseteq {Of[t] : t \in Text} \ {None}
    /\ Manifests \cup OldManifests \subseteq Seq(Entry)
    /\ EnvFiles \subseteq Seq(Text) /\ Pages \subseteq Page /\ Scripts \subseteq Seq(Match)
    /\ None \notin [label : Label, sources : SUBSET Source, declared : BOOLEAN]
    /\ {MaxManifest, MaxFound, MaxScripts} \subseteq Nat
    /\ {MaxBare, MaxCanisters} \subseteq Nat \ {0}
    \* The sources read before the bundle always have room for their name, and
    \* the manifests and the header for all their ids.
    /\ MaxSources \in Nat /\ MaxSources >= 4 /\ MaxFound > 2 * MaxManifest

VARIABLES
    at,        \* how far the crawl is
    manifest,  \* the two manifests, as far as they have been answered
    findings,  \* the table of ids, and how many it had no room for
    blob,      \* the matches in the page and the scripts read so far
    fetched,   \* how many scripts were asked for
    discovery, \* the listing and its count of what is left out
    named      \* history: every valid mention of an id
crawlVars == <<at, manifest, findings, blob, fetched, discovery, named>>

(* A mention: a label of env.json or of a bundle is its source's name. *)
Mention(text, label, source) == [text |-> text, label |-> label, source |-> source]

Found(m) == [label |-> m.label, sources |-> {m.source}, declared |-> FALSE]

-----------------------------------------------------------------------------
(* The two parses of a manifest.  The listing drops the blank ids and then  *)
(* takes as many as fit; the gate takes as many as fit and then keeps the   *)
(* canister principals.                                                     *)
Listed(entries, source) ==
    LET spelled == FirstOf(Keep(entries, {e \in Entry : e.text # Blank}), MaxManifest)
    IN  [i \in DOMAIN spelled |->
            Mention(spelled[i].text, spelled[i].role, source)]

ManifestCanisterIds(entries) ==
    {Of[e.text] : e \in {e \in Range(FirstOf(entries, MaxManifest)) : e.text # Blank}}
        \cap Canister

(* Findings::add: the first label wins, and a new id needs room. *)
Known(table) == {t \in Text : table[t] # None}

Add(store, m) ==
    IF Of[m.text] = None THEN store
    ELSE IF store.table[m.text] # None
    THEN [store EXCEPT !.table[m.text].label = IF @ = None THEN m.label ELSE @,
                       !.table[m.text].sources =
                           IF Cardinality(@) < MaxSources THEN @ \cup {m.source} ELSE @]
    ELSE IF Cardinality(Known(store.table)) < MaxFound
    THEN [store EXCEPT !.table[m.text] = Found(m)]
    ELSE [store EXCEPT !.dropped = @ + 1]

AddAll(store, mentions) ==
    LET after[n \in 0..Len(mentions)] ==
            IF n = 0 THEN store ELSE Add(after[n - 1], mentions[n])
    IN  after[Len(mentions)]

Valid(mentions) == {m \in Range(mentions) : Of[m.text] # None}

\* Mutant: what came from the protocol path counts as declared.
MarkBySource(store, ids) ==
    [store EXCEPT !.table = [t \in Text |->
        IF @[t] = None THEN None
        ELSE [@[t] EXCEPT !.declared = "ic-architecture" \in store.table[t].sources]]]

MarkDeclared(store, ids) ==
    [store EXCEPT !.table = [t \in Text |->
        IF @[t] = None THEN None ELSE [@[t] EXCEPT !.declared = Of[t] \in ids]]]

-----------------------------------------------------------------------------
Tiers == <<{"ic-architecture"}, {"ic-app.json"}, {"header"}, {"env.json"}, Constant, {"bundle"}>>

Rank(sources) == Min({i \in DOMAIN Tiers : Tiers[i] \cap sources # {}})

Ahead(table) ==
    {p \in Known(table) \X Known(table) :
        LET r == Rank(table[p[1]].sources)
            s == Rank(table[p[2]].sources)
        IN  r < s \/ (r = s /\ p[1] < p[2])}

Ordered(table) == Sorted(Known(table), Ahead(table))

(* bound_findings; the bare ids come last, and in the order of their texts. *)
BoundFindings(ordered, table, dropped) ==
    LET bare(t) == table[t].sources = {"bundle"}
        kept == Keep(ordered, {t \in Range(ordered) : bare(t) =>
                   Cardinality({u \in Range(ordered) : bare(u) /\ u <= t}) <= MaxBare})
        out  == FirstOf(kept, MaxCanisters)
    IN  [canisters |-> out, omitted |-> dropped + Len(ordered) - Len(out)]

-----------------------------------------------------------------------------
Unasked == [architecture |-> None, legacy |-> None]
Nothing == [table |-> [t \in Text |-> None], dropped |-> 0]

CrawlInit ==
    /\ at = "manifests" /\ manifest = Unasked /\ findings = Nothing
    /\ blob = <<>> /\ fetched = 0 /\ discovery = None /\ named = {}

(* The two manifests are asked for at once and answered in either order. *)
Answered(path) ==
    /\ at = "manifests" /\ manifest[path] = None
    /\ \E entries \in IF path = "legacy" THEN OldManifests ELSE Manifests :
          manifest' = [manifest EXCEPT ![path] = entries]
    /\ UNCHANGED <<at, findings, blob, fetched, discovery, named>>

\* Mutant: as the answers come, the legacy manifest first.
AuthorityLast(architecture, legacy) ==
    Listed(legacy, "ic-app.json") \o Listed(architecture, "ic-architecture")

(* Recorded in the order of authority, whichever came first; then the gate's *)
(* own parse of the same document says which are declared.                  *)
AuthorityFirst(architecture, legacy) ==
    Listed(architecture, "ic-architecture") \o Listed(legacy, "ic-app.json")

RecordManifests ==
    LET mentions == AuthorityFirst(manifest.architecture, manifest.legacy)
    IN  /\ at = "manifests" /\ None \notin Range(manifest)
        /\ findings' = MarkDeclared(AddAll(findings, mentions),
                                    ManifestCanisterIds(manifest.architecture))
        /\ named' = named \cup Valid(mentions)
        /\ at' = "page"
        /\ UNCHANGED <<manifest, blob, fetched, discovery>>

(* The page: not to reach it fails the crawl.  Its header names the         *)
(* frontend.                                                                *)
ReadPage ==
    /\ at = "page"
    /\ \/ at' = "failed" /\ UNCHANGED <<findings, named, blob>>
       \/ \E page \in Pages :
            LET header == IF page.header = None THEN <<>>
                          ELSE <<Mention(page.header, "frontend", "header")>>
            IN  /\ findings' = AddAll(findings, header)
                /\ named' = named \cup Valid(header)
                /\ blob' = page.matches
                /\ at' = "env"
    /\ UNCHANGED <<manifest, fetched, discovery>>

ReadEnv ==
    /\ at = "env" /\ at' = "scripts"
    /\ \E env \in EnvFiles :
         LET mentions == [i \in DOMAIN env |-> Mention(env[i], "env.json", "env.json")]
         IN  /\ findings' = AddAll(findings, mentions)
             /\ named' = named \cup Valid(mentions)
    /\ UNCHANGED <<manifest, blob, fetched, discovery>>

(* The scripts of the page, as many as are fetched at most; one that does   *)
(* not answer adds nothing.                                                 *)
ReadScript ==
    /\ at = "scripts" /\ fetched < MaxScripts
    /\ \E matches \in Scripts : blob' = blob \o matches
    /\ fetched' = fetched + 1
    /\ UNCHANGED <<at, manifest, findings, discovery, named>>

(* The text is mined twice: for the ids under a constant, which give a      *)
(* label, and then for all ids.                                             *)
Mine ==
    LET labelled == Keep(blob, {m \in Match : m.source # "bundle"})
        mentions == [i \in DOMAIN labelled |->
                        Mention(labelled[i].text, labelled[i].source, labelled[i].source)]
                    \o [i \in DOMAIN blob |-> Mention(blob[i].text, None, "bundle")]
    IN  /\ at = "scripts" /\ at' = "bound"
        /\ findings' = AddAll(findings, mentions)
        /\ named' = named \cup Valid(mentions)
        /\ UNCHANGED <<manifest, blob, fetched, discovery>>

(* The table is sorted and bounded before anything is looked up. *)
Bound ==
    LET table   == findings.table
        bounded == BoundFindings(Ordered(table), table, findings.dropped)
    IN  /\ at = "bound" /\ at' = "enrich"
        /\ discovery' =
              [canisters |-> [i \in DOMAIN bounded.canisters |->
                  LET t == bounded.canisters[i]
                  IN  [text |-> t, label |-> table[t].label, sources |-> table[t].sources,
                       declared |-> table[t].declared, kind |-> None]],
               omitted |-> bounded.omitted]
        /\ UNCHANGED <<manifest, findings, blob, fetched, named>>

(* All lookups run at once, each for the entry it was spawned for; one that *)
(* fails leaves its entry as it is.  The kind of a canister that many apps  *)
(* share (a ledger, a governance canister) is "system".                     *)
Enrich ==
    /\ at = "enrich" /\ at' = "done"
    /\ \E system \in SUBSET DOMAIN discovery.canisters :
          discovery' = [discovery EXCEPT !.canisters = [i \in DOMAIN @ |->
              [@[i] EXCEPT !.kind = IF i \in system THEN "system" ELSE None]]]
    /\ UNCHANGED <<manifest, findings, blob, fetched, named>>

CrawlNext ==
    \/ \E path \in {"architecture", "legacy"} : Answered(path)
    \/ RecordManifests \/ ReadPage \/ ReadEnv \/ ReadScript \/ Mine \/ Bound \/ Enrich

-----------------------------------------------------------------------------
(* What a text was named by, as far as the table keeps it apart. *)
SourcesOf(t) == {m.source : m \in {m \in named : m.text = t}}

ListedTexts == {c.text : c \in Range(discovery.canisters)}

(* The gate of ToolCalls, read straight off the protocol manifest: one of   *)
(* its first entries is the id, and the id is a canister's.                 *)
GateAuthorizes(p) ==
    /\ p \in Canister
    /\ \E i \in DOMAIN manifest.architecture :
          /\ i <= MaxManifest
          /\ manifest.architecture[i].text # Blank
          /\ Of[manifest.architecture[i].text] = p

(* The marker of a listed id tells what a call would be told: an entry that *)
(* is marked as declared is one the gate authorizes, and one that a         *)
(* manifest spells so and that is not marked is one it refuses.  What the   *)
(* gate authorizes is listed under some spelling, or counted as left out.   *)
DeclaredAsGate == at = "done" =>
    /\ \A c \in Range(discovery.canisters) :
          c.declared <=> /\ GateAuthorizes(Of[c.text])
                         /\ SourcesOf(c.text) \cap {"ic-architecture", "ic-app.json"} # {}
    /\ \A p \in Canister : GateAuthorizes(p) =>
          discovery.omitted > 0 \/ \E t \in ListedTexts : Of[t] = p

(* The reply keeps the best: whatever order the answers came in and however *)
(* many ids the bundle holds, no id that is left out was named with more    *)
(* authority than one that is listed, the list is in that order, a label is *)
(* the one its most authoritative source gave, and as many ids as were      *)
(* named and are not listed are reported as left out at least.              *)
BestKept == at = "done" =>
    LET out   == discovery.canisters
        left  == {m.text : m \in named} \ ListedTexts
        rank(t) == Rank(SourcesOf(t))
    IN  /\ \A c \in Range(out), t \in left : rank(c.text) <= rank(t)
        /\ \A i, j \in DOMAIN out : i < j => rank(out[i].text) <= rank(out[j].text)
        /\ \A c \in Range(out) :
              LET labelled == {m \in named : m.text = c.text /\ m.label # None}
              IN  IF labelled = {} THEN c.label = None
                  ELSE \E m \in labelled : /\ m.label = c.label
                                           /\ \A n \in labelled : Rank({m.source}) <= Rank({n.source})
        /\ discovery.omitted >= Cardinality(left)
        /\ discovery.omitted = 0 => left = {}
=============================================================================
