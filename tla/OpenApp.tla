------------------------------- MODULE OpenApp -------------------------------
(* open_app (src/crates/imcp2-core/src/tools.rs): what an agent names is    *)
(* turned into an app URL, the origin behind it is resolved and judged, and *)
(* meanwhile the crawl of AppCrawl runs on a task of its own.  A refusal    *)
(* aborts the crawl wherever it is.  How an origin is resolved is ToolCalls'*)
(* subject; here it is one of the verdicts it can end with.                 *)
(*                                                                          *)
(* A query is the words in it, as sequences of letters, the URL it spells   *)
(* or None, and whether it has a scheme or a dot.                           *)
EXTENDS AppCrawl

CONSTANTS
    AppUrl,     \* app URLs
    KnownApps,  \* KNOWN_APPS: the aliases and the URL of each, in order
    Registered, \* the URLs whose host the registry of derivation origins has
    HostWords,  \* the words of the host of a URL
    Queries,    \* bound: what callers ask for
    MaxTokens,  \* MAX_TOKENS
    MaxProbes   \* MAX_CAPABILITY_PROBES

Verdict == {"declared", "known", "assumed", "not_ic", "unreachable"}

Refused(why, repair) == [is |-> "refused", why |-> why, didYouMean |-> repair]
Refusals == [is : {"refused"}, why : {"bad url", "unknown name"} \cup Verdict,
             didYouMean : AppUrl \cup {None}]

ASSUME OpenAssumption ==
    /\ \A i \in DOMAIN KnownApps : KnownApps[i].url \in Registered
    /\ DOMAIN KnownApps \subseteq Nat
    /\ Registered \subseteq AppUrl /\ None \notin AppUrl /\ DOMAIN HostWords = AppUrl
    /\ \A q \in Queries : q.url \in AppUrl \cup {None}
    /\ \A words \in {q.words : q \in Queries} \cup Range(HostWords) : words \in Seq(Range(words))
    /\ None \notin Queries /\ None \notin Verdict /\ None \notin Refusals
    /\ {MaxTokens, MaxProbes} \subseteq Nat

VARIABLES
    query,   \* what the caller asked for
    app,     \* the app URL, and where it comes from
    verdict, \* how its origin was resolved
    opened   \* the reply
openVars == <<query, app, verdict, opened>>

-----------------------------------------------------------------------------
(* find_known_app: a run of whole words, joined, is an alias; the run that  *)
(* starts first, and the shortest of those.                                 *)
Alias(words, i, j, n) == FlattenSeq(SubSeq(words, i, j)) \in KnownApps[n].aliases

FindKnownApp(words) ==
    LET read == FirstOf(words, MaxTokens)
        hits == {h \in (DOMAIN read) \X (DOMAIN read) \X (DOMAIN KnownApps) :
                    h[1] <= h[2] /\ Alias(read, h[1], h[2], h[3])}
        before(g, h) == g[1] < h[1] \/ (g[1] = h[1] /\ (g[2] < h[2] \/ (g[2] = h[2] /\ g[3] <= h[3])))
    IN  IF hits = {} THEN None
        ELSE KnownApps[(CHOOSE h \in hits : \A g \in hits : before(h, g))[3]].url

(* classify_app_query: a scheme asserts an origin; else a known name wins   *)
(* over a host, and a bare word that is not known is no URL.                *)
ClassifyAppQuery(q) ==
    LET known == FindKnownApp(q.words)
    IN  IF q.scheme THEN [url |-> q.url, source |-> "as_provided"]
        ELSE IF known # None THEN [url |-> known, source |-> "known_app_registry"]
        ELSE [url |-> IF q.dotted THEN q.url ELSE None, source |-> "as_provided"]

(* find_app_by_name: what a name is answered with that is no URL; its match *)
(* is offered, and without one the user has to be asked.                    *)
FindAppByName(words) == FindKnownApp(words)

(* similar_known_app: the repair of a host that resembles a known app.      *)
SimilarKnownApp(url) == IF url \in Registered THEN None ELSE FindKnownApp(HostWords[url])

(* is_app_data_candidate *)
IsAppDataCandidate(c) ==
    /\ c.sources \ {"header"} # {}
    /\ c.label # "frontend"
    /\ c.kind # "system"

\* Mutant: whatever the crawl found is probed.
ProbeCandidates(c) == IsAppDataCandidate(c)

(* resolution_note: an origin the app did not declare itself comes with a   *)
(* caveat, an assumed one with what its host resembles.                     *)
ResolutionNote(source, url) ==
    [caveat |-> source # "declared",
     lookalike |-> IF source = "assumed" THEN SimilarKnownApp(url) ELSE None]

Probed(c) == IsAppDataCandidate(c) /\ c.declared

-----------------------------------------------------------------------------
OpenInit == CrawlInit /\ query = None /\ app = None /\ verdict = None /\ opened = None

(* The query is classified; a name that is not known, and a URL that is no  *)
(* https one with a host, end the call.                                     *)
Ask ==
    /\ query = None
    /\ \E q \in Queries :
          LET found == ClassifyAppQuery(q)
          IN  /\ query' = q
              /\ IF found.url = None
                 THEN /\ opened' = IF q.scheme \/ q.dotted THEN Refused("bad url", None)
                                   ELSE Refused("unknown name", FindAppByName(q.words))
                      /\ UNCHANGED app
                 ELSE app' = found /\ UNCHANGED opened
    /\ UNCHANGED <<verdict, crawlVars>>

Crawling == app # None /\ opened = None

Crawl == Crawling /\ CrawlNext /\ UNCHANGED openVars

(* resolve_app_identity ends, at any point of the crawl: a refusal aborts   *)
(* the crawl and is the reply.                                              *)
Resolve ==
    /\ Crawling /\ verdict = None
    /\ verdict' \in IF app.url \in Registered THEN {"declared", "known", "unreachable"}
                    ELSE Verdict \ {"known"}
    /\ opened' = IF verdict' \in {"not_ic", "unreachable"}
                 THEN Refused(verdict', SimilarKnownApp(app.url)) ELSE None
    /\ UNCHANGED <<query, app, crawlVars>>

(* The crawl is awaited, and its failure kept apart from an empty listing.  *)
(* Then enrich_capabilities reads the interfaces it may; a read that fails  *)
(* leaves the flags unknown.                                                *)
Open ==
    /\ Crawling /\ verdict # None /\ at \in {"done", "failed"}
    /\ LET listed  == IF at = "done" THEN discovery ELSE [canisters |-> <<>>, omitted |-> 0]
           targets == FirstOf(Keep(listed.canisters, {c \in Range(listed.canisters) : Probed(c)}), MaxProbes)
       IN  opened' = [is |-> "opened", canisters |-> listed.canisters, omitted |-> listed.omitted,
                      error |-> at = "failed", probed |-> {c.text : c \in Range(targets)},
                      note |-> ResolutionNote(verdict, app.url)]
    /\ UNCHANGED <<query, app, verdict, crawlVars>>

OpenNext == Ask \/ Crawl \/ Resolve \/ Open

-----------------------------------------------------------------------------
(* A reply opens the app that was asked for: the registry's when the words  *)
(* name it and no scheme asserts another, never a guessed one; an origin    *)
(* that is refused lists nothing.  A listing that is empty without an error *)
(* is the end of a crawl that found nothing.  An origin the app did not     *)
(* declare, and a host that resembles a known app, are never passed on      *)
(* without a word, and a name is refused only if no app is known by it.     *)
(* The interfaces that are read on the way are of canisters the gate would  *)
(* let the caller read.                                                     *)
OpenedAsAsked == opened # None =>
    /\ opened.is = "opened" =>
          /\ app.source = "known_app_registry" =>
                /\ ~query.scheme
                /\ \E n \in DOMAIN KnownApps, i, j \in DOMAIN query.words :
                      /\ KnownApps[n].url = app.url
                      /\ i <= j /\ FlattenSeq(SubSeq(query.words, i, j)) \in KnownApps[n].aliases
          /\ app.source = "as_provided" => app.url = query.url
          /\ verdict \in {"declared", "known", "assumed"}
          /\ opened.canisters = <<>> /\ ~opened.error => named = {}
          /\ verdict = "known" \/ verdict = "assumed" => opened.note.caveat
          /\ opened.note.lookalike # None =>
                opened.note.lookalike \in Registered /\ app.url \notin Registered
          /\ \A t \in opened.probed : GateAuthorizes(Of[t]) /\ t \in ListedTexts
    /\ opened.is = "refused" =>
          /\ opened.why = "unknown name" => opened.didYouMean = None
          /\ opened.didYouMean # None => app.url \notin Registered /\ opened.didYouMean \in Registered
          /\ verdict = None => app = None /\ (query.url = None \/ ~query.dotted)
=============================================================================
